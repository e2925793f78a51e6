----------------------------- MODULE MCSwarmChat -----------------------------
(* SwarmChat for TLC: the clients are at `home'; two paths lead from there  *)
(* to `two' in one swarm, and back home in the other.                       *)
EXTENDS SwarmChat
CONSTANTS one, two, home
TwoPaths == {<<home, one>>, <<home, two>>, <<one, two>>}
Circle == {<<home, one>>, <<one, home>>}
Swarms == {TwoPaths, Circle}
AllAtHome == [k \in Client |-> home]
Holding == {<<home, one>>, <<one, two>>, <<one, home>>}
==============================================================================
