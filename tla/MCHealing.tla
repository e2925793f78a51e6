------------------------------ MODULE MCHealing ------------------------------
(* Healing for TLC: two chunks at different distances of two peers. *)
EXTENDS Healing
CONSTANTS x, y, p, q, r1, r2
Sizes == [c \in Chunk |-> IF c = x THEN 2 ELSE 1]
Distances == [c \in Chunk |-> [r \in Peer |-> IF (c = x) = (r = p) THEN 1 ELSE 2]]
==============================================================================
