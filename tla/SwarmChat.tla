------------------------------ MODULE SwarmChat ------------------------------
(***************************************************************************)
(* The swarm chat of backend/api/routes.py on every node: ChatManager with *)
(* its list of WebSocket clients, the set of seen message ids with its     *)
(* limit, websocket_chat and handle_tcp_chat, and the flood over the       *)
(* connections of backend/network/connection.py.                           *)
(*                                                                         *)
(* A link <<n, m>> is an entry for m in the connection table of n that n   *)
(* dialled.  Only the accepting end of a connection is read, so that a     *)
(* message written to an accepted connection reaches nobody: nodes are     *)
(* also connected where there is no link, and these writes are left out.   *)
(*                                                                         *)
(* A message passes a node in a coroutine of its own: that of the client   *)
(* that posted it, or the message loop of the link it came over.           *)
(***************************************************************************)
EXTENDS Naturals, Sequences, FiniteSets

CONSTANTS
    Node,
    MaxMsg,      \* messages posted
    Client,      \* WebSocket connections over time
    Home,        \* the node of each client
    Poster,      \* clients that write
    Leaver,      \* clients that go away
    MaxSeen,     \* _MAX_SEEN
    Topologies,  \* the sets of links to be considered
    Steady       \* the links that lose nothing

Msg == 1 .. MaxMsg      \* ids, in the order they are made
Links == UNION Topologies
Flow == Client \cup Links

ASSUME HomeAssumption == Home \in [Client -> Node]
ASSUME LinksAssumption == Links \subseteq Node \X Node /\ Client \cap Links = {}
ASSUME ClientAssumption == Poster \subseteq Client /\ Leaver \subseteq Client
ASSUME MsgAssumption == MaxMsg \in Nat \ {0}
ASSUME SeenAssumption == MaxSeen \in Nat \ {0}

VARIABLES
    links,    \* the links of this swarm
    chan,     \* messages written to a link and not yet received
    seen,     \* _seen_chat_ids of each node
    active,   \* active_connections of each node
    client,   \* the browser behind a WebSocket: "new", "on", "gone", "left"
    flow,     \* the coroutines that carry a message through a node
    posted,   \* how many ids are in use
    taken,    \* history: how often a node let an id through (2: twice or more)
    dropped,  \* history: ids each node has forgotten
    shown     \* history: how often a client was sent a message (2: twice or more)

history == <<posted, taken, dropped, shown>>
vars == <<links, chan, seen, active, client, flow, history>>

(* Position of a coroutine: between messages, in ChatManager.broadcast      *)
(* before the element i of the list, or in broadcast_to_peers with peers    *)
(* left.  `audience' are the clients listed when the broadcast began, and   *)
(* `shifted' says that one has left the list since.                         *)
Carrying ==
    [pc : {"idle", "show", "flood"}, msg : Msg, i : Nat \ {0}, dead : SUBSET Client,
     left : SUBSET Node, audience : SUBSET Client, shifted : BOOLEAN]

TypeOK ==
    /\ links \in Topologies
    /\ chan \in [Links -> Seq(Msg)]
    /\ seen \in [Node -> SUBSET Msg]
    /\ active \in [Node -> Seq(Client)]
    /\ client \in [Client -> {"new", "on", "gone", "left"}]
    /\ flow \in [Flow -> Carrying]
    /\ posted \in 0 .. MaxMsg
    /\ taken \in [Node -> [Msg -> 0 .. 2]] /\ dropped \in [Node -> SUBSET Msg]
    /\ shown \in [Client -> [Msg -> 0 .. 2]]

(* Where a coroutine runs: the client's node, or the accepting end. *)
At(f) == IF f \in Client THEN Home[f] ELSE f[2]

OneMore(k) == IF k = 2 THEN 2 ELSE k + 1

Elements(s) == {s[i] : i \in DOMAIN s}

(* The elements up to the n-th that stay, and the list they make: its k-th   *)
(* element is the one that has k of them up to it.                          *)
Kept(s, gone, n) == {j \in 1 .. n : s[j] \notin gone}
Without(s, gone) ==
    [k \in 1 .. Cardinality(Kept(s, gone, Len(s))) |->
        s[CHOOSE i \in Kept(s, gone, Len(s)) : Cardinality(Kept(s, gone, i)) = k]]

(* Position of the first client in the list; the others are slips.          *)
StartBefore == 0
StartLate == 2
Start == 1

(* A coroutine between two messages holds nothing of the last one. *)
Resting == [pc |-> "idle", msg |-> 1, i |-> 1, dead |-> {}, left |-> {},
            audience |-> {}, shifted |-> FALSE]

Init ==
    /\ links \in Topologies
    /\ chan = [l \in Links |-> <<>>]
    /\ seen = [n \in Node |-> {}]
    /\ active = [n \in Node |-> <<>>]
    /\ client = [c \in Client |-> "new"]
    /\ flow = [f \in Flow |-> Resting]
    /\ posted = 0 /\ dropped = seen
    /\ taken = [n \in Node |-> [m \in Msg |-> 0]]
    /\ shown = [c \in Client |-> [m \in Msg |-> 0]]

-----------------------------------------------------------------------------
(* The WebSocket clients. *)

(* ChatManager.connect. *)
Join(c) ==
    /\ client[c] = "new"
    /\ client' = [client EXCEPT ![c] = "on"]
    /\ active' = [active EXCEPT ![Home[c]] = Append(@, c)]
    /\ UNCHANGED <<links, chan, seen, flow, history>>

(* The browser goes away; its coroutine finds out when it next receives. *)
Leave(c) ==
    /\ client[c] = "on" /\ c \in Leaver
    /\ client' = [client EXCEPT ![c] = "gone"]
    /\ UNCHANGED <<links, chan, seen, active, flow, history>>

(* list.remove shifts what comes after it towards every running iteration.  *)
Shifted(n, gone) ==
    [f \in Flow |->
        IF At(f) = n /\ flow[f].pc = "show" /\ Elements(active[n]) \cap gone # {}
        THEN [flow[f] EXCEPT !.shifted = TRUE] ELSE flow[f]]

(* ChatManager.disconnect.  A client that a broadcast has already taken off *)
(* the list makes `remove' raise ValueError out of the handler, to the same *)
(* effect.                                                                  *)
Disconnect(c) ==
    /\ client[c] = "gone" /\ flow[c].pc = "idle"
    /\ client' = [client EXCEPT ![c] = "left"]
    /\ active' = [active EXCEPT ![Home[c]] = Without(@, {c})]
    /\ flow' = Shifted(Home[c], {c})
    /\ UNCHANGED <<links, chan, seen, history>>

-----------------------------------------------------------------------------
(* A message enters a node.  The id is added without an await after the     *)
(* look-up; beyond the limit `pop' forgets any id, the new one included.    *)

Remembered(n, m) ==
    LET more == seen[n] \cup {m}
    IN  IF Cardinality(more) > MaxSeen THEN {more \ {k} : k \in more} ELSE {more}

Enter(f, m) ==
    LET n == At(f)
    IN  /\ \E ids \in Remembered(n, m) :
              /\ seen' = [seen EXCEPT ![n] = ids]
              /\ dropped' = [dropped EXCEPT ![n] = @ \cup ((seen[n] \cup {m}) \ ids)]
        /\ taken' = [taken EXCEPT ![n][m] = OneMore(@)]
        /\ flow' = [flow EXCEPT ![f] = [pc |-> "show", msg |-> m, i |-> Start, dead |-> {},
                                        left |-> {}, audience |-> Elements(active[n]),
                                        shifted |-> FALSE]]

(* websocket_chat receives a line from its client. *)
Post(c) ==
    /\ c \in Poster /\ client[c] = "on" /\ flow[c].pc = "idle" /\ posted < MaxMsg
    /\ posted' = posted + 1
    /\ Enter(c, posted')
    /\ UNCHANGED <<links, chan, active, client, shown>>

(* handle_tcp_chat of a message that is new here, or that was forgotten.    *)
(* The first form does not look the id up.                                  *)
ReceiveAny(l) ==
    /\ flow[l].pc = "idle" /\ chan[l] # <<>>
    /\ Enter(l, Head(chan[l]))
    /\ chan' = [chan EXCEPT ![l] = Tail(@)]
    /\ UNCHANGED <<links, active, client, posted, shown>>

Receive(l) ==
    /\ flow[l].pc = "idle" /\ chan[l] # <<>>
    /\ Head(chan[l]) \notin seen[l[2]]
    /\ Enter(l, Head(chan[l]))
    /\ chan' = [chan EXCEPT ![l] = Tail(@)]
    /\ UNCHANGED <<links, active, client, posted, shown>>

(* handle_tcp_chat of a message seen before. *)
Ignore(l) ==
    /\ flow[l].pc = "idle" /\ chan[l] # <<>>
    /\ Head(chan[l]) \in seen[l[2]]
    /\ chan' = [chan EXCEPT ![l] = Tail(@)]
    /\ UNCHANGED <<links, seen, active, client, flow, history>>

-----------------------------------------------------------------------------
(* ChatManager.broadcast: the for loop walks the live list by position and  *)
(* is suspended in every send.                                              *)

AtElement(f) == flow[f].pc = "show" /\ flow[f].i <= Len(active[At(f)])

(* send_json to a client that has gone may still succeed. *)
Show(f) ==
    /\ AtElement(f)
    /\ LET c == active[At(f)][flow[f].i]
           m == flow[f].msg
       IN  \/ /\ shown' = [shown EXCEPT ![c][m] = OneMore(@)]
              /\ flow' = [flow EXCEPT ![f].i = @ + 1]
           \/ /\ client[c] # "on"
              /\ flow' = [flow EXCEPT ![f].i = @ + 1, ![f].dead = @ \cup {c}]
              /\ UNCHANGED shown
    /\ UNCHANGED <<links, chan, seen, active, client, posted, taken, dropped>>

(* The loop is over: the dead are removed, and the flood begins with a copy *)
(* of the connection table.                                                 *)
BeginFlood(f) ==
    /\ flow[f].pc = "show" /\ ~AtElement(f)
    /\ LET n == At(f)
           gone == flow[f].dead
       IN  /\ active' = [active EXCEPT ![n] = Without(@, gone)]
           /\ flow' = [Shifted(n, gone) EXCEPT ![f] =
                          [flow[f] EXCEPT !.pc = "flood", !.left = {m \in Node : <<n, m>> \in links}]]
    /\ UNCHANGED <<links, chan, seen, client, history>>

(* send_to_peer for the next entry; a send that fails is passed over.  In   *)
(* the first form it ends the loop.                                         *)
SendUntilFailure(f, m) ==
    LET l == <<At(f), m>>
        left == flow[f].left \ {m}
    IN  /\ flow[f].pc = "flood" /\ m \in flow[f].left
        /\ \/ /\ chan' = [chan EXCEPT ![l] = Append(@, flow[f].msg)]
              /\ flow' = [flow EXCEPT ![f] = IF left = {} THEN Resting ELSE [@ EXCEPT !.left = left]]
           \/ /\ l \notin Steady /\ UNCHANGED chan
              /\ flow' = [flow EXCEPT ![f] = Resting]
        /\ UNCHANGED <<links, seen, active, client, history>>

Send(f, m) ==
    LET l == <<At(f), m>>
        left == flow[f].left \ {m}
    IN  /\ flow[f].pc = "flood" /\ m \in flow[f].left
        /\ \/ chan' = [chan EXCEPT ![l] = Append(@, flow[f].msg)]
           \/ l \notin Steady /\ UNCHANGED chan
        /\ flow' = [flow EXCEPT ![f] = IF left = {} THEN Resting ELSE [@ EXCEPT !.left = left]]
        /\ UNCHANGED <<links, seen, active, client, history>>

NoPeers(f) ==
    /\ flow[f].pc = "flood" /\ flow[f].left = {}
    /\ flow' = [flow EXCEPT ![f] = Resting]
    /\ UNCHANGED <<links, chan, seen, active, client, history>>

Step(f) == Show(f) \/ BeginFlood(f) \/ NoPeers(f) \/ \E m \in Node : Send(f, m)

Next ==
    \/ \E c \in Client : Join(c) \/ Leave(c) \/ Disconnect(c) \/ Post(c)
    \/ \E l \in Links : Receive(l) \/ Ignore(l)
    \/ \E f \in Flow : Step(f)

Spec == Init /\ [][Next]_vars

(* The coroutine of a client and that of a link go on: a message loop       *)
(* reads, and a lost WebSocket is reported.                                 *)
FairSpec ==
    /\ Spec
    /\ \A c \in Client : WF_vars(Step(c) \/ Disconnect(c))
    /\ \A l \in Links : WF_vars(Step(l) \/ Receive(l) \/ Ignore(l))

-----------------------------------------------------------------------------
(* A message comes over several paths at once, and back to where it was     *)
(* posted; no node lets it through twice, and no client is shown it twice,  *)
(* unless the node has forgotten the id at the limit of the set.            *)
ShownOnce ==
    \A m \in Msg :
        /\ \A n \in Node : taken[n][m] = 2 => m \in dropped[n]
        /\ \A c \in Client : shown[c][m] = 2 => m \in dropped[Home[c]]

(* A broadcast during which nobody left the list served everyone who was    *)
(* on it when it began, however many joined.  (When someone leaves, the     *)
(* iteration skips the next client.)                                        *)
AudienceServed ==
    \A f \in Flow : flow[f].pc = "flood" /\ ~flow[f].shifted =>
        \A c \in flow[f].audience : shown[c][flow[f].msg] > 0 \/ c \in flow[f].dead

(* A node that takes a message passes it on over every link that holds.     *)
Spreads ==
    \A l \in Links \cap Steady : \A m \in Msg :
        (l \in links /\ taken[l[1]][m] > 0) ~> taken[l[2]][m] > 0

Quiet == (\A f \in Flow : flow[f].pc = "idle") /\ (\A l \in Links : chan[l] = <<>>)

(* A flood dies out, also in a circle, unless a node forgets an id.         *)
FloodEnds == <>[]Quiet \/ <>(\E n \in Node : dropped[n] # {})

-----------------------------------------------------------------------------
(* What makes the invariants above inductive.                               *)

Busy(f) == flow[f].pc # "idle"

(* An id that a node let through is in use, and the node knows it unless it *)
(* was forgotten; so are the ids that are on their way.                     *)
Entered ==
    /\ \A n \in Node, m \in Msg :
          taken[n][m] > 0 => m <= posted /\ m \in seen[n] \cup dropped[n]
    /\ \A l \in Links : \A i \in 1 .. Len(chan[l]) : chan[l][i] <= posted
    /\ \A f \in Flow : Busy(f) => taken[At(f)][flow[f].msg] > 0

(* A node has one coroutine for a message it has not forgotten. *)
OneCarrier ==
    \A f, g \in Flow :
        f # g /\ At(f) = At(g) /\ Busy(f) /\ Busy(g) /\ flow[f].msg = flow[g].msg =>
            flow[f].msg \in dropped[At(f)]

(* A client is listed once, by its own node, after it has joined. *)
ListedOnce ==
    \A n \in Node : \A i \in 1 .. Len(active[n]) :
        /\ Home[active[n][i]] = n /\ client[active[n][i]] # "new"
        /\ \A j \in 1 .. Len(active[n]) : active[n][i] = active[n][j] => i = j

(* What a client was shown its node let through, after the client joined.   *)
ShownAfter ==
    \A c \in Client, m \in Msg :
        shown[c][m] > 0 => taken[Home[c]][m] > 0 /\ client[c] # "new"

(* The clients that a broadcast has still to reach were not shown it.       *)
NotYetShown ==
    \A f \in Flow :
        flow[f].pc = "show" /\ flow[f].msg \notin dropped[At(f)] =>
            \A j \in flow[f].i .. Len(active[At(f)]) : shown[active[At(f)][j]][flow[f].msg] = 0

PassInv == Entered /\ OneCarrier /\ ListedOnce /\ ShownAfter /\ NotYetShown /\ ShownOnce

Served(f, c) == shown[c][flow[f].msg] > 0 \/ c \in flow[f].dead

(* The audience of a broadcast from whose list nobody was taken is served   *)
(* up to the position, and listed from there on.                            *)
Serving ==
    \A f \in Flow : flow[f].pc = "show" /\ ~flow[f].shifted =>
        \A c \in flow[f].audience :
            Served(f, c) \/ \E j \in flow[f].i .. Len(active[At(f)]) : active[At(f)][j] = c
=============================================================================
