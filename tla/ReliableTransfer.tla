-------------------------- MODULE ReliableTransfer --------------------------
(***************************************************************************)
(* What a sender of backend/strategies/sliding_window.py promises to the   *)
(* engine that calls it: it counts a chunk as delivered only after the     *)
(* peer has it, and it returns when every chunk is counted, or because it  *)
(* cannot hear the peer.                                                   *)
(***************************************************************************)
CONSTANT Index          \* the chunks of the transfer

VARIABLES delivered,    \* chunks the peer has
          confirmed,    \* chunks the sender counts as delivered
          unheard,      \* the sender cannot read what the peer answers
          outcome       \* how the call of send_all ended

tvars == <<delivered, confirmed, unheard, outcome>>

TransferInit ==
    /\ delivered = {} /\ confirmed = {} /\ unheard \in BOOLEAN
    /\ outcome = "running"

(* The peer may store a chunk late, or twice, even when nobody waits. *)
Deliver(i) ==
    /\ delivered' = delivered \cup {i}
    /\ UNCHANGED <<confirmed, unheard, outcome>>

Confirm(i) ==
    /\ outcome = "running" /\ i \in delivered
    /\ confirmed' = confirmed \cup {i}
    /\ UNCHANGED <<delivered, unheard, outcome>>

Lose ==
    /\ unheard' = TRUE
    /\ UNCHANGED <<delivered, confirmed, outcome>>

Complete ==
    /\ outcome = "running" /\ confirmed = Index
    /\ outcome' = "complete"
    /\ UNCHANGED <<delivered, confirmed, unheard>>

Abandon ==
    /\ outcome = "running" /\ unheard
    /\ outcome' = "abandoned"
    /\ UNCHANGED <<delivered, confirmed, unheard>>

TransferNext ==
    \/ \E i \in Index : Deliver(i) \/ Confirm(i)
    \/ Lose \/ Complete \/ Abandon

TransferSpec == TransferInit /\ [][TransferNext]_tvars

=============================================================================
