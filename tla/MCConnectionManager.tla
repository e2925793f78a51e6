------------------------- MODULE MCConnectionManager -------------------------
(* ConnectionManager with its nodes and connections as model values, for    *)
(* TLC.                                                                     *)
EXTENDS ConnectionManager, TLC

(* For the run of a safety property only. *)
Symmetry == Permutations(Node) \cup Permutations(Conn)

=============================================================================
