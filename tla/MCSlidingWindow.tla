--------------------------- MODULE MCSlidingWindow ---------------------------
(* SlidingWindow for TLC: its constants are numbers and flags, given in the *)
(* configurations.                                                          *)
EXTENDS SlidingWindow

=============================================================================
