-------------------------- MODULE MCDownloadManager --------------------------
(* DownloadManager with its identities as model values, for TLC. *)
EXTENDS DownloadManager, TLC

(* Objects, tasks and pause requests are interchangeable: each set is only  *)
(* quantified over. For the runs of safety properties.                      *)
Symmetry == Permutations(Obj) \cup Permutations(Task) \cup Permutations(Pauser)

AllChunks == Chunks
FirstChunk == {0}

=============================================================================
