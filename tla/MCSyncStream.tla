---------------------------- MODULE MCSyncStream -----------------------------
(* Instances of SyncStream for TLC.  The .cfg files give Threads and Callers *)
(* model values: Python threads that call, as a tokio worker that takes the  *)
(* GIL does nothing a thread that never calls could not do.                  *)
EXTENDS SyncStream

=============================================================================
