------------------------- MODULE MCWorkerScheduling -------------------------
(* The instance TLC checks: two processes with one coordinator. *)
EXTENDS WorkerScheduling
=============================================================================
