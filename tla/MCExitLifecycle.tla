--------------------------- MODULE MCExitLifecycle ---------------------------
(* The instance TLC checks. *)
EXTENDS ExitLifecycle
=============================================================================
