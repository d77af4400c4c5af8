---------------------------- MODULE MCLiveEntry ----------------------------
(***************************************************************************)
(* The instance TLC checks.                                                *)
(***************************************************************************)
EXTENDS LiveEntry
=============================================================================
