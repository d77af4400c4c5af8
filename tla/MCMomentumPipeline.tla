-------------------------- MODULE MCMomentumPipeline --------------------------
(* Instance of MomentumPipeline for TLC. *)
EXTENDS MomentumPipeline

CONSTANTS a1, a2
=============================================================================
