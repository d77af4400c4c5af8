-------------------------- MODULE MCEntryExposure --------------------------
(* Instances of EntryExposure for TLC. *)
EXTENDS EntryExposure, TLC

CONSTANTS i1, i2, a1, a2

OneIntent == {i1}
TwoIntents == {i1, i2}
TwoAdoptions == {a1, a2}

Symmetry == Permutations({i1, i2}) \cup Permutations({a1, a2})
=============================================================================
