CONSTANTS
  i1 = i1
  i2 = i2
  a1 = a1
  a2 = a2
  Nobody = Nobody
  Intents <- OneIntent
  Adoptions <- TwoAdoptions
  Live = FALSE
  OrderQty = 2
  MaxFaults = 3
  MaxExternal = 1
SYMMETRY Symmetry
SPECIFICATION Spec
INVARIANTS TypeOK ControlOK LocalOrderBacked ExposureCovered PositionCovered NotSentIsTrue SweepMakesProgress
PROPERTIES PostAuthorized NoReleaseOnAbsence
