CONSTANTS
  i1 = i1
  i2 = i2
  a1 = a1
  a2 = a2
  Nobody = Nobody
  Intents <- TwoIntents
  Adoptions <- TwoAdoptions
  Live = TRUE
  OrderQty = 1
  MaxFaults = 2
  MaxExternal = 0
SYMMETRY Symmetry
SPECIFICATION Spec
INVARIANTS ExposureCovered NotSentIsTrue ExclusiveOwner PositionOwned
PROPERTIES ReviewedOwnership ImplementsOwnership
