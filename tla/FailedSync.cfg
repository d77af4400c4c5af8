CONSTANTS
  i1 = i1
  i2 = i2
  a1 = a1
  a2 = a2
  Nobody = Nobody
  Intents <- OneIntent
  Adoptions <- TwoAdoptions
  Live = FALSE
  OrderQty = 1
  MaxFaults = 1
  MaxExternal = 0
SPECIFICATION FairSpec
PROPERTY TerminalOrderObserved
