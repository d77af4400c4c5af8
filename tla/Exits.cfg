SPECIFICATION Spec
CONSTANTS
  Qty = 2
  Closes = {c1}
  Profiles = {"fixed", "trailing"}
  MaxRev = 2
  MaxFaults = 1
  MaxCancels = 1
  Nobody = Nobody
INVARIANTS
  TypeOK
  ShortOnlyByLateOrders
  CloseKnownOrGivenUp
  DeadProtectionNoticed
PROPERTIES
  SellsWholePosition
  AttentionResolved
