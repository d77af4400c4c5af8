SPECIFICATION Spec
CONSTANTS
  Qty = 2
  Closes = {c1}
  Profiles = {"fixed"}
  MaxRev = 2
  MaxFaults = 1
  MaxCancels = 1
  Nobody = Nobody
INVARIANT
  UncertainCloseIsKept
