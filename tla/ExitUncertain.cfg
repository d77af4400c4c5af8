SPECIFICATION Spec
CONSTANTS
  Qty = 2
  Closes = {c1, c2}
  Profiles = {"fixed", "trailing"}
  MaxRev = 2
  MaxFaults = 1
  MaxCancels = 1
  Nobody = Nobody
PROPERTY
  UncertainMeansSent
