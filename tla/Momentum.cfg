CONSTANTS
  a1 = a1
  a2 = a2
  Articles = {a1, a2}
  Usable = {a1}
  Positive = {a1}
  Slots = 2
  MaxPub = 2
  Limit = 1
  MaxClock = 1
  Lifetime = 1
  MaxEvents = 1
SPECIFICATION Spec
INVARIANTS TypeOK OnlyTiesOrOldAreSkipped DeliveredStaysOut
