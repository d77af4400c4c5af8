SPECIFICATION Spec
CONSTANTS
  MaxRev = 3
  MaxArmings = 2
  MaxRuns = 1
  MaxChanges = 1
  Intents = {1, 2}
INVARIANTS
  TypeOK
  OneShot
  OutcomeIsTrue
PROPERTIES
  DrainedMeansQuiet
CHECK_DEADLOCK FALSE
