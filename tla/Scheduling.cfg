\* Two processes, one fault of any kind, one write, one change of eligibility.
CONSTANTS
  None = None
  Procs = {p1, p2}
  Executor = p1
  MaxFaults = 1
  MaxWrites = 1
  MaxSwitches = 1
SPECIFICATION Spec
INVARIANT TypeOK
PROPERTIES InterruptedRunIsOver BackoffHonoured AccountServed WriteEventuallyPolled
