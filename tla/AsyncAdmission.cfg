SPECIFICATION FairSpec
CONSTANTS
  Callers = {c1, c2, c3}
  MaxConcurrency = 1
  MaxPending = 2
  AdmissionTimeout = 1
  MaxTime = 1
INVARIANTS
  SlotsAreConserved
PROPERTIES
  NoOvertaking
  CallsAndCloseEnd
