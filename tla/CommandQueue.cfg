\* Two overlapping enqueue requests on one terminal, lost answers, repeated reports;
\* fair, and without symmetry because of the liveness properties.
SPECIFICATION FairSpec
CONSTANTS
  e1 = e1
  e2 = e2
  d1 = d1
  d2 = d2
  r1 = r1
  r2 = r2
  Employees = {e1, e2}
  Devices = {d1}
  Requests = {r1, r2}
  MaxCommands = 3
  NoRequest = NoRequest
  NoPair = NoPair
INVARIANTS
  TypeOK
  FinalIsTrue
  NobodyIsStuck
PROPERTIES
  NewerRequestsWin
  ImplementsLedger
  EnqueueEnds
  QueueDrains
CHECK_DEADLOCK FALSE
