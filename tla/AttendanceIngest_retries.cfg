\* Two terminals, two pushes at once, retries, lost answers, throttling.
SPECIFICATION Spec
CONSTANTS
  t1 = t1
  t2 = t2
  p1 = p1
  p2 = p2
  h1 = h1
  h2 = h2
  Terminals = {t1, t2}
  Pins = {p1}
  Kinds = {"in"}
  Handlers = {h1, h2}
  MaxEmployees = 1
  AutoCreate = {TRUE, FALSE}
  Throttling = TRUE
  MaxPunches = 2
  MaxEdits = 0
  NotStored = NotStored
  NoEmployee = NoEmployee
  NoPin = NoPin
  NoTerminal = NoTerminal
  NoHandler = NoHandler
SYMMETRY Symmetry
INVARIANT ForgottenIsStored
PROPERTY ImplementsPunchLog
CHECK_DEADLOCK FALSE
