\* Fair terminals and handlers; no PIN changes, no throttling.
SPECIFICATION FairSpec
CONSTANTS
  t1 = t1
  t2 = t2
  p1 = p1
  p2 = p2
  h1 = h1
  h2 = h2
  Terminals = {t1}
  Pins = {p1, p2}
  Kinds = {"in"}
  Handlers = {h1, h2}
  MaxEmployees = 2
  AutoCreate = {TRUE}
  Throttling = FALSE
  MaxPunches = 2
  MaxEdits = 0
  NotStored = NotStored
  NoEmployee = NoEmployee
  NoPin = NoPin
  NoTerminal = NoTerminal
  NoHandler = NoHandler
PROPERTY PunchesArrive
CHECK_DEADLOCK FALSE
