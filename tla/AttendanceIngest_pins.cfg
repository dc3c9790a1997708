\* PINs that change hands while two pushes are being served.
SPECIFICATION Spec
CONSTANTS
  t1 = t1
  t2 = t2
  p1 = p1
  p2 = p2
  h1 = h1
  h2 = h2
  Terminals = {t1}
  Pins = {p1, p2}
  Kinds = {"in", "out"}
  Handlers = {h1, h2}
  MaxEmployees = 2
  AutoCreate = {TRUE, FALSE}
  Throttling = FALSE
  MaxPunches = 2
  MaxEdits = 1
  NotStored = NotStored
  NoEmployee = NoEmployee
  NoPin = NoPin
  NoTerminal = NoTerminal
  NoHandler = NoHandler
SYMMETRY Symmetry
INVARIANTS
  TypeOK
  AttributionValid
  PresenceBacked
CHECK_DEADLOCK FALSE
