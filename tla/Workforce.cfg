\* Two requests at once: three invitations of two employees, pushes of two employees, a month of three days.
SPECIFICATION Spec
CONSTANTS
  Parts = {"requests", "directory", "report"}
  Employees = {i1, i2}
  Corrections = {p1}
  Leaves = {p2}
  Handlers = {h1, h2}
  MaxInvites = 3
  MaxNotices = 3
  NoEmployee = NoEmployee
  NoPetition = NoPetition
  NoHandler = NoHandler
  Ids = {i1, i2}
  Odoos = {o1, o2}
  Pins = {pa, pb}
  Codes = {c1}
  Pushes = {h1, h2}
  MaxBatch = 2
  MaxItems = 2
  NoOdoo = NoOdoo
  NoCode = NoCode
  NoId = NoId
  NoRow = NoRow
  Days = {4, 5, 6, 7, 8}
  First = 5
  Last = 7
  PerDay = 2
  MaxFacts = 3
  NoDay = NoDay
SYMMETRY Symmetry
INVARIANTS
  WorkforceTypeOK
  LastNoticeTrue
  TwinsFromOverlap
  AbsentIsAbsent
  ViewsAgree
PROPERTIES
  AnsweredIsStored
  FirstReviewStands
  OldInvitationsLose
CHECK_DEADLOCK FALSE
