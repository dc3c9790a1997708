----------------------------- MODULE MonthReport -----------------------------
(***************************************************************************)
(* What the month views say of one employee: the dashboard and the         *)
(* timesheets of routers/attendance.py, today's card and the timesheet of  *)
(* routers/employee_app.py.                                                *)
(*                                                                         *)
(* Each view asks the database in its own way: by inclusive or exclusive   *)
(* ends of the period, by day or by time, with leaves cut to the month.    *)
(* The actions bring rows into being in any order and mixture; the views   *)
(* are functions of the rows.  A day has PerDay moments, day 0 is a Monday.*)
(***************************************************************************)
EXTENDS Integers, FiniteSets

CONSTANTS
  Days,        \* the days that rows can be about
  First, Last, \* the days of the month: First..Last
  PerDay,      \* moments of a day
  MaxFacts,    \* bound of holidays, leaves, punches and dates of employment together
  NoDay

ASSUME MonthAssumption == First \in Int /\ Last \in Int /\ First <= Last
ASSUME DaysAssumption == Days \subseteq Int /\ First..Last \subseteq Days /\ NoDay \notin Int
ASSUME ClockAssumption == PerDay \in Nat \ {0} /\ MaxFacts \in Nat

VARIABLES
  holidays,   \* holidays.holiday_date
  leaves,     \* approved leave_requests: [start, end]
  punches,    \* normalized_attendance_logs.punched_at, as moments
  hired,      \* employees.hired_at
  terminated, \* employees.terminated_at
  active,     \* employees.is_active
  crowded,    \* 1000 active employees of the workspace have smaller ids
  weekDays    \* tenants.work_week_days

rowVars == <<holidays, leaves, punches, hired, terminated, active>>
settings == <<crowded, weekDays>>
reportVars == <<rowVars, settings>>

Month == First..Last
Moments(D) == {d * PerDay + i : d \in D, i \in 0..PerDay - 1}
DayOf(m) == m \div PerDay
Weekday(d) == d % 7
Room ==
  Cardinality(holidays) + Cardinality(leaves) + Cardinality(punches)
    + Cardinality({hired, terminated} \ {NoDay}) < MaxFacts
CellCodes == {"-", "H", "W", "L", "P", "A"}

Earliest(M) == CHOOSE m \in M : \A n \in M : m <= n
Latest(M) == CHOOSE m \in M : \A n \in M : n <= m

ReportInit ==
  /\ holidays = {}
  /\ leaves = {}
  /\ punches = {}
  /\ hired = NoDay
  /\ terminated = NoDay
  /\ active = TRUE
  /\ crowded \in BOOLEAN
  /\ weekDays \in 5..7

------------------------------------------------------------------------------
\* The rows

AddHoliday(d) ==
  /\ Room
  /\ holidays' = holidays \cup {d}
  /\ UNCHANGED <<leaves, punches, hired, terminated, active, settings>>

\* Submitted with start_date <= end_date, and approved.
ApproveLeave(s, e) ==
  /\ Room
  /\ s <= e
  /\ leaves' = leaves \cup {[start |-> s, end |-> e]}
  /\ UNCHANGED <<holidays, punches, hired, terminated, active, settings>>

Punch(m) ==
  /\ Room
  /\ punches' = punches \cup {m}
  /\ UNCHANGED <<holidays, leaves, hired, terminated, active, settings>>

\* The date of an employment that is entered in the database: no handler writes it.
Hire(d) ==
  /\ Room
  /\ hired = NoDay
  /\ hired' = d
  /\ UNCHANGED <<holidays, leaves, punches, terminated, active, settings>>

\* delete_employee: the row stays.
Terminate(d) ==
  /\ Room
  /\ terminated' = d
  /\ active' = FALSE
  /\ UNCHANGED <<holidays, leaves, punches, hired, settings>>

\* PATCH, or a push of Odoo: a row that is made active again keeps its terminated_at.
SetActive(b) ==
  /\ active' = b
  /\ UNCHANGED <<holidays, leaves, punches, hired, terminated, settings>>

------------------------------------------------------------------------------
\* GET /api/attendance/dashboard

\* Faulty variant: the leaves that begin in the month.
LeaveDaysBegun ==
  UNION {l.start..(IF l.end <= Last THEN l.end ELSE Last) :
           l \in {k \in leaves : k.start \in Month}}

\* The leaves that touch the month, cut to it, day by day.
LeaveDays ==
  UNION {(IF l.start >= First THEN l.start ELSE First)..(IF l.end <= Last THEN l.end ELSE Last) :
           l \in {k \in leaves : k.start <= Last /\ k.end >= First}}

\* Faulty variant: the period ends as the last day begins.
PunchesOnShort(d) ==
  {m \in punches : DayOf(m) = d /\ m >= First * PerDay /\ m < Last * PerDay}

\* The punches of the month that fall on d.
PunchesOn(d) ==
  {m \in punches : DayOf(m) = d /\ m >= First * PerDay /\ m < (Last + 1) * PerDay}

StatusFor(d) ==
  CASE d \in holidays -> "H"
    [] d \notin holidays /\ (Weekday(d) = 6 \/ (Weekday(d) = 5 /\ weekDays <= 5)) -> "W"
    [] OTHER -> IF d \in LeaveDays THEN "L" ELSE IF PunchesOn(d) # {} THEN "P" ELSE "A"

Outside(d) == (hired # NoDay /\ d < hired) \/ (terminated # NoDay /\ d > terminated)

Cell(d) == IF Outside(d) THEN "-" ELSE StatusFor(d)

\* Only the first 1000 active employees have cells.
Listed == active /\ ~ crowded
Dashboard == IF Listed THEN {[day |-> d, code |-> Cell(d)] : d \in Month} ELSE {}

------------------------------------------------------------------------------
\* GET /api/attendance/timesheet, /api/employee/timesheet and attendance/today

\* A row of the timesheet, for the punches M of one day.
Row(d, M) ==
  [day |-> d, in |-> Earliest(M), out |-> Latest(M), punches |-> Cardinality(M),
   worked |-> IF Cardinality(M) >= 2 THEN Latest(M) - Earliest(M) ELSE -1,
   status |-> IF Cardinality(M) = 1 THEN "missing_checkout" ELSE "present"]

\* GROUP BY DATE(punched_at) of the punches from the first of the month to the first
\* of the next; the group without a date is left out.
Timesheet ==
  LET inPeriod == {m \in punches : m >= First * PerDay /\ m < (Last + 1) * PerDay}
  IN {Row(d, {m \in inPeriod : DayOf(m) = d}) : d \in {DayOf(m) : m \in inPeriod}}

\* What the employee's card says on day d.
Today(d) ==
  LET M == {m \in punches : m >= d * PerDay /\ m < (d + 1) * PerDay}
  IN IF M = {} THEN [status |-> "absent", worked |-> -1]
     ELSE [status |-> Row(d, M).status, worked |-> Row(d, M).worked]

------------------------------------------------------------------------------

ReportNext ==
  \/ \E d \in Days : AddHoliday(d) \/ Hire(d) \/ Terminate(d)
  \/ \E s, e \in Days : ApproveLeave(s, e)
  \/ \E m \in Moments(Days) : Punch(m)
  \/ \E b \in BOOLEAN : SetActive(b)

ReportSpec == ReportInit /\ [][ReportNext]_reportVars

------------------------------------------------------------------------------

ReportTypeOK ==
  /\ holidays \subseteq Days
  /\ leaves \subseteq [start : Days, end : Days]
  /\ punches \subseteq Moments(Days)
  /\ hired \in Days \cup {NoDay}
  /\ terminated \in Days \cup {NoDay}
  /\ active \in BOOLEAN
  /\ crowded \in BOOLEAN
  /\ weekDays \in 5..7

\* An absence is real: a day shown as absent is neither a day off nor covered by an
\* approved leave, however far that reaches beyond the month, and no view knows a
\* punch of it.
AbsentIsAbsent ==
  \A cell \in Dashboard : cell.code = "A" =>
    /\ cell.day \notin holidays
    /\ ~ \E l \in leaves : l.start <= cell.day /\ cell.day <= l.end
    /\ ~ \E row \in Timesheet : row.day = cell.day

\* The views agree day by day.  Of an employee on the dashboard, a present day has a
\* row in the timesheet, and a row stands for a present day unless the day is off, a
\* leave or outside the employment.  Today's card says what the row will say.  The
\* timesheet and the card do not ask who is on the dashboard: of an employee who was
\* deleted, or comes after the first 1000, they show what the dashboard does not.
ViewsAgree ==
  \A d \in Month :
    LET rows == {row \in Timesheet : row.day = d}
    IN /\ Cardinality(rows) <= 1
       /\ \A cell \in Dashboard : cell.day = d =>
            /\ cell.code = "P" => rows # {}
            /\ rows # {} => cell.code \in CellCodes \ {"A"}
       /\ rows = {} <=> Today(d).status = "absent"
       /\ \A row \in rows : Today(d) = [status |-> row.status, worked |-> row.worked]
==============================================================================
