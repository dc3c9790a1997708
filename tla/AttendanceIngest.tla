--------------------------- MODULE AttendanceIngest ---------------------------
(***************************************************************************)
(* Attendance rows on their way from the terminals into the database:      *)
(* cdata_push and _ingest_attlog of routers/adms.py, for one tenant.       *)
(*                                                                         *)
(* A terminal keeps a punch until a push that carried it is answered 200.  *)
(* It gives up on a slow push and sends again while the first one is still *)
(* being served, and other terminals push punches of the same people, so   *)
(* several transactions ingest at once.  Each is split where it can be     *)
(* overtaken: after it read the PIN-to-employee map, and after each        *)
(* employee it auto-creates (uncommitted, yet in the way of others because *)
(* of the unique key).  The final inserts and the commit are one step:     *)
(* rows are compared with committed rows, and a row lock makes a second    *)
(* writer of the same row wait for the first one's commit.                 *)
(*                                                                         *)
(* Punches are numbered in the order they happen, so a number is also a    *)
(* time.  A row is identified by idempotency_key, a hash of serial number, *)
(* PIN, time and state, which is what tells one punch from another here.   *)
(***************************************************************************)
EXTENDS Naturals, FiniteSets

CONSTANTS
  Terminals,
  Pins,           \* device PINs
  Kinds,          \* punch_state: "in" for 0 and NULL, "out" for 1
  Handlers,       \* pushes the API can be serving at once
  AutoCreate,     \* values tenants.auto_create_from_machine takes over time
  Throttling,     \* TRUE: the rate limiter may answer a push itself
  MaxEmployees,   \* bound: ids of rows of `employees`; one for each PIN is enough
  MaxPunches,     \* bound: punches
  MaxEdits,       \* bound: changes of an employee's PIN
  NotStored,      \* a punch without a row in normalized_attendance_logs
  NoEmployee,     \* employee_id NULL
  NoPin,
  NoTerminal,
  NoHandler

ASSUME BoundsAssumption ==
  /\ MaxPunches \in Nat /\ MaxEdits \in Nat
  /\ MaxEmployees \in Nat /\ IsFiniteSet(Pins) /\ MaxEmployees >= Cardinality(Pins)
ASSUME PolicyAssumption ==
  AutoCreate \subseteq BOOLEAN /\ Throttling \in BOOLEAN /\ Kinds \subseteq {"in", "out"}
ASSUME SentinelAssumption ==
  /\ NotStored \notin 1..MaxEmployees /\ NoEmployee \notin 1..MaxEmployees
  /\ NotStored # NoEmployee
  /\ NoPin \notin Pins /\ NoTerminal \notin Terminals /\ NoHandler \notin Handlers

Punches == 1..MaxPunches
Employees == 1..MaxEmployees

VARIABLES
  clock,     \* punches so far are 1..clock
  punch,     \* punch[n]: terminal, PIN and kind of punch n
  known,     \* terminals whose serial number _resolve_device finds
  unsent,    \* unsent[t]: punches terminal t has not got an OK for
  waiting,   \* waiting[t]: push whose answer terminal t waits for
  pin,       \* pin[e]: employees.device_pin
  autoCode,  \* autoCode[e]: the PIN in employee_code AUTO-<pin>; NoPin otherwise
  creator,   \* creator[e]: push that inserted row e and has not committed
  edits,     \* PIN changes so far
  hadPin,    \* history: hadPin[e] are the PINs employee e has or had
  stored,    \* stored[n]: employee_id of the row of punch n
  presence,  \* presence[e]: last_in_at of the employee_presence row, 0 without
  waived,    \* punches answered OK without being read
  pc,        \* pc[h]: step of push h
  at,        \* at[h]: terminal it comes from
  batch,     \* batch[h]: punches it carries
  found,     \* found[h]: its PIN-to-employee map
  missing    \* missing[h]: PINs it still has to create employees for

staff == <<pin, autoCode, creator, edits, hadPin>>
log == <<stored, presence, waived>>
pushes == <<pc, at, batch, found, missing>>
devices == <<known, unsent, waiting>>
vars == <<clock, punch, devices, staff, log, pushes>>

NoPunch == [terminal |-> NoTerminal, pin |-> NoPin, kind |-> "in"]
NoMap == [p \in Pins |-> NoEmployee]
PinsOf(B) == {punch[n].pin : n \in B}
Committed(e) == pin[e] # NoPin /\ creator[e] = NoHandler

Init ==
  /\ clock = 0
  /\ punch = [n \in Punches |-> NoPunch]
  /\ known = Terminals
  /\ unsent = [t \in Terminals |-> {}]
  /\ waiting = [t \in Terminals |-> NoHandler]
  /\ pin = [e \in Employees |-> NoPin]
  /\ autoCode = [e \in Employees |-> NoPin]
  /\ creator = [e \in Employees |-> NoHandler]
  /\ edits = 0
  /\ hadPin = [e \in Employees |-> {}]
  /\ stored = [n \in Punches |-> NotStored]
  /\ presence = [e \in Employees |-> 0]
  /\ waived = {}
  /\ pc = [h \in Handlers |-> "idle"]
  /\ at = [h \in Handlers |-> NoTerminal]
  /\ batch = [h \in Handlers |-> {}]
  /\ found = [h \in Handlers |-> NoMap]
  /\ missing = [h \in Handlers |-> {}]

------------------------------------------------------------------------------
\* The terminals

\* Somebody punches in or out.
Punch(t, p, k) ==
  /\ clock < MaxPunches
  /\ clock' = clock + 1
  /\ punch' = [punch EXCEPT ![clock + 1] = [terminal |-> t, pin |-> p, kind |-> k]]
  /\ unsent' = [unsent EXCEPT ![t] = @ \cup {clock + 1}]
  /\ UNCHANGED <<known, waiting, staff, log, pushes>>

\* The terminal pushes what it has got no OK for.
Send(t, h) ==
  /\ waiting[t] = NoHandler
  /\ pc[h] = "idle"
  /\ unsent[t] # {}
  /\ batch' = [batch EXCEPT ![h] = unsent[t]]
  /\ waiting' = [waiting EXCEPT ![t] = h]
  /\ at' = [at EXCEPT ![h] = t]
  /\ pc' = [pc EXCEPT ![h] = "sent"]
  /\ UNCHANGED <<clock, punch, known, unsent, staff, log, found, missing>>

\* The terminal gives up on the answer; the push is served all the same.
Timeout(t) ==
  /\ waiting[t] # NoHandler
  /\ waiting' = [waiting EXCEPT ![t] = NoHandler]
  /\ UNCHANGED <<clock, punch, known, unsent, staff, log, pushes>>

\* cdata_init answers ATTLOGStamp=NONE: the terminal sends everything again.
Reinit(t) ==
  /\ t \in known
  /\ unsent' = [unsent EXCEPT ![t] = {n \in 1..clock : punch[n].terminal = t}]
  /\ unsent' # unsent
  /\ UNCHANGED <<clock, punch, known, waiting, staff, log, pushes>>

\* delete_device: the serial number resolves no more.
Disable(t) ==
  /\ t \in known
  /\ known' = known \ {t}
  /\ UNCHANGED <<clock, punch, unsent, waiting, staff, log, pushes>>

------------------------------------------------------------------------------
\* The API

\* Push h is over.  If its terminal still waits for it, it gets the answer or
\* the connection breaks first; only an OK makes it forget the batch.
Answer(h, ok) ==
  /\ IF waiting[at[h]] = h
       THEN /\ waiting' = [waiting EXCEPT ![at[h]] = NoHandler]
            /\ \/ UNCHANGED unsent
               \/ ok /\ unsent' = [unsent EXCEPT ![at[h]] = @ \ batch[h]]
       ELSE UNCHANGED <<waiting, unsent>>
  /\ pc' = [pc EXCEPT ![h] = "idle"]
  /\ at' = [at EXCEPT ![h] = NoTerminal]
  /\ batch' = [batch EXCEPT ![h] = {}]
  /\ found' = [found EXCEPT ![h] = NoMap]
  /\ missing' = [missing EXCEPT ![h] = {}]

\* The transaction of push h is rolled back, with the employees it created.
Undo(h) ==
  LET undone(e) == creator[e] = h IN
  /\ pin' = [e \in Employees |-> IF undone(e) THEN NoPin ELSE pin[e]]
  /\ autoCode' = [e \in Employees |-> IF undone(e) THEN NoPin ELSE autoCode[e]]
  /\ creator' = [e \in Employees |-> IF undone(e) THEN NoHandler ELSE creator[e]]
  /\ hadPin' = [e \in Employees |-> IF undone(e) THEN {} ELSE hadPin[e]]
  /\ UNCHANGED edits

\* Faulty variant: the batch is rolled back but the terminal is told OK.
FailAcknowledged(h) ==
  /\ Answer(h, TRUE)
  /\ Undo(h)
  /\ UNCHANGED <<clock, punch, known, log>>

Fail(h) ==
  /\ Answer(h, FALSE)
  /\ Undo(h)
  /\ UNCHANGED <<clock, punch, known, log>>

\* The terminal is told OK and no attendance row of the batch is written.
Unread(h) ==
  /\ pc[h] = "sent"
  /\ waived' = waived \cup batch[h]
  /\ Answer(h, TRUE)
  /\ UNCHANGED <<clock, punch, known, staff, stored, presence>>

\* RateLimitMiddleware answers before the push is read.
Throttle(h) == Throttling /\ Unread(h)

\* The serial number is unknown: a raw row of tenant 0 is all that is left.
TurnAway(h) == at[h] \notin known /\ Unread(h)

\* The device, the tenant's policy and the PIN map are read.
ReadPins(h) ==
  /\ pc[h] = "sent"
  /\ at[h] \in known
  /\ \E m \in [Pins -> Employees \cup {NoEmployee}] :
       /\ \A p \in Pins :
            IF p \in PinsOf(batch[h]) /\ \E e \in Employees : Committed(e) /\ pin[e] = p
              THEN m[p] \in Employees /\ Committed(m[p]) /\ pin[m[p]] = p
              ELSE m[p] = NoEmployee
       /\ found' = [found EXCEPT ![h] = m]
       /\ \E auto \in AutoCreate : missing' =
            [missing EXCEPT ![h] = {p \in PinsOf(batch[h]) : auto /\ m[p] = NoEmployee}]
  /\ pc' = [pc EXCEPT ![h] = "mapped"]
  /\ UNCHANGED <<clock, punch, devices, staff, log, at, batch>>

\* Rows of `employees` an INSERT for PIN p has to wait for.
Blockers(h, p) == {e \in Employees : pin[e] = p /\ creator[e] \notin {h, NoHandler}}

\* Another employee's code is AUTO-<p>, and none has PIN p: the INSERT violates
\* the key on employee_code, for which there is no ON CONFLICT.
CodeTaken(p) ==
  /\ \E e \in Employees : Committed(e) /\ autoCode[e] = p
  /\ \A e \in Employees : pin[e] # p

\* The next free id gets PIN p.
NewRow(e, p, code, h) ==
  /\ pin[e] = NoPin
  /\ \A f \in Employees : pin[f] = NoPin => e <= f
  /\ pin' = [pin EXCEPT ![e] = p]
  /\ autoCode' = [autoCode EXCEPT ![e] = code]
  /\ creator' = [creator EXCEPT ![e] = h]
  /\ hadPin' = [hadPin EXCEPT ![e] = {p}]
  /\ UNCHANGED edits

\* Faulty variant: on a conflict the PIN itself ends up in the map.
InsertOrPin(h, p) ==
  \/ /\ \E e \in Employees : Committed(e) /\ pin[e] = p
     /\ found' = [found EXCEPT ![h][p] = p]
     /\ UNCHANGED staff
  \/ /\ \A e \in Employees : pin[e] # p
     /\ ~CodeTaken(p)
     /\ \E e \in Employees :
          /\ NewRow(e, p, p, h)
          /\ found' = [found EXCEPT ![h][p] = e]

\* INSERT ... ON CONFLICT (tenant_id, device_pin) DO NOTHING.  When another
\* transaction has created the PIN since it was read, both INSERTs return no id
\* and the map stays without an employee.
InsertEmployee(h, p) ==
  \/ /\ \E e \in Employees : Committed(e) /\ pin[e] = p
     /\ UNCHANGED <<staff, found>>
  \/ /\ \A e \in Employees : pin[e] # p
     /\ ~CodeTaken(p)
     /\ \E e \in Employees :
          /\ NewRow(e, p, p, h)
          /\ found' = [found EXCEPT ![h][p] = e]

AutoCreateEmployee(h, p) ==
  /\ pc[h] = "mapped"
  /\ p \in missing[h]
  /\ Blockers(h, p) = {}
  /\ InsertEmployee(h, p)
  /\ missing' = [missing EXCEPT ![h] = @ \ {p}]
  /\ UNCHANGED <<clock, punch, devices, log, pc, at, batch>>

\* The exception is caught, but PostgreSQL has given the transaction up: the
\* next statement fails, the push is answered 500 and nothing of it is left.
AutoCreateFails(h, p) ==
  /\ pc[h] = "mapped"
  /\ p \in missing[h]
  /\ CodeTaken(p)
  /\ Fail(h)

\* Two pushes wait for each other's new employees; PostgreSQL ends one of them.
DeadlockVictim(h) ==
  /\ pc[h] = "mapped"
  /\ \E g \in Handlers \ {h} :
       /\ pc[g] = "mapped"
       /\ \A p \in missing[h] : \E e \in Blockers(h, p) : creator[e] = g
       /\ \A p \in missing[g] : \E e \in Blockers(g, p) : creator[e] = h
       /\ missing[h] # {} /\ missing[g] # {}
  /\ Fail(h)

\* Faulty variant: the employee looked up for one row is used for all of them.
StoredForLast(h) ==
  [n \in Punches |->
     IF n \in batch[h] /\ stored[n] = NotStored
       THEN found[h][punch[CHOOSE m \in batch[h] : TRUE].pin]
       ELSE stored[n]]

\* Faulty variant: ON CONFLICT DO UPDATE SET employee_id.
StoredAgain(h) ==
  [n \in Punches |-> IF n \in batch[h] THEN found[h][punch[n].pin] ELSE stored[n]]

\* ON CONFLICT (idempotency_key, punched_at) DO NOTHING.
StoredBy(h) ==
  [n \in Punches |->
     IF n \in batch[h] /\ stored[n] = NotStored THEN found[h][punch[n].pin] ELSE stored[n]]

\* Faulty variant: presence is not told apart by punch_state.
PresenceOfAnyKind(h) ==
  [e \in Employees |->
     LET about == {n \in batch[h] : found[h][punch[n].pin] = e} IN
     IF about = {} THEN presence[e] ELSE CHOOSE n \in about : \A m \in about : m <= n]

\* Presence after the batch: its last row about an employee decides, whether or
\* not the row was a duplicate and whatever is stored about later punches.
PresenceBy(h) ==
  [e \in Employees |->
     LET about == {n \in batch[h] : found[h][punch[n].pin] = e} IN
     IF about = {} THEN presence[e]
     ELSE LET last == CHOOSE n \in about : \A m \in about : m <= n IN
          IF punch[last].kind = "in" THEN last ELSE 0]

\* Every row of the batch is inserted and the transaction commits.
Store(h) ==
  /\ pc[h] = "mapped"
  /\ missing[h] = {}
  /\ stored' = StoredBy(h)
  /\ presence' = PresenceBy(h)
  /\ creator' = [e \in Employees |-> IF creator[e] = h THEN NoHandler ELSE creator[e]]
  /\ Answer(h, TRUE)
  /\ UNCHANGED <<clock, punch, known, pin, autoCode, edits, hadPin, waived>>

\* The API process dies in the middle of push h, or PostgreSQL gives it up
\* because the final inserts run into a deadlock.
Crash(h) ==
  /\ pc[h] # "idle"
  /\ Fail(h)

------------------------------------------------------------------------------
\* HR: POST /api/employees, POST /api/odoo/employees/upsert

\* A new employee, with an employee_code of HR's own.
Hire(p) ==
  /\ \A e \in Employees : pin[e] # p
  /\ \E e \in Employees : NewRow(e, p, NoPin, NoHandler)
  /\ UNCHANGED <<clock, punch, devices, log, pushes>>

\* upsert_employees finds the employee by odoo_id and writes its new PIN; the
\* code is kept when Odoo sends none.
ChangePin(e, p) ==
  /\ Committed(e)
  /\ edits < MaxEdits
  /\ \A f \in Employees : pin[f] # p
  /\ edits' = edits + 1
  /\ pin' = [pin EXCEPT ![e] = p]
  /\ hadPin' = [hadPin EXCEPT ![e] = @ \cup {p}]
  /\ \/ UNCHANGED autoCode
     \/ autoCode' = [autoCode EXCEPT ![e] = NoPin]
  /\ UNCHANGED <<clock, punch, devices, creator, log, pushes>>

\* A push goes on.
Serve(h) ==
  \/ Throttle(h)
  \/ TurnAway(h)
  \/ ReadPins(h)
  \/ \E p \in Pins : AutoCreateEmployee(h, p) \/ AutoCreateFails(h, p)
  \/ DeadlockVictim(h)
  \/ Store(h)

Next ==
  \/ \E t \in Terminals :
       \/ \E p \in Pins, k \in Kinds : Punch(t, p, k)
       \/ \E h \in Handlers : Send(t, h)
       \/ Timeout(t)
       \/ Reinit(t)
       \/ Disable(t)
  \/ \E h \in Handlers :
       \/ Serve(h)
       \/ Crash(h)
  \/ \E p \in Pins : Hire(p)
  \/ \E e \in Employees, p \in Pins : ChangePin(e, p)

Spec == Init /\ [][Next]_vars

\* Terminals send what they have got no OK for again and again (ErrorDelay=30),
\* every push that can go on does, row locks are granted in turn.
Fairness ==
  /\ \A t \in Terminals : SF_vars(\E h \in Handlers : Send(t, h))
  /\ \A h \in Handlers : SF_vars(Serve(h))

\* Pushes are not cut short for ever.  The API process stops crashing; a deadlock
\* does not recur because PostgreSQL hands the row to the push that waits for it,
\* whose commit ends the PIN being new.  Rollbacks that the code itself brings
\* about are not assumed to stop.
RollbacksEnd ==
  <>[][\A h \in Handlers : Crash(h) => \E p \in Pins : AutoCreateFails(h, p)]_vars

FairSpec == Spec /\ Fairness /\ RollbacksEnd

------------------------------------------------------------------------------

TypeOK ==
  /\ clock \in 0..MaxPunches
  /\ punch \in [Punches -> [terminal : Terminals \cup {NoTerminal}, pin : Pins \cup {NoPin},
                            kind : {"in", "out"}]]
  /\ known \subseteq Terminals
  /\ unsent \in [Terminals -> SUBSET Punches]
  /\ waiting \in [Terminals -> Handlers \cup {NoHandler}]
  /\ pin \in [Employees -> Pins \cup {NoPin}]
  /\ autoCode \in [Employees -> Pins \cup {NoPin}]
  /\ creator \in [Employees -> Handlers \cup {NoHandler}]
  /\ edits \in 0..MaxEdits
  /\ hadPin \in [Employees -> SUBSET Pins]
  /\ stored \in [Punches -> Employees \cup {NoEmployee, NotStored}]
  /\ presence \in [Employees -> 0..MaxPunches]
  /\ waived \subseteq Punches
  /\ pc \in [Handlers -> {"idle", "sent", "mapped"}]
  /\ at \in [Handlers -> Terminals \cup {NoTerminal}]
  /\ batch \in [Handlers -> SUBSET Punches]
  /\ found \in [Handlers -> [Pins -> Employees \cup {NoEmployee}]]
  /\ missing \in [Handlers -> SUBSET Pins]

\* A terminal forgets a punch only once its row is committed (or nobody read
\* the push), whatever is sent twice, answered late, rolled back or cut short.
ForgottenIsStored ==
  \A n \in 1..clock :
    \/ n \in unsent[punch[n].terminal]
    \/ stored[n] # NotStored
    \/ n \in waived

\* A row is attributed to nobody or to an employee who has or had the PIN that
\* punched, whatever PINs are handed on while pushes are being served.
AttributionValid ==
  \A n \in 1..clock : stored[n] \in Employees => punch[n].pin \in hadPin[stored[n]]

\* Somebody shown as present has a stored check-in of the time shown.
PresenceBacked ==
  \A e \in Employees : presence[e] # 0 =>
    /\ stored[presence[e]] # NotStored
    /\ punch[presence[e]].kind = "in"
    /\ punch[presence[e]].pin \in hadPin[e]

\* A punch at a terminal the tenant has onboarded gets its row in the end, in
\* spite of slow, lost, rolled back, overlapping and deadlocked pushes.
Arrives(n) == stored[n] # NotStored \/ punch[n].terminal \notin known
PunchesArrive == \A n \in Punches : n <= clock ~> Arrives(n)

------------------------------------------------------------------------------
\* The log this ingestion implements.
Abstract == INSTANCE PunchLog
              WITH happened <- clock, recorded <- stored, Unrecorded <- NotStored,
                   kept <- UNION {unsent[t] : t \in Terminals},
                   Entry <- Employees \cup {NoEmployee}

\* Every step punches, records and forgets as the log allows, or does nothing.
ImplementsPunchLog == Abstract!Spec
===============================================================================
