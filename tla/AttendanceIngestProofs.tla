------------------------- MODULE AttendanceIngestProofs -------------------------
(***************************************************************************)
(* Proofs about AttendanceIngest, for every number of terminals, PINs,     *)
(* pushes, employees and punches: nothing is forgotten that is not stored, *)
(* rows and presence are attributed to people who have or had the PIN, and *)
(* ingestion implements PunchLog.                                          *)
(*                                                                         *)
(* Attribution is not evident because a push acts on a PIN map it read     *)
(* earlier and on employees it created itself, while other pushes roll     *)
(* back and PINs change: the proof rests on a map naming only employees    *)
(* that are committed or the push's own (MapsAreOwn), so that no rollback  *)
(* of another push can take away an employee it is about to write.         *)
(***************************************************************************)
EXTENDS AttendanceIngest, WellFoundedInduction, TLAPS

\* What terminals keep and pushes carry has happened, and so has what is stored.
PunchesAreReal ==
  /\ \A n \in 1..clock : punch[n].terminal \in Terminals /\ punch[n].pin \in Pins
  /\ \A t \in Terminals : \A n \in unsent[t] : n <= clock /\ punch[n].terminal = t
  /\ \A h \in Handlers : \A n \in batch[h] : n <= clock
  /\ \A n \in waived : n <= clock
  /\ \A n \in Punches : n > clock => stored[n] = NotStored

\* A push has a map only between reading the PINs and its end.
PushesInOrder ==
  \A h \in Handlers :
    /\ pc[h] # "idle" => at[h] \in Terminals
    /\ pc[h] # "mapped" => found[h] = NoMap /\ missing[h] = {}

\* Ids without a PIN are free; an uncommitted row has a push under way.
RowsInOrder ==
  \A e \in Employees :
    /\ pin[e] = NoPin => hadPin[e] = {} /\ creator[e] = NoHandler
    /\ pin[e] # NoPin => pin[e] \in hadPin[e]
    /\ creator[e] # NoHandler => pc[creator[e]] = "mapped"

\* A map names employees who have or had the PIN and that nobody else can undo.
MapsAreOwn ==
  \A h \in Handlers, p \in Pins, e \in Employees :
    found[h][p] = e =>
      pin[e] # NoPin /\ p \in hadPin[e] /\ creator[e] \in {h, NoHandler}

\* Attendance and presence refer to committed employees only.
LogIsCommitted ==
  /\ \A n \in Punches : stored[n] \in Employees => Committed(stored[n])
  /\ \A e \in Employees : presence[e] # 0 => Committed(e) /\ presence[e] <= clock

IInv ==
  /\ TypeOK
  /\ PunchesAreReal
  /\ PushesInOrder
  /\ RowsInOrder
  /\ MapsAreOwn
  /\ LogIsCommitted
  /\ ForgottenIsStored
  /\ AttributionValid
  /\ PresenceBacked

LEMMA InitInv == Init => IInv
<1> SUFFICES ASSUME Init
             PROVE  IInv
  OBVIOUS
<1> USE BoundsAssumption, PolicyAssumption, SentinelAssumption DEF Init, Punches, Employees
<1>1. TypeOK
  BY DEF TypeOK, NoPunch, NoMap
<1>2. PunchesAreReal /\ PushesInOrder /\ RowsInOrder /\ LogIsCommitted
  BY DEF PunchesAreReal, PushesInOrder, RowsInOrder, LogIsCommitted
<1>3. MapsAreOwn
  BY DEF MapsAreOwn, NoMap
<1>4. ForgottenIsStored /\ AttributionValid /\ PresenceBacked
  BY DEF ForgottenIsStored, AttributionValid, PresenceBacked
<1> QED
  BY <1>1, <1>2, <1>3, <1>4 DEF IInv

\* The kinds of steps: whatever ends a push in a rollback is one of them.
LEMMA StepCases ==
  ASSUME [Next]_vars
  PROVE  \/ \E t \in Terminals, p \in Pins, k \in Kinds : Punch(t, p, k)
         \/ \E t \in Terminals, h \in Handlers : Send(t, h)
         \/ \E t \in Terminals : Timeout(t) \/ Reinit(t) \/ Disable(t)
         \/ \E h \in Handlers : Unread(h) \/ ReadPins(h) \/ Store(h)
         \/ \E h \in Handlers, p \in Pins : AutoCreateEmployee(h, p)
         \/ \E h \in Handlers : pc[h] # "idle" /\ Fail(h)
         \/ \E p \in Pins : Hire(p)
         \/ \E e \in Employees, p \in Pins : ChangePin(e, p)
         \/ UNCHANGED vars
BY DEF Next, Serve, Throttle, TurnAway, AutoCreateFails, DeadlockVictim, Crash

\* A nonempty set of punches has a last one.
LEMMA LastExists ==
  ASSUME NEW S, S \subseteq Punches, S # {}
  PROVE  \E n \in S : \A m \in S : m <= n
<1> DEFINE T == {MaxPunches - n : n \in S}
<1>1. T \subseteq Nat /\ T # {}
  <2>1. \A n \in Punches : MaxPunches - n \in Nat
    BY BoundsAssumption DEF Punches
  <2>2. PICK n \in S : TRUE
    OBVIOUS
  <2> QED
    BY <2>1, <2>2
<1>2. PICK x \in T : \A y \in T : <<y, x>> \notin OpToRel(<, Nat)
  <2>1. IsWellFoundedOn(OpToRel(<, Nat), Nat)
    BY NatLessThanWellFounded
  <2> QED
    BY <1>1, <2>1, WFMin, Zenon
<1>3. PICK n \in S : x = MaxPunches - n
  OBVIOUS
<1>4. ASSUME NEW m \in S
      PROVE  m <= n
  <2>1. MaxPunches - m \in T /\ MaxPunches - m \in Nat /\ x \in Nat
    BY <1>1
  <2>2. ~(MaxPunches - m < x)
    BY <1>2, <2>1 DEF OpToRel
  <2> QED
    BY <2>2, <1>3, BoundsAssumption DEF Punches
<1> QED
  BY <1>4

\* Presence is left alone, taken back, or set to a check-in of the batch.
LEMMA PresenceCases ==
  ASSUME TypeOK, NEW h \in Handlers, NEW e \in Employees
  PROVE  \/ PresenceBy(h)[e] \in {0, presence[e]}
         \/ /\ PresenceBy(h)[e] \in batch[h]
            /\ found[h][punch[PresenceBy(h)[e]].pin] = e
            /\ punch[PresenceBy(h)[e]].kind = "in"
<1> DEFINE about == {n \in batch[h] : found[h][punch[n].pin] = e}
           last == CHOOSE n \in about : \A m \in about : m <= n
<1>1. PresenceBy(h)[e] =
        IF about = {} THEN presence[e] ELSE IF punch[last].kind = "in" THEN last ELSE 0
  BY DEF PresenceBy
<1>2. ASSUME about # {}
      PROVE  last \in about
  <2>1. about \subseteq Punches
    BY DEF TypeOK
  <2>2. \E n \in about : \A m \in about : m <= n
    BY <1>2, <2>1, LastExists
  <2> QED
    BY <2>2
<1> HIDE DEF last
<1> QED
  BY <1>1, <1>2

\* The answer to a push: the terminal forgets what was carried at most, and only
\* after an OK.
Answered(h, ok) ==
  /\ unsent' \in [Terminals -> SUBSET Punches]
  /\ waiting' \in [Terminals -> Handlers \cup {NoHandler}]
  /\ \A t \in Terminals : unsent'[t] \subseteq unsent[t]
  /\ \A t \in Terminals : \A n \in unsent[t] \ unsent'[t] : ok /\ n \in batch[h]
  /\ pc' = [pc EXCEPT ![h] = "idle"]
  /\ at' = [at EXCEPT ![h] = NoTerminal]
  /\ batch' = [batch EXCEPT ![h] = {}]
  /\ found' = [found EXCEPT ![h] = NoMap]
  /\ missing' = [missing EXCEPT ![h] = {}]

LEMMA AnswerFacts ==
  IInv => \A h \in Handlers, ok \in BOOLEAN :
            pc[h] # "idle" /\ Answer(h, ok) => Answered(h, ok)
<1> SUFFICES ASSUME IInv, NEW h \in Handlers, NEW ok \in BOOLEAN,
                    pc[h] # "idle", Answer(h, ok)
             PROVE  Answered(h, ok)
  OBVIOUS
<1>1. at[h] \in Terminals
  BY DEF IInv, PushesInOrder
<1>2. waiting' = waiting \/ waiting' = [waiting EXCEPT ![at[h]] = NoHandler]
  BY DEF Answer
<1>3. unsent' = unsent \/ (ok /\ unsent' = [unsent EXCEPT ![at[h]] = @ \ batch[h]])
  BY DEF Answer
<1>4. waiting' \in [Terminals -> Handlers \cup {NoHandler}]
  BY <1>2 DEF IInv, TypeOK
<1>5. /\ unsent' \in [Terminals -> SUBSET Punches]
      /\ \A t \in Terminals : unsent'[t] \subseteq unsent[t]
      /\ \A t \in Terminals : \A n \in unsent[t] \ unsent'[t] : ok /\ n \in batch[h]
  <2>1. CASE unsent' = unsent
    BY <2>1 DEF IInv, TypeOK
  <2>2. CASE ok /\ unsent' = [unsent EXCEPT ![at[h]] = unsent[at[h]] \ batch[h]]
    <3>1. unsent \in [Terminals -> SUBSET Punches]
      BY DEF IInv, TypeOK
    <3>2. unsent[at[h]] \ batch[h] \in SUBSET Punches
      BY <1>1, <3>1
    <3>3. \A t \in Terminals :
            unsent'[t] = IF t = at[h] THEN unsent[t] \ batch[h] ELSE unsent[t]
      BY <2>2, <3>1
    <3> QED
      BY <2>2, <3>1, <3>2, <3>3
  <2> QED
    BY <1>3, <2>1, <2>2
<1> QED
  BY <1>4, <1>5 DEF Answer, Answered

LEMMA NewRowTypeOK ==
  ASSUME TypeOK, NEW h \in Handlers \cup {NoHandler}, NEW p \in Pins,
         NEW e \in Employees, NEW code \in Pins \cup {NoPin}, NewRow(e, p, code, h)
  PROVE  /\ pin' \in [Employees -> Pins \cup {NoPin}]
         /\ autoCode' \in [Employees -> Pins \cup {NoPin}]
         /\ creator' \in [Employees -> Handlers \cup {NoHandler}]
         /\ edits' \in 0..MaxEdits
         /\ hadPin' \in [Employees -> SUBSET Pins]
BY DEF TypeOK, NewRow

LEMMA NextTypeOK == IInv /\ [Next]_vars => TypeOK'
<1> SUFFICES ASSUME IInv, [Next]_vars
             PROVE  TypeOK'
  OBVIOUS
<1>a. \A h \in Handlers, ok \in BOOLEAN :
        pc[h] # "idle" /\ Answer(h, ok) => Answered(h, ok)
  BY AnswerFacts
<1> USE BoundsAssumption, PolicyAssumption, SentinelAssumption
    DEF IInv, TypeOK, Punches, Employees, staff, log, pushes, devices
<1>1. ASSUME NEW t \in Terminals, NEW p \in Pins, NEW k \in Kinds, Punch(t, p, k)
      PROVE  TypeOK'
  <2>1. [terminal |-> t, pin |-> p, kind |-> k] \in
          [terminal : Terminals \cup {NoTerminal}, pin : Pins \cup {NoPin},
           kind : {"in", "out"}]
    OBVIOUS
  <2>2. clock + 1 \in 1..MaxPunches /\ clock' \in 0..MaxPunches
    BY <1>1 DEF Punch
  <2>3. punch' \in [Punches -> [terminal : Terminals \cup {NoTerminal},
                                pin : Pins \cup {NoPin}, kind : {"in", "out"}]]
    BY <1>1, <2>1 DEF Punch
  <2>4. unsent' \in [Terminals -> SUBSET Punches]
    BY <1>1, <2>2 DEF Punch
  <2> QED
    BY <1>1, <2>2, <2>3, <2>4 DEF Punch
<1>2. ASSUME NEW t \in Terminals, NEW h \in Handlers, Send(t, h) PROVE TypeOK'
  BY <1>2 DEF Send
<1>3. ASSUME NEW t \in Terminals, Timeout(t) PROVE TypeOK'
  BY <1>3 DEF Timeout
<1>4. ASSUME NEW t \in Terminals, Reinit(t) PROVE TypeOK'
  <2>1. {n \in 1..clock : punch[n].terminal = t} \in SUBSET Punches
    OBVIOUS
  <2>2. unsent' \in [Terminals -> SUBSET Punches]
    BY <1>4, <2>1 DEF Reinit
  <2> QED
    BY <1>4, <2>2 DEF Reinit
<1>5. ASSUME NEW t \in Terminals, Disable(t) PROVE TypeOK'
  BY <1>5 DEF Disable
<1>6. ASSUME NEW h \in Handlers, Unread(h) PROVE TypeOK'
  <2>1. Answered(h, TRUE)
    BY <1>6, <1>a DEF Unread
  <2>2. NoMap \in [Pins -> Employees \cup {NoEmployee}]
    BY DEF NoMap
  <2> QED
    BY <1>6, <2>1, <2>2 DEF Unread, Answered
<1>7. ASSUME NEW h \in Handlers, ReadPins(h) PROVE TypeOK'
  <2>1. PICK m \in [Pins -> Employees \cup {NoEmployee}] :
          /\ found' = [found EXCEPT ![h] = m]
          /\ \E auto \in AutoCreate : missing' = [missing EXCEPT ![h] =
                           {p \in PinsOf(batch[h]) : auto /\ m[p] = NoEmployee}]
    BY <1>7 DEF ReadPins
  <2>2. PinsOf(batch[h]) \subseteq Pins
    BY DEF PinsOf, PunchesAreReal
  <2> QED
    BY <1>7, <2>1, <2>2 DEF ReadPins
<1>8. ASSUME NEW h \in Handlers, Store(h) PROVE TypeOK'
  <2>1. stored' \in [Punches -> Employees \cup {NoEmployee, NotStored}]
    <3>1. \A n \in batch[h] : punch[n].pin \in Pins
      BY DEF PunchesAreReal
    <3> QED
      BY <1>8, <3>1 DEF Store, StoredBy
  <2>2. presence' \in [Employees -> 0..MaxPunches]
    <3>1. \A e \in Employees : PresenceBy(h)[e] \in 0..MaxPunches
      BY PresenceCases
    <3>2. presence' = [e \in Employees |-> PresenceBy(h)[e]]
      BY <1>8 DEF Store, PresenceBy
    <3> QED
      BY <3>1, <3>2
  <2>3. creator' \in [Employees -> Handlers \cup {NoHandler}]
    BY <1>8 DEF Store
  <2>4. Answered(h, TRUE)
    BY <1>8, <1>a DEF Store
  <2>5. NoMap \in [Pins -> Employees \cup {NoEmployee}]
    BY DEF NoMap
  <2> QED
    BY <1>8, <2>1, <2>2, <2>3, <2>4, <2>5 DEF Store, Answered
<1>9. ASSUME NEW h \in Handlers, NEW p \in Pins, AutoCreateEmployee(h, p) PROVE TypeOK'
  <2>1. CASE UNCHANGED <<staff, found>>
    BY <1>9, <2>1 DEF AutoCreateEmployee
  <2>2. ASSUME NEW e \in Employees, NewRow(e, p, p, h), found' = [found EXCEPT ![h][p] = e]
        PROVE  TypeOK'
    BY <1>9, <2>2, NewRowTypeOK DEF AutoCreateEmployee
  <2> QED
    BY <1>9, <2>1, <2>2 DEF AutoCreateEmployee, InsertEmployee
<1>10. ASSUME NEW h \in Handlers, pc[h] # "idle", Fail(h) PROVE TypeOK'
  <2>1. Answered(h, FALSE)
    BY <1>10, <1>a DEF Fail
  <2>2. NoMap \in [Pins -> Employees \cup {NoEmployee}]
    BY DEF NoMap
  <2> QED
    BY <1>10, <2>1, <2>2 DEF Fail, Undo, Answered
<1>11. ASSUME NEW p \in Pins, Hire(p) PROVE TypeOK'
  BY <1>11, NewRowTypeOK DEF Hire
<1>12. ASSUME NEW e \in Employees, NEW p \in Pins, ChangePin(e, p) PROVE TypeOK'
  BY <1>12 DEF ChangePin
<1>13. CASE UNCHANGED vars
  BY <1>13 DEF vars
<1> QED
  BY <1>1, <1>2, <1>3, <1>4, <1>5, <1>6, <1>7, <1>8, <1>9, <1>10, <1>11, <1>12, <1>13,
     StepCases

LEMMA NextPunchesAreReal == IInv /\ [Next]_vars => PunchesAreReal'
<1> SUFFICES ASSUME IInv, [Next]_vars
             PROVE  PunchesAreReal'
  OBVIOUS
<1>a. \A h \in Handlers, ok \in BOOLEAN :
        pc[h] # "idle" /\ Answer(h, ok) => Answered(h, ok)
  BY AnswerFacts
<1> USE BoundsAssumption, PolicyAssumption, SentinelAssumption
    DEF IInv, TypeOK, Punches, Employees, staff, log, pushes, devices,
        PunchesAreReal
<1>1. ASSUME NEW t \in Terminals, NEW p \in Pins, NEW k \in Kinds, Punch(t, p, k)
      PROVE  PunchesAreReal'
  BY <1>1 DEF Punch
<1>2. ASSUME NEW t \in Terminals, NEW h \in Handlers, Send(t, h) PROVE PunchesAreReal'
  BY <1>2 DEF Send
<1>3. ASSUME NEW t \in Terminals, Timeout(t) PROVE PunchesAreReal'
  BY <1>3 DEF Timeout
<1>4. ASSUME NEW t \in Terminals, Reinit(t) PROVE PunchesAreReal'
  BY <1>4 DEF Reinit
<1>5. ASSUME NEW t \in Terminals, Disable(t) PROVE PunchesAreReal'
  BY <1>5 DEF Disable
<1>6. ASSUME NEW h \in Handlers, Unread(h) PROVE PunchesAreReal'
  <2>1. Answered(h, TRUE)
    BY <1>6, <1>a DEF Unread
  <2> QED
    BY <1>6, <2>1 DEF Unread, Answered
<1>7. ASSUME NEW h \in Handlers, ReadPins(h) PROVE PunchesAreReal'
  BY <1>7 DEF ReadPins
<1>8. ASSUME NEW h \in Handlers, Store(h) PROVE PunchesAreReal'
  <2>1. Answered(h, TRUE)
    BY <1>8, <1>a DEF Store
  <2> QED
    BY <1>8, <2>1 DEF Store, StoredBy, Answered
<1>9. ASSUME NEW h \in Handlers, NEW p \in Pins, AutoCreateEmployee(h, p)
      PROVE  PunchesAreReal'
  BY <1>9 DEF AutoCreateEmployee
<1>10. ASSUME NEW h \in Handlers, pc[h] # "idle", Fail(h) PROVE PunchesAreReal'
  <2>1. Answered(h, FALSE)
    BY <1>10, <1>a DEF Fail
  <2> QED
    BY <1>10, <2>1 DEF Fail, Undo, Answered
<1>11. ASSUME NEW p \in Pins, Hire(p) PROVE PunchesAreReal'
  BY <1>11 DEF Hire
<1>12. ASSUME NEW e \in Employees, NEW p \in Pins, ChangePin(e, p) PROVE PunchesAreReal'
  BY <1>12 DEF ChangePin
<1>13. CASE UNCHANGED vars
  BY <1>13 DEF vars
<1> QED
  BY <1>1, <1>2, <1>3, <1>4, <1>5, <1>6, <1>7, <1>8, <1>9, <1>10, <1>11, <1>12, <1>13,
     StepCases

LEMMA NextPushesInOrder == IInv /\ [Next]_vars => PushesInOrder'
<1> SUFFICES ASSUME IInv, [Next]_vars
             PROVE  PushesInOrder'
  OBVIOUS
<1>a. \A h \in Handlers, ok \in BOOLEAN :
        pc[h] # "idle" /\ Answer(h, ok) => Answered(h, ok)
  BY AnswerFacts
<1> USE BoundsAssumption, PolicyAssumption, SentinelAssumption
    DEF IInv, TypeOK, Punches, Employees, staff, log, pushes, devices,
        PushesInOrder
<1>1. ASSUME NEW t \in Terminals, NEW p \in Pins, NEW k \in Kinds, Punch(t, p, k)
      PROVE  PushesInOrder'
  BY <1>1 DEF Punch
<1>2. ASSUME NEW t \in Terminals, NEW h \in Handlers, Send(t, h) PROVE PushesInOrder'
  BY <1>2 DEF Send
<1>3. ASSUME NEW t \in Terminals, Timeout(t) PROVE PushesInOrder'
  BY <1>3 DEF Timeout
<1>4. ASSUME NEW t \in Terminals, Reinit(t) PROVE PushesInOrder'
  BY <1>4 DEF Reinit
<1>5. ASSUME NEW t \in Terminals, Disable(t) PROVE PushesInOrder'
  BY <1>5 DEF Disable
<1>6. ASSUME NEW h \in Handlers, Unread(h) PROVE PushesInOrder'
  <2>1. Answered(h, TRUE)
    BY <1>6, <1>a DEF Unread
  <2> QED
    BY <1>6, <2>1 DEF Unread, Answered
<1>7. ASSUME NEW h \in Handlers, ReadPins(h) PROVE PushesInOrder'
  BY <1>7 DEF ReadPins
<1>8. ASSUME NEW h \in Handlers, Store(h) PROVE PushesInOrder'
  <2>1. Answered(h, TRUE)
    BY <1>8, <1>a DEF Store
  <2> QED
    BY <1>8, <2>1 DEF Store, Answered
<1>9. ASSUME NEW h \in Handlers, NEW p \in Pins, AutoCreateEmployee(h, p)
      PROVE  PushesInOrder'
  BY <1>9 DEF AutoCreateEmployee, InsertEmployee
<1>10. ASSUME NEW h \in Handlers, pc[h] # "idle", Fail(h) PROVE PushesInOrder'
  <2>1. Answered(h, FALSE)
    BY <1>10, <1>a DEF Fail
  <2> QED
    BY <1>10, <2>1 DEF Fail, Undo, Answered
<1>11. ASSUME NEW p \in Pins, Hire(p) PROVE PushesInOrder'
  BY <1>11 DEF Hire
<1>12. ASSUME NEW e \in Employees, NEW p \in Pins, ChangePin(e, p) PROVE PushesInOrder'
  BY <1>12 DEF ChangePin
<1>13. CASE UNCHANGED vars
  BY <1>13 DEF vars
<1> QED
  BY <1>1, <1>2, <1>3, <1>4, <1>5, <1>6, <1>7, <1>8, <1>9, <1>10, <1>11, <1>12, <1>13,
     StepCases

LEMMA NextRowsInOrder == IInv /\ [Next]_vars => RowsInOrder'
<1> SUFFICES ASSUME IInv, [Next]_vars
             PROVE  RowsInOrder'
  OBVIOUS
<1>a. \A h \in Handlers, ok \in BOOLEAN :
        pc[h] # "idle" /\ Answer(h, ok) => Answered(h, ok)
  BY AnswerFacts
<1> USE BoundsAssumption, PolicyAssumption, SentinelAssumption
    DEF IInv, TypeOK, Punches, Employees, staff, log, pushes, devices,
        RowsInOrder, PushesInOrder
<1>1. ASSUME NEW t \in Terminals, NEW p \in Pins, NEW k \in Kinds, Punch(t, p, k)
      PROVE  RowsInOrder'
  BY <1>1 DEF Punch
<1>2. ASSUME NEW t \in Terminals, NEW h \in Handlers, Send(t, h) PROVE RowsInOrder'
  BY <1>2 DEF Send
<1>3. ASSUME NEW t \in Terminals, Timeout(t) PROVE RowsInOrder'
  BY <1>3 DEF Timeout
<1>4. ASSUME NEW t \in Terminals, Reinit(t) PROVE RowsInOrder'
  BY <1>4 DEF Reinit
<1>5. ASSUME NEW t \in Terminals, Disable(t) PROVE RowsInOrder'
  BY <1>5 DEF Disable
<1>6. ASSUME NEW h \in Handlers, Unread(h) PROVE RowsInOrder'
  <2>1. Answered(h, TRUE)
    BY <1>6, <1>a DEF Unread
  <2> QED
    BY <1>6, <2>1 DEF Unread, Answered
<1>7. ASSUME NEW h \in Handlers, ReadPins(h) PROVE RowsInOrder'
  BY <1>7 DEF ReadPins
<1>8. ASSUME NEW h \in Handlers, Store(h) PROVE RowsInOrder'
  <2>1. Answered(h, TRUE)
    BY <1>8, <1>a DEF Store
  <2> QED
    BY <1>8, <2>1 DEF Store, Answered
<1>9. ASSUME NEW h \in Handlers, NEW p \in Pins, AutoCreateEmployee(h, p)
      PROVE  RowsInOrder'
  BY <1>9 DEF AutoCreateEmployee, InsertEmployee, NewRow
<1>10. ASSUME NEW h \in Handlers, pc[h] # "idle", Fail(h) PROVE RowsInOrder'
  <2>1. Answered(h, FALSE)
    BY <1>10, <1>a DEF Fail
  <2> QED
    BY <1>10, <2>1 DEF Fail, Undo, Answered
<1>11. ASSUME NEW p \in Pins, Hire(p) PROVE RowsInOrder'
  BY <1>11 DEF Hire, NewRow
<1>12. ASSUME NEW e \in Employees, NEW p \in Pins, ChangePin(e, p) PROVE RowsInOrder'
  BY <1>12 DEF ChangePin
<1>13. CASE UNCHANGED vars
  BY <1>13 DEF vars
<1> QED
  BY <1>1, <1>2, <1>3, <1>4, <1>5, <1>6, <1>7, <1>8, <1>9, <1>10, <1>11, <1>12, <1>13,
     StepCases

LEMMA NextMapsAreOwn == IInv /\ [Next]_vars => MapsAreOwn'
<1> SUFFICES ASSUME IInv, [Next]_vars
             PROVE  MapsAreOwn'
  OBVIOUS
<1>a. \A h \in Handlers, ok \in BOOLEAN :
        pc[h] # "idle" /\ Answer(h, ok) => Answered(h, ok)
  BY AnswerFacts
<1> USE BoundsAssumption, SentinelAssumption DEF IInv, staff, log, pushes, devices,
        MapsAreOwn, RowsInOrder
<1>1. ASSUME NEW t \in Terminals, NEW p \in Pins, NEW k \in Kinds, Punch(t, p, k)
      PROVE  MapsAreOwn'
  BY <1>1 DEF Punch
<1>2. ASSUME NEW t \in Terminals, NEW h \in Handlers, Send(t, h) PROVE MapsAreOwn'
  BY <1>2 DEF Send
<1>3. ASSUME NEW t \in Terminals, Timeout(t) PROVE MapsAreOwn'
  BY <1>3 DEF Timeout
<1>4. ASSUME NEW t \in Terminals, Reinit(t) PROVE MapsAreOwn'
  BY <1>4 DEF Reinit
<1>5. ASSUME NEW t \in Terminals, Disable(t) PROVE MapsAreOwn'
  BY <1>5 DEF Disable
<1>6. ASSUME NEW h \in Handlers, Unread(h) PROVE MapsAreOwn'
  <2>1. Answered(h, TRUE)
    BY <1>6, <1>a DEF Unread
  <2> QED
    BY <1>6, <2>1 DEF Unread, Answered, Employees, NoMap
<1>7. ASSUME NEW h \in Handlers, ReadPins(h) PROVE MapsAreOwn'
  <2>1. PICK m \in [Pins -> Employees \cup {NoEmployee}] :
          /\ \A p \in Pins :
               IF p \in PinsOf(batch[h]) /\ \E e \in Employees : Committed(e) /\ pin[e] = p
                 THEN m[p] \in Employees /\ Committed(m[p]) /\ pin[m[p]] = p
                 ELSE m[p] = NoEmployee
          /\ found' = [found EXCEPT ![h] = m]
    BY <1>7 DEF ReadPins
  <2>2. ASSUME NEW p \in Pins, NEW e \in Employees, m[p] = e
        PROVE  pin[e] # NoPin /\ p \in hadPin[e] /\ creator[e] = NoHandler
    <3>1. m[p] # NoEmployee
      BY <2>2 DEF Employees
    <3>2. Committed(e) /\ pin[e] = p
      BY <2>1, <2>2, <3>1
    <3> QED
      BY <3>2 DEF Committed
  <2>3. UNCHANGED <<pin, hadPin, creator>>
    BY <1>7 DEF ReadPins
  <2>4. \A g \in Handlers : found'[g] = IF g = h THEN m ELSE found[g]
    BY <2>1 DEF TypeOK
  <2>5. ASSUME NEW g \in Handlers, NEW p \in Pins, NEW e \in Employees, found'[g][p] = e
        PROVE  pin'[e] # NoPin /\ p \in hadPin'[e] /\ creator'[e] \in {g, NoHandler}
    BY <2>2, <2>3, <2>4, <2>5
  <2> QED
    BY <2>5
<1>8. ASSUME NEW h \in Handlers, Store(h) PROVE MapsAreOwn'
  <2>1. Answered(h, TRUE)
    BY <1>8, <1>a DEF Store
  <2> QED
    BY <1>8, <2>1 DEF Store, Answered, Employees, NoMap
<1>9. ASSUME NEW h \in Handlers, NEW p \in Pins, AutoCreateEmployee(h, p)
      PROVE  MapsAreOwn'
  <2>1. CASE UNCHANGED <<staff, found>>
    BY <2>1
  <2>2. ASSUME NEW e \in Employees, NewRow(e, p, p, h), found' = [found EXCEPT ![h][p] = e]
        PROVE  MapsAreOwn'
    <3>1. \A g \in Handlers, q \in Pins :
            found'[g][q] = IF g = h /\ q = p THEN e ELSE found[g][q]
      BY <2>2 DEF TypeOK
    <3>2. /\ pin[e] = NoPin /\ pin'[e] = p /\ hadPin'[e] = {p} /\ creator'[e] = h
          /\ \A f \in Employees \ {e} :
               pin'[f] = pin[f] /\ hadPin'[f] = hadPin[f] /\ creator'[f] = creator[f]
      BY <2>2 DEF NewRow, TypeOK
    <3>3. ASSUME NEW g \in Handlers, NEW q \in Pins, NEW f \in Employees, found'[g][q] = f
          PROVE  pin'[f] # NoPin /\ q \in hadPin'[f] /\ creator'[f] \in {g, NoHandler}
      BY <3>1, <3>2, <3>3
    <3> QED
      BY <3>3
  <2> QED
    BY <1>9, <2>1, <2>2 DEF AutoCreateEmployee, InsertEmployee
<1>10. ASSUME NEW h \in Handlers, pc[h] # "idle", Fail(h) PROVE MapsAreOwn'
  <2>1. Answered(h, FALSE)
    BY <1>10, <1>a DEF Fail
  <2> QED
    BY <1>10, <2>1 DEF Fail, Undo, Answered, TypeOK, Employees, NoMap
<1>11. ASSUME NEW p \in Pins, Hire(p) PROVE MapsAreOwn'
  BY <1>11 DEF Hire, NewRow
<1>12. ASSUME NEW e \in Employees, NEW p \in Pins, ChangePin(e, p) PROVE MapsAreOwn'
  BY <1>12 DEF ChangePin
<1>13. CASE UNCHANGED vars
  BY <1>13 DEF vars
<1> QED
  BY <1>1, <1>2, <1>3, <1>4, <1>5, <1>6, <1>7, <1>8, <1>9, <1>10, <1>11, <1>12, <1>13,
     StepCases

\* What a push that commits stores: its rows, and presence it has a check-in for.
Stores(h) ==
  /\ \A n \in Punches :
       \/ stored'[n] = stored[n]
       \/ /\ n \in batch[h] /\ n <= clock /\ punch[n].pin \in Pins
          /\ stored[n] = NotStored /\ stored'[n] = found[h][punch[n].pin]
  /\ \A n \in batch[h] : stored'[n] # NotStored
  /\ \A e \in Employees :
       \/ presence'[e] \in {0, presence[e]}
       \/ LET n == presence'[e] IN
          n \in batch[h] /\ n <= clock /\ punch[n].pin \in Pins
          /\ found[h][punch[n].pin] = e /\ punch[n].kind = "in"
  /\ \A e \in Employees :
       Committed(e) \/ (\E p \in Pins : found[h][p] = e) => Committed(e)'
  /\ UNCHANGED <<clock, punch, known, hadPin, waived>>

LEMMA StoreFacts == IInv => \A h \in Handlers : Store(h) => Stores(h)
<1> SUFFICES ASSUME IInv, NEW h \in Handlers, Store(h)
             PROVE  Stores(h)
  OBVIOUS
<1>1. TypeOK /\ PunchesAreReal /\ MapsAreOwn
  BY DEF IInv
<1>2. \A n \in batch[h] : n \in Punches /\ n <= clock /\ punch[n].pin \in Pins
  BY <1>1 DEF TypeOK, PunchesAreReal, Punches
<1>3. \A n \in Punches :
        stored'[n] = IF n \in batch[h] /\ stored[n] = NotStored
                       THEN found[h][punch[n].pin] ELSE stored[n]
  BY DEF Store, StoredBy
<1>4. \A p \in Pins : found[h][p] # NotStored
  BY <1>1, SentinelAssumption DEF TypeOK, Employees
<1>5. \A e \in Employees : presence'[e] = PresenceBy(h)[e]
  BY DEF Store
<1>6. ASSUME NEW e \in Employees
      PROVE  \/ presence'[e] \in {0, presence[e]}
             \/ LET n == presence'[e] IN
                n \in batch[h] /\ n <= clock /\ punch[n].pin \in Pins
                /\ found[h][punch[n].pin] = e /\ punch[n].kind = "in"
  BY <1>1, <1>2, <1>5, PresenceCases
<1>7. ASSUME NEW e \in Employees, Committed(e) \/ \E p \in Pins : found[h][p] = e
      PROVE  Committed(e)'
  <2>1. pin[e] # NoPin /\ creator[e] \in {h, NoHandler}
    BY <1>1, <1>7 DEF Committed, MapsAreOwn
  <2>2. pin' = pin /\ creator'[e] = IF creator[e] = h THEN NoHandler ELSE creator[e]
    BY DEF Store
  <2> QED
    BY <2>1, <2>2 DEF Committed
<1>8. UNCHANGED <<clock, punch, known, hadPin, waived>>
  BY DEF Store
<1> QED
  BY <1>2, <1>3, <1>4, <1>6, <1>7, <1>8 DEF Stores

LEMMA NextLogIsCommitted == IInv /\ [Next]_vars => LogIsCommitted'
<1> SUFFICES ASSUME IInv, [Next]_vars
             PROVE  LogIsCommitted'
  OBVIOUS
<1>a. \A h \in Handlers : Store(h) => Stores(h)
  BY StoreFacts
<1> USE BoundsAssumption, SentinelAssumption DEF IInv, staff, log, pushes, devices,
        LogIsCommitted
<1>1. ASSUME NEW t \in Terminals, NEW p \in Pins, NEW k \in Kinds, Punch(t, p, k)
      PROVE  LogIsCommitted'
  BY <1>1 DEF Punch, Committed, TypeOK
<1>2. ASSUME NEW t \in Terminals, NEW h \in Handlers, Send(t, h) PROVE LogIsCommitted'
  BY <1>2 DEF Send, Committed
<1>3. ASSUME NEW t \in Terminals, Timeout(t) PROVE LogIsCommitted'
  BY <1>3 DEF Timeout, Committed
<1>4. ASSUME NEW t \in Terminals, Reinit(t) PROVE LogIsCommitted'
  BY <1>4 DEF Reinit, Committed
<1>5. ASSUME NEW t \in Terminals, Disable(t) PROVE LogIsCommitted'
  BY <1>5 DEF Disable, Committed
<1>6. ASSUME NEW h \in Handlers, Unread(h) PROVE LogIsCommitted'
  BY <1>6 DEF Unread, Committed
<1>7. ASSUME NEW h \in Handlers, ReadPins(h) PROVE LogIsCommitted'
  BY <1>7 DEF ReadPins, Committed
<1>8. ASSUME NEW h \in Handlers, Store(h) PROVE LogIsCommitted'
  <2>1. Stores(h)
    BY <1>8, <1>a
  <2>2. ASSUME NEW n \in Punches, stored'[n] \in Employees
        PROVE  Committed(stored[n])'
    BY <2>1, <2>2 DEF Stores
  <2>3. ASSUME NEW e \in Employees, presence'[e] # 0
        PROVE  Committed(e)' /\ presence'[e] <= clock
    BY <2>1, <2>3 DEF Stores
  <2> QED
    BY <2>1, <2>2, <2>3 DEF Stores
<1>9. ASSUME NEW h \in Handlers, NEW p \in Pins, AutoCreateEmployee(h, p)
      PROVE  LogIsCommitted'
  BY <1>9 DEF AutoCreateEmployee, InsertEmployee, NewRow, Committed, TypeOK
<1>10. ASSUME NEW h \in Handlers, pc[h] # "idle", Fail(h) PROVE LogIsCommitted'
  BY <1>10 DEF Fail, Undo, Committed
<1>11. ASSUME NEW p \in Pins, Hire(p) PROVE LogIsCommitted'
  BY <1>11 DEF Hire, NewRow, Committed
<1>12. ASSUME NEW e \in Employees, NEW p \in Pins, ChangePin(e, p) PROVE LogIsCommitted'
  BY <1>12 DEF ChangePin, Committed
<1>13. CASE UNCHANGED vars
  BY <1>13 DEF vars, Committed
<1> QED
  BY <1>1, <1>2, <1>3, <1>4, <1>5, <1>6, <1>7, <1>8, <1>9, <1>10, <1>11, <1>12, <1>13,
     StepCases

LEMMA NextForgottenIsStored == IInv /\ [Next]_vars => ForgottenIsStored'
<1> SUFFICES ASSUME IInv, [Next]_vars
             PROVE  ForgottenIsStored'
  OBVIOUS
<1>a. \A h \in Handlers, ok \in BOOLEAN :
        pc[h] # "idle" /\ Answer(h, ok) => Answered(h, ok)
  BY AnswerFacts
<1>b. \A h \in Handlers : Store(h) => Stores(h)
  BY StoreFacts
<1> USE BoundsAssumption, SentinelAssumption DEF IInv, staff, log, pushes, devices,
        ForgottenIsStored, PunchesAreReal
<1>1. ASSUME NEW t \in Terminals, NEW p \in Pins, NEW k \in Kinds, Punch(t, p, k)
      PROVE  ForgottenIsStored'
  <2>1. /\ clock' = clock + 1 /\ clock + 1 \in Punches /\ UNCHANGED <<stored, waived>>
        /\ \A n \in 1..clock' : n \in 1..clock \/ n = clock + 1
    BY <1>1 DEF Punch, TypeOK, Punches, staff, log
  <2>2. \A n \in 1..clock : n \in Punches /\ punch'[n] = punch[n]
    BY <1>1 DEF Punch, TypeOK, Punches
  <2>3. /\ \A u \in Terminals : unsent[u] \subseteq unsent'[u]
        /\ clock + 1 \in unsent'[t] /\ punch'[clock + 1].terminal = t
    BY <1>1, <2>1 DEF Punch, TypeOK
  <2> QED
    BY <2>1, <2>2, <2>3
<1>2. ASSUME NEW t \in Terminals, NEW h \in Handlers, Send(t, h)
      PROVE  ForgottenIsStored'
  BY <1>2 DEF Send
<1>3. ASSUME NEW t \in Terminals, Timeout(t) PROVE ForgottenIsStored'
  BY <1>3 DEF Timeout
<1>4. ASSUME NEW t \in Terminals, Reinit(t) PROVE ForgottenIsStored'
  BY <1>4 DEF Reinit
<1>5. ASSUME NEW t \in Terminals, Disable(t) PROVE ForgottenIsStored'
  BY <1>5 DEF Disable
<1>6. ASSUME NEW h \in Handlers, Unread(h) PROVE ForgottenIsStored'
  <2>1. Answered(h, TRUE)
    BY <1>6, <1>a DEF Unread
  <2> QED
    BY <1>6, <2>1 DEF Unread, Answered
<1>7. ASSUME NEW h \in Handlers, ReadPins(h) PROVE ForgottenIsStored'
  BY <1>7 DEF ReadPins
<1>8. ASSUME NEW h \in Handlers, Store(h) PROVE ForgottenIsStored'
  <2>1. Stores(h)
    BY <1>8, <1>b
  <2>2. Answered(h, TRUE)
    BY <1>8, <1>a DEF Store
  <2>3. ASSUME NEW n \in 1..clock
        PROVE  \/ n \in unsent'[punch[n].terminal] \/ stored'[n] # NotStored \/ n \in waived
    <3>1. punch[n].terminal \in Terminals /\ n \in Punches
      BY DEF TypeOK, Punches
    <3>2. CASE n \in unsent[punch[n].terminal]
      BY <2>1, <2>2, <3>1, <3>2 DEF Stores, Answered
    <3>3. CASE stored[n] # NotStored
      BY <2>1, <3>1, <3>3 DEF Stores
    <3> QED
      BY <3>2, <3>3
  <2> QED
    BY <2>1, <2>3 DEF Stores
<1>9. ASSUME NEW h \in Handlers, NEW p \in Pins, AutoCreateEmployee(h, p)
      PROVE  ForgottenIsStored'
  BY <1>9 DEF AutoCreateEmployee
<1>10. ASSUME NEW h \in Handlers, pc[h] # "idle", Fail(h) PROVE ForgottenIsStored'
  <2>1. Answered(h, FALSE)
    BY <1>10, <1>a DEF Fail
  <2> QED
    BY <1>10, <2>1 DEF Fail, Undo, Answered
<1>11. ASSUME NEW p \in Pins, Hire(p) PROVE ForgottenIsStored'
  BY <1>11 DEF Hire
<1>12. ASSUME NEW e \in Employees, NEW p \in Pins, ChangePin(e, p)
       PROVE  ForgottenIsStored'
  BY <1>12 DEF ChangePin
<1>13. CASE UNCHANGED vars
  BY <1>13 DEF vars
<1> QED
  BY <1>1, <1>2, <1>3, <1>4, <1>5, <1>6, <1>7, <1>8, <1>9, <1>10, <1>11, <1>12, <1>13,
     StepCases

LEMMA NextAttributionValid == IInv /\ [Next]_vars => AttributionValid'
<1> SUFFICES ASSUME IInv, [Next]_vars
             PROVE  AttributionValid'
  OBVIOUS
<1>a. \A h \in Handlers : Store(h) => Stores(h)
  BY StoreFacts
<1> USE BoundsAssumption, SentinelAssumption DEF IInv, staff, log, pushes, devices,
        AttributionValid
<1>1. ASSUME NEW t \in Terminals, NEW p \in Pins, NEW k \in Kinds, Punch(t, p, k)
      PROVE  AttributionValid'
  <2>1. /\ clock' = clock + 1 /\ clock + 1 \in Punches /\ UNCHANGED <<stored, hadPin>>
        /\ \A n \in 1..clock' : n \in 1..clock \/ n = clock + 1
    BY <1>1 DEF Punch, TypeOK, Punches, staff, log
  <2>2. \A n \in 1..clock : n \in Punches /\ punch'[n] = punch[n]
    BY <1>1 DEF Punch, TypeOK, Punches
  <2>3. stored[clock + 1] = NotStored
    BY <2>1 DEF PunchesAreReal, TypeOK
  <2>4. stored[clock + 1] \notin Employees
    BY <2>3 DEF Employees
  <2> QED
    BY <2>1, <2>2, <2>4
<1>2. ASSUME NEW t \in Terminals, NEW h \in Handlers, Send(t, h) PROVE AttributionValid'
  BY <1>2 DEF Send
<1>3. ASSUME NEW t \in Terminals, Timeout(t) PROVE AttributionValid'
  BY <1>3 DEF Timeout
<1>4. ASSUME NEW t \in Terminals, Reinit(t) PROVE AttributionValid'
  BY <1>4 DEF Reinit
<1>5. ASSUME NEW t \in Terminals, Disable(t) PROVE AttributionValid'
  BY <1>5 DEF Disable
<1>6. ASSUME NEW h \in Handlers, Unread(h) PROVE AttributionValid'
  BY <1>6 DEF Unread
<1>7. ASSUME NEW h \in Handlers, ReadPins(h) PROVE AttributionValid'
  BY <1>7 DEF ReadPins
<1>8. ASSUME NEW h \in Handlers, Store(h) PROVE AttributionValid'
  <2>1. Stores(h)
    BY <1>8, <1>a
  <2>2. ASSUME NEW n \in 1..clock, stored'[n] \in Employees
        PROVE  punch[n].pin \in hadPin[stored'[n]]
    <3>1. n \in Punches
      BY DEF TypeOK, Punches
    <3> QED
      BY <2>1, <2>2, <3>1 DEF Stores, MapsAreOwn
  <2> QED
    BY <2>1, <2>2 DEF Stores
<1>9. ASSUME NEW h \in Handlers, NEW p \in Pins, AutoCreateEmployee(h, p)
      PROVE  AttributionValid'
  <2>1. CASE UNCHANGED <<staff, found>>
    BY <1>9, <2>1 DEF AutoCreateEmployee
  <2>2. ASSUME NEW e \in Employees, NewRow(e, p, p, h)
        PROVE  AttributionValid'
    <3>1. pin[e] = NoPin /\ \A f \in Employees \ {e} : hadPin'[f] = hadPin[f]
      BY <2>2 DEF NewRow
    <3>2. UNCHANGED <<clock, punch, stored, presence>>
      BY <1>9 DEF AutoCreateEmployee
    <3>3. \A n \in 1..clock : stored[n] \in Employees => stored[n] # e
      BY <3>1 DEF LogIsCommitted, Committed, TypeOK, Punches
    <3> QED
      BY <3>1, <3>2, <3>3
  <2> QED
    BY <1>9, <2>1, <2>2 DEF AutoCreateEmployee, InsertEmployee
<1>10. ASSUME NEW h \in Handlers, pc[h] # "idle", Fail(h) PROVE AttributionValid'
  <2>1. UNCHANGED <<clock, punch, stored, presence>>
    BY <1>10 DEF Fail
  <2>2. \A e \in Employees : Committed(e) => hadPin'[e] = hadPin[e]
    BY <1>10 DEF Fail, Undo, Committed
  <2> QED
    BY <2>1, <2>2 DEF LogIsCommitted, TypeOK, Punches
<1>11. ASSUME NEW p \in Pins, Hire(p) PROVE AttributionValid'
  BY <1>11 DEF Hire, NewRow, RowsInOrder
<1>12. ASSUME NEW e \in Employees, NEW p \in Pins, ChangePin(e, p)
       PROVE  AttributionValid'
  BY <1>12 DEF ChangePin
<1>13. CASE UNCHANGED vars
  BY <1>13 DEF vars
<1> QED
  BY <1>1, <1>2, <1>3, <1>4, <1>5, <1>6, <1>7, <1>8, <1>9, <1>10, <1>11, <1>12, <1>13,
     StepCases

LEMMA NextPresenceBacked == IInv /\ [Next]_vars => PresenceBacked'
<1> SUFFICES ASSUME IInv, [Next]_vars
             PROVE  PresenceBacked'
  OBVIOUS
<1>a. \A h \in Handlers : Store(h) => Stores(h)
  BY StoreFacts
<1> USE BoundsAssumption, SentinelAssumption DEF IInv, staff, log, pushes, devices,
        PresenceBacked
<1>1. ASSUME NEW t \in Terminals, NEW p \in Pins, NEW k \in Kinds, Punch(t, p, k)
      PROVE  PresenceBacked'
  BY <1>1 DEF Punch, TypeOK, PunchesAreReal
<1>2. ASSUME NEW t \in Terminals, NEW h \in Handlers, Send(t, h) PROVE PresenceBacked'
  BY <1>2 DEF Send
<1>3. ASSUME NEW t \in Terminals, Timeout(t) PROVE PresenceBacked'
  BY <1>3 DEF Timeout
<1>4. ASSUME NEW t \in Terminals, Reinit(t) PROVE PresenceBacked'
  BY <1>4 DEF Reinit
<1>5. ASSUME NEW t \in Terminals, Disable(t) PROVE PresenceBacked'
  BY <1>5 DEF Disable
<1>6. ASSUME NEW h \in Handlers, Unread(h) PROVE PresenceBacked'
  BY <1>6 DEF Unread
<1>7. ASSUME NEW h \in Handlers, ReadPins(h) PROVE PresenceBacked'
  BY <1>7 DEF ReadPins
<1>8. ASSUME NEW h \in Handlers, Store(h) PROVE PresenceBacked'
  <2>1. Stores(h)
    BY <1>8, <1>a
  <2>2. ASSUME NEW e \in Employees, presence'[e] # 0
        PROVE  /\ stored'[presence'[e]] # NotStored
               /\ punch[presence'[e]].kind = "in"
               /\ punch[presence'[e]].pin \in hadPin[e]
    <3>1. CASE presence'[e] = presence[e]
      <4>1. presence[e] \in Punches
        BY <2>2, <3>1 DEF TypeOK, Punches
      <4> QED
        BY <2>1, <2>2, <3>1, <4>1 DEF Stores
    <3>2. CASE /\ presence'[e] \in batch[h] /\ punch[presence'[e]].pin \in Pins
               /\ found[h][punch[presence'[e]].pin] = e /\ punch[presence'[e]].kind = "in"
      BY <2>1, <3>2 DEF Stores, MapsAreOwn
    <3> QED
      BY <2>1, <2>2, <3>1, <3>2 DEF Stores
  <2> QED
    BY <2>1, <2>2 DEF Stores
<1>9. ASSUME NEW h \in Handlers, NEW p \in Pins, AutoCreateEmployee(h, p)
      PROVE  PresenceBacked'
  <2>1. CASE UNCHANGED <<staff, found>>
    BY <1>9, <2>1 DEF AutoCreateEmployee
  <2>2. ASSUME NEW e \in Employees, NewRow(e, p, p, h)
        PROVE  PresenceBacked'
    <3>1. pin[e] = NoPin /\ \A f \in Employees \ {e} : hadPin'[f] = hadPin[f]
      BY <2>2 DEF NewRow
    <3>2. UNCHANGED <<clock, punch, stored, presence>>
      BY <1>9 DEF AutoCreateEmployee
    <3> QED
      BY <3>1, <3>2 DEF LogIsCommitted, Committed
  <2> QED
    BY <1>9, <2>1, <2>2 DEF AutoCreateEmployee, InsertEmployee
<1>10. ASSUME NEW h \in Handlers, pc[h] # "idle", Fail(h) PROVE PresenceBacked'
  <2>1. UNCHANGED <<clock, punch, stored, presence>>
    BY <1>10 DEF Fail
  <2>2. \A e \in Employees : Committed(e) => hadPin'[e] = hadPin[e]
    BY <1>10 DEF Fail, Undo, Committed
  <2> QED
    BY <2>1, <2>2 DEF LogIsCommitted
<1>11. ASSUME NEW p \in Pins, Hire(p) PROVE PresenceBacked'
  BY <1>11 DEF Hire, NewRow, RowsInOrder
<1>12. ASSUME NEW e \in Employees, NEW p \in Pins, ChangePin(e, p) PROVE PresenceBacked'
  BY <1>12 DEF ChangePin
<1>13. CASE UNCHANGED vars
  BY <1>13 DEF vars
<1> QED
  BY <1>1, <1>2, <1>3, <1>4, <1>5, <1>6, <1>7, <1>8, <1>9, <1>10, <1>11, <1>12, <1>13,
     StepCases

------------------------------------------------------------------------------

\* The strengthened invariant of ingestion holds in every reachable state.
THEOREM Inductive == Spec => []IInv
<1>1. IInv /\ [Next]_vars => IInv'
  BY NextTypeOK, NextPunchesAreReal, NextPushesInOrder, NextRowsInOrder, NextMapsAreOwn,
     NextLogIsCommitted, NextForgottenIsStored, NextAttributionValid, NextPresenceBacked
     DEF IInv
<1> QED
  BY InitInv, <1>1, PTL DEF Spec

\* Every variable keeps its type: terminals, employees, the log and the pushes.
THEOREM TypeCorrect == Spec => []TypeOK
<1>1. IInv => TypeOK
  BY DEF IInv
<1> QED
  BY Inductive, <1>1, PTL

\* A terminal forgets a punch only once its row is committed, or when the push
\* was answered OK without being read.
THEOREM NothingForgotten == Spec => []ForgottenIsStored
<1>1. IInv => ForgottenIsStored
  BY DEF IInv
<1> QED
  BY Inductive, <1>1, PTL

\* A row names an employee who has or had the PIN that punched.
THEOREM RowsAttributed == Spec => []AttributionValid
<1>1. IInv => AttributionValid
  BY DEF IInv
<1> QED
  BY Inductive, <1>1, PTL

\* Whoever is shown as present has a stored check-in of that time.
THEOREM PresenceIsBacked == Spec => []PresenceBacked
<1>1. IInv => PresenceBacked
  BY DEF IInv
<1> QED
  BY Inductive, <1>1, PTL

------------------------------------------------------------------------------

Kept == UNION {unsent[t] : t \in Terminals}

\* What every step but a new punch does to the log: nothing, or what the log
\* calls Record.
LEMMA RecordStep ==
  ASSUME TypeOK, TypeOK', PunchesAreReal, PunchesAreReal', UNCHANGED clock,
         \A n \in Punches :
           stored'[n] # stored[n] => stored[n] = NotStored /\ n <= clock,
         waived \subseteq waived',
         \A t \in Terminals : \A n \in unsent[t] \ unsent'[t] :
           stored'[n] # NotStored \/ n \in waived'
  PROVE  Abstract!Record
<1>1. stored' \in [Abstract!Punches -> (Employees \cup {NoEmployee}) \cup {NotStored}]
  BY DEF TypeOK, Abstract!Punches, Punches
<1>2. waived' \subseteq 1..clock
  BY DEF PunchesAreReal, TypeOK, Punches
<1>3. Kept' \subseteq 1..clock
  <2>1. \A t \in Terminals : unsent'[t] \subseteq 1..clock
    BY DEF PunchesAreReal, TypeOK, Punches
  <2> QED
    BY <2>1 DEF Kept
<1>4. \A n \in Kept \ Kept' : stored'[n] # NotStored \/ n \in waived'
  BY DEF Kept
<1> QED
  BY <1>1, <1>2, <1>3, <1>4 DEF Abstract!Record, Abstract!Punches, Punches, Kept

LEMMA LogStep == IInv /\ IInv' /\ [Next]_vars => [Abstract!Next]_(Abstract!vars)
<1> SUFFICES ASSUME IInv, IInv', [Next]_vars
             PROVE  Abstract!Next \/ UNCHANGED <<clock, stored, waived, Kept>>
  BY DEF Abstract!vars, Kept
<1>a. \A h \in Handlers, ok \in BOOLEAN :
        pc[h] # "idle" /\ Answer(h, ok) => Answered(h, ok)
  BY AnswerFacts
<1>b. \A h \in Handlers : Store(h) => Stores(h)
  BY StoreFacts
<1>c. TypeOK /\ TypeOK' /\ PunchesAreReal /\ PunchesAreReal'
  BY DEF IInv
<1>1. ASSUME NEW t \in Terminals, NEW p \in Pins, NEW k \in Kinds, Punch(t, p, k)
      PROVE  Abstract!Punch
  <2>1. Kept' = Kept \cup {clock + 1}
    <3>1. \A u \in Terminals :
            unsent'[u] = IF u = t THEN unsent[u] \cup {clock + 1} ELSE unsent[u]
      BY <1>1, <1>c DEF Punch, TypeOK
    <3> QED
      BY <3>1 DEF Kept
  <2> QED
    BY <1>1, <2>1 DEF Punch, Abstract!Punch, Kept, log
<1>2. CASE \E t \in Terminals, h \in Handlers : Send(t, h)
  BY <1>2 DEF Send, log, Kept
<1>3. CASE \E t \in Terminals : Timeout(t) \/ Disable(t)
  BY <1>3 DEF Timeout, Disable, log, Kept
<1>4. ASSUME NEW t \in Terminals, Reinit(t) PROVE Abstract!Record
  <2>1. UNCHANGED <<clock, stored, waived>>
    BY <1>4 DEF Reinit, log
  <2>2. \A u \in Terminals : unsent[u] \subseteq unsent'[u]
    BY <1>4, <1>c DEF Reinit, TypeOK, PunchesAreReal, Punches
  <2> QED
    BY <1>c, <2>1, <2>2, RecordStep
<1>5. ASSUME NEW h \in Handlers, Unread(h) PROVE Abstract!Record
  <2>1. Answered(h, TRUE)
    BY <1>5, <1>a DEF Unread
  <2>2. /\ UNCHANGED <<clock, stored>> /\ waived \subseteq waived'
        /\ \A t \in Terminals : \A n \in unsent[t] \ unsent'[t] : n \in waived'
    BY <1>5, <2>1 DEF Unread, Answered
  <2> QED
    BY <1>c, <2>2, RecordStep
<1>6. ASSUME NEW h \in Handlers, Store(h) PROVE Abstract!Record
  <2>1. Answered(h, TRUE) /\ Stores(h)
    BY <1>6, <1>a, <1>b DEF Store
  <2>2. /\ UNCHANGED <<clock, waived>>
        /\ \A n \in Punches : stored'[n] # stored[n] => stored[n] = NotStored /\ n <= clock
        /\ \A t \in Terminals : \A n \in unsent[t] \ unsent'[t] : stored'[n] # NotStored
    BY <2>1 DEF Stores, Answered
  <2> QED
    BY <1>c, <2>2, RecordStep
<1>7. ASSUME NEW h \in Handlers, pc[h] # "idle", Fail(h)
      PROVE  UNCHANGED <<clock, stored, waived, Kept>>
  <2>1. Answered(h, FALSE)
    BY <1>7, <1>a DEF Fail
  <2>2. \A t \in Terminals : unsent'[t] = unsent[t]
    BY <2>1 DEF Answered
  <2> QED
    BY <1>7, <2>2 DEF Fail, log, Kept
<1>8. CASE \E h \in Handlers : ReadPins(h) \/ \E p \in Pins : AutoCreateEmployee(h, p)
  BY <1>8 DEF ReadPins, AutoCreateEmployee, devices, log, Kept
<1>9. CASE (\E p \in Pins : Hire(p)) \/ (\E e \in Employees, p \in Pins : ChangePin(e, p))
  BY <1>9 DEF Hire, ChangePin, devices, log, Kept
<1>10. CASE UNCHANGED vars
  BY <1>10 DEF vars, devices, log, Kept
<1> QED
  BY <1>1, <1>2, <1>3, <1>4, <1>5, <1>6, <1>7, <1>8, <1>9, <1>10, StepCases DEF
     Abstract!Next

\* Ingestion with its retries, overlapping pushes, rollbacks and crashes
\* implements the log: each step is one of it, or none.
THEOREM RefinesPunchLog == Spec => ImplementsPunchLog
<1>1. Init => Abstract!Init
  BY DEF Init, Abstract!Init, Abstract!Punches, Punches
<1> QED
  BY <1>1, LogStep, Inductive, PTL DEF Spec, ImplementsPunchLog, Abstract!Spec
===============================================================================
