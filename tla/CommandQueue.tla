----------------------------- MODULE CommandQueue -----------------------------
(***************************************************************************)
(* Employee synchronisation (routers/sync.py) and the command half of the  *)
(* ADMS gateway (routers/adms.py).  POST /api/sync/enqueue writes one row  *)
(* of device_commands per (employee, device) pair, in one transaction; a   *)
(* terminal polls GET /iclock/getrequest for one command at a time and     *)
(* reports what became of it to POST /iclock/devicecmd.                    *)
(*                                                                         *)
(* Ids come from a sequence when a row is inserted, rows become visible    *)
(* when their transaction commits: with several requests running the two   *)
(* orders differ.  What orders commands is the row lock the upsert of      *)
(* employee_device_assignments holds until the commit.                     *)
(***************************************************************************)
EXTENDS Naturals, FiniteSets

CONSTANTS
  Employees,
  Devices,      \* device rows of the tenant, all active at the start
  Requests,     \* enqueue requests of the tenant the API can serve at once
  MaxCommands,  \* bound: ids handed out by the sequence
  NoRequest,
  NoPair

ASSUME MaxCommandsAssumption == MaxCommands \in Nat
ASSUME SentinelAssumption == NoRequest \notin Requests /\ NoPair \notin Employees \X Devices
ASSUME RequestsAssumption == IsFiniteSet(Requests)

Commands == 1..MaxCommands
NoCommand == 0
Pairs == Employees \X Devices
DeviceOf(p) == p[2]

VARIABLES
  active,     \* devices with status 'active'
  state,      \* device_commands.status; "inserted" until its request commits
  pairOf,     \* pairOf[c]: employee and device of command c
  request,    \* request[c]: enqueue request that inserted c
  expired,    \* commands whose expires_at has passed
  issued,     \* ids handed out so far
  pending,    \* devices.pending_commands_count
  pc,         \* pc[r]: what enqueue request r does next
  todo,       \* todo[r]: pairs it has still to enqueue
  doing,      \* doing[r]: the pair it is at
  rowLock,    \* rowLock[p]: request that holds the assignment row of pair p
  deviceLock, \* deviceLock[d]: request that holds the row of device d
  stamp,      \* history: stamp[c] orders commands by the commit that showed them
  commits,    \* history: enqueue requests committed so far
  got,        \* got[p]: last command the terminal carried out for the pair
  outcome     \* outcome[c]: what carrying out c came to at the terminal

queue == <<state, pairOf, request, expired, issued>>
requests == <<pc, todo, doing, rowLock, deviceLock>>
terminal == <<got, outcome>>
history == <<stamp, commits>>
vars == <<active, queue, pending, requests, history, terminal>>

Final == {"done", "failed"}

Init ==
  /\ active = Devices
  /\ state = [c \in Commands |-> "absent"]
  /\ pairOf = [c \in Commands |-> NoPair]
  /\ request = [c \in Commands |-> NoRequest]
  /\ expired = {}
  /\ issued = 0
  /\ pending = [d \in Devices |-> 0]
  /\ pc = [r \in Requests |-> "idle"]
  /\ todo = [r \in Requests |-> {}]
  /\ doing = [r \in Requests |-> NoPair]
  /\ rowLock = [p \in Pairs |-> NoRequest]
  /\ deviceLock = [d \in Devices |-> NoRequest]
  /\ stamp = [c \in Commands |-> 0]
  /\ commits = 0
  /\ got = [p \in Pairs |-> NoCommand]
  /\ outcome = [c \in Commands |-> "none"]

------------------------------------------------------------------------------
\* Portal: POST /api/sync/enqueue, DELETE /api/devices/{id}

\* Rows that requests under way have still to insert (only for the bound on ids).
StillToInsert ==
  {x \in Requests \X Pairs :
     x[2] \in todo[x[1]] \/ (pc[x[1]] = "assign" /\ x[2] = doing[x[1]])}

\* The request reads the active devices and the employees of its selection.
Enqueue(r) ==
  /\ pc[r] = "idle"
  /\ \E E \in (SUBSET Employees) \ {{}}, D \in (SUBSET active) \ {{}} :
       /\ issued + Cardinality(StillToInsert) + Cardinality(E \X D) <= MaxCommands
       /\ todo' = [todo EXCEPT ![r] = E \X D]
  /\ pc' = [pc EXCEPT ![r] = "next"]
  /\ UNCHANGED <<active, queue, pending, doing, rowLock, deviceLock, history, terminal>>

\* The next pair.  (Neither SELECT has an ORDER BY: any order is allowed, more
\* of them than the two nested loops produce.)
NextPair(r) ==
  /\ pc[r] = "next"
  /\ \E p \in todo[r] :
       /\ doing' = [doing EXCEPT ![r] = p]
       /\ todo' = [todo EXCEPT ![r] = @ \ {p}]
  /\ pc' = [pc EXCEPT ![r] = "assign"]
  /\ UNCHANGED <<active, queue, pending, rowLock, deviceLock, history, terminal>>

\* Row c enters device_commands, invisible to other transactions.
InsertCommand(r, c) ==
  /\ c \in Commands
  /\ issued' = c
  /\ state' = [state EXCEPT ![c] = "inserted"]
  /\ pairOf' = [pairOf EXCEPT ![c] = doing[r]]
  /\ request' = [request EXCEPT ![c] = r]

\* Faulty variant: the command is inserted before the assignment row is locked.
AssignWithoutLock(r) ==
  /\ pc[r] = "assign"
  /\ rowLock' = [rowLock EXCEPT ![doing[r]] = r]
  /\ InsertCommand(r, issued + 1)
  /\ pc' = [pc EXCEPT ![r] = "count"]
  /\ UNCHANGED <<active, expired, pending, todo, doing, deviceLock, history, terminal>>

\* Upsert of the assignment row, which waits for its lock, then the INSERT of
\* the command, which takes an id.
Assign(r) ==
  /\ pc[r] = "assign"
  /\ rowLock[doing[r]] \in {r, NoRequest}
  /\ rowLock' = [rowLock EXCEPT ![doing[r]] = r]
  /\ InsertCommand(r, issued + 1)
  /\ pc' = [pc EXCEPT ![r] = "count"]
  /\ UNCHANGED <<active, expired, pending, todo, doing, deviceLock, history, terminal>>

\* pending_commands_count + 1, which waits for the lock of the device row.  The
\* device is not looked at again: it may have been disabled since the SELECT.
Count(r) ==
  /\ pc[r] = "count"
  /\ deviceLock[DeviceOf(doing[r])] \in {r, NoRequest}
  /\ deviceLock' = [deviceLock EXCEPT ![DeviceOf(doing[r])] = r]
  /\ doing' = [doing EXCEPT ![r] = NoPair]
  /\ pc' = [pc EXCEPT ![r] = IF todo[r] = {} THEN "commit" ELSE "next"]
  /\ UNCHANGED <<active, queue, pending, todo, rowLock, history, terminal>>

Inserted(r) == {c \in Commands : state[c] = "inserted" /\ request[c] = r}

\* Faulty variant: locks outlive the transactions of R.
EndKeepingLocks(R) ==
  /\ pc' = [r \in Requests |-> IF r \in R THEN "idle" ELSE pc[r]]
  /\ todo' = [r \in Requests |-> IF r \in R THEN {} ELSE todo[r]]
  /\ doing' = [r \in Requests |-> IF r \in R THEN NoPair ELSE doing[r]]
  /\ UNCHANGED <<rowLock, deviceLock>>

\* The transactions of requests R end and release their locks.
End(R) ==
  /\ pc' = [r \in Requests |-> IF r \in R THEN "idle" ELSE pc[r]]
  /\ todo' = [r \in Requests |-> IF r \in R THEN {} ELSE todo[r]]
  /\ doing' = [r \in Requests |-> IF r \in R THEN NoPair ELSE doing[r]]
  /\ rowLock' = [p \in Pairs |-> IF rowLock[p] \in R THEN NoRequest ELSE rowLock[p]]
  /\ deviceLock' = [d \in Devices |-> IF deviceLock[d] \in R THEN NoRequest ELSE deviceLock[d]]

Commit(r) ==
  /\ pc[r] = "commit"
  /\ state' = [c \in Commands |-> IF c \in Inserted(r) THEN "pending" ELSE state[c]]
  /\ commits' = commits + 1
  /\ stamp' = [c \in Commands |-> IF c \in Inserted(r) THEN commits + 1 ELSE stamp[c]]
  /\ pending' = [d \in Devices |->
                   pending[d] + Cardinality({c \in Inserted(r) : DeviceOf(pairOf[c]) = d})]
  /\ End({r})
  /\ UNCHANGED <<active, pairOf, request, expired, issued, terminal>>

\* Rows a rollback removes; their ids are not handed out again.
Rollback(R) ==
  /\ state' = [c \in Commands |->
                 IF state[c] = "inserted" /\ request[c] \in R THEN "rolledback" ELSE state[c]]
  /\ End(R)
  /\ UNCHANGED <<active, pairOf, request, expired, issued, pending, history, terminal>>

\* Request r waits for a row another request has locked.
WaitsFor(r, q) ==
  /\ q # r
  /\ \/ pc[r] = "assign" /\ rowLock[doing[r]] = q
     \/ pc[r] = "count" /\ deviceLock[DeviceOf(doing[r])] = q

Waiting(r) == \E q \in Requests : WaitsFor(r, q)

\* Request r waits for itself through others.
Deadlocked(r) ==
  \E S \in SUBSET Requests :
    /\ r \in S
    /\ \A q \in S : (\E p \in S : WaitsFor(q, p)) /\ (\E p \in S : WaitsFor(p, q))

\* PostgreSQL ends a request of a deadlock; it gets 500.
DeadlockVictim(r) ==
  /\ Deadlocked(r)
  /\ Rollback({r})

\* The API process dies; every open transaction is rolled back.
Restart ==
  /\ \E r \in Requests : pc[r] # "idle"
  /\ Rollback(Requests)

\* delete_device waits for the device row as well.
Disable(d) ==
  /\ d \in active
  /\ deviceLock[d] = NoRequest
  /\ active' = active \ {d}
  /\ UNCHANGED <<queue, pending, requests, history, terminal>>

------------------------------------------------------------------------------
\* Gateway: GET /iclock/getrequest, POST /iclock/devicecmd

Sendable(d) ==
  {c \in Commands : state[c] = "pending" /\ DeviceOf(pairOf[c]) = d /\ c \notin expired}

\* Faulty variant: commands that were sent already are candidates again.
SendableOrSent(d) ==
  {c \in Commands : state[c] \in {"pending", "sent", "done", "failed"}
                      /\ DeviceOf(pairOf[c]) = d /\ c \notin expired}

\* Faulty variant: ORDER BY id DESC.
PicksNewest(d, c) == c \in Sendable(d) /\ \A e \in Sendable(d) : e <= c

\* Faulty variant: the statuses the SELECT filters by.
PicksSentAgain(d, c) == c \in SendableOrSent(d) /\ \A e \in SendableOrSent(d) : c <= e

\* ORDER BY id ASC LIMIT 1 FOR UPDATE SKIP LOCKED.
Picks(d, c) == c \in Sendable(d) /\ \A e \in Sendable(d) : c <= e

\* get_request.  Its UPDATE of the device row waits for enqueue requests on the
\* device, so two polls of a terminal never overlap.  The command is committed
\* as sent before the response leaves: if that is lost the terminal never sees
\* the command, otherwise it carries it out at once, well or badly.
Poll(d) ==
  /\ d \in active
  /\ deviceLock[d] = NoRequest
  /\ \E c \in Commands :
       /\ Picks(d, c)
       /\ state' = [state EXCEPT ![c] = "sent"]
       /\ \/ UNCHANGED terminal
          \/ /\ got' = [got EXCEPT ![pairOf[c]] = c]
             /\ \E o \in Final : outcome' = [outcome EXCEPT ![c] = o]
  /\ UNCHANGED <<active, pairOf, request, expired, issued, pending, requests, history>>

\* Faulty variant: the terminal's return code is not looked at.
ReportAsDone(c) ==
  /\ outcome[c] # "none"
  /\ state' = [state EXCEPT ![c] = "done"]
  /\ UNCHANGED <<active, pairOf, request, expired, issued, pending>>
  /\ UNCHANGED <<requests, history, terminal>>

\* Faulty variant: a body without a return code counts as a report.
ReportUnchecked(c) ==
  /\ state[c] = "sent"
  /\ state' = [state EXCEPT ![c] = outcome[c]]
  /\ UNCHANGED <<active, pairOf, request, expired, issued, pending>>
  /\ UNCHANGED <<requests, history, terminal>>

\* device_cmd_result: at any time after the command was carried out and as often
\* as the terminal repeats it.  Neither the command's status nor the device's is
\* looked at.
Report(c) ==
  /\ outcome[c] # "none"
  /\ state' = [state EXCEPT ![c] = outcome[c]]
  /\ UNCHANGED <<active, pairOf, request, expired, issued, pending>>
  /\ UNCHANGED <<requests, history, terminal>>

\* expires_at passes.  (It matters for a command that is still to be sent.)
Expire(c) ==
  /\ state[c] = "pending"
  /\ c \notin expired
  /\ expired' = expired \cup {c}
  /\ UNCHANGED <<active, state, pairOf, request, issued, pending, requests, history, terminal>>

Next ==
  \/ \E r \in Requests :
       \/ Enqueue(r)
       \/ NextPair(r)
       \/ Assign(r)
       \/ Count(r)
       \/ Commit(r)
       \/ DeadlockVictim(r)
  \/ \E d \in Devices : Disable(d) \/ Poll(d)
  \/ \E c \in Commands : Report(c) \/ Expire(c)
  \/ Restart

Spec == Init /\ [][Next]_vars

\* PostgreSQL grants row locks in the order they were asked for and resolves
\* deadlocks; a terminal polls every few seconds (Delay=10).
Fairness ==
  /\ \A r \in Requests :
       SF_vars(NextPair(r) \/ Assign(r) \/ Count(r) \/ Commit(r) \/ DeadlockVictim(r))
  /\ \A d \in Devices : SF_vars(Poll(d))

FairSpec == Spec /\ Fairness

------------------------------------------------------------------------------

TypeOK ==
  /\ active \subseteq Devices
  /\ state \in [Commands -> {"absent", "inserted", "rolledback", "pending", "sent"} \cup Final]
  /\ pairOf \in [Commands -> Pairs \cup {NoPair}]
  /\ request \in [Commands -> Requests \cup {NoRequest}]
  /\ expired \subseteq Commands
  /\ issued \in 0..MaxCommands
  /\ pending \in [Devices -> Nat]
  /\ pc \in [Requests -> {"idle", "next", "assign", "count", "commit"}]
  /\ todo \in [Requests -> SUBSET Pairs]
  /\ doing \in [Requests -> Pairs \cup {NoPair}]
  /\ rowLock \in [Pairs -> Requests \cup {NoRequest}]
  /\ deviceLock \in [Devices -> Requests \cup {NoRequest}]
  /\ stamp \in [Commands -> Nat]
  /\ commits \in Nat
  /\ got \in [Pairs -> Commands \cup {NoCommand}]
  /\ outcome \in [Commands -> Final \cup {"none"}]

\* What a terminal holds about an employee is only ever replaced by a request
\* that committed later, however enqueue requests overlap and whatever was lost
\* or expired in between; in particular no command is carried out twice.
NewerRequestsWin ==
  [][\A p \in Pairs : got'[p] # got[p] =>
       got[p] = NoCommand \/ stamp[got'[p]] > stamp[got[p]]]_vars

\* A command the portal shows as done or failed was carried out by the terminal
\* with that outcome, and stays so: it is not sent again, and repeated reports
\* do not turn it into something else.
FinalIsTrue ==
  /\ \A c \in Commands : state[c] \in Final => outcome[c] = state[c]
  /\ \A c \in Commands : outcome[c] # "none" => state[c] \in Final \cup {"sent"}
FinalStays ==
  [][\A c \in Commands : state[c] \in Final => state'[c] = state[c]]_vars

\* Commands that other transactions see.
Visible == {c \in Commands : state[c] \notin {"absent", "inserted", "rolledback"}}

\* Where command c is in the life CommandLedger describes.
LedgerPhase(c) ==
  IF c \notin Visible THEN "absent"
  ELSE IF state[c] = "pending" THEN IF c \in expired THEN "lapsed" ELSE "waiting"
  ELSE state[c]

Ledger == INSTANCE CommandLedger
  WITH Items <- Commands, Subjects <- Pairs, Outcomes <- Final,
       NoItem <- NoCommand, NoSubject <- NoPair,
       phase <- [c \in Commands |-> LedgerPhase(c)],
       about <- [c \in Commands |-> IF c \in Visible THEN pairOf[c] ELSE NoPair],
       turn <- stamp, turns <- commits, held <- got, result <- outcome

\* Requests, polls, lost responses, repeated reports, deadlocks and restarts come
\* to nothing more than a ledger of commands: the batch of a request appears at
\* once, commands about an employee leave in the order of the commits, each is
\* carried out at most once, and reports never change what it came to.
ImplementsLedger == Ledger!Spec

\* Whoever waits, waits in the end for a request that can go on or that
\* PostgreSQL ends: no row stays locked by a request that is over, and no request
\* under way has run out of steps before its commit.
NobodyIsStuck ==
  \A S \in SUBSET Requests :
    /\ \E r \in S : pc[r] # "idle"
    /\ \A r \in S, q \in Requests : WaitsFor(r, q) => q \in S
    => \E r \in S :
         /\ pc[r] # "idle"
         /\ pc[r] = "next" => todo[r] # {}
         /\ Waiting(r) => Deadlocked(r)

\* Overlapping enqueue requests wait for each other's rows in both directions;
\* each of them is nevertheless answered.
EnqueueEnds == \A r \in Requests : pc[r] # "idle" ~> pc[r] = "idle"

\* A command of an active device is sent or expires; no command that was sent
\* before, answered or not, keeps the ones behind it waiting.
QueueDrains ==
  \A c \in Commands :
    state[c] = "pending" ~>
      (state[c] # "pending" \/ c \in expired \/ DeviceOf(pairOf[c]) \notin active)
===============================================================================
