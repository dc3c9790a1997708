# ATGO in TLA+

ATGO is a multi-tenant attendance service: ZKTeco terminals push punches over the
ADMS protocol, a web portal manages devices and employees, Odoo pulls the results.
The program is a FastAPI application (`src/apps/api/atgo_api`) over PostgreSQL and
Redis, a Next.js portal and an Odoo add-on. Apart from a circuit breaker nothing in
it holds state between requests: all of its correctness lies in what concurrent database transactions do
to each other and in what unreliable terminals send. That is what is modelled
here.

## Inventory

| Component | State | Operations | What makes it correct |
|---|---|---|---|
| Device onboarding (`routers/devices.py`, `_try_bind_via_claim` in `routers/adms.py`) | `devices`, `device_claim_codes` | create, bind on first contact, verify, delete, expiry | one live device per serial number, one serial per code, plan limit |
| Command queue (`routers/sync.py`, `get_request` and `device_cmd_result` in `routers/adms.py`) | `device_commands`, `employee_device_assignments`, `pending_commands_count` | enqueue, poll, report, expiry | newest request wins, reports are true, queue drains |
| Attendance ingestion (`cdata_push`, `_ingest_attlog` in `routers/adms.py`, `services/adms_parser.py`) | `normalized_attendance_logs`, `employee_presence`, `employees` | push, auto-create, presence | no punch lost or doubled, right employee, presence follows punches |
| Custom domains (`routers/tenants.py`, `services/dns_verifier.py`), TLS check and host resolution (`routers/internal.py`) | `tenant_domains` | add, verify, set primary, delete, administrator's release | a host belongs to one tenant, one primary domain, limits |
| Administration (`routers/admin.py`) | `users`, `tenants`, `audit_logs`, `blocked_ips` | promote, demote, (de)activate, impersonate, suspend, change plan, release | never without a super admin, nobody in a workspace unaudited |
| Sessions and API keys (`db.py`, `deps.py`, `routers/api_keys.py`) | `tenant_members`, `api_keys` | authenticate, resolve the workspace, commit, roll back, make and revoke keys | a failed request leaves nothing behind, a session stays in its workspace |
| HR requests, employee app (`routers/hr.py`, `routers/employee_app.py`) | correction and leave requests, notifications, `employee_accounts` | submit, review, invite, accept | the first decision stands, old invitations lose, notices are true |
| Rate limiter (`services/rate_limit.py`, `middleware.py`) | Redis buckets, a circuit breaker in each process | take, block | the limit holds while Redis answers; an outage costs few time-outs |
| Signup and tokens (`routers/auth.py`), tenant DNS (`services/dynadot.py`) | `users`, `tenants`, the DNS zone | signup, login, refresh, add record | account and workspace come whole, a DNS record is lost only with its own task |
| Employees (`routers/employees.py`), Odoo endpoints (`routers/odoo.py`) | `employees` | create, update, end, upsert from Odoo | what is answered is stored, one row per person |
| Attendance reports (`routers/attendance.py`, today and timesheet of `routers/employee_app.py`) | none | dashboard, timesheets, today | every day counted once, the views agree |
| Billing, Odoo add-on, branches and departments, Cloudflare, portal | their tables | see PROJECT.json | see *Not modelled* |

Components interact through the database only. The portal and the gateway write
the same `devices` rows; the enqueue request and the gateway the same
`device_commands`; ingestion, HR and Odoo the same `employees`. The hard
behaviours are therefore:

* **interleaving**: handlers read, decide and write in several statements under
  READ COMMITTED, some with `FOR UPDATE SKIP LOCKED`, most without a lock; what
  stops the rest are unique keys and the locks an `UPDATE` or an upsert takes;
* **failure**: an exception rolls the whole request back (`db.py:49-54`,
  `deps.py:183-188`), PostgreSQL ends deadlocks, the process restarts;
* **unreliable terminals**: they repeat pushes and reports, give up on slow
  answers, lose responses, resend their whole memory after every hello
  (`ATTLOGStamp=NONE`), and forget what was answered `OK`;
* **unreliable services**: Redis and the registrar answer late or not at all, and
  the registrar's zone can only be written as a whole;
* **time**: claim codes, commands, invitations and buckets expire; processes read
  the clock before they act by it.

## Order of the work

1. `DeviceRegistry` (abstract), `DeviceClaim`, `DeviceClaimProofs`: onboarding.
2. `CommandLedger` (abstract), `CommandQueue`, `CommandQueueProofs`: employee
   synchronisation.
3. `PunchLog` (abstract), `AttendanceIngest`, `AttendanceIngestProofs`: ingestion and
   presence.
4. `HostBook` (abstract), `CustomDomains`, `CustomDomainsProofs`: the life of a domain,
   with the TLS check and host resolution reading it and the administrator writing it.
5. `Access`: administrators, sessions, impersonation, API keys.
6. `Workspaces` (abstract), `Signup`: workspaces and the DNS zone.
7. `RateLimiter`: token bucket and circuit breaker.
8. `Platform` composes 5 to 7; `PlatformProofs` has the proofs of all of them.
9. `HrRequests`, `MonthReport`: invitations, reviews, month views.
10. `Directory`: employees from Odoo and from HR.
11. `Workforce` composes 9 and 10; `WorkforceProofs` has their proofs.

What would come next: that every request on domains ends although set-primary and
removal lock in opposite orders (liveness, on a smaller instance); an ingestion with
two tenants, for terminals that change hands.

The modules of 1 to 4 meet in the tables they share (a device that stops resolving is
an action of all three gateway modules). Those of 5 to 10 share no state among each
other, or only by reading: `MonthReport` takes the punches `AttendanceIngest` stores
and the leaves `HrRequests` decides on in every mixture, which is more than the two can
produce. They are therefore composed side by side: `Platform` and `Workforce`
conjoin their initial states and pick one `part` a behaviour runs, so that one run
covers all of them without multiplying their states. That a behaviour of the
composition is one of every part, with what is proved of the part, is a theorem
(`PlatformRunsItsParts`, `WorkforceRunsItsParts`). The MC modules only give values
to constants.

## Modules

**Granularity.** A request is split exactly where another transaction can commit
in between *and* what it read before the split decides what it does after it. Row
locks are variables; a statement that has to wait is an action that is not
enabled. What PostgreSQL does (locks, rollback, deadlock detection) is external
and modelled from how the code uses it: `SKIP LOCKED`, `ON CONFLICT`, partial
unique indexes.

**`DeviceClaim`** is one tenant set's onboarding. `status`, `serial`, `claimed`,
`expired` are the columns of `devices` and `device_claim_codes`; `creating` and
`verifying` are portal requests that have read and not yet written; `pc`,
`contact`, `claim` are heartbeat transactions. `CreateCheck`/`CreateInsert`/
`CreateFail` are `create_device_claim`, `VerifySelect`/`VerifyCommit`/
`VerifyReject` are `verify_claim`, `Contact`/`BindCheck`/`BindCommit`/
`BindRefused` are a heartbeat through `_resolve_device` and `_try_bind_via_claim`.
(On a duplicate the code calls `dup.scalar()` twice; the second call raises on the
closed result, so the request ends in a rollback rather than in `return None`.
`BindRefused` stands for both, they leave the same state.) `revived` and `logged`
are history. **`DeviceRegistry`** is what it implements: records that are
registered, attached to a serial once and for all, activated and retired, with at
most one live holder of a serial.

**`CommandQueue`** splits `enqueue_sync` at every lock it takes: `NextPair` is the
loop, `Assign` the upsert (lock of the assignment row) with the `INSERT` of the
command (id from the sequence), `Count` the `UPDATE` of the device row (its lock),
`Commit` makes the rows visible. `DeadlockVictim` is any request in a cycle of
waiting requests. `Poll` is `get_request`, with the response either lost or
carried out by the terminal; `Report` is `device_cmd_result`, any number of times.
The pairs of a request come in any order, since neither SELECT has an ORDER BY.
`Deadlocked` is PostgreSQL's detector: a request that waits for itself through
others. **`CommandLedger`** is what the module implements, without requests, locks
and ids: commands appear in batches, in turns, and of one employee and device leave
in the order of their turns; a terminal keeps what came in a later turn; a command is
carried out at most once and concluded as what that came to. A command of the model
is there for the ledger once it is visible (`Visible`, `LedgerPhase`), the turn of a
batch is its place in the order of the commits.

**`AttendanceIngest`** has the terminals' memory (`unsent`, `waiting`) and the
pushes being served (`pc`, `batch`, `found`, `missing`). `ReadPins` is
`_ingest_attlog` up to its PIN map; `AutoCreateEmployee` is one round of the
auto-create loop, whose row is uncommitted and makes others wait;
`AutoCreateFails` is the swallowed exception that costs the transaction; `Store`
is the loop over the rows and the commit. `Hire` and `ChangePin` are HR's portal
and Odoo. `Answer` decides what the terminal learns. **`PunchLog`** is what it
implements: a punch is recorded at most once, never changed, and forgotten only
when it is recorded or was waved through unread.

**`CustomDomains`** has one row of `tenant_domains` per added domain and one per
default subdomain (the row `t` of tenant `t`, whose host name is `t`). Each portal
request is a read (`AddCheck`, `VerifyRead`, `SetPrimaryRead`, `DeleteRead`) that
takes no lock, followed by its writes: `AddInsert` under the partial unique index,
`VerifyCommit` or `VerifyMissed` after the DNS lookup, `Clear` (locks of all rows of
the tenant) and `SetPrimaryCommit` (lock of the `tenants` row), `DeleteReset` (lock
of the `tenants` row) and `DeleteCommit` (lock of the domain row). An overdue or
failed check ends in an HTTPException that rolls its UPDATE back, so `expired` is
never a status and `VerifyMissed` changes no row. `published` is the set of rows
whose records were in DNS at some time; a lookup may miss them at any time, and may
still find one that was withdrawn. `TlsAllowed`, `RoutedTo` and `ResolvedTo` are the
look-ups of `internal.py` and `deps.py`. Tokens are random, so a row's record cannot
be published before the row exists. **`HostBook`** is what it implements: one entry
per held host with its holder, its standing and whether its holder has ever proved it.
An `Entry` stands for every row that is not removed, so that a name that changes hands
while old requests are under way is one entry that goes and one that comes.

**`Signup`** splits `signup` at its flushes: `Check` is the two SELECTs, `InsertUser`
and `InsertTenant` wait for uncommitted rows of the same e-mail or slug, as unique
indexes do, `Commit` brings user, tenant, owner, default domain and subscription and
starts the task. `ReadZone` and `WriteZone` are the two calls of `add_subdomain_a`;
the tasks of several signups interleave, fail (`TaskFails`, logged only) or die with
the process (`Restart`). `disturbed` is history: the workspaces whose own task failed,
was lost or was between its read and its write together with another one (`Merging`).
An answer of the registrar without an error is assumed to hold the whole zone: `get_dns`
takes one that lacks it for an empty zone (`dynadot.py:76-88`). **`Workspaces`** is what
it implements: account and workspace appear in one step, a workspace keeps its owner,
and the zone, replaced as a whole, has the platform's own records and none of
workspaces that do not exist.

**`Access`** has the requests of users (`req`). Each is authenticated first, and
carries on with the row it read (`caller`, `super`). An administrator's request is
one transaction: `RequireAdmin`, for a demotion `CountAdmins`, then `UpdateUser` or
`Join`. A workspace request reads the caller in one transaction (`Ask`) and resolves
workspace and membership in another (`Enter`); it then reads, makes a key
(`CreateKey`), revokes one (`RevokeKey`) or ends (`Leave`). `Call` is
`api_key_session`. Tokens are no state: a token names a workspace its user is a
member of, and memberships are never removed (`WorkspacesOf`).

**`RateLimiter`** is one bucket and one process. `Take` reads the clock, `Eval` runs
the script some time later, so that calls reach Redis with readings in any order;
`Expired` is Redis dropping the key. `BlockedCheck` and `BlockedAnswer` are
`is_blocked_ip`, which reads the breaker and waits for Redis; they, `Eval` and `EvalFails`
record what came of it (`RecordFailure`, `RecordSuccess`). The clock counts ticks;
`granted`, `setBack` and `wasted` (the calls that failed since Redis last answered or
the breaker last closed) are history. With Redis switched off by its URL every request passes
and there is nothing to model.

**`HrRequests`**: `Invite` replaces the account's token; `FindInvitation` and
`SetPassword` are the SELECT and the UPDATE of `accept_invite`; `FindPending`,
`Review` (lock of the row, then the notification) and `CommitReview` are the two
review handlers; `GiveUp` is any failure. Tokens are numbered as they are given out,
and `password` remembers the token a password was chosen with. `early` is history:
the reviews that were under way before a request was first decided; so is `overtaken`:
the requests whose invitation was used, or replaced and the newer one used, while they
were under way. Ids of notifications are numbered per request; the gaps a rolled back
row leaves are closed.

**`MonthReport`** has the rows the views read and no processes: its actions bring
rows into being, the views are operators. A day has `PerDay` moments; the month is
`First..Last` and rows may lie outside it. `LeaveDays`, `PunchesOn`, `StatusFor`
and `Cell` follow `attendance_dashboard`, `Timesheet` and `Row` the two
timesheets, `Today` the employee's card. Weeks start as Python's do (day 0 is a
Monday). Nothing in the repository writes `hired_at`; the dashboard reads it, so it
may be set (`Hire`). The dashboard lists the active employees, the first 1000 of them
(`Listed`, `Dashboard`; `crowded` says that others fill the list); the timesheet and the
card do not ask. `Terminate` clears `is_active` together with the date, `SetActive` is
any later change of it.

**`Directory`** is the upsert from Odoo as it meets the unique indexes: `own` are the
rows a push has written and not committed, `Blocked` is the wait for another
transaction that holds the row, the PIN or the code, `Refused` the duplicate.
A push is any list: the same employee, PIN or code may come twice (`Batches`).
`Match` is the three SELECTs, `Update` ends the push with 500 on a duplicate,
`InsertFails` is the swallowed exception, counted as skipped, after which PostgreSQL
refuses everything. If an employee is left whose row would be read, the push ends
without an answer (`Discard`); if not, `Answer` gives the counts while COMMIT turns into
ROLLBACK. `done` is what the push has counted as created or updated, with the code of
each row, `skipped` that it has counted a skip. `overlapped` is history: the Odoo
employees on which two pushes have worked at the same time. Employees without a PIN are
skipped by the handler before it does anything and are left out.

Operators commented as *faulty variant* are not part of the specifications: each
is a plausible bug in the definition after it, and substituting it makes TLC
report the property PROJECT.json pairs it with.

## Runs

| Run | Bounds | What it shows |
|---|---|---|
| `device_claim_safety` | 1 tenant with a plan of 1 device, 2 terminals, 2 heartbeats at once, 3 devices, 2 create requests at once; symmetry | the safety properties and the refinement of `DeviceRegistry` |
| `device_claim_liveness` | 2 terminals, 2 heartbeats, 2 devices, fair | `TerminalGetsServed` |
| `device_claim_limit` | 1 terminal, 3 devices, one create request at a time | **violated**: a late verification revives a deleted device past the limit |
| `command_queue` | 2 employees, 1 device, 2 requests, 3 command ids, fair | truth and order of the queue, `CommandLedger` is implemented, no request is stuck, every request ends, the queue drains |
| `ingest_pins` | 1 terminal, 2 PINs, 2 pushes at once, 2 punches in and out, 1 PIN change; symmetry | attribution and presence under PIN changes and auto-creation |
| `ingest_retries` | 2 terminals, 1 PIN, 2 pushes, 2 punches, throttling; symmetry | nothing forgotten that is not stored; `PunchLog` is implemented |
| `ingest_liveness` | 1 terminal, 2 PINs, 2 pushes, 2 punches, fair | `PunchesArrive` |
| `ingest_one_pin` | 1 push, 1 PIN change, fair | **violated**: one PIN blocks a terminal's batch for ever |
| `custom_domains` | 2 tenants with a limit of 1 domain, 1 host name, 2 rows, 2 requests at once; symmetry | `HostBook` is implemented (one holder per host, served until given up), hosts are proved by their holder, one primary domain, no request is stuck |
| `platform` | signup: 2 e-mails, 2 free slugs and a reserved one, 2 signups at once; access: 2 users, 2 workspaces, 1 key, 2 requests at once, 1 or 2 administrators at first; limiter: a bucket of 2 that refills 1 a tick, 2 calls at once with a latency of 1 tick, 5 ticks; symmetry | accounts come whole, `Workspaces` is implemented, a record is missing only where the task itself was disturbed, nobody is in a workspace without a right, the last administrator falls to stale callers only, the limit holds, an outage costs a bounded number of time-outs |
| `super_admin` | the same, access only | **violated**: two administrators demote each other |
| `workforce` | requests: 2 employees, 3 invitations, a correction and a leave, 2 handlers at once; directory: 2 rows, Odoo employees and PINs, 1 code, 2 pushes at once with 2 employees in all; report: a month of 3 days (Saturday to Monday) and a day on each side, 2 moments a day, 3 facts in any mixture, with every working week and whether or not the employee is active or listed; symmetry | late invitations and reviews, notices, stored answers and twins, absences and the agreement of the views |

Why these bounds are enough for the questions asked: every hazard listed is a
collision of two requests, so two heartbeats, two enqueue requests and two pushes
are the smallest instances that have it; three device rows let two compete while
a third takes their place, and exceed a limit of one by more than the race
allows; two employees on one device give lock cycles (pair against pair), three
ids one request with two commands beside one with a single command; two PINs give
two pushes that create employees in opposite orders, and a PIN that moves from one
person to the other; one contested host name with a row for each workspace is the
smallest case in which it changes hands, and the default subdomain beside one
custom domain the smallest choice of a primary one; two administrators can take each
other's rights, a third adds only company; a bucket of two and a latency of one tick let
a late call set the clock back, spend and be followed by one that gains; a month that
begins on a Saturday and ends on a Monday has a work day, both kinds of weekend days and
both edges, and no clause of a view combines more than three facts; two pushes with two employees in all
have one employee twice in a list, one employee in each, and an adopted row. The bounds themselves (`MaxDevices`, `MaxCommands`,
`MaxPunches`, `MaxEdits`, `MaxEmployees`, `CreateSlots`, `MaxInvites`, `MaxNotices`, `MaxTime`,
`MaxFacts`, `MaxBatch`, `MaxItems`, the sets `Ids` and `Keys`) are guards and named in
the CONSTANTS of each module. Deadlock checking is on for `platform` and `super_admin`
and off elsewhere, because those systems legitimately stop when their bounded ids, facts
or punches are used up.

**Fairness.** Terminals repeat: their configuration says `Delay=10`,
`ErrorDelay=30` (`services/adms_parser.py:100-116`), so contacting, polling and
sending are strongly fair. A transaction that can go on does, and PostgreSQL
grants row locks in turn, so the steps of a request are strongly fair, too: an
adversary that locks the row just before every attempt is excluded, starvation by
the code itself is not. Nothing is assumed of people: no fairness for creating,
verifying, hiring, punching. In `AttendanceIngest` rollbacks by crashes and by
deadlocks in the final inserts are assumed to end (`RollbacksEnd`); rollbacks the
code itself brings about are not, which is what `ingest_one_pin` needs. The platform
and workforce modules state safety only and assume no fairness.

## Proofs

`DeviceClaimProofs` proves for every number of tenants, terminals, handlers and
devices, from the assumptions `SizesAssumption`, `LimitAssumption` and
`SentinelAssumption` (numbers are numbers, sentinels are no members):

* `TypeCorrect`, `LiveSerialsAreUnique`, `ClaimsAreExclusive`,
  `ActiveDevicesWereClaimed`: the invariants of `device_claim_safety`, and that two
  heartbeats never work on one claim code;
* `CodesBindOnce`: a bound serial is never replaced (the run checks this as a part of
  `ImplementsRegistry` only);
* `OvershootIsBounded`: the plan limit can be raced by `CreateSlots - 1` at most;
* `RefinesRegistry`: every step is a step of `DeviceRegistry` or none.

The first four hold together, not one by one, so they are conjuncts of one
inductive invariant `IInv`. What it adds is `RequestsMatchRows`: ids above
`issued` are unused, a create request has no row yet, a row that does not exist
has no serial, a verify request works on an existing row that is bound, and a
heartbeat under way carries a serial. It is needed because the handlers act on
what they read earlier: `VerifyCommit` tests nothing, so that the device it
activates has a terminal follows only from what `VerifySelect` saw and from
`CodeBindsOnce`. `OvershootBounded` needs cardinalities and is proved separately
on top of `IInv`: an invariant bounds the live, never revived devices of a tenant
together with its create requests in flight.

`CustomDomainsProofs` proves for every number of tenants, names, rows and requests,
from `SentinelAssumption` and `DisjointAssumption` (default subdomains are no custom
names):

* `TypeCorrect`, `PrimaryUnique`, `ServedHostsProved`, `NobodyStaysStuck`: the
  invariants of `custom_domains`;
* `RefinesHostBook`: every step is a step of `HostBook` or none;
* `NamesHeldOnce` and `ServedStays`: two facts that `HostBook` entails and the
  refinement rests on, an invariant and an action property of the rows.

Its inductive invariant adds four things. `RowsInOrder`: a default subdomain is
never removed, a served row's records were published, a primary row exists.
`RequestsMatchRows`: what each request may rely on about the row it read, which is
not its status. `ClearedAreLocked`: between clearing and marking, set-primary holds
the lock of every row of its tenant that is primary and of the default subdomain;
since the latter always exists, two requests of one tenant are never both in
between, and that is why `OnePrimary` survives rows that come and go.
`LocksMatchRequests`: a row is locked by a set-primary request of its tenant that has
cleared, a tenant by a removal of one of its domains that has reset; nothing stays
locked by a request that is over.

`NobodyIsStuck` says that a set of requests that wait for none outside it has one
that can go on or is in a cycle PostgreSQL breaks, which is what "every request ends"
needs beyond fairness. The code takes locks in opposite orders (domain rows, then the
tenant; the tenant, then a domain row). By `LocksMatchRequests` whoever waits for a row
waits for a set-primary that has cleared, whoever waits for a tenant for a removal that
has reset. By `ClearedAreLocked` a tenant has one such set-primary at a time, since it
locks the default subdomain; so if these two wait for each other they are the two that
PostgreSQL finds, and otherwise one of them can go on. `RefinesHostBook` needs `HeldOnce` twice: that entries of different rows
differ, so that a step on one row changes one entry, and that a name that is added has
no entry yet.

`CommandQueueProofs` proves for every number of employees, devices, requests and
commands, from `MaxCommandsAssumption`, `RequestsAssumption` (there are finitely many requests
at a time) and `SentinelAssumption`:

* `TypeCorrect`, `ReportsAreTrue`, `NobodyStaysStuck`: the invariants of
  `command_queue`;
* `NewestWins`: its action property;
* `RefinesLedger`: every step is a step of `CommandLedger` or none;
* `FinalStatesStay`: a final status never changes (the run checks this as a part of
  `ImplementsLedger` only).

A terminal is sent the oldest pending id, and ids are drawn before the commit, so
that requests are obeyed in the order they committed is not evident. The inductive
invariant says why it is so: an uncommitted command is protected by its request's
lock on the assignment row of its employee and device (`RequestsMatchRows`), so it
is the newest of that pair (`InsertedIsNewest`), so ids and commits of one pair
never disagree (`StampsFollowIds`), although those of different pairs do; and what
a terminal holds is older than whatever is still to be sent to it (`GotIsOlder`).
`FinalIsTrue` is a conjunct because a report must not hit a command that is yet to
be sent. The lock matters: without the upsert before the INSERT the third step
fails, which is the mutant of `NewerRequestsWin`.

`RefinesLedger` puts these together: that a commit publishes at most one command for
an employee and device, that the oldest pending id is the oldest turn of its pair, and
that only a command that was never sent lapses (`OnlyPendingExpire`), which the
handlers do not test in one place. `NobodyStaysStuck` rests on
`HoldersAreUnderWay` (a lock belongs to a request between its first pair and its commit)
and on `CycleExists`: in a finite set where everybody waits for somebody, somebody waits
for itself. The latter takes a smallest closed set of waiting requests; that there is
one comes from the well-foundedness of the cardinalities, no cycle is built step by step.

`AttendanceIngestProofs` proves for every number of terminals, PINs, pushes,
employees and punches, from `BoundsAssumption`, `PolicyAssumption` and
`SentinelAssumption`:

* `TypeCorrect`, `NothingForgotten`, `RowsAttributed`, `PresenceIsBacked`: the
  invariants of `ingest_pins` and `ingest_retries`;
* `RefinesPunchLog`: every step is a step of `PunchLog` or none.

A push stores what it read or created several steps earlier. What it can rely on
is `MapsAreOwn`: its map names only employees who have or had the PIN and whose row
is committed or its own, so that the rollback of another push cannot take the row
away (`LogIsCommitted`: what is stored is committed). `RowsInOrder` says that only a
push under way has uncommitted rows, `PunchesAreReal` that terminals keep and pushes
carry punches of the terminal's own past, which is why a hello after which
everything is sent again loses nothing. Presence is the last row of a batch about
an employee; that a finite set of punches has a last one is `LastExists`, from the
well-foundedness of the naturals.

`PlatformProofs` proves three components and their composition.

* `Access`, for every number of users, workspaces, keys and requests, from
  `OwnerAssumption` and `AccessSentinels`: `AccessTypeCorrect`, `InsidersEntitled` and
  `LastAdminTakenByStale`. The invariant `AccessIInv` adds that a request carries what
  its own guard has seen (a request for an administrator's action has a super admin as
  caller, a key's request that key's workspace) and `MembersEntitled`: every membership
  is an owner's or has its audit row. The latter is what carries a right to a workspace
  from an impersonation to requests made long after.
* `Signup`, for every set of e-mails, slugs and signups, from `ReservedAssumption`,
  `ApexAssumption` and `SignupSentinels`: `SignupTypeCorrect`, `SignupsWhole`,
  `ZonesBacked`, `LossesAreExplained` and `RefinesWorkspaces`. That a user owns exactly
  one workspace rests on `InsertsNew` (what a signup has inserted is not committed by
  anybody) and `InsertsDiffer` (no two have inserted the same), which is what the
  unique indexes and their waits amount to. `TasksBacked` says that a task's copy of the
  zone names existing workspaces only, which is what makes its late write a step of
  `Workspaces`. `OverlapsKnown` says that tasks which are both between reading and
  writing are in `disturbed`, `CopiesKeep` that whoever is yet to write has read every
  record that was written undisturbed: that is why such a record survives all later
  tasks, also those that overlap each other.
* `RateLimiter`, for every capacity, refill, latency and number of calls, from
  `BucketAssumption` (a bucket is full again after `Lifetime`), `TimingAssumption` (a
  call takes no longer than the grace Redis adds to that), `BoundAssumption` and
  `CallsAssumption` (there are finitely many calls at a time): `LimiterTypeCorrect`,
  `LimitKept`, `TimeoutsAreFew`. The invariant behind `LimitHolds` is
  `Credit`: what was granted and what is in the bucket never exceed the capacity and
  the refill up to `ts` and of the time set back. The expiry of the key keeps it because
  a reading is recent (`ReadingRecent`). Behind `TimeoutsBounded` is `BreakerBound`: while
  the breaker is closed failures are counted in `failures`, too; while it is open the
  calls that wait for Redis (`InFlight`) can only become fewer, and each of them is
  counted once, however often the outage is extended.
* `Platform`: `PlatformRunsItsParts` and, through it, `PlatformTypeCorrect`.

`WorkforceProofs` proves three components and their composition, from `InvitesAssumption`,
`KindsAssumption`, `HrSentinels`, `MonthAssumption`, `DaysAssumption`,
`ClockAssumption`, `BatchAssumption` and `DirectorySentinels`.

* `HrRequests`, for every number of employees, requests and handlers: `HrTypeCorrect`,
  `OldInvitationsAreLate`, `FirstReviewsStand`, `LastNoticesTrue`. The invariant `HrIInv`
  relates what a handler has read to the rows: a token it holds was given out, an
  invitation in a row is newer than the row's password, and a request with a token that
  is not newer is in `overtaken` (`PasswordsOrdered`); and a review that found its request pending
  before it was decided is in `early`. `NoticesLocked` adds why notices follow the
  decisions: the notification is inserted under the lock of the request's row, so that
  of two reviews the one that commits later also has the greater id, and an
  uncommitted notification is the newest about its request.
* `MonthReport`, for every month, length of a day and mixture of rows:
  `ReportTypeCorrect`, `AbsencesReal`, `ViewsAgreeAlways`. The latter rests on
  `DayIsInterval` (grouping by DATE and the interval of a day are the same) and
  `SamePunches`.
* `Directory`, for every number of rows, pushes and employees in a batch:
  `DirectoryTypeCorrect`, `AnswersAreStored`, `TwinsComeFromOverlap`. `DirIInv` says
  that each row a push has written stands for an employee it has counted, and each it
  has counted for a row of its own or a later employee that took it (`DoneIsOwn`); that a
  row of its own is met again only by odoo_id, PIN or code, and that an aborted push
  creates employees and has counted a skip (`TargetFound`), which is what makes
  such answers recognisable. `TwinFree` says of one Odoo employee on whom no pushes have
  overlapped that one push at most works on it, that no view has two rows of it, and
  that what the SELECT by odoo_id has found is still so when the row is written
  (`StillFound`), whatever pushes of other employees and HR write in between.
* `Workforce`: `WorkforceRunsItsParts` and, through it, `WorkforceTypeCorrect`.

Only model-checked: liveness under fairness (`TerminalGetsServed`, `EnqueueEnds`,
`QueueDrains`, `PunchesArrive`) and whatever rests on ENABLED, which the prover does
not support. Every safety property of the passing runs is proved, the five refinements
and the two joint type invariants included. The violated runs are counterexamples
and need no proof.

## Noticed while modelling

Besides the violated runs, whose findings are in PROJECT.json:

* When two pushes meet the same new PIN, the INSERT of the second returns no id
  (`ON CONFLICT DO NOTHING`), which the code takes for a conflict on the code
  (`adms.py:264`); it inserts again, conflicts on the PIN again, and stores its rows
  with `employee_id` NULL, although `auto_create_from_machine` promises a placeholder
  (`adms.py:209-212`). Nothing fills the column in later.
* Presence follows the order in which rows are processed (`adms.py:313`): a push that
  is repeated and served late sets it from an old check-in although the check-out is
  stored; `attendance.py:24` speaks of the last punch. What holds is `PresenceBacked`.
* A removal that read `is_primary` before set-primary committed (`tenants.py:260`)
  leaves `tenants.primary_domain` naming a domain no workspace holds.
* A device that is deleted before it was bound keeps its open code (`devices.py:194`),
  and the oldest open code is bound next: the unknown terminal is attached to a row that
  is `disabled` and is not served, until somebody verifies that code. Nothing in the
  repository says what should become of the code, so `DeviceRegistry` permits it.
* A heartbeat binds the oldest open code of *any* tenant (`adms.py:66-74`). Two
  tenants that onboard at the same time can get each other's terminal. The code
  knows nothing of an unknown terminal but its serial number.
* `cdata_push` accepts punches of a bound device that nobody has verified yet
  (`_resolve_device` includes `pending_claim`), although the module's docstring
  speaks of `status='active'` (`adms.py:16`). `ActiveWasBoundAndClaimed` says what
  does hold.
* `devices.pending_commands_count` is incremented for every command
  (`sync.py:132-139`) and decremented nowhere; the devices page shows it as
  "Pending cmds".
* A verification that ran out of time is answered with 410, but its UPDATE to
  `expired` (`tenants.py:165-170`) is in the transaction the exception rolls back:
  the row stays `pending`, its name stays reserved. The rows of
  `dns_verification_attempts` for failed checks are lost in the same way
  (`tenants.py:180-207`).
* A row that an administrator released (`restricted`) is served again as soon as its
  workspace verifies it once more (`tenants.py:163` refuses only `verified` and
  `active`). A check that was under way when its domain became primary sets the row
  back from `active` to `verified`, which `resolve-host` does not answer for.
* The domains page announces that custom domains become `restricted` after a
  downgrade (`page.tsx:238-239`); `change_plan` touches no domain.
* A command whose response is lost stays `sent` for ever (`adms.py:373-382`), and
  `employee_device_assignments.sync_status` is only ever set to `pending`
  (`sync.py:107-117`).
* `set_user_active` has no check for the last administrator (`admin.py:196-213`), so
  that two who disable each other have the same effect as the run `super_admin`.
  `LastAdminFallsToStaleCaller` says what does hold.
* An impersonation leaves a membership that outlives the administrator's rights
  (`admin.py:300-308`); it is audited, which is what `StrangersWereAudited` relies on.
  Lifting a suspension and blocking an IP are not audited, although "Every admin write
  goes through audit_logs" (`admin.py:5`).
* Nothing fills the Redis set `blocked_ips` that the middleware looks in
  (`rate_limit.py:143`): blocking an IP has no effect. `api_keys.expires_at` is read
  (`deps.py:209`) and never compared. A suspended workspace is still reached through a
  custom domain or a token (`deps.py:58-70, 105-109`).
* The bucket's clock goes back when calls overtake each other (`rate_limit.py:79, 87`),
  and the same seconds are refilled again: the limit holds only with `setBack` added.
* Two overlapping signups of one e-mail end in a 500, not in the 409 of a taken one
  (`auth.py:49-55`). A DNS record that was not written is never tried again.
* Two reviewers at once both decide, and the employee gets two notices; a leave's
  review sends none (`hr.py:126-149`). Two requests with one invitation both succeed
  if they overlap, a slow one with a replaced invitation sets its password over the
  newer one, and either wipes out an invitation that was sent meanwhile
  (`employee_app.py:231-237`). `OldInvitationsLose` says what does hold.
* `employees.terminated_at` is never cleared: an employee who is active again has empty
  cells for ever (`attendance.py:177`). The dashboard shows neither inactive employees
  (`attendance.py:78`) nor those after the first 1000 (`:95`), while the timesheet has
  their rows (`:263`). Sundays are `W` also where the week has seven work days
  (`attendance.py:159`). A punch on a day off or a leave day is not
  "P - Present (>=1 punch on this day)" (`attendance.py:59`): the day off wins.
* Odoo employees who swap their PINs can never be pushed (the first UPDATE meets the
  other's PIN, 500). A failing INSERT costs the whole push although, if nothing was left
  to do, the counts are answered (`odoo.py:216-221`): `skipped` > 0 is the only sign. The
  handler does not look for repetitions: of two employees of one list with the same
  odoo_id, PIN or code the later one takes the row. A row that was adopted keeps the code `ODOO-<id>` it was
  made with, so that the INSERT of that employee fails ever after. Of two employees in
  one push the second can adopt the row of the first, and both count as updated.

## Not modelled

* Formats: ATTLOG lines, commands, e-mails, reports, the biometric filter.
* Time zones and the monthly partitions of the log tables.
* Billing: webhooks are stored and answered and change nothing else; those whose
  signature is wrong are stored and rolled back (`billing.py:192-202`).
* Odoo: the pull (`odoo.py:46-80`) joins two tables with a `tenant_id` column and
  names it unqualified, which PostgreSQL rejects, so there is no behaviour beyond
  an error; the acknowledgement and the add-on's own transactions depend on it. The
  add-on's employee push sends its API key to an endpoint that wants a user's token.
* Row-level security: the policies are PostgreSQL's, and the role the deployment
  connects as is a superuser, to whom they do not apply; handlers filter by tenant.
* Suspension of a tenant, blocking of an IP, password resets, the tenant's settings:
  single statements on columns of their own.
* Passwords, the signatures and the expiry of tokens.
* The spreadsheet, the listings, Cloudflare calls, branches and departments, the
  portal's rendering, deployment scripts.
