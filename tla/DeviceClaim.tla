----------------------------- MODULE DeviceClaim -----------------------------
(***************************************************************************)
(* Onboarding of a ZKTeco terminal (routers/devices.py and the binding     *)
(* half of routers/adms.py).  The portal creates a device row together     *)
(* with a claim code; an unknown serial number that contacts the gateway   *)
(* is bound to the oldest open code; the user verifies the code and the    *)
(* device becomes active; deleting a device disables its row.              *)
(*                                                                         *)
(* Requests are PostgreSQL READ COMMITTED transactions.  A handler that    *)
(* reads, decides and writes later is split where another transaction can  *)
(* commit in between: the create request after its limit check, the        *)
(* heartbeat after it locked a code and after its duplicate check.         *)
(*                                                                         *)
(* A row of `devices` and its row of `device_claim_codes` are inserted by  *)
(* one transaction, so one id stands for both.  bound_serial and           *)
(* serial_number are only ever written together: `serial` is both, and     *)
(* NoSerial is the UNCLAIMED-... placeholder with bound_serial NULL.       *)
(***************************************************************************)
EXTENDS Naturals, FiniteSets

CONSTANTS
  Tenants,
  Serials,      \* serial numbers of physical terminals
  Handlers,     \* heartbeats the gateway can be serving at once
  MaxDevices,   \* bound: create requests that get past the limit check
  CreateSlots,  \* create requests of one tenant the API serves at once
  DeviceLimit,  \* DeviceLimit[t]: device_limit of the tenant's plan
  NoLimit,      \* device_limit NULL
  NoSerial,
  NoTenant

ASSUME SizesAssumption ==
  /\ MaxDevices \in Nat
  /\ CreateSlots \in Nat \ {0}
ASSUME LimitAssumption == DeviceLimit \in [Tenants -> Nat \cup {NoLimit}]
ASSUME SentinelAssumption ==
  /\ NoSerial \notin Serials
  /\ NoTenant \notin Tenants
  /\ NoLimit \notin Nat

\* Ids in created_at order: created_at is NOW(), the start of the transaction.
Devices == 1..MaxDevices
NoDevice == 0

VARIABLES
  status,    \* devices.status, "absent" before the row is inserted
  tenant,    \* tenant_id of the row, and of the create request before it
  serial,    \* devices.serial_number and device_claim_codes.bound_serial
  claimed,   \* codes whose claimed_at is set
  expired,   \* codes whose expires_at has passed
  issued,    \* ids handed out so far
  creating,  \* create requests between the limit check and the insert
  verifying, \* codes some verify request has found valid and not updated yet
  pc,        \* pc[h]: step of the heartbeat transaction h
  contact,   \* contact[h]: serial number that heartbeat carries
  claim,     \* claim[h]: code it holds FOR UPDATE
  logged,    \* devices with attendance rows in the database
  revived    \* history: devices activated after they had been disabled

rows == <<status, tenant, serial, claimed, expired>>
portal == <<issued, creating, verifying>>
gateway == <<pc, contact, claim>>
vars == <<rows, portal, gateway, logged, revived>>

LiveStatus == {"pending_claim", "active"}
Exists(d) == status[d] # "absent"
Live(d) == status[d] \in LiveStatus
LiveOf(t) == {d \in Devices : Live(d) /\ tenant[d] = t}
CreatingOf(t) == {d \in creating : tenant[d] = t}

\* _resolve_device: the row that answers for a serial number.
Resolve(s) == {d \in Devices : Live(d) /\ serial[d] = s}

\* Faulty variant: the table without its partial unique index.
NoUniqueIndex(d, s) == FALSE

\* uniq_devices_active_sn would reject row d with serial s and a live status.
IndexRejects(d, s) == Resolve(s) \ {d} # {}

Locked(d) == \E h \in Handlers : claim[h] = d

\* Faulty variant: the condition bound_serial IS NULL is forgotten.
OpenEvenIfBound(d) == Exists(d) /\ d \notin claimed /\ d \notin expired

\* Rows SELECT ... FOR UPDATE SKIP LOCKED may return to a binding heartbeat.
OpenCode(d) ==
  /\ Exists(d)
  /\ serial[d] = NoSerial
  /\ d \notin claimed
  /\ d \notin expired
BindableCodes == {d \in Devices : OpenCode(d) /\ ~Locked(d)}
Oldest(d, S) == d \in S /\ \A e \in S : d <= e

Init ==
  /\ status = [d \in Devices |-> "absent"]
  /\ tenant = [d \in Devices |-> NoTenant]
  /\ serial = [d \in Devices |-> NoSerial]
  /\ claimed = {}
  /\ expired = {}
  /\ issued = 0
  /\ creating = {}
  /\ verifying = {}
  /\ pc = [h \in Handlers |-> "idle"]
  /\ contact = [h \in Handlers |-> NoSerial]
  /\ claim = [h \in Handlers |-> NoDevice]
  /\ logged = {}
  /\ revived = {}

------------------------------------------------------------------------------
\* Portal: POST /api/devices, POST /api/devices/claim/verify, DELETE /api/devices/{id}

\* Faulty variant: the limit itself still lets a device through.
CreateCheckOffByOne(t) ==
  /\ issued < MaxDevices
  /\ Cardinality(CreatingOf(t)) < CreateSlots
  /\ DeviceLimit[t] # NoLimit => Cardinality(LiveOf(t)) <= DeviceLimit[t]
  /\ issued' = issued + 1
  /\ creating' = creating \cup {issued + 1}
  /\ tenant' = [tenant EXCEPT ![issued + 1] = t]
  /\ UNCHANGED <<status, serial, claimed, expired, verifying, gateway, logged, revived>>

\* create_device_claim up to the COUNT; a tenant at its limit gets 402 and
\* nothing changes.
CreateCheck(t) ==
  /\ issued < MaxDevices
  /\ Cardinality(CreatingOf(t)) < CreateSlots
  /\ DeviceLimit[t] # NoLimit => Cardinality(LiveOf(t)) < DeviceLimit[t]
  /\ issued' = issued + 1
  /\ creating' = creating \cup {issued + 1}
  /\ tenant' = [tenant EXCEPT ![issued + 1] = t]
  /\ UNCHANGED <<status, serial, claimed, expired, verifying, gateway, logged, revived>>

\* ... the inserts of the device row and of its claim code, committed together.
CreateInsert(d) ==
  /\ d \in creating
  /\ creating' = creating \ {d}
  /\ status' = [status EXCEPT ![d] = "pending_claim"]
  /\ UNCHANGED <<tenant, serial, claimed, expired, issued>>
  /\ UNCHANGED <<verifying, gateway, logged, revived>>

\* ... or 500: eight device_code candidates were all taken.
CreateFail(d) ==
  /\ d \in creating
  /\ creating' = creating \ {d}
  /\ UNCHANGED <<rows, issued, verifying, gateway, logged, revived>>

\* Faulty variant: the 409 for a code no device has connected with is missing.
VerifySelectUnbound(d) ==
  /\ Exists(d)
  /\ d \notin claimed
  /\ d \notin expired
  /\ verifying' = verifying \cup {d}
  /\ UNCHANGED <<rows, issued, creating, gateway, logged, revived>>

\* verify_claim up to the SELECT, which looks at the code and not at the device.
VerifySelect(d) ==
  /\ Exists(d)
  /\ d \notin claimed
  /\ d \notin expired
  /\ serial[d] # NoSerial
  /\ verifying' = verifying \cup {d}
  /\ UNCHANGED <<rows, issued, creating, gateway, logged, revived>>

\* ... the UPDATEs of the device, whatever its status, and of the code.  A
\* second request with the same code may have got as far as the SELECT (bound:
\* two requests per code).
VerifyCommit(d) ==
  /\ d \in verifying
  /\ ~IndexRejects(d, serial[d])
  /\ status' = [status EXCEPT ![d] = "active"]
  /\ claimed' = claimed \cup {d}
  /\ \/ verifying' = verifying \ {d}
     \/ d \notin claimed /\ UNCHANGED verifying
  /\ revived' = IF status[d] = "disabled" THEN revived \cup {d} ELSE revived
  /\ UNCHANGED <<tenant, serial, expired, issued, creating, gateway, logged>>

\* ... or the unique index rejects the UPDATE of a disabled row.
VerifyReject(d) ==
  /\ d \in verifying
  /\ IndexRejects(d, serial[d])
  /\ verifying' = verifying \ {d}
  /\ UNCHANGED <<rows, issued, creating, gateway, logged, revived>>

\* Faulty variant: a status the unique index and the gateway do not know.
DisableAsDeleted(d) ==
  /\ Exists(d)
  /\ status' = [status EXCEPT ![d] = "deleted"]
  /\ UNCHANGED <<tenant, serial, claimed, expired, portal, gateway, logged, revived>>

\* Faulty variant: deleting a device gives its serial number back.
DisableAndUnbind(d) ==
  /\ Exists(d)
  /\ status' = [status EXCEPT ![d] = "disabled"]
  /\ serial' = [serial EXCEPT ![d] = NoSerial]
  /\ UNCHANGED <<tenant, claimed, expired, portal, gateway, logged, revived>>

\* delete_device: a soft delete; the claim code stays as it is.
Disable(d) ==
  /\ Exists(d)
  /\ status' = [status EXCEPT ![d] = "disabled"]
  /\ UNCHANGED <<tenant, serial, claimed, expired, portal, gateway, logged, revived>>

\* CLAIM_TTL_MINUTES pass.
Expire(d) ==
  /\ Exists(d)
  /\ d \notin expired
  /\ expired' = expired \cup {d}
  /\ UNCHANGED <<status, tenant, serial, claimed, portal, gateway, logged, revived>>

------------------------------------------------------------------------------
\* Gateway: GET /iclock/cdata and /iclock/ping bind, POST /iclock/cdata does not

\* An unknown serial number reports in and its transaction locks the oldest
\* open code of any tenant.  (A known one, or one that finds no open code,
\* leaves this state as it is.)
Contact(h, s) ==
  /\ pc[h] = "idle"
  /\ Resolve(s) = {}
  /\ \E d \in BindableCodes :
       /\ Oldest(d, BindableCodes)
       /\ claim' = [claim EXCEPT ![h] = d]
  /\ contact' = [contact EXCEPT ![h] = s]
  /\ pc' = [pc EXCEPT ![h] = "locked"]
  /\ UNCHANGED <<rows, portal, logged, revived>>

\* The duplicate check of _try_bind_via_claim finds nothing.
BindCheck(h) ==
  /\ pc[h] = "locked"
  /\ Resolve(contact[h]) = {}
  /\ pc' = [pc EXCEPT ![h] = "checked"]
  /\ UNCHANGED <<rows, portal, contact, claim, logged, revived>>

\* Faulty variant: the transaction ends and its row lock stays.
EndKeepingLock(h) ==
  /\ pc' = [pc EXCEPT ![h] = "idle"]
  /\ contact' = [contact EXCEPT ![h] = NoSerial]
  /\ UNCHANGED claim

EndOf(h) ==
  /\ pc' = [pc EXCEPT ![h] = "idle"]
  /\ contact' = [contact EXCEPT ![h] = NoSerial]
  /\ claim' = [claim EXCEPT ![h] = NoDevice]

\* The two UPDATEs and the commit.  The UPDATE of `devices` does not look at
\* its status: a row disabled meanwhile is bound as well.
BindCommit(h) ==
  /\ pc[h] = "checked"
  /\ Live(claim[h]) => ~IndexRejects(claim[h], contact[h])
  /\ serial' = [serial EXCEPT ![claim[h]] = contact[h]]
  /\ EndOf(h)
  /\ UNCHANGED <<status, tenant, claimed, expired, portal, logged, revived>>

\* The transaction ends without effect: the duplicate check found a row, or
\* the unique index rejected the UPDATE.
BindRefused(h) ==
  /\ \/ pc[h] = "locked" /\ Resolve(contact[h]) # {}
     \/ pc[h] = "checked" /\ Live(claim[h]) /\ IndexRejects(claim[h], contact[h])
  /\ EndOf(h)
  /\ UNCHANGED <<rows, portal, logged, revived>>

\* cdata_push with attendance rows from a serial number _resolve_device knows.
Push(s) ==
  /\ \E d \in Resolve(s) : logged' = logged \cup {d}
  /\ UNCHANGED <<rows, portal, gateway, revived>>

\* The API process dies: every open transaction is rolled back.
Restart ==
  /\ \/ creating \cup verifying # {}
     \/ \E h \in Handlers : pc[h] # "idle"
  /\ creating' = {}
  /\ verifying' = {}
  /\ pc' = [h \in Handlers |-> "idle"]
  /\ contact' = [h \in Handlers |-> NoSerial]
  /\ claim' = [h \in Handlers |-> NoDevice]
  /\ UNCHANGED <<rows, issued, logged, revived>>

Next ==
  \/ \E t \in Tenants : CreateCheck(t)
  \/ \E d \in Devices :
       \/ CreateInsert(d)
       \/ CreateFail(d)
       \/ VerifySelect(d)
       \/ VerifyCommit(d)
       \/ VerifyReject(d)
       \/ Disable(d)
       \/ Expire(d)
  \/ \E h \in Handlers :
       \/ \E s \in Serials : Contact(h, s)
       \/ BindCheck(h)
       \/ BindCommit(h)
       \/ BindRefused(h)
  \/ \E s \in Serials : Push(s)
  \/ Restart

Spec == Init /\ [][Next]_vars

\* A terminal keeps calling in (Delay=10, ErrorDelay=30 in its configuration)
\* and restarts do not cut its transactions short for ever.
Fairness ==
  /\ \A s \in Serials : SF_vars(\E h \in Handlers : Contact(h, s))
  /\ \A h \in Handlers :
       SF_vars(BindCheck(h)) /\ SF_vars(BindCommit(h) \/ BindRefused(h))

FairSpec == Spec /\ Fairness

------------------------------------------------------------------------------

TypeOK ==
  /\ status \in [Devices -> LiveStatus \cup {"absent", "disabled"}]
  /\ tenant \in [Devices -> Tenants \cup {NoTenant}]
  /\ serial \in [Devices -> Serials \cup {NoSerial}]
  /\ claimed \subseteq Devices
  /\ expired \subseteq Devices
  /\ issued \in 0..MaxDevices
  /\ creating \subseteq Devices
  /\ verifying \subseteq Devices
  /\ pc \in [Handlers -> {"idle", "locked", "checked"}]
  /\ contact \in [Handlers -> Serials \cup {NoSerial}]
  /\ claim \in [Handlers -> Devices \cup {NoDevice}]
  /\ logged \subseteq Devices
  /\ revived \subseteq Devices

\* At most one live device answers for a serial number, whatever heartbeats,
\* verifications, deletions and late verifications of disabled devices overlap:
\* otherwise _resolve_device would route punches to an arbitrary one of them.
UniqueLiveSerial ==
  \A d, e \in Devices :
    Live(d) /\ Live(e) /\ serial[d] = serial[e] /\ serial[d] # NoSerial => d = e

\* Two heartbeats being served at once never work on the same claim code, and
\* the code a heartbeat works on stays unbound until that heartbeat binds it.
ClaimLocksExclusive ==
  \A h \in Handlers : pc[h] # "idle" =>
    /\ claim[h] \in Devices
    /\ Exists(claim[h]) /\ serial[claim[h]] = NoSerial
    /\ \A g \in Handlers \ {h} : claim[g] # claim[h]

\* An active device, however it got there, has a terminal behind it and a claim
\* code its tenant verified; so has every device that stored attendance rows a
\* terminal.
ActiveWasBoundAndClaimed ==
  \A d \in Devices :
    /\ status[d] = "active" => serial[d] # NoSerial /\ d \in claimed
    /\ d \in logged => serial[d] # NoSerial

\* The COUNT-then-INSERT limit check can be raced, but only by as many requests
\* as are served at once: not counting devices that were activated after being
\* disabled, a tenant exceeds its plan by at most CreateSlots - 1 devices.
OvershootBounded ==
  \A t \in Tenants : DeviceLimit[t] # NoLimit =>
    Cardinality((LiveOf(t) \ revived) \cup CreatingOf(t))
      <= DeviceLimit[t] + CreateSlots - 1

\* A claim code is bound to one serial number for ever: a second heartbeat
\* that looked for a code at the same time does not take it over.
CodeBindsOnce ==
  [][\A d \in Devices : serial[d] # NoSerial => serial'[d] = serial[d]]_vars

\* An unknown terminal that keeps calling in while some tenant waits for one is
\* served: it gets a live device of its own or the open codes are used up.
TerminalGetsServed ==
  \A s \in Serials :
    (Resolve(s) = {} /\ \E d \in Devices : OpenCode(d))
      ~> (Resolve(s) # {} \/ \A d \in Devices : ~OpenCode(d))

\* README: a plan allows a number of devices.
PlanLimitHolds ==
  \A t \in Tenants :
    DeviceLimit[t] # NoLimit => Cardinality(LiveOf(t)) <= DeviceLimit[t]

------------------------------------------------------------------------------
\* The registry this onboarding implements.
Registry == INSTANCE DeviceRegistry
              WITH Records <- Devices, phase <- status, attached <- serial

\* Every committed transaction is one step of the registry, the others none.
ImplementsRegistry == Registry!Spec
===============================================================================
