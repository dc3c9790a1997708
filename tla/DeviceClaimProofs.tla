-------------------------- MODULE DeviceClaimProofs --------------------------
(***************************************************************************)
(* Proofs about DeviceClaim, for every number of tenants, terminals,       *)
(* gateway handlers and devices.  IInv is inductive; it adds to the        *)
(* properties what links the requests in flight to the rows: ids are fresh *)
(* until a create request takes them, a create request has no row yet, a   *)
(* verify request has a bound code, a binding heartbeat carries a serial.  *)
(***************************************************************************)
EXTENDS DeviceClaim, FiniteSetTheorems, TLAPS

RequestsMatchRows ==
  /\ \A d \in Devices : d > issued => status[d] = "absent" /\ d \notin creating
  /\ \A d \in creating : status[d] = "absent"
  /\ \A d \in Devices : status[d] = "absent" => serial[d] = NoSerial
  /\ \A d \in verifying : status[d] # "absent" /\ serial[d] # NoSerial
  /\ \A h \in Handlers : pc[h] # "idle" => contact[h] \in Serials

IInv ==
  /\ TypeOK
  /\ RequestsMatchRows
  /\ ClaimLocksExclusive
  /\ UniqueLiveSerial
  /\ ActiveWasBoundAndClaimed

LEMMA NextTypeOK == TypeOK /\ [Next]_vars => TypeOK'
<1> USE SizesAssumption, SentinelAssumption
      DEF Devices, NoDevice, LiveStatus, TypeOK
<1> SUFFICES ASSUME TypeOK, [Next]_vars
             PROVE  TypeOK'
  OBVIOUS
<1> USE DEF rows, portal, gateway
<1>1. ASSUME NEW t \in Tenants, CreateCheck(t) PROVE TypeOK'
  <2>1. issued + 1 \in 1..MaxDevices
    BY <1>1 DEF CreateCheck
  <2>2. tenant' \in [Devices -> Tenants \cup {NoTenant}]
    BY <1>1 DEF CreateCheck
  <2>3. issued' \in 0..MaxDevices /\ creating' \subseteq Devices
    BY <1>1, <2>1 DEF CreateCheck
  <2> QED BY <1>1, <2>2, <2>3 DEF CreateCheck
<1>2. ASSUME NEW d \in Devices, CreateInsert(d) PROVE TypeOK'
  BY <1>2 DEF CreateInsert
<1>3. ASSUME NEW d \in Devices, CreateFail(d) PROVE TypeOK'
  BY <1>3 DEF CreateFail
<1>4. ASSUME NEW d \in Devices, VerifySelect(d) PROVE TypeOK'
  BY <1>4 DEF VerifySelect
<1>5. ASSUME NEW d \in Devices, VerifyCommit(d) PROVE TypeOK'
  <2>1. verifying' \subseteq Devices /\ revived' \subseteq Devices
    BY <1>5 DEF VerifyCommit
  <2> QED BY <1>5, <2>1 DEF VerifyCommit
<1>6. ASSUME NEW d \in Devices, VerifyReject(d) PROVE TypeOK'
  BY <1>6 DEF VerifyReject
<1>7. ASSUME NEW d \in Devices, Disable(d) PROVE TypeOK'
  BY <1>7 DEF Disable
<1>8. ASSUME NEW d \in Devices, Expire(d) PROVE TypeOK'
  BY <1>8 DEF Expire
<1>9. ASSUME NEW h \in Handlers, NEW s \in Serials, Contact(h, s) PROVE TypeOK'
  BY <1>9 DEF Contact, BindableCodes
<1>10. ASSUME NEW h \in Handlers, BindCheck(h) PROVE TypeOK'
  BY <1>10 DEF BindCheck
<1>11. ASSUME NEW h \in Handlers, BindCommit(h) PROVE TypeOK'
  <2>1. serial' \in [Devices -> Serials \cup {NoSerial}]
    BY <1>11 DEF BindCommit
  <2> QED BY <1>11, <2>1 DEF BindCommit, EndOf
<1>12. ASSUME NEW h \in Handlers, BindRefused(h) PROVE TypeOK'
  BY <1>12 DEF BindRefused, EndOf
<1>13. ASSUME NEW s \in Serials, Push(s) PROVE TypeOK'
  BY <1>13 DEF Push, Resolve
<1>14. CASE Restart
  BY <1>14 DEF Restart
<1>15. CASE UNCHANGED vars
  BY <1>15 DEF vars
<1> QED
  BY <1>1, <1>2, <1>3, <1>4, <1>5, <1>6, <1>7, <1>8, <1>9, <1>10, <1>11,
     <1>12, <1>13, <1>14, <1>15 DEF Next

\* Every variable keeps its type: the statuses, serial numbers, row locks and
\* request sets of routers/devices.py and routers/adms.py.
THEOREM TypeCorrect == Spec => []TypeOK
<1>1. Init => TypeOK
  BY SizesAssumption, SentinelAssumption DEF Init, TypeOK, Devices, NoDevice, LiveStatus
<1> QED
  BY <1>1, NextTypeOK, PTL DEF Spec

------------------------------------------------------------------------------

LEMMA InitInv == Init => IInv
BY SizesAssumption, SentinelAssumption
   DEF Init, IInv, TypeOK, RequestsMatchRows, ClaimLocksExclusive,
       UniqueLiveSerial, ActiveWasBoundAndClaimed, Live, Devices, NoDevice, LiveStatus

LEMMA NextRequestsMatchRows == IInv /\ [Next]_vars => RequestsMatchRows'
<1> SUFFICES ASSUME IInv, [Next]_vars
             PROVE  RequestsMatchRows'
  OBVIOUS
<1> USE SizesAssumption, SentinelAssumption
    DEF IInv, RequestsMatchRows, TypeOK, Devices, LiveStatus, rows, portal, gateway
<1>1. ASSUME NEW t \in Tenants, CreateCheck(t) PROVE RequestsMatchRows'
  BY <1>1 DEF CreateCheck
<1>2. ASSUME NEW d \in Devices, CreateInsert(d) PROVE RequestsMatchRows'
  BY <1>2 DEF CreateInsert
<1>3. ASSUME NEW d \in Devices, CreateFail(d) PROVE RequestsMatchRows'
  BY <1>3 DEF CreateFail
<1>4. ASSUME NEW d \in Devices, VerifySelect(d) PROVE RequestsMatchRows'
  BY <1>4 DEF VerifySelect, Exists
<1>5. ASSUME NEW d \in Devices, VerifyCommit(d) PROVE RequestsMatchRows'
  BY <1>5 DEF VerifyCommit
<1>6. ASSUME NEW d \in Devices, VerifyReject(d) PROVE RequestsMatchRows'
  BY <1>6 DEF VerifyReject
<1>7. ASSUME NEW d \in Devices, Disable(d) PROVE RequestsMatchRows'
  BY <1>7 DEF Disable, Exists
<1>8. ASSUME NEW d \in Devices, Expire(d) PROVE RequestsMatchRows'
  BY <1>8 DEF Expire
<1>9. ASSUME NEW h \in Handlers, NEW s \in Serials, Contact(h, s)
      PROVE  RequestsMatchRows'
  BY <1>9 DEF Contact
<1>10. ASSUME NEW h \in Handlers, BindCheck(h) PROVE RequestsMatchRows'
  BY <1>10 DEF BindCheck
<1>11. ASSUME NEW h \in Handlers, BindCommit(h) PROVE RequestsMatchRows'
  BY <1>11 DEF BindCommit, EndOf, ClaimLocksExclusive, Exists
<1>12. ASSUME NEW h \in Handlers, BindRefused(h) PROVE RequestsMatchRows'
  BY <1>12 DEF BindRefused, EndOf
<1>13. ASSUME NEW s \in Serials, Push(s) PROVE RequestsMatchRows'
  BY <1>13 DEF Push
<1>14. CASE Restart
  BY <1>14 DEF Restart
<1>15. CASE UNCHANGED vars
  BY <1>15 DEF vars
<1> QED
  BY <1>1, <1>2, <1>3, <1>4, <1>5, <1>6, <1>7, <1>8, <1>9, <1>10, <1>11,
     <1>12, <1>13, <1>14, <1>15 DEF Next

\* Only three kinds of step touch row locks or the serial numbers under them.
LEMMA NextClaimLocksExclusive == IInv /\ [Next]_vars => ClaimLocksExclusive'
<1> SUFFICES ASSUME IInv, [Next]_vars
             PROVE  ClaimLocksExclusive'
  OBVIOUS
<1> USE SizesAssumption, SentinelAssumption
    DEF IInv, ClaimLocksExclusive, TypeOK, Devices, NoDevice, Exists, rows, portal, gateway
<1>1. ASSUME NEW t \in Tenants, CreateCheck(t) PROVE ClaimLocksExclusive'
  BY <1>1 DEF CreateCheck
<1>2. ASSUME NEW d \in Devices, CreateInsert(d) PROVE ClaimLocksExclusive'
  BY <1>2 DEF CreateInsert
<1>3. ASSUME NEW d \in Devices, CreateFail(d) PROVE ClaimLocksExclusive'
  BY <1>3 DEF CreateFail
<1>4. ASSUME NEW d \in Devices, VerifySelect(d) PROVE ClaimLocksExclusive'
  BY <1>4 DEF VerifySelect
<1>5. ASSUME NEW d \in Devices, VerifyCommit(d) PROVE ClaimLocksExclusive'
  BY <1>5 DEF VerifyCommit
<1>6. ASSUME NEW d \in Devices, VerifyReject(d) PROVE ClaimLocksExclusive'
  BY <1>6 DEF VerifyReject
<1>7. ASSUME NEW d \in Devices, Disable(d) PROVE ClaimLocksExclusive'
  BY <1>7 DEF Disable
<1>8. ASSUME NEW d \in Devices, Expire(d) PROVE ClaimLocksExclusive'
  BY <1>8 DEF Expire
<1>9. ASSUME NEW h \in Handlers, NEW s \in Serials, Contact(h, s)
      PROVE  ClaimLocksExclusive'
  <2>1. PICK d \in BindableCodes : claim' = [claim EXCEPT ![h] = d]
    BY <1>9 DEF Contact
  <2>2. d \in Devices /\ OpenCode(d) /\ \A g \in Handlers : claim[g] # d
    BY <2>1 DEF BindableCodes, Locked
  <2>3. pc' = [pc EXCEPT ![h] = "locked"] /\ UNCHANGED <<status, serial>>
    BY <1>9 DEF Contact
  <2> QED
    BY <2>1, <2>2, <2>3 DEF OpenCode
<1>10. ASSUME NEW h \in Handlers, BindCheck(h) PROVE ClaimLocksExclusive'
  BY <1>10 DEF BindCheck
<1>11. ASSUME NEW h \in Handlers, BindCommit(h) PROVE ClaimLocksExclusive'
  BY <1>11 DEF BindCommit, EndOf
<1>12. ASSUME NEW h \in Handlers, BindRefused(h) PROVE ClaimLocksExclusive'
  BY <1>12 DEF BindRefused, EndOf
<1>13. ASSUME NEW s \in Serials, Push(s) PROVE ClaimLocksExclusive'
  BY <1>13 DEF Push
<1>14. CASE Restart
  BY <1>14 DEF Restart
<1>15. CASE UNCHANGED vars
  BY <1>15 DEF vars
<1> QED
  BY <1>1, <1>2, <1>3, <1>4, <1>5, <1>6, <1>7, <1>8, <1>9, <1>10, <1>11,
     <1>12, <1>13, <1>14, <1>15 DEF Next

\* What the unique index guarantees: row d may carry s and be live.
LEMMA IndexAccepts ==
  ASSUME NEW d \in Devices, NEW s, ~IndexRejects(d, s)
  PROVE  \A e \in Devices : Live(e) /\ serial[e] = s => e = d
BY DEF IndexRejects, Resolve

\* A row enters the index when it is inserted (with a placeholder), when its
\* serial number is set and when it is activated.
LEMMA NextUniqueLiveSerial == IInv /\ [Next]_vars => UniqueLiveSerial'
<1> SUFFICES ASSUME IInv, [Next]_vars
             PROVE  UniqueLiveSerial'
  OBVIOUS
<1> USE SizesAssumption, SentinelAssumption
    DEF IInv, TypeOK, UniqueLiveSerial, Live, LiveStatus, rows, portal, gateway
<1>1. ASSUME NEW t \in Tenants, CreateCheck(t) PROVE UniqueLiveSerial'
  BY <1>1 DEF CreateCheck
<1>2. ASSUME NEW d \in Devices, CreateInsert(d) PROVE UniqueLiveSerial'
  BY <1>2 DEF CreateInsert, RequestsMatchRows
<1>3. ASSUME NEW d \in Devices, CreateFail(d) PROVE UniqueLiveSerial'
  BY <1>3 DEF CreateFail
<1>4. ASSUME NEW d \in Devices, VerifySelect(d) PROVE UniqueLiveSerial'
  BY <1>4 DEF VerifySelect
<1>5. ASSUME NEW d \in Devices, VerifyCommit(d) PROVE UniqueLiveSerial'
  <2>1. \A e \in Devices : Live(e) /\ serial[e] = serial[d] => e = d
    BY <1>5, IndexAccepts DEF VerifyCommit
  <2> QED
    BY <1>5, <2>1 DEF VerifyCommit
<1>6. ASSUME NEW d \in Devices, VerifyReject(d) PROVE UniqueLiveSerial'
  BY <1>6 DEF VerifyReject
<1>7. ASSUME NEW d \in Devices, Disable(d) PROVE UniqueLiveSerial'
  BY <1>7 DEF Disable
<1>8. ASSUME NEW d \in Devices, Expire(d) PROVE UniqueLiveSerial'
  BY <1>8 DEF Expire
<1>9. ASSUME NEW h \in Handlers, NEW s \in Serials, Contact(h, s)
      PROVE  UniqueLiveSerial'
  BY <1>9 DEF Contact
<1>10. ASSUME NEW h \in Handlers, BindCheck(h) PROVE UniqueLiveSerial'
  BY <1>10 DEF BindCheck
<1>11. ASSUME NEW h \in Handlers, BindCommit(h) PROVE UniqueLiveSerial'
  <2>1. claim[h] \in Devices /\ serial' = [serial EXCEPT ![claim[h]] = contact[h]]
    BY <1>11 DEF BindCommit, ClaimLocksExclusive
  <2>2. Live(claim[h]) =>
          \A e \in Devices : Live(e) /\ serial[e] = contact[h] => e = claim[h]
    BY <1>11, <2>1, IndexAccepts DEF BindCommit
  <2> QED
    BY <1>11, <2>1, <2>2 DEF BindCommit
<1>12. ASSUME NEW h \in Handlers, BindRefused(h) PROVE UniqueLiveSerial'
  BY <1>12 DEF BindRefused, EndOf
<1>13. ASSUME NEW s \in Serials, Push(s) PROVE UniqueLiveSerial'
  BY <1>13 DEF Push
<1>14. CASE Restart
  BY <1>14 DEF Restart
<1>15. CASE UNCHANGED vars
  BY <1>15 DEF vars
<1> QED
  BY <1>1, <1>2, <1>3, <1>4, <1>5, <1>6, <1>7, <1>8, <1>9, <1>10, <1>11,
     <1>12, <1>13, <1>14, <1>15 DEF Next

LEMMA NextActiveWasBoundAndClaimed == IInv /\ [Next]_vars => ActiveWasBoundAndClaimed'
<1> SUFFICES ASSUME IInv, [Next]_vars
             PROVE  ActiveWasBoundAndClaimed'
  OBVIOUS
<1> USE SizesAssumption, SentinelAssumption
    DEF IInv, TypeOK, ActiveWasBoundAndClaimed, Devices, LiveStatus, rows, portal, gateway
<1>1. ASSUME NEW t \in Tenants, CreateCheck(t)
      PROVE  ActiveWasBoundAndClaimed'
  BY <1>1 DEF CreateCheck
<1>2. ASSUME NEW d \in Devices, CreateInsert(d)
      PROVE  ActiveWasBoundAndClaimed'
  BY <1>2 DEF CreateInsert
<1>3. ASSUME NEW d \in Devices, CreateFail(d)
      PROVE  ActiveWasBoundAndClaimed'
  BY <1>3 DEF CreateFail
<1>4. ASSUME NEW d \in Devices, VerifySelect(d)
      PROVE  ActiveWasBoundAndClaimed'
  BY <1>4 DEF VerifySelect
<1>5. ASSUME NEW d \in Devices, VerifyCommit(d)
      PROVE  ActiveWasBoundAndClaimed'
  BY <1>5 DEF VerifyCommit, RequestsMatchRows
<1>6. ASSUME NEW d \in Devices, VerifyReject(d)
      PROVE  ActiveWasBoundAndClaimed'
  BY <1>6 DEF VerifyReject
<1>7. ASSUME NEW d \in Devices, Disable(d)
      PROVE  ActiveWasBoundAndClaimed'
  BY <1>7 DEF Disable
<1>8. ASSUME NEW d \in Devices, Expire(d)
      PROVE  ActiveWasBoundAndClaimed'
  BY <1>8 DEF Expire
<1>9. ASSUME NEW h \in Handlers, NEW s \in Serials, Contact(h, s)
      PROVE  ActiveWasBoundAndClaimed'
  BY <1>9 DEF Contact
<1>10. ASSUME NEW h \in Handlers, BindCheck(h)
      PROVE  ActiveWasBoundAndClaimed'
  BY <1>10 DEF BindCheck
<1>11. ASSUME NEW h \in Handlers, BindCommit(h)
      PROVE  ActiveWasBoundAndClaimed'
  BY <1>11 DEF BindCommit, RequestsMatchRows, EndOf
<1>12. ASSUME NEW h \in Handlers, BindRefused(h)
      PROVE  ActiveWasBoundAndClaimed'
  BY <1>12 DEF BindRefused, EndOf
<1>13. ASSUME NEW s \in Serials, Push(s)
      PROVE  ActiveWasBoundAndClaimed'
  BY <1>13 DEF Push, Resolve
<1>14. CASE Restart
  BY <1>14 DEF Restart
<1>15. CASE UNCHANGED vars
  BY <1>15 DEF vars
<1> QED
  BY <1>1, <1>2, <1>3, <1>4, <1>5, <1>6, <1>7, <1>8, <1>9, <1>10, <1>11,
     <1>12, <1>13, <1>14, <1>15 DEF Next

\* The strengthened invariant of onboarding holds in every reachable state.
THEOREM InductiveInvariant == Spec => []IInv
<1>1. IInv /\ [Next]_vars => IInv'
  BY NextTypeOK, NextRequestsMatchRows, NextClaimLocksExclusive, NextUniqueLiveSerial,
     NextActiveWasBoundAndClaimed DEF IInv
<1> QED
  BY <1>1, InitInv, PTL DEF Spec

\* However heartbeats, verifications and deletions overlap, _resolve_device
\* never has two live rows to choose from.
THEOREM LiveSerialsAreUnique == Spec => []UniqueLiveSerial
BY InductiveInvariant, PTL DEF IInv

\* SELECT ... FOR UPDATE SKIP LOCKED keeps concurrent bindings apart.
THEOREM ClaimsAreExclusive == Spec => []ClaimLocksExclusive
BY InductiveInvariant, PTL DEF IInv

\* No path to status 'active' leaves out the binding or the claim code.
THEOREM ActiveDevicesWereClaimed == Spec => []ActiveWasBoundAndClaimed
BY InductiveInvariant, PTL DEF IInv

------------------------------------------------------------------------------

\* Binding is the only step that writes a serial number, and only on a code
\* the heartbeat has locked and found unbound.
LEMMA OnlyBindingWritesSerials ==
  ASSUME IInv, [Next]_vars
  PROVE  \/ UNCHANGED serial
         \/ \E h \in Handlers : BindCommit(h)
BY DEF Next, vars, rows, CreateCheck, CreateInsert, CreateFail, VerifySelect,
       VerifyCommit, VerifyReject, Disable, Expire, Contact, BindCheck,
       BindRefused, Push, Restart

\* A claim code stays with the first serial number bound to it.
THEOREM CodesBindOnce == Spec => CodeBindsOnce
<1>1. ASSUME IInv, [Next]_vars, NEW d \in Devices, serial[d] # NoSerial
      PROVE  serial'[d] = serial[d]
  <2>1. CASE UNCHANGED serial
    BY <2>1
  <2>2. ASSUME NEW h \in Handlers, BindCommit(h)
        PROVE  serial'[d] = serial[d]
    BY <1>1, <2>2 DEF IInv, TypeOK, ClaimLocksExclusive, BindCommit
  <2> QED
    BY <1>1, <2>1, <2>2, OnlyBindingWritesSerials
<1>2. IInv /\ [Next]_vars
        => [\A d \in Devices : serial[d] # NoSerial => serial'[d] = serial[d]]_vars
  BY <1>1
<1> QED
  BY <1>2, InductiveInvariant, PTL DEF Spec, CodeBindsOnce

------------------------------------------------------------------------------

LEMMA HoldersAreResolved == \A s : Registry!Holders(s) = Resolve(s)
BY DEF Registry!Holders, Registry!LivePhases, Resolve, Live, LiveStatus

LEMMA RegistryStep == IInv /\ [Next]_vars => [Registry!Next]_(Registry!vars)
<1> SUFFICES ASSUME IInv, [Next]_vars
             PROVE  Registry!Next \/ UNCHANGED <<status, serial>>
  BY DEF Registry!vars
<1> USE HoldersAreResolved DEF Registry!LivePhases, rows, portal, gateway
<1>1. ASSUME NEW d \in Devices, CreateInsert(d) PROVE Registry!Register(d)
  BY <1>1 DEF CreateInsert, Registry!Register, IInv, RequestsMatchRows, TypeOK
<1>2. ASSUME NEW h \in Handlers, BindCommit(h)
      PROVE  \E d \in Devices : \E s \in Serials : Registry!Attach(d, s)
  <2>1. /\ claim[h] \in Devices /\ contact[h] \in Serials
        /\ Exists(claim[h]) /\ serial[claim[h]] = NoSerial
        /\ Live(claim[h]) => Resolve(contact[h]) = {}
    BY <1>2, SentinelAssumption
       DEF BindCommit, IInv, ClaimLocksExclusive, RequestsMatchRows, IndexRejects, Resolve
  <2>2. Registry!Attach(claim[h], contact[h])
    BY <1>2, <2>1 DEF BindCommit, Registry!Attach, Exists, Live, LiveStatus
  <2> QED
    BY <2>1, <2>2
<1>3. ASSUME NEW d \in Devices, VerifyCommit(d) PROVE Registry!Activate(d)
  BY <1>3 DEF VerifyCommit, Registry!Activate, IInv, RequestsMatchRows, TypeOK, IndexRejects
<1>4. ASSUME NEW d \in Devices, Disable(d) PROVE Registry!Retire(d)
  BY <1>4 DEF Disable, Registry!Retire, Exists
<1>5. \/ UNCHANGED <<status, serial>>
      \/ \E d \in Devices : CreateInsert(d) \/ VerifyCommit(d) \/ Disable(d)
      \/ \E h \in Handlers : BindCommit(h)
  BY DEF Next, vars, CreateCheck, CreateFail, VerifySelect, VerifyReject, Expire,
         Contact, BindCheck, BindRefused, Push, Restart
<1> QED
  BY <1>1, <1>2, <1>3, <1>4, <1>5 DEF Registry!Next

\* Onboarding with its overlapping requests, row locks, expiry and restarts
\* implements the registry: each commit is one step of it, or none.
THEOREM RefinesRegistry == Spec => ImplementsRegistry
<1>1. Init => Registry!Init
  BY DEF Init, Registry!Init
<1> QED
  BY <1>1, RegistryStep, InductiveInvariant, PTL DEF Spec, ImplementsRegistry, Registry!Spec

------------------------------------------------------------------------------

\* What the plan limit is compared with, the requests in flight included.
Counted(t) == (LiveOf(t) \ revived) \cup CreatingOf(t)

LEMMA DevicesFinite ==
  ASSUME TypeOK, NEW S \in SUBSET Devices
  PROVE  IsFiniteSet(S) /\ Cardinality(S) \in Nat
<1>1. 1 \in Int /\ MaxDevices \in Int
  BY SizesAssumption
<1>2. IsFiniteSet(Devices)
  BY <1>1, FS_Interval DEF Devices
<1>3. IsFiniteSet(S)
  BY <1>2, FS_Subset
<1> QED
  BY <1>3, FS_CardinalityType

\* Every step but a passed limit check leaves the count of a tenant as it is or
\* lowers it: an insert moves a request to the rows it was counted with, and a
\* late verification is counted as revived.
LEMMA CountedShrinks ==
  ASSUME IInv, [Next]_vars, NEW t \in Tenants
  PROVE  \/ Counted(t)' \subseteq Counted(t)
         \/ CreateCheck(t)
<1> USE DEF IInv, TypeOK, Counted, LiveOf, CreatingOf, Live, LiveStatus, rows, portal, gateway
<1>1. ASSUME NEW u \in Tenants, CreateCheck(u), u # t
      PROVE  Counted(t)' \subseteq Counted(t)
  <2>1. /\ issued + 1 \in Devices /\ creating' = creating \cup {issued + 1}
        /\ tenant' = [tenant EXCEPT ![issued + 1] = u]
        /\ UNCHANGED <<status, revived>>
    BY <1>1, SizesAssumption DEF CreateCheck, Devices
  <2>2. \A d \in Devices : tenant'[d] = t => tenant[d] = t /\ d # issued + 1
    BY <1>1, <2>1
  <2> QED
    BY <2>1, <2>2
<1>2. ASSUME NEW d \in Devices, CreateInsert(d) PROVE Counted(t)' \subseteq Counted(t)
  BY <1>2 DEF CreateInsert
<1>3. ASSUME NEW d \in Devices, CreateFail(d) PROVE Counted(t)' \subseteq Counted(t)
  BY <1>3 DEF CreateFail
<1>4. ASSUME NEW d \in Devices, VerifyCommit(d) PROVE Counted(t)' \subseteq Counted(t)
  BY <1>4 DEF VerifyCommit, RequestsMatchRows
<1>5. ASSUME NEW d \in Devices, Disable(d) PROVE Counted(t)' \subseteq Counted(t)
  BY <1>5 DEF Disable
<1>6. CASE Restart
  BY <1>6 DEF Restart
<1>7. CASE UNCHANGED <<status, tenant, creating, revived>>
  BY <1>7
<1>8. \/ UNCHANGED <<status, tenant, creating, revived>>
      \/ \E u \in Tenants : CreateCheck(u)
      \/ \E d \in Devices : CreateInsert(d) \/ CreateFail(d) \/ VerifyCommit(d) \/ Disable(d)
      \/ Restart
  BY DEF Next, vars, VerifySelect, VerifyReject, Expire, Contact, BindCheck,
         BindCommit, BindRefused, Push
<1> QED
  BY <1>1, <1>2, <1>3, <1>4, <1>5, <1>6, <1>7, <1>8

\* A passed limit check leaves at most CreateSlots requests beside fewer rows
\* than the plan allows.
LEMMA CheckedCountIsBounded ==
  ASSUME IInv, NEW t \in Tenants, CreateCheck(t), DeviceLimit[t] # NoLimit
  PROVE  Cardinality(Counted(t)') <= DeviceLimit[t] + CreateSlots - 1
<1> DEFINE new == issued + 1
<1>1. DeviceLimit[t] \in Nat /\ CreateSlots \in Nat \ {0}
  BY LimitAssumption, SizesAssumption
<1>2. /\ new \in Devices /\ creating' = creating \cup {new}
      /\ tenant' = [tenant EXCEPT ![new] = t]
      /\ UNCHANGED <<status, revived>>
      /\ status[new] = "absent"
  BY SizesAssumption DEF CreateCheck, Devices, IInv, TypeOK, RequestsMatchRows
<1>3. LiveOf(t)' = LiveOf(t)
  BY <1>2 DEF LiveOf, Live, LiveStatus, IInv, TypeOK
<1>4. CreatingOf(t)' \subseteq CreatingOf(t) \cup {new}
  BY <1>2 DEF CreatingOf, IInv, TypeOK
<1>5. /\ LiveOf(t) \in SUBSET Devices
      /\ CreatingOf(t) \in SUBSET Devices
      /\ Counted(t)' \in SUBSET Devices
      /\ CreatingOf(t) \cup {new} \in SUBSET Devices
  BY <1>2, <1>3, <1>4 DEF LiveOf, CreatingOf, Counted, IInv, TypeOK
<1>6. Counted(t)' \subseteq LiveOf(t) \cup (CreatingOf(t) \cup {new})
  BY <1>3, <1>4 DEF Counted
<1>7. IsFiniteSet(LiveOf(t)) /\ IsFiniteSet(CreatingOf(t)) /\ IsFiniteSet(CreatingOf(t) \cup {new})
  BY <1>5, DevicesFinite DEF IInv
<1>8. Cardinality(CreatingOf(t) \cup {new}) <= Cardinality(CreatingOf(t)) + 1
  BY <1>7, FS_AddElement, FS_CardinalityType
<1>9. Cardinality(LiveOf(t) \cup (CreatingOf(t) \cup {new}))
        <= Cardinality(LiveOf(t)) + Cardinality(CreatingOf(t) \cup {new})
  <2> DEFINE A == LiveOf(t)
             B == CreatingOf(t) \cup {new}
  <2> HIDE DEF A, B, new
  <2>1. IsFiniteSet(A) /\ IsFiniteSet(B)
    BY <1>7 DEF A, B
  <2>2. Cardinality(A \cup B) = Cardinality(A) + Cardinality(B) - Cardinality(A \cap B)
    BY <2>1, FS_Union
  <2>3. IsFiniteSet(A \cap B)
    BY <2>1, FS_Intersection
  <2>4. Cardinality(A) \in Nat /\ Cardinality(B) \in Nat /\ Cardinality(A \cap B) \in Nat
    BY <2>1, <2>3, FS_CardinalityType
  <2>5. Cardinality(A \cup B) <= Cardinality(A) + Cardinality(B)
    BY <2>2, <2>4
  <2> QED
    BY <2>5 DEF A, B
<1>10. Cardinality(Counted(t)') <= Cardinality(LiveOf(t) \cup (CreatingOf(t) \cup {new}))
  BY <1>6, <1>7, FS_Union, FS_Subset
<1>11. Cardinality(LiveOf(t)) < DeviceLimit[t] /\ Cardinality(CreatingOf(t)) < CreateSlots
  BY DEF CreateCheck
<1>12. /\ Cardinality(LiveOf(t)) \in Nat /\ Cardinality(CreatingOf(t)) \in Nat
       /\ Cardinality(CreatingOf(t) \cup {new}) \in Nat
       /\ Cardinality(Counted(t)') \in Nat
       /\ Cardinality(LiveOf(t) \cup (CreatingOf(t) \cup {new})) \in Nat
  BY <1>5, DevicesFinite DEF IInv
<1> QED
  BY <1>1, <1>8, <1>9, <1>10, <1>11, <1>12

\* The device limit of a plan can be overshot by racing create requests, by at
\* most one device less than the requests of a tenant served at once.
THEOREM OvershootIsBounded == Spec => []OvershootBounded
<1>1. Init => OvershootBounded
  <2> SUFFICES ASSUME Init, NEW t \in Tenants, DeviceLimit[t] # NoLimit
               PROVE  Cardinality(Counted(t)) <= DeviceLimit[t] + CreateSlots - 1
    BY DEF OvershootBounded, Counted
  <2>1. Counted(t) = {}
    BY DEF Init, Counted, LiveOf, CreatingOf, Live, LiveStatus
  <2> QED
    BY <2>1, FS_EmptySet, LimitAssumption, SizesAssumption
<1>2. IInv /\ OvershootBounded /\ [Next]_vars => OvershootBounded'
  <2> SUFFICES ASSUME IInv, OvershootBounded, [Next]_vars,
                      NEW t \in Tenants, DeviceLimit[t] # NoLimit
               PROVE  Cardinality(Counted(t)') <= DeviceLimit[t] + CreateSlots - 1
    BY DEF OvershootBounded, Counted
  <2>1. CASE CreateCheck(t)
    BY <2>1, CheckedCountIsBounded
  <2>2. CASE Counted(t)' \subseteq Counted(t)
    <3>1. Counted(t) \in SUBSET Devices
      BY DEF Counted, LiveOf, CreatingOf, IInv, TypeOK
    <3>2. /\ IsFiniteSet(Counted(t)) /\ Cardinality(Counted(t)) \in Nat
          /\ Cardinality(Counted(t)') \in Nat
      BY <2>2, <3>1, DevicesFinite DEF IInv
    <3>3. Cardinality(Counted(t)') <= Cardinality(Counted(t))
      BY <2>2, <3>2, FS_Subset
    <3>4. Cardinality(Counted(t)) <= DeviceLimit[t] + CreateSlots - 1
      BY DEF OvershootBounded, Counted
    <3> QED
      BY <3>2, <3>3, <3>4, LimitAssumption, SizesAssumption
  <2> QED
    BY <2>1, <2>2, CountedShrinks
<1> QED
  BY <1>1, <1>2, InductiveInvariant, PTL DEF Spec
===============================================================================
