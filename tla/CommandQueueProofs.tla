-------------------------- MODULE CommandQueueProofs --------------------------
(***************************************************************************)
(* Proofs about CommandQueue, for every number of employees, devices,      *)
(* requests and commands.  That the newest request wins although ids and   *)
(* commits come in different orders rests on the row lock of the pair:     *)
(* while a request holds it the command it inserted is the newest of the   *)
(* pair (InsertedIsNewest), so that among the visible commands of a pair   *)
(* ids and commits do agree (StampsFollowIds).                             *)
(***************************************************************************)
EXTENDS CommandQueue, FiniteSetTheorems, WellFoundedInduction, TLAPS

Committed(c) == state[c] \in {"pending", "sent"} \cup Final

IdsInOrder ==
  /\ \A c \in Commands : state[c] = "absent" <=> c > issued
  /\ \A c \in Commands : state[c] = "absent" => outcome[c] = "none"
  /\ \A c \in Commands : state[c] # "absent" => pairOf[c] \in Pairs /\ request[c] \in Requests

RequestsMatchRows ==
  /\ \A r \in Requests : pc[r] \in {"assign", "count"} =>
       doing[r] \in Pairs /\ doing[r] \notin todo[r]
  /\ \A c \in Commands : state[c] = "inserted" =>
       /\ rowLock[pairOf[c]] = request[c]
       /\ pc[request[c]] # "idle"
       /\ pairOf[c] \notin todo[request[c]]
       /\ pc[request[c]] = "assign" => doing[request[c]] # pairOf[c]

InsertedIsNewest ==
  \A c, e \in Commands :
    state[c] = "inserted" /\ state[e] # "absent" /\ pairOf[e] = pairOf[c] => e <= c

StampsFollowIds ==
  /\ \A c \in Commands : Committed(c) => stamp[c] <= commits
  /\ \A c, e \in Commands :
       Committed(c) /\ Committed(e) /\ pairOf[c] = pairOf[e] /\ c < e => stamp[c] < stamp[e]

GotIsOlder ==
  \A p \in Pairs : got[p] # NoCommand =>
    /\ Committed(got[p]) /\ pairOf[got[p]] = p
    /\ \A c \in Commands :
         state[c] = "pending" /\ c \notin expired /\ pairOf[c] = p => got[p] < c

OnlyPendingExpire == \A c \in expired : state[c] = "pending"

\* Locks are held by requests under way, and a request that looks for its next
\* pair has one.
HoldersAreUnderWay ==
  /\ \A p \in Pairs : rowLock[p] # NoRequest => pc[rowLock[p]] # "idle"
  /\ \A d \in Devices : deviceLock[d] # NoRequest => pc[deviceLock[d]] # "idle"
  /\ \A r \in Requests : pc[r] = "next" => todo[r] # {}

IInv ==
  /\ TypeOK
  /\ HoldersAreUnderWay
  /\ OnlyPendingExpire
  /\ IdsInOrder
  /\ RequestsMatchRows
  /\ InsertedIsNewest
  /\ StampsFollowIds
  /\ GotIsOlder
  /\ FinalIsTrue

LEMMA InitInv == Init => IInv
BY MaxCommandsAssumption, SentinelAssumption
   DEF Init, IInv, TypeOK, HoldersAreUnderWay, OnlyPendingExpire, IdsInOrder, RequestsMatchRows, InsertedIsNewest, StampsFollowIds,
       GotIsOlder, FinalIsTrue, Committed, Commands, NoCommand, Final

\* How many commands a commit adds to a device's counter.
LEMMA CountIsNat == \A S \in SUBSET Commands : Cardinality(S) \in Nat
<1> SUFFICES ASSUME NEW S \in SUBSET Commands
             PROVE  Cardinality(S) \in Nat
  OBVIOUS
<1>1. IsFiniteSet(1..MaxCommands)
  BY MaxCommandsAssumption, FS_Interval
<1>2. IsFiniteSet(S)
  BY <1>1, FS_Subset DEF Commands
<1> QED
  BY <1>2, FS_CardinalityType

LEMMA NextTypeOK == IInv /\ [Next]_vars => TypeOK'
<1> SUFFICES ASSUME IInv, [Next]_vars
             PROVE  TypeOK'
  OBVIOUS
<1> USE MaxCommandsAssumption, SentinelAssumption
    DEF IInv, TypeOK, Commands, NoCommand, Final, queue, requests, terminal, history,
        IdsInOrder,
        RequestsMatchRows
<1>1. ASSUME NEW r \in Requests, Enqueue(r) PROVE TypeOK'
  <2>1. todo' \in [Requests -> SUBSET Pairs]
    BY <1>1 DEF Enqueue, Pairs
  <2> QED BY <1>1, <2>1 DEF Enqueue
<1>2. ASSUME NEW r \in Requests, NextPair(r) PROVE TypeOK'
  BY <1>2 DEF NextPair
<1>3. ASSUME NEW r \in Requests, Assign(r) PROVE TypeOK'
  BY <1>3 DEF Assign, InsertCommand
<1>4. ASSUME NEW r \in Requests, Count(r) PROVE TypeOK'
  BY <1>4 DEF Count
<1>5. ASSUME NEW r \in Requests, Commit(r) PROVE TypeOK'
  <2>1. pending' \in [Devices -> Nat]
    <3>1. ASSUME NEW d \in Devices
          PROVE  pending[d] + Cardinality({c \in Inserted(r) : DeviceOf(pairOf[c]) = d}) \in Nat
      <4> DEFINE added == Cardinality({c \in Inserted(r) : DeviceOf(pairOf[c]) = d})
      <4>1. added \in Nat
        BY CountIsNat DEF Inserted
      <4> HIDE DEF added
      <4>2. pending[d] + added \in Nat
        BY <4>1
      <4> QED BY <4>2 DEF added
    <3>3. pending' = [d \in Devices |->
            pending[d] + Cardinality({c \in Inserted(r) : DeviceOf(pairOf[c]) = d})]
      BY <1>5 DEF Commit
    <3> QED BY <3>1, <3>3
  <2> QED BY <1>5, <2>1 DEF Commit, Inserted, End
<1>6. ASSUME NEW r \in Requests, DeadlockVictim(r) PROVE TypeOK'
  BY <1>6 DEF DeadlockVictim, Rollback, End
<1>7. ASSUME NEW d \in Devices, Disable(d) PROVE TypeOK'
  BY <1>7 DEF Disable
<1>8. ASSUME NEW d \in Devices, Poll(d) PROVE TypeOK'
  <2>1. PICK c \in Commands :
          /\ state[c] = "pending"
          /\ state' = [state EXCEPT ![c] = "sent"]
          /\ got' = got \/ got' = [got EXCEPT ![pairOf[c]] = c]
          /\ outcome' = outcome \/ \E o \in Final : outcome' = [outcome EXCEPT ![c] = o]
          /\ UNCHANGED <<active, pairOf, request, expired, issued, pending, requests, history>>
    BY <1>8 DEF Poll, Picks, Sendable
  <2>2. state' \in [Commands -> {"absent", "inserted", "rolledback", "pending", "sent"} \cup Final]
    BY <2>1
  <2>3. pairOf[c] \in Pairs
    BY <2>1
  <2>4. got' \in [Pairs -> Commands \cup {NoCommand}]
    <3>1. CASE got' = got
      BY <3>1
    <3>2. CASE got' = [got EXCEPT ![pairOf[c]] = c]
      BY <3>2, <2>3
    <3> QED BY <2>1, <3>1, <3>2
  <2>5. outcome' \in [Commands -> Final \cup {"none"}]
    <3>1. CASE outcome' = outcome
      BY <3>1
    <3>2. ASSUME NEW o \in Final, outcome' = [outcome EXCEPT ![c] = o]
          PROVE  outcome' \in [Commands -> Final \cup {"none"}]
      BY <3>2
    <3> QED BY <2>1, <3>1, <3>2
  <2> QED BY <2>1, <2>2, <2>4, <2>5
<1>9. ASSUME NEW c \in Commands, Report(c) PROVE TypeOK'
  BY <1>9 DEF Report
<1>10. ASSUME NEW c \in Commands, Expire(c) PROVE TypeOK'
  BY <1>10 DEF Expire
<1>11. CASE Restart
  BY <1>11 DEF Restart, Rollback, End
<1>12. CASE UNCHANGED vars
  BY <1>12 DEF vars
<1> QED
  BY <1>1, <1>2, <1>3, <1>4, <1>5, <1>6, <1>7, <1>8, <1>9,
     <1>10, <1>11, <1>12 DEF Next

LEMMA NextOnlyPendingExpire == IInv /\ [Next]_vars => OnlyPendingExpire'
<1> SUFFICES ASSUME IInv, [Next]_vars, NEW c \in expired'
             PROVE  state'[c] = "pending"
  BY DEF OnlyPendingExpire
<1> USE DEF IInv, TypeOK, Final, queue, OnlyPendingExpire
<1>1. ASSUME NEW e \in Commands, Expire(e) PROVE state'[c] = "pending"
  BY <1>1 DEF Expire
<1>2. ASSUME expired' = expired, state'[c] # "pending" PROVE FALSE
  <2>1. c \in Commands /\ c \in expired /\ state[c] = "pending"
    BY <1>2
  <2>2. ASSUME NEW r \in Requests, Assign(r) PROVE FALSE
    BY <2>1, <2>2, <1>2 DEF Assign, InsertCommand, IdsInOrder, Commands
  <2>3. ASSUME NEW r \in Requests, Commit(r) PROVE FALSE
    BY <2>1, <2>3, <1>2 DEF Commit
  <2>4. ASSUME NEW R, Rollback(R) PROVE FALSE
    BY <2>1, <2>4, <1>2 DEF Rollback
  <2>5. ASSUME NEW d \in Devices, Poll(d) PROVE FALSE
    BY <2>1, <2>5, <1>2 DEF Poll, Picks, Sendable
  <2>6. ASSUME NEW e \in Commands, Report(e) PROVE FALSE
    BY <2>1, <2>6, <1>2 DEF Report, FinalIsTrue
  <2>7. state' # state
    BY <2>1, <1>2
  <2> QED
    BY <2>2, <2>3, <2>4, <2>5, <2>6, <2>7, <1>2, <2>1
       DEF Next, vars, Enqueue, NextPair, Count, DeadlockVictim, Disable, Expire, Restart
<1>3. expired' = expired \/ \E e \in Commands : Expire(e)
  BY DEF Next, vars, Enqueue, NextPair, Assign, InsertCommand, Count, Commit, DeadlockVictim,
         Rollback, Disable, Poll, Report, Restart
<1> QED BY <1>1, <1>2, <1>3

LEMMA NextHoldersAreUnderWay == IInv /\ [Next]_vars => HoldersAreUnderWay'
<1> SUFFICES ASSUME IInv, [Next]_vars
             PROVE  HoldersAreUnderWay'
  OBVIOUS
<1> USE SentinelAssumption DEF IInv, TypeOK, HoldersAreUnderWay, requests
<1>1. ASSUME NEW r \in Requests, Enqueue(r) PROVE HoldersAreUnderWay'
  <2>1. PICK E \in (SUBSET Employees) \ {{}}, D \in (SUBSET active) \ {{}} :
          todo' = [todo EXCEPT ![r] = E \X D]
    BY <1>1 DEF Enqueue
  <2>2. E \X D # {}
    <3>1. PICK e \in E, d \in D : TRUE
      OBVIOUS
    <3>2. <<e, d>> \in E \X D
      BY <3>1
    <3> QED BY <3>2
  <2>3. pc' = [pc EXCEPT ![r] = "next"] /\ UNCHANGED <<rowLock, deviceLock>>
    BY <1>1 DEF Enqueue
  <2> HIDE DEF Pairs
  <2> QED BY <2>1, <2>2, <2>3
<1>2. ASSUME NEW r \in Requests, NextPair(r) PROVE HoldersAreUnderWay'
  BY <1>2 DEF NextPair
<1>3. ASSUME NEW r \in Requests, Assign(r) PROVE HoldersAreUnderWay'
  BY <1>3 DEF Assign
<1>4. ASSUME NEW r \in Requests, Count(r) PROVE HoldersAreUnderWay'
  BY <1>4 DEF Count
<1>5. ASSUME NEW R \in SUBSET Requests, End(R) PROVE HoldersAreUnderWay'
  BY <1>5 DEF End
<1>6. CASE UNCHANGED requests
  BY <1>6
<1>7. ASSUME NEW r \in Requests, Commit(r) \/ DeadlockVictim(r) PROVE HoldersAreUnderWay'
  BY <1>5, <1>7 DEF Commit, DeadlockVictim, Rollback
<1>8. CASE Restart
  BY <1>5, <1>8 DEF Restart, Rollback
<1> QED
  BY <1>1, <1>2, <1>3, <1>4, <1>6, <1>7, <1>8 DEF Next, vars, Disable, Poll, Report, Expire

LEMMA NextIdsInOrder == IInv /\ [Next]_vars => IdsInOrder'
<1> SUFFICES ASSUME IInv, [Next]_vars
             PROVE  IdsInOrder'
  OBVIOUS
<1> USE MaxCommandsAssumption, SentinelAssumption
    DEF IInv, TypeOK, Commands, NoCommand, Final, queue, requests, terminal, history,
        IdsInOrder,
        RequestsMatchRows, FinalIsTrue
<1>1. ASSUME NEW r \in Requests, Enqueue(r) PROVE IdsInOrder'
  BY <1>1 DEF Enqueue
<1>2. ASSUME NEW r \in Requests, NextPair(r) PROVE IdsInOrder'
  BY <1>2 DEF NextPair
<1>3. ASSUME NEW r \in Requests, Assign(r) PROVE IdsInOrder'
  BY <1>3 DEF Assign, InsertCommand
<1>4. ASSUME NEW r \in Requests, Count(r) PROVE IdsInOrder'
  BY <1>4 DEF Count
<1>5. ASSUME NEW r \in Requests, Commit(r) PROVE IdsInOrder'
  BY <1>5 DEF Commit, Inserted, End
<1>6. ASSUME NEW r \in Requests, DeadlockVictim(r) PROVE IdsInOrder'
  BY <1>6 DEF DeadlockVictim, Rollback, End
<1>7. ASSUME NEW d \in Devices, Disable(d) PROVE IdsInOrder'
  BY <1>7 DEF Disable
<1>8. ASSUME NEW d \in Devices, Poll(d) PROVE IdsInOrder'
  <2>1. PICK c \in Commands :
          /\ state[c] = "pending"
          /\ state' = [state EXCEPT ![c] = "sent"]
          /\ got' = got \/ got' = [got EXCEPT ![pairOf[c]] = c]
          /\ outcome' = outcome \/ \E o \in Final : outcome' = [outcome EXCEPT ![c] = o]
          /\ UNCHANGED <<active, pairOf, request, expired, issued, pending, requests, history>>
    BY <1>8 DEF Poll, Picks, Sendable
  <2>2. \A e \in Commands : state'[e] = "absent" <=> state[e] = "absent"
    BY <2>1
  <2>3. \A e \in Commands : outcome'[e] # outcome[e] => e = c
    BY <2>1
  <2> QED BY <2>1, <2>2, <2>3
<1>9. ASSUME NEW c \in Commands, Report(c) PROVE IdsInOrder'
  <2>1. outcome[c] \in Final /\ state[c] # "absent"
    BY <1>9 DEF Report
  <2>2. \A e \in Commands : state'[e] = "absent" <=> state[e] = "absent"
    BY <1>9, <2>1 DEF Report
  <2> QED BY <1>9, <2>2 DEF Report
<1>10. ASSUME NEW c \in Commands, Expire(c) PROVE IdsInOrder'
  BY <1>10 DEF Expire
<1>11. CASE Restart
  BY <1>11 DEF Restart, Rollback, End
<1>12. CASE UNCHANGED vars
  BY <1>12 DEF vars
<1> QED
  BY <1>1, <1>2, <1>3, <1>4, <1>5, <1>6, <1>7, <1>8, <1>9,
     <1>10, <1>11, <1>12 DEF Next

LEMMA NextRequestsMatchRows == IInv /\ [Next]_vars => RequestsMatchRows'
<1> SUFFICES ASSUME IInv, [Next]_vars
             PROVE  RequestsMatchRows'
  OBVIOUS
<1> USE MaxCommandsAssumption, SentinelAssumption
    DEF IInv, TypeOK, Commands, NoCommand, Final, queue, requests, terminal, history,
        IdsInOrder,
        RequestsMatchRows
<1>1. ASSUME NEW r \in Requests, Enqueue(r) PROVE RequestsMatchRows'
  BY <1>1 DEF Enqueue
<1>2. ASSUME NEW r \in Requests, NextPair(r) PROVE RequestsMatchRows'
  BY <1>2 DEF NextPair
<1>3. ASSUME NEW r \in Requests, Assign(r) PROVE RequestsMatchRows'
  <2>1. issued + 1 \in Commands /\ state[issued + 1] = "absent"
    BY <1>3 DEF Assign, InsertCommand
  <2>2. pc[r] = "assign" /\ doing[r] \in Pairs
    BY <1>3 DEF Assign, InsertCommand
  <2>3. /\ state' = [state EXCEPT ![issued + 1] = "inserted"]
        /\ pairOf' = [pairOf EXCEPT ![issued + 1] = doing[r]]
        /\ request' = [request EXCEPT ![issued + 1] = r]
        /\ rowLock' = [rowLock EXCEPT ![doing[r]] = r]
        /\ rowLock[doing[r]] \in {r, NoRequest}
        /\ pc' = [pc EXCEPT ![r] = "count"]
        /\ UNCHANGED <<todo, doing>>
    BY <1>3 DEF Assign, InsertCommand
  <2>4. \A q \in Requests : pc'[q] \in {"assign", "count"} =>
          doing'[q] \in Pairs /\ doing'[q] \notin todo'[q]
    BY <2>3, <2>2
  <2>5. doing[r] \notin todo[r]
    BY <1>3 DEF Assign
  <2>6. ASSUME NEW c \in Commands, c # issued + 1, state'[c] = "inserted"
        PROVE  /\ rowLock'[pairOf'[c]] = request'[c]
               /\ pc'[request'[c]] # "idle"
               /\ pairOf'[c] \notin todo'[request'[c]]
               /\ pc'[request'[c]] = "assign" => doing'[request'[c]] # pairOf'[c]
    BY <2>1, <2>3, <2>2, <2>6
  <2>7. /\ state'[issued + 1] = "inserted" /\ pairOf'[issued + 1] = doing[r]
        /\ request'[issued + 1] = r /\ rowLock'[doing[r]] = r /\ pc'[r] = "count"
    BY <2>1, <2>3, <2>2
  <2> QED BY <2>2, <2>3, <2>4, <2>5, <2>6, <2>7
<1>4. ASSUME NEW r \in Requests, Count(r) PROVE RequestsMatchRows'
  BY <1>4 DEF Count
<1>5. ASSUME NEW r \in Requests, Commit(r) PROVE RequestsMatchRows'
  BY <1>5 DEF Commit, Inserted, End
<1>6. ASSUME NEW r \in Requests, DeadlockVictim(r) PROVE RequestsMatchRows'
  BY <1>6 DEF DeadlockVictim, Rollback, End
<1>7. ASSUME NEW d \in Devices, Disable(d) PROVE RequestsMatchRows'
  BY <1>7 DEF Disable
<1>8. ASSUME NEW d \in Devices, Poll(d) PROVE RequestsMatchRows'
  BY <1>8 DEF Poll, Picks, Sendable
<1>9. ASSUME NEW c \in Commands, Report(c) PROVE RequestsMatchRows'
  BY <1>9 DEF Report
<1>10. ASSUME NEW c \in Commands, Expire(c) PROVE RequestsMatchRows'
  BY <1>10 DEF Expire
<1>11. CASE Restart
  BY <1>11 DEF Restart, Rollback, End
<1>12. CASE UNCHANGED vars
  BY <1>12 DEF vars
<1> QED
  BY <1>1, <1>2, <1>3, <1>4, <1>5, <1>6, <1>7, <1>8, <1>9,
     <1>10, <1>11, <1>12 DEF Next

LEMMA NextInsertedIsNewest == IInv /\ [Next]_vars => InsertedIsNewest'
<1> SUFFICES ASSUME IInv, [Next]_vars
             PROVE  InsertedIsNewest'
  OBVIOUS
<1> USE MaxCommandsAssumption, SentinelAssumption
    DEF IInv, TypeOK, Commands, NoCommand, Final, queue, requests, terminal, history,
        IdsInOrder,
        RequestsMatchRows, InsertedIsNewest
<1>1. ASSUME NEW r \in Requests, Enqueue(r) PROVE InsertedIsNewest'
  BY <1>1 DEF Enqueue
<1>2. ASSUME NEW r \in Requests, NextPair(r) PROVE InsertedIsNewest'
  BY <1>2 DEF NextPair
<1>3. ASSUME NEW r \in Requests, Assign(r) PROVE InsertedIsNewest'
  BY <1>3 DEF Assign, InsertCommand
<1>4. ASSUME NEW r \in Requests, Count(r) PROVE InsertedIsNewest'
  BY <1>4 DEF Count
<1>5. ASSUME NEW r \in Requests, Commit(r) PROVE InsertedIsNewest'
  BY <1>5 DEF Commit, Inserted, End
<1>6. ASSUME NEW r \in Requests, DeadlockVictim(r) PROVE InsertedIsNewest'
  BY <1>6 DEF DeadlockVictim, Rollback, End
<1>7. ASSUME NEW d \in Devices, Disable(d) PROVE InsertedIsNewest'
  BY <1>7 DEF Disable
<1>8. ASSUME NEW d \in Devices, Poll(d) PROVE InsertedIsNewest'
  BY <1>8 DEF Poll, Picks, Sendable
<1>9. ASSUME NEW c \in Commands, Report(c) PROVE InsertedIsNewest'
  BY <1>9 DEF Report
<1>10. ASSUME NEW c \in Commands, Expire(c) PROVE InsertedIsNewest'
  BY <1>10 DEF Expire
<1>11. CASE Restart
  BY <1>11 DEF Restart, Rollback, End
<1>12. CASE UNCHANGED vars
  BY <1>12 DEF vars
<1> QED
  BY <1>1, <1>2, <1>3, <1>4, <1>5, <1>6, <1>7, <1>8, <1>9,
     <1>10, <1>11, <1>12 DEF Next

LEMMA NextStampsFollowIds == IInv /\ [Next]_vars => StampsFollowIds'
<1> SUFFICES ASSUME IInv, [Next]_vars
             PROVE  StampsFollowIds'
  OBVIOUS
<1> USE MaxCommandsAssumption, SentinelAssumption
    DEF IInv, TypeOK, Commands, NoCommand, Final, queue, requests, terminal, history,
        IdsInOrder,
        RequestsMatchRows, InsertedIsNewest, StampsFollowIds, FinalIsTrue,
        Committed
<1>1. ASSUME NEW r \in Requests, Enqueue(r) PROVE StampsFollowIds'
  BY <1>1 DEF Enqueue
<1>2. ASSUME NEW r \in Requests, NextPair(r) PROVE StampsFollowIds'
  BY <1>2 DEF NextPair
<1>3. ASSUME NEW r \in Requests, Assign(r) PROVE StampsFollowIds'
  BY <1>3 DEF Assign, InsertCommand
<1>4. ASSUME NEW r \in Requests, Count(r) PROVE StampsFollowIds'
  BY <1>4 DEF Count
<1>5. ASSUME NEW r \in Requests, Commit(r) PROVE StampsFollowIds'
  BY <1>5 DEF Commit, Inserted, End
<1>6. ASSUME NEW r \in Requests, DeadlockVictim(r) PROVE StampsFollowIds'
  BY <1>6 DEF DeadlockVictim, Rollback, End
<1>7. ASSUME NEW d \in Devices, Disable(d) PROVE StampsFollowIds'
  BY <1>7 DEF Disable
<1>8. ASSUME NEW d \in Devices, Poll(d) PROVE StampsFollowIds'
  BY <1>8 DEF Poll, Picks, Sendable
<1>9. ASSUME NEW c \in Commands, Report(c) PROVE StampsFollowIds'
  BY <1>9 DEF Report
<1>10. ASSUME NEW c \in Commands, Expire(c) PROVE StampsFollowIds'
  BY <1>10 DEF Expire
<1>11. CASE Restart
  BY <1>11 DEF Restart, Rollback, End
<1>12. CASE UNCHANGED vars
  BY <1>12 DEF vars
<1> QED
  BY <1>1, <1>2, <1>3, <1>4, <1>5, <1>6, <1>7, <1>8, <1>9,
     <1>10, <1>11, <1>12 DEF Next

LEMMA NextGotIsOlder == IInv /\ [Next]_vars => GotIsOlder'
<1> SUFFICES ASSUME IInv, [Next]_vars
             PROVE  GotIsOlder'
  OBVIOUS
<1> USE MaxCommandsAssumption, SentinelAssumption
    DEF IInv, TypeOK, Commands, NoCommand, Final, queue, requests, terminal, history,
        IdsInOrder,
        RequestsMatchRows, InsertedIsNewest, GotIsOlder, Committed
<1>1. ASSUME NEW r \in Requests, Enqueue(r) PROVE GotIsOlder'
  BY <1>1 DEF Enqueue
<1>2. ASSUME NEW r \in Requests, NextPair(r) PROVE GotIsOlder'
  BY <1>2 DEF NextPair
<1>3. ASSUME NEW r \in Requests, Assign(r) PROVE GotIsOlder'
  BY <1>3 DEF Assign, InsertCommand
<1>4. ASSUME NEW r \in Requests, Count(r) PROVE GotIsOlder'
  BY <1>4 DEF Count
<1>5. ASSUME NEW r \in Requests, Commit(r) PROVE GotIsOlder'
  BY <1>5 DEF Commit, Inserted, End
<1>6. ASSUME NEW r \in Requests, DeadlockVictim(r) PROVE GotIsOlder'
  BY <1>6 DEF DeadlockVictim, Rollback, End
<1>7. ASSUME NEW d \in Devices, Disable(d) PROVE GotIsOlder'
  BY <1>7 DEF Disable
<1>8. ASSUME NEW d \in Devices, Poll(d) PROVE GotIsOlder'
  BY <1>8 DEF Poll, Picks, Sendable
<1>9. ASSUME NEW c \in Commands, Report(c) PROVE GotIsOlder'
  BY <1>9 DEF Report
<1>10. ASSUME NEW c \in Commands, Expire(c) PROVE GotIsOlder'
  BY <1>10 DEF Expire
<1>11. CASE Restart
  BY <1>11 DEF Restart, Rollback, End
<1>12. CASE UNCHANGED vars
  BY <1>12 DEF vars
<1> QED
  BY <1>1, <1>2, <1>3, <1>4, <1>5, <1>6, <1>7, <1>8, <1>9,
     <1>10, <1>11, <1>12 DEF Next

LEMMA NextFinalIsTrue == IInv /\ [Next]_vars => FinalIsTrue'
<1> SUFFICES ASSUME IInv, [Next]_vars
             PROVE  FinalIsTrue'
  OBVIOUS
<1> USE MaxCommandsAssumption, SentinelAssumption
    DEF IInv, TypeOK, Commands, NoCommand, Final, queue, requests, terminal, history,
        IdsInOrder,
        FinalIsTrue
<1>1. ASSUME NEW r \in Requests, Enqueue(r) PROVE FinalIsTrue'
  BY <1>1 DEF Enqueue
<1>2. ASSUME NEW r \in Requests, NextPair(r) PROVE FinalIsTrue'
  BY <1>2 DEF NextPair
<1>3. ASSUME NEW r \in Requests, Assign(r) PROVE FinalIsTrue'
  BY <1>3 DEF Assign, InsertCommand
<1>4. ASSUME NEW r \in Requests, Count(r) PROVE FinalIsTrue'
  BY <1>4 DEF Count
<1>5. ASSUME NEW r \in Requests, Commit(r) PROVE FinalIsTrue'
  BY <1>5 DEF Commit, Inserted, End
<1>6. ASSUME NEW r \in Requests, DeadlockVictim(r) PROVE FinalIsTrue'
  BY <1>6 DEF DeadlockVictim, Rollback, End
<1>7. ASSUME NEW d \in Devices, Disable(d) PROVE FinalIsTrue'
  BY <1>7 DEF Disable
<1>8. ASSUME NEW d \in Devices, Poll(d) PROVE FinalIsTrue'
  <2>1. PICK c \in Commands :
          /\ state[c] = "pending"
          /\ state' = [state EXCEPT ![c] = "sent"]
          /\ got' = got \/ got' = [got EXCEPT ![pairOf[c]] = c]
          /\ outcome' = outcome \/ \E o \in Final : outcome' = [outcome EXCEPT ![c] = o]
          /\ UNCHANGED <<active, pairOf, request, expired, issued, pending, requests, history>>
    BY <1>8 DEF Poll, Picks, Sendable
  <2>2. CASE UNCHANGED outcome
    BY <2>1, <2>2
  <2>3. ASSUME NEW o \in Final, outcome' = [outcome EXCEPT ![c] = o]
        PROVE  FinalIsTrue'
    BY <2>1, <2>3
  <2> QED BY <2>1, <2>2, <2>3
<1>9. ASSUME NEW c \in Commands, Report(c) PROVE FinalIsTrue'
  BY <1>9 DEF Report
<1>10. ASSUME NEW c \in Commands, Expire(c) PROVE FinalIsTrue'
  BY <1>10 DEF Expire
<1>11. CASE Restart
  BY <1>11 DEF Restart, Rollback, End
<1>12. CASE UNCHANGED vars
  BY <1>12 DEF vars
<1> QED
  BY <1>1, <1>2, <1>3, <1>4, <1>5, <1>6, <1>7, <1>8, <1>9,
     <1>10, <1>11, <1>12 DEF Next

------------------------------------------------------------------------------

\* The strengthened invariant of the queue holds in every reachable state.
THEOREM Inductive == Spec => []IInv
<1>1. IInv /\ [Next]_vars => IInv'
  BY NextTypeOK, NextHoldersAreUnderWay, NextOnlyPendingExpire, NextIdsInOrder, NextRequestsMatchRows, NextInsertedIsNewest,
     NextStampsFollowIds, NextGotIsOlder, NextFinalIsTrue DEF IInv
<1> QED
  BY InitInv, <1>1, PTL DEF Spec

\* Every variable keeps its type: commands, enqueue requests, row locks and what
\* the terminals hold.
THEOREM TypeCorrect == Spec => []TypeOK
<1>1. IInv => TypeOK
  BY DEF IInv
<1> QED
  BY Inductive, <1>1, PTL

\* A command shown as done or failed was carried out with that outcome, and one
\* that was carried out is never a candidate for being sent again.
THEOREM ReportsAreTrue == Spec => []FinalIsTrue
<1>1. IInv => FinalIsTrue
  BY DEF IInv
<1> QED
  BY Inductive, <1>1, PTL

\* Repeated reports do not change a command that is done or failed.
THEOREM FinalStatesStay == Spec => FinalStays
<1>1. IInv /\ [Next]_vars =>
        [\A c \in Commands : state[c] \in Final => state'[c] = state[c]]_vars
  <2> SUFFICES ASSUME IInv, [Next]_vars, NEW c \in Commands, state[c] \in Final
               PROVE  state'[c] = state[c]
    OBVIOUS
  <2> USE DEF IInv, TypeOK, Final
  <2>1. ASSUME NEW r \in Requests, Assign(r) PROVE state'[c] = state[c]
    BY <2>1 DEF Assign, InsertCommand, IdsInOrder, Commands
  <2>2. ASSUME NEW r \in Requests, Commit(r) PROVE state'[c] = state[c]
    BY <2>2 DEF Commit, Inserted
  <2>3. ASSUME NEW R, Rollback(R) PROVE state'[c] = state[c]
    BY <2>3 DEF Rollback
  <2>4. ASSUME NEW d \in Devices, Poll(d) PROVE state'[c] = state[c]
    BY <2>4 DEF Poll, Picks, Sendable
  <2>5. ASSUME NEW e \in Commands, Report(e) PROVE state'[c] = state[c]
    BY <2>5 DEF Report, FinalIsTrue
  <2>6. CASE UNCHANGED state
    BY <2>6
  <2> QED
    BY <2>1, <2>2, <2>3, <2>4, <2>5, <2>6
       DEF Next, vars, queue, Enqueue, NextPair, Count, DeadlockVictim, Disable, Expire, Restart
<1> QED
  BY Inductive, <1>1, PTL DEF Spec, FinalStays

\* What a terminal holds about an employee is only ever replaced by what a
\* request that committed later wrote.
THEOREM NewestWins == Spec => NewerRequestsWin
<1>1. IInv /\ [Next]_vars =>
        [\A p \in Pairs : got'[p] # got[p] =>
           got[p] = NoCommand \/ stamp[got'[p]] > stamp[got[p]]]_vars
  <2> SUFFICES ASSUME IInv, [Next]_vars, NEW p \in Pairs,
                      got'[p] # got[p], got[p] # NoCommand
               PROVE  stamp[got'[p]] > stamp[got[p]]
    BY DEF NoCommand
  <2>1. ASSUME NEW d \in Devices, Poll(d)
        PROVE  stamp[got'[p]] > stamp[got[p]]
    <3>1. PICK c \in Commands :
            /\ Picks(d, c)
            /\ got' = [got EXCEPT ![pairOf[c]] = c]
      BY <2>1 DEF Poll, terminal
    <3>2. pairOf[c] = p /\ got'[p] = c
      BY <3>1 DEF IInv, TypeOK
    <3>3. state[c] = "pending" /\ c \notin expired
      BY <3>1 DEF Picks, Sendable
    <3>4. got[p] \in Commands /\ Committed(got[p]) /\ pairOf[got[p]] = p /\ got[p] < c
      BY <3>2, <3>3 DEF IInv, TypeOK, GotIsOlder, NoCommand
    <3>5. stamp[got[p]] < stamp[c]
      BY <3>2, <3>3, <3>4 DEF IInv, StampsFollowIds, Committed
    <3> QED BY <3>2, <3>4, <3>5 DEF IInv, TypeOK
  <2>2. CASE UNCHANGED got
    BY <2>2
  <2> QED
    BY <2>1, <2>2
       DEF Next, vars, terminal, Enqueue, NextPair, Assign, Count, Commit, DeadlockVictim,
           Rollback, Disable, Report, Expire, Restart
<1> QED
  BY Inductive, <1>1, PTL DEF Spec, NewerRequestsWin

\* A nonempty finite set whose members all wait for one another contains a
\* deadlock: a smallest such set, of which nobody is left unwaited for.
LEMMA CycleExists ==
  ASSUME NEW S \in SUBSET Requests, S # {},
         \A r \in S : \E q \in S : WaitsFor(r, q)
  PROVE  \E r \in S : Deadlocked(r)
<1> DEFINE Closed(T) == T # {} /\ \A r \in T : \E q \in T : WaitsFor(r, q)
           Sizes == {Cardinality(T) : T \in {U \in SUBSET S : Closed(U)}}
<1>1. \A T \in SUBSET S : IsFiniteSet(T) /\ Cardinality(T) \in Nat
  BY RequestsAssumption, FS_Subset, FS_CardinalityType
<1>2. Sizes \subseteq Nat /\ Cardinality(S) \in Sizes
  BY <1>1
<1>3. PICK n \in Sizes : \A m \in Sizes : <<m, n>> \notin OpToRel(<, Nat)
  <2>1. IsWellFoundedOn(OpToRel(<, Nat), Nat)
    BY NatLessThanWellFounded
  <2> HIDE DEF Sizes
  <2> QED BY <1>2, <2>1, WFMin, Zenon
<1>4. PICK T \in SUBSET S : Closed(T) /\ n = Cardinality(T)
  OBVIOUS
<1>5. ASSUME NEW p \in T PROVE \E r \in T : WaitsFor(r, p)
  <2> SUFFICES ASSUME \A r \in T : ~WaitsFor(r, p)
               PROVE  FALSE
    OBVIOUS
  <2>1. PICK q \in T : WaitsFor(p, q)
    BY <1>4
  <2>2. q # p
    BY <2>1 DEF WaitsFor
  <2>3. Closed(T \ {p})
    BY <1>4, <2>1, <2>2
  <2>4. Cardinality(T \ {p}) \in Sizes /\ T \ {p} \in SUBSET S
    BY <2>3
  <2>5. Cardinality(T \ {p}) = Cardinality(T) - 1
    BY <1>1, FS_RemoveElement
  <2>6. Cardinality(T \ {p}) \in Nat /\ n \in Nat /\ Cardinality(T \ {p}) < n
    BY <1>1, <1>4, <2>4, <2>5
  <2> HIDE DEF Sizes
  <2> QED BY <1>3, <2>4, <2>6 DEF OpToRel
<1>6. \A r \in T : Deadlocked(r)
  BY <1>4, <1>5 DEF Deadlocked
<1> QED BY <1>4, <1>6

\* However many requests wait for one another, one of them can go on or is ended
\* by PostgreSQL: nobody waits for a request that is over.
THEOREM NobodyStaysStuck == Spec => []NobodyIsStuck
<1>1. IInv => NobodyIsStuck
  <2> SUFFICES ASSUME IInv, NEW S \in SUBSET Requests, \E r \in S : pc[r] # "idle",
                      \A r \in S, q \in Requests : WaitsFor(r, q) => q \in S
               PROVE  \E r \in S : /\ pc[r] # "idle"
                                   /\ pc[r] = "next" => todo[r] # {}
                                   /\ Waiting(r) => Deadlocked(r)
    BY DEF NobodyIsStuck
  <2> DEFINE U == {r \in S : pc[r] # "idle"}
  <2>1. \A r \in U : pc[r] = "next" => todo[r] # {}
    BY DEF IInv, HoldersAreUnderWay
  <2>2. ASSUME NEW r \in U, NEW q \in Requests, WaitsFor(r, q)
        PROVE  q \in U
    <3>1. pc[r] \in {"assign", "count"} /\ doing[r] \in Pairs
      BY <2>2 DEF WaitsFor, IInv, RequestsMatchRows
    <3>2. DeviceOf(doing[r]) \in Devices
      BY <3>1 DEF DeviceOf, Pairs
    <3>3. pc[q] # "idle"
      BY <2>2, <3>1, <3>2, SentinelAssumption DEF WaitsFor, IInv, HoldersAreUnderWay
    <3> QED BY <2>2, <3>3
  <2>3. CASE \E r \in U : ~Waiting(r)
    BY <2>1, <2>3
  <2>4. CASE \A r \in U : Waiting(r)
    <3>1. \A r \in U : \E q \in U : WaitsFor(r, q)
      BY <2>2, <2>4 DEF Waiting
    <3>2. U # {} /\ U \in SUBSET Requests
      OBVIOUS
    <3>3. \E r \in U : Deadlocked(r)
      <4> HIDE DEF U
      <4> QED BY <3>1, <3>2, CycleExists
    <3> QED BY <2>1, <3>3
  <2> QED BY <2>3, <2>4
<1> QED
  BY Inductive, <1>1, PTL

------------------------------------------------------------------------------

\* What the mapping makes of a state, in terms of the queue's own variables.
PhaseMap == [c \in Commands |-> LedgerPhase(c)]
AboutMap == [c \in Commands |-> IF c \in Visible THEN pairOf[c] ELSE NoPair]

LEMMA LedgerStep == IInv /\ [Next]_vars => [Ledger!Next]_(Ledger!vars)
<1> SUFFICES ASSUME IInv, [Next]_vars
             PROVE  \/ Ledger!Next
                    \/ UNCHANGED <<PhaseMap, AboutMap, stamp, commits, got, outcome>>
  BY DEF Ledger!vars, PhaseMap, AboutMap
<1> DEFINE Stays == UNCHANGED <<PhaseMap, AboutMap, stamp, commits, got, outcome>>
<1> USE DEF IInv, TypeOK, queue, terminal, history, NoCommand
\* Nothing another transaction sees changes: no step of the ledger.
<1>1. ASSUME \A c \in Commands : LedgerPhase(c)' = LedgerPhase(c),
             \A c \in Commands : c \in Visible' <=> c \in Visible,
             \A c \in Visible : pairOf'[c] = pairOf[c],
             UNCHANGED <<history, terminal>>
      PROVE  Stays
  BY <1>1 DEF PhaseMap, AboutMap, Visible
<1>2. ASSUME NEW r \in Requests, Enqueue(r) \/ NextPair(r) \/ Count(r) PROVE Stays
  BY <1>2 DEF Enqueue, NextPair, Count, PhaseMap, AboutMap, LedgerPhase, Visible
<1>3. ASSUME NEW r \in Requests, Assign(r) PROVE Stays
  <2> USE MaxCommandsAssumption DEF Assign, InsertCommand, IdsInOrder, Commands
  <2>1. issued + 1 \in Commands /\ state[issued + 1] = "absent"
    BY <1>3
  <2>2. \A c \in Commands : c # issued + 1 =>
          state'[c] = state[c] /\ pairOf'[c] = pairOf[c]
    BY <1>3
  <2>3. state'[issued + 1] = "inserted"
    BY <1>3, <2>1
  <2>4. \A c \in Commands : c \in Visible' <=> c \in Visible
    BY <2>1, <2>2, <2>3 DEF Visible
  <2>5. \A c \in Commands : LedgerPhase(c)' = LedgerPhase(c)
    BY <1>3, <2>1, <2>2, <2>3, <2>4 DEF LedgerPhase, Visible
  <2>6. \A c \in Visible : pairOf'[c] = pairOf[c]
    BY <2>1, <2>2 DEF Visible
  <2> QED BY <1>1, <1>3, <2>4, <2>5, <2>6
<1>4. ASSUME NEW r \in Requests, Commit(r), NEW C \in SUBSET Commands, C = Inserted(r)
      PROVE  Ledger!Publish(C)
  <2>1. C \in SUBSET Commands /\ (\A c \in C : state[c] = "inserted" /\ c \notin Visible)
    BY <1>4 DEF Inserted, Visible
  <2>2. /\ state' = [c \in Commands |-> IF c \in C THEN "pending" ELSE state[c]]
        /\ UNCHANGED <<pairOf, expired, terminal>>
        /\ commits' = commits + 1
        /\ stamp' = [c \in Commands |-> IF c \in C THEN commits + 1 ELSE stamp[c]]
    BY <1>4 DEF Commit
  <2>3. \A c \in C : c \notin expired
    BY <2>1 DEF OnlyPendingExpire
  <2>4. Visible' = Visible \cup C
    BY <2>1, <2>2 DEF Visible
  <2>5. PhaseMap' = [c \in Commands |-> IF c \in C THEN "waiting" ELSE PhaseMap[c]]
    BY <2>1, <2>2, <2>3, <2>4 DEF PhaseMap, LedgerPhase, Visible
  <2>6. \A c \in C : PhaseMap[c] = "absent"
    BY <2>1 DEF PhaseMap, LedgerPhase
  <2>7. [c \in C |-> pairOf[c]] \in [C -> Pairs]
    BY <2>1 DEF IdsInOrder
  <2>8. \A c, e \in C : pairOf[c] = pairOf[e] => c = e
    BY <2>1, MaxCommandsAssumption DEF InsertedIsNewest, Commands
  <2>9. AboutMap' = [c \in Commands |-> IF c \in C THEN [e \in C |-> pairOf[e]][c] ELSE AboutMap[c]]
    BY <2>1, <2>2, <2>4 DEF AboutMap
  <2>10. \E subject \in [C -> Pairs] :
           /\ \A c, e \in C : subject[c] = subject[e] => c = e
           /\ AboutMap' = [c \in Commands |-> IF c \in C THEN subject[c] ELSE AboutMap[c]]
    <3>1. \A c, e \in C : [x \in C |-> pairOf[x]][c] = [x \in C |-> pairOf[x]][e] => c = e
      BY <2>8
    <3> QED BY <2>7, <3>1, <2>9
  <2>11. \A c \in C : LedgerPhase(c) = "absent"
    BY <2>1, <2>6 DEF PhaseMap
  <2> QED
    BY <2>1, <2>2, <2>5, <2>10, <2>11 DEF Ledger!Publish, PhaseMap, AboutMap
<1>5. ASSUME NEW R \in SUBSET Requests, Rollback(R) PROVE Stays
  BY <1>1, <1>5 DEF Rollback, LedgerPhase, Visible
<1>6. ASSUME NEW d \in Devices, Disable(d) PROVE Stays
  BY <1>1, <1>6 DEF Disable, LedgerPhase, Visible
<1>7. ASSUME NEW d \in Devices, Poll(d)
      PROVE  \E c \in Commands : Ledger!Lose(c) \/ Ledger!CarryOut(c)
  <2>1. PICK c \in Commands :
          /\ Picks(d, c)
          /\ state' = [state EXCEPT ![c] = "sent"]
          /\ \/ UNCHANGED terminal
             \/ /\ got' = [got EXCEPT ![pairOf[c]] = c]
                /\ \E o \in Final : outcome' = [outcome EXCEPT ![c] = o]
          /\ UNCHANGED <<pairOf, expired, history>>
    BY <1>7 DEF Poll
  <2>2. /\ state[c] = "pending" /\ c \notin expired /\ c \in Visible /\ pairOf[c] \in Pairs
        /\ PhaseMap[c] = "waiting" /\ AboutMap[c] = pairOf[c]
    BY <2>1 DEF Picks, Sendable, Visible, IdsInOrder, PhaseMap, AboutMap, LedgerPhase
  <2>3. Visible' = Visible
    BY <2>1, <2>2 DEF Visible
  <2>4. PhaseMap' = [PhaseMap EXCEPT ![c] = "sent"] /\ AboutMap' = AboutMap
    <3>1. \A e \in Commands : LedgerPhase(e)' = IF e = c THEN "sent" ELSE LedgerPhase(e)
      BY <2>1, <2>2, <2>3 DEF LedgerPhase
    <3>2. PhaseMap' = [PhaseMap EXCEPT ![c] = "sent"]
      BY <3>1 DEF PhaseMap
    <3>3. AboutMap' = AboutMap
      BY <2>1, <2>3 DEF AboutMap
    <3> QED BY <3>2, <3>3
  <2>5. ASSUME NEW e \in Commands, PhaseMap[e] = "waiting", AboutMap[e] = AboutMap[c]
        PROVE  stamp[c] <= stamp[e]
    <3>1. e \in Visible /\ state[e] = "pending" /\ e \notin expired /\ pairOf[e] = pairOf[c]
      BY <2>2, <2>5, SentinelAssumption DEF PhaseMap, AboutMap, LedgerPhase, Final, Visible
    <3>2. e \in Sendable(d)
      BY <2>1, <3>1 DEF Picks, Sendable
    <3>3. c <= e
      BY <2>1, <3>2 DEF Picks
    <3> QED
      BY <2>2, <3>1, <3>3, MaxCommandsAssumption DEF StampsFollowIds, Committed, Commands
  <2>6. Ledger!Leave(c)
    BY <2>1, <2>2, <2>4, <2>5 DEF Ledger!Leave, PhaseMap, AboutMap
  <2>7. got[pairOf[c]] # 0 => stamp[got[pairOf[c]]] < stamp[c]
    BY <2>2, MaxCommandsAssumption DEF GotIsOlder, StampsFollowIds, Committed, Commands
  <2>8. CASE UNCHANGED terminal
    BY <2>6, <2>8 DEF Ledger!Lose
  <2>9. CASE /\ got' = [got EXCEPT ![pairOf[c]] = c]
             /\ \E o \in Final : outcome' = [outcome EXCEPT ![c] = o]
    BY <2>2, <2>6, <2>7, <2>9 DEF Ledger!CarryOut, AboutMap
  <2> QED BY <2>1, <2>8, <2>9
<1>8. ASSUME NEW c \in Commands, Report(c) PROVE Ledger!Conclude(c) \/ Stays
  <2>1. /\ outcome[c] \in Final /\ state[c] \in Final \cup {"sent"}
        /\ state' = [state EXCEPT ![c] = outcome[c]]
        /\ UNCHANGED <<pairOf, expired, history, terminal>>
    BY <1>8 DEF Report, FinalIsTrue
  <2>2. Visible' = Visible /\ c \in Visible
    BY <2>1 DEF Visible, Final
  <2>3. AboutMap' = AboutMap
    BY <2>1, <2>2 DEF AboutMap
  <2>4. CASE state[c] = "sent"
    <3>1. PhaseMap[c] = "sent" /\ PhaseMap' = [PhaseMap EXCEPT ![c] = outcome[c]]
      BY <2>1, <2>2, <2>4 DEF PhaseMap, LedgerPhase, Final
    <3> QED BY <2>1, <2>3, <3>1 DEF Ledger!Conclude, PhaseMap, AboutMap
  <2>5. CASE state[c] \in Final
    <3>1. state' = state
      BY <2>1, <2>5 DEF FinalIsTrue
    <3>2. PhaseMap' = PhaseMap
      BY <2>1, <2>2, <3>1 DEF PhaseMap, LedgerPhase
    <3> QED BY <2>1, <2>3, <3>2
  <2> QED BY <2>1, <2>4, <2>5
<1>9. ASSUME NEW c \in Commands, Expire(c) PROVE Ledger!Lapse(c)
  <2>1. state[c] = "pending" /\ c \notin expired /\ c \in Visible /\ Visible' = Visible
    BY <1>9 DEF Expire, Visible
  <2>2. PhaseMap[c] = "waiting" /\ PhaseMap' = [PhaseMap EXCEPT ![c] = "lapsed"]
    BY <1>9, <2>1 DEF Expire, PhaseMap, LedgerPhase
  <2>3. AboutMap' = AboutMap
    BY <1>9, <2>1 DEF Expire, AboutMap
  <2> QED BY <1>9, <2>2, <2>3 DEF Expire, Ledger!Lapse, PhaseMap, AboutMap
<1>10. CASE UNCHANGED vars
  BY <1>10 DEF vars, PhaseMap, AboutMap, LedgerPhase, Visible
<1>11. ASSUME NEW r \in Requests, DeadlockVictim(r) PROVE Stays
  BY <1>5, <1>11 DEF DeadlockVictim
<1>12. ASSUME Restart PROVE Stays
  BY <1>5, <1>12 DEF Restart
<1>13. ASSUME NEW r \in Requests, Commit(r) PROVE Ledger!Next
  <2>1. PICK C \in SUBSET Commands : C = Inserted(r)
    BY DEF Inserted
  <2>2. Ledger!Publish(C)
    BY <1>13, <1>4, <2>1
  <2> QED BY <2>2 DEF Ledger!Next
<1>14. ASSUME NEW d \in Devices, Poll(d) PROVE Ledger!Next
  BY <1>7, <1>14 DEF Ledger!Next
<1>15. ASSUME NEW c \in Commands, Report(c) \/ Expire(c) PROVE Ledger!Next \/ Stays
  BY <1>8, <1>9, <1>15 DEF Ledger!Next
<1> HIDE DEF Stays
<1>16. ASSUME Next PROVE Ledger!Next \/ Stays
  <2>1. CASE \E r \in Requests : \/ Enqueue(r) \/ NextPair(r) \/ Assign(r) \/ Count(r)
                                \/ Commit(r) \/ DeadlockVictim(r)
    BY <2>1, <1>2, <1>3, <1>11, <1>13
  <2>2. CASE \E d \in Devices : Disable(d) \/ Poll(d)
    BY <2>2, <1>6, <1>14
  <2>3. CASE \E c \in Commands : Report(c) \/ Expire(c)
    BY <2>3, <1>15
  <2> QED BY <1>16, <2>1, <2>2, <2>3, <1>12 DEF Next
<1> QED BY <1>10, <1>16 DEF Stays

\* Whatever requests, terminals, losses and restarts do, what others see of the
\* queue is a ledger: whole batches, in turn, each command carried out at most once.
THEOREM RefinesLedger == Spec => ImplementsLedger
<1>1. Init => Ledger!Init
  BY DEF Init, Ledger!Init, LedgerPhase, Visible
<1> QED
  BY <1>1, LedgerStep, Inductive, PTL DEF Spec, ImplementsLedger, Ledger!Spec
===============================================================================
