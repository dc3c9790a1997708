-------------------------- MODULE CustomDomainsProofs --------------------------
(***************************************************************************)
(* Proofs about CustomDomains, for every number of tenants, host names,    *)
(* rows and requests.  IInv is inductive; it adds to the properties what   *)
(* the requests in flight may rely on: the kind of row they are at, and,   *)
(* once set-primary has cleared its tenant's rows, that it still holds the *)
(* locks of every row of the tenant that is marked primary, and of the     *)
(* default subdomain, which every workspace has.                           *)
(***************************************************************************)
EXTENDS CustomDomains, TLAPS

RowsInOrder ==
  /\ \A t \in Tenants : owner[t] = t /\ name[t] = t /\ status[t] \in {"active", "restricted"}
  /\ \A i \in Ids : status[i] # "absent" => owner[i] \in Tenants /\ name[i] \in Names
  /\ \A i \in Ids : status[i] \in Serving => i \in published
  /\ \A i \in primary : Exists(i)
  /\ \A i \in published : status[i] # "absent"

RequestsMatchRows ==
  \A r \in Requests :
    /\ pc[r] = "insert" => asks[r] \in Tenants \X Names
    /\ pc[r] \in {"lookup", "reset", "delete"} => at[r] \in Ids /\ status[at[r]] # "absent"
    /\ pc[r] \in {"clear", "repoint"} => at[r] \in Rows /\ status[at[r]] # "absent"

ClearedAreLocked ==
  \A r \in Requests :
    pc[r] = "repoint" =>
      \A i \in primary \cup Tenants : owner[i] = owner[at[r]] => rowLock[i] = r

\* Domain rows are locked by set-primary between its two writes, tenants by a
\* removal between its two.
LocksMatchRequests ==
  /\ \A i \in Rows : rowLock[i] # NoRequest =>
       /\ status[i] # "absent"
       /\ pc[rowLock[i]] = "repoint"
       /\ owner[i] = owner[at[rowLock[i]]]
  /\ \A t \in Tenants : tenantLock[t] # NoRequest =>
       /\ pc[tenantLock[t]] = "delete"
       /\ owner[at[tenantLock[t]]] = t

IInv ==
  /\ TypeOK
  /\ LocksMatchRequests
  /\ RowsInOrder
  /\ RequestsMatchRows
  /\ ClearedAreLocked
  /\ HeldOnce
  /\ OnePrimary

LEMMA EndTypeOK ==
  ASSUME TypeOK, NEW R, End(R)
  PROVE  /\ pc' \in [Requests -> {"idle", "insert", "lookup", "clear", "repoint",
                                  "reset", "delete"}]
         /\ at' \in [Requests -> Rows \cup {NoRow}]
         /\ asks' \in [Requests -> (Tenants \cup {NoTenant}) \X (Names \cup {NoName})]
         /\ rowLock' \in [Rows -> Requests \cup {NoRequest}]
         /\ tenantLock' \in [Tenants -> Requests \cup {NoRequest}]
BY DEF TypeOK, End

LEMMA InitInv == Init => IInv
BY SentinelAssumption, DisjointAssumption
   DEF Init, IInv, TypeOK, LocksMatchRequests, RowsInOrder, RequestsMatchRows, ClearedAreLocked, HeldOnce,
       OnePrimary, Exists, Serving, Rows, NoTenant

LEMMA NextTypeOK == IInv /\ [Next]_vars => TypeOK'
<1> SUFFICES ASSUME IInv, [Next]_vars
             PROVE  TypeOK'
  OBVIOUS
<1> USE DEF IInv, table, requests, locks
<1>1. ASSUME NEW r \in Requests, NEW t \in Tenants, NEW n \in Names, AddCheck(r, t, n)
      PROVE  TypeOK'
  BY <1>1 DEF AddCheck, TypeOK
<1>2. ASSUME NEW r \in Requests, AddInsert(r) PROVE TypeOK'
  <2>1. asks[r][1] \in Tenants /\ asks[r][2] \in Names
    BY <1>2 DEF AddInsert, RequestsMatchRows
  <2>2. owner' \in [Rows -> Tenants \cup {NoTenant}]
    BY <1>2, <2>1 DEF AddInsert, TypeOK
  <2>3. name' \in [Rows -> Names \cup Tenants \cup {NoName}]
    BY <1>2, <2>1 DEF AddInsert, TypeOK
  <2>4. status' \in [Rows -> {"absent", "pending", "verified", "active", "restricted",
                              "removed"}]
    BY <1>2 DEF AddInsert, TypeOK
  <2> QED BY <1>2, <2>2, <2>3, <2>4, EndTypeOK DEF AddInsert, TypeOK
<1>3. ASSUME NEW r \in Requests, NEW i \in Ids, VerifyRead(r, i) PROVE TypeOK'
  BY <1>3 DEF VerifyRead, Begin, TypeOK, Rows
<1>4. ASSUME NEW r \in Requests, NEW i \in Ids, DeleteRead(r, i) PROVE TypeOK'
  BY <1>4 DEF DeleteRead, Begin, TypeOK, Rows
<1>5. ASSUME NEW r \in Requests, NEW i \in Rows, SetPrimaryRead(r, i) PROVE TypeOK'
  BY <1>5 DEF SetPrimaryRead, Begin, TypeOK
<1>6. ASSUME NEW r \in Requests, VerifyMissed(r) PROVE TypeOK'
  BY <1>6, EndTypeOK DEF VerifyMissed, TypeOK
<1>7. ASSUME NEW r \in Requests, VerifyCommit(r) PROVE TypeOK'
  BY <1>7, EndTypeOK DEF VerifyCommit, TypeOK
<1>8. ASSUME NEW r \in Requests, Clear(r) PROVE TypeOK'
  BY <1>8 DEF Clear, TypeOK
<1>9. ASSUME NEW r \in Requests, SetPrimaryCommit(r) PROVE TypeOK'
  <2>1. at[r] \in Rows /\ status[at[r]] # "absent"
    BY <1>9 DEF SetPrimaryCommit, RequestsMatchRows
  <2>2. name[at[r]] \in Names \cup Tenants
    BY <2>1 DEF RowsInOrder, Rows
  <2>3. primary' \subseteq Rows
    BY <1>9, <2>1 DEF SetPrimaryCommit, TypeOK
  <2>4. primaryDomain' \in [Tenants -> Names \cup Tenants]
    BY <1>9, <2>2 DEF SetPrimaryCommit, TypeOK
  <2>5. status' \in [Rows -> {"absent", "pending", "verified", "active", "restricted",
                              "removed"}]
    BY <1>9, <2>1 DEF SetPrimaryCommit, TypeOK
  <2> QED BY <1>9, <2>3, <2>4, <2>5, EndTypeOK DEF SetPrimaryCommit, TypeOK
<1>10. ASSUME NEW r \in Requests, DeleteReset(r) PROVE TypeOK'
  BY <1>10 DEF DeleteReset, TypeOK
<1>11. ASSUME NEW r \in Requests, DeleteCommit(r) PROVE TypeOK'
  <2>1. status' \in [Rows -> {"absent", "pending", "verified", "active", "restricted",
                              "removed"}]
    BY <1>11 DEF DeleteCommit, TypeOK
  <2>2. primaryDomain' \in [Tenants -> Names \cup Tenants]
    BY <1>11 DEF DeleteCommit, TypeOK
  <2> QED BY <1>11, <2>1, <2>2, EndTypeOK DEF DeleteCommit, TypeOK
<1>12. ASSUME NEW r \in Requests, DeadlockVictim(r) PROVE TypeOK'
  BY <1>12, EndTypeOK DEF DeadlockVictim, TypeOK
<1>13. CASE Restart
  BY <1>13, EndTypeOK DEF Restart, TypeOK
<1>14. ASSUME NEW n \in Names \cup Tenants, Release(n) PROVE TypeOK'
  BY <1>14 DEF Release, TypeOK
<1>15. ASSUME NEW t \in Tenants, ChangePlan(t) PROVE TypeOK'
  BY <1>15 DEF ChangePlan, TypeOK
<1>16. ASSUME NEW i \in Ids, Publish(i) PROVE TypeOK'
  BY <1>16 DEF Publish, TypeOK
<1>17. ASSUME NEW i \in Ids, Expire(i) PROVE TypeOK'
  BY <1>17 DEF Expire, TypeOK
<1>18. CASE UNCHANGED vars
  BY <1>18 DEF vars, TypeOK
<1> QED
  BY <1>1, <1>2, <1>3, <1>4, <1>5, <1>6, <1>7, <1>8, <1>9, <1>10, <1>11, <1>12,
     <1>13, <1>14, <1>15, <1>16, <1>17, <1>18 DEF Next

------------------------------------------------------------------------------

LEMMA NextRowsInOrder == IInv /\ [Next]_vars => RowsInOrder'
<1> SUFFICES ASSUME IInv, [Next]_vars
             PROVE  RowsInOrder'
  OBVIOUS
<1> USE SentinelAssumption, DisjointAssumption
    DEF IInv, RowsInOrder, RequestsMatchRows, TypeOK, Rows, Exists, Serving, table,
        requests, locks
<1>1. ASSUME NEW r \in Requests, NEW t \in Tenants, NEW n \in Names, AddCheck(r, t, n)
      PROVE  RowsInOrder'
  BY <1>1 DEF AddCheck
<1>2. ASSUME NEW r \in Requests, AddInsert(r) PROVE RowsInOrder'
  BY <1>2 DEF AddInsert, End
<1>3. ASSUME NEW r \in Requests, NEW i \in Ids, VerifyRead(r, i)
      PROVE  RowsInOrder'
  BY <1>3 DEF VerifyRead, Begin
<1>4. ASSUME NEW r \in Requests, NEW i \in Ids, DeleteRead(r, i)
      PROVE  RowsInOrder'
  BY <1>4 DEF DeleteRead, Begin
<1>5. ASSUME NEW r \in Requests, NEW i \in Rows, SetPrimaryRead(r, i)
      PROVE  RowsInOrder'
  BY <1>5 DEF SetPrimaryRead, Begin
<1>6. ASSUME NEW r \in Requests, VerifyMissed(r) PROVE RowsInOrder'
  BY <1>6 DEF VerifyMissed, End
<1>7. ASSUME NEW r \in Requests, VerifyCommit(r) PROVE RowsInOrder'
  BY <1>7 DEF VerifyCommit, DnsFound, End
<1>8. ASSUME NEW r \in Requests, Clear(r) PROVE RowsInOrder'
  BY <1>8 DEF Clear
<1>9. ASSUME NEW r \in Requests, SetPrimaryCommit(r) PROVE RowsInOrder'
  BY <1>9 DEF SetPrimaryCommit, End
<1>10. ASSUME NEW r \in Requests, DeleteReset(r) PROVE RowsInOrder'
  BY <1>10 DEF DeleteReset
<1>11. ASSUME NEW r \in Requests, DeleteCommit(r) PROVE RowsInOrder'
  BY <1>11 DEF DeleteCommit, End
<1>12. ASSUME NEW r \in Requests, DeadlockVictim(r) PROVE RowsInOrder'
  BY <1>12 DEF DeadlockVictim, End
<1>13. CASE Restart
  BY <1>13 DEF Restart, End
<1>14. ASSUME NEW n \in Names \cup Tenants, Release(n) PROVE RowsInOrder'
  BY <1>14 DEF Release
<1>15. ASSUME NEW t \in Tenants, ChangePlan(t) PROVE RowsInOrder'
  BY <1>15 DEF ChangePlan
<1>16. ASSUME NEW i \in Ids, Publish(i) PROVE RowsInOrder'
  BY <1>16 DEF Publish
<1>17. ASSUME NEW i \in Ids, Expire(i) PROVE RowsInOrder'
  BY <1>17 DEF Expire
<1>18. CASE UNCHANGED vars
  BY <1>18 DEF vars
<1> QED
  BY <1>1, <1>2, <1>3, <1>4, <1>5, <1>6, <1>7, <1>8, <1>9,
     <1>10, <1>11, <1>12, <1>13, <1>14, <1>15, <1>16, <1>17, <1>18 DEF Next

LEMMA NextLocksMatchRequests == IInv /\ [Next]_vars => LocksMatchRequests'
<1> SUFFICES ASSUME IInv, [Next]_vars
             PROVE  LocksMatchRequests'
  OBVIOUS
<1> USE SentinelAssumption, DisjointAssumption
    DEF IInv, LocksMatchRequests, RowsInOrder, RequestsMatchRows, TypeOK, Rows, Exists, table,
        requests, locks
<1>1. ASSUME NEW r \in Requests, NEW t \in Tenants, NEW n \in Names, AddCheck(r, t, n)
      PROVE  LocksMatchRequests'
  BY <1>1 DEF AddCheck
<1>2. ASSUME NEW r \in Requests, AddInsert(r) PROVE LocksMatchRequests'
  BY <1>2 DEF AddInsert, End
<1>3. ASSUME NEW r \in Requests, NEW i \in Ids, VerifyRead(r, i) PROVE LocksMatchRequests'
  BY <1>3 DEF VerifyRead, Begin
<1>4. ASSUME NEW r \in Requests, NEW i \in Ids, DeleteRead(r, i) PROVE LocksMatchRequests'
  BY <1>4 DEF DeleteRead, Begin
<1>5. ASSUME NEW r \in Requests, NEW i \in Rows, SetPrimaryRead(r, i) PROVE LocksMatchRequests'
  BY <1>5 DEF SetPrimaryRead, Begin
<1>6. ASSUME NEW r \in Requests, VerifyMissed(r) PROVE LocksMatchRequests'
  BY <1>6 DEF VerifyMissed, End
<1>7. ASSUME NEW r \in Requests, VerifyCommit(r) PROVE LocksMatchRequests'
  BY <1>7 DEF VerifyCommit, End
<1>8. ASSUME NEW r \in Requests, Clear(r) PROVE LocksMatchRequests'
  BY <1>8 DEF Clear, Free, RowsOf
<1>9. ASSUME NEW r \in Requests, SetPrimaryCommit(r) PROVE LocksMatchRequests'
  BY <1>9 DEF SetPrimaryCommit, End
<1>10. ASSUME NEW r \in Requests, DeleteReset(r) PROVE LocksMatchRequests'
  BY <1>10 DEF DeleteReset
<1>11. ASSUME NEW r \in Requests, DeleteCommit(r) PROVE LocksMatchRequests'
  BY <1>11 DEF DeleteCommit, End
<1>12. ASSUME NEW r \in Requests, DeadlockVictim(r) PROVE LocksMatchRequests'
  BY <1>12 DEF DeadlockVictim, End
<1>13. CASE Restart
  BY <1>13 DEF Restart, End
<1>14. ASSUME NEW n \in Names \cup Tenants, Release(n) PROVE LocksMatchRequests'
  BY <1>14 DEF Release
<1>15. ASSUME NEW t \in Tenants, ChangePlan(t) PROVE LocksMatchRequests'
  BY <1>15 DEF ChangePlan
<1>16. ASSUME NEW i \in Ids, Publish(i) PROVE LocksMatchRequests'
  BY <1>16 DEF Publish
<1>17. ASSUME NEW i \in Ids, Expire(i) PROVE LocksMatchRequests'
  BY <1>17 DEF Expire
<1>18. CASE UNCHANGED vars
  BY <1>18 DEF vars
<1> QED
  BY <1>1, <1>2, <1>3, <1>4, <1>5, <1>6, <1>7, <1>8, <1>9,
     <1>10, <1>11, <1>12, <1>13, <1>14, <1>15, <1>16, <1>17, <1>18 DEF Next

LEMMA NextRequestsMatchRows == IInv /\ [Next]_vars => RequestsMatchRows'
<1> SUFFICES ASSUME IInv, [Next]_vars
             PROVE  RequestsMatchRows'
  OBVIOUS
<1> USE SentinelAssumption, DisjointAssumption
    DEF IInv, RowsInOrder, RequestsMatchRows, TypeOK, Rows, Exists, Serving, table,
        requests, locks
<1>1. ASSUME NEW r \in Requests, NEW t \in Tenants, NEW n \in Names, AddCheck(r, t, n)
      PROVE  RequestsMatchRows'
  BY <1>1 DEF AddCheck
<1>2. ASSUME NEW r \in Requests, AddInsert(r) PROVE RequestsMatchRows'
  BY <1>2 DEF AddInsert, End
<1>3. ASSUME NEW r \in Requests, NEW i \in Ids, VerifyRead(r, i)
      PROVE  RequestsMatchRows'
  BY <1>3 DEF VerifyRead, Begin
<1>4. ASSUME NEW r \in Requests, NEW i \in Ids, DeleteRead(r, i)
      PROVE  RequestsMatchRows'
  BY <1>4 DEF DeleteRead, Begin
<1>5. ASSUME NEW r \in Requests, NEW i \in Rows, SetPrimaryRead(r, i)
      PROVE  RequestsMatchRows'
  BY <1>5 DEF SetPrimaryRead, Begin
<1>6. ASSUME NEW r \in Requests, VerifyMissed(r) PROVE RequestsMatchRows'
  BY <1>6 DEF VerifyMissed, End
<1>7. ASSUME NEW r \in Requests, VerifyCommit(r) PROVE RequestsMatchRows'
  BY <1>7 DEF VerifyCommit, DnsFound, End
<1>8. ASSUME NEW r \in Requests, Clear(r) PROVE RequestsMatchRows'
  BY <1>8 DEF Clear
<1>9. ASSUME NEW r \in Requests, SetPrimaryCommit(r) PROVE RequestsMatchRows'
  BY <1>9 DEF SetPrimaryCommit, End
<1>10. ASSUME NEW r \in Requests, DeleteReset(r) PROVE RequestsMatchRows'
  BY <1>10 DEF DeleteReset
<1>11. ASSUME NEW r \in Requests, DeleteCommit(r) PROVE RequestsMatchRows'
  BY <1>11 DEF DeleteCommit, End
<1>12. ASSUME NEW r \in Requests, DeadlockVictim(r) PROVE RequestsMatchRows'
  BY <1>12 DEF DeadlockVictim, End
<1>13. CASE Restart
  BY <1>13 DEF Restart, End
<1>14. ASSUME NEW n \in Names \cup Tenants, Release(n) PROVE RequestsMatchRows'
  BY <1>14 DEF Release
<1>15. ASSUME NEW t \in Tenants, ChangePlan(t) PROVE RequestsMatchRows'
  BY <1>15 DEF ChangePlan
<1>16. ASSUME NEW i \in Ids, Publish(i) PROVE RequestsMatchRows'
  BY <1>16 DEF Publish
<1>17. ASSUME NEW i \in Ids, Expire(i) PROVE RequestsMatchRows'
  BY <1>17 DEF Expire
<1>18. CASE UNCHANGED vars
  BY <1>18 DEF vars
<1> QED
  BY <1>1, <1>2, <1>3, <1>4, <1>5, <1>6, <1>7, <1>8, <1>9,
     <1>10, <1>11, <1>12, <1>13, <1>14, <1>15, <1>16, <1>17, <1>18 DEF Next

LEMMA NextClearedAreLocked == IInv /\ [Next]_vars => ClearedAreLocked'
<1> SUFFICES ASSUME IInv, [Next]_vars
             PROVE  ClearedAreLocked'
  OBVIOUS
<1> USE SentinelAssumption, DisjointAssumption
    DEF IInv, RowsInOrder, RequestsMatchRows, ClearedAreLocked, RowsOf, Free, TypeOK,
        Rows, Exists, Serving, table, requests, locks
<1>1. ASSUME NEW r \in Requests, NEW t \in Tenants, NEW n \in Names, AddCheck(r, t, n)
      PROVE  ClearedAreLocked'
  BY <1>1 DEF AddCheck
<1>2. ASSUME NEW r \in Requests, AddInsert(r) PROVE ClearedAreLocked'
  BY <1>2 DEF AddInsert, End
<1>3. ASSUME NEW r \in Requests, NEW i \in Ids, VerifyRead(r, i)
      PROVE  ClearedAreLocked'
  BY <1>3 DEF VerifyRead, Begin
<1>4. ASSUME NEW r \in Requests, NEW i \in Ids, DeleteRead(r, i)
      PROVE  ClearedAreLocked'
  BY <1>4 DEF DeleteRead, Begin
<1>5. ASSUME NEW r \in Requests, NEW i \in Rows, SetPrimaryRead(r, i)
      PROVE  ClearedAreLocked'
  BY <1>5 DEF SetPrimaryRead, Begin
<1>6. ASSUME NEW r \in Requests, VerifyMissed(r) PROVE ClearedAreLocked'
  BY <1>6 DEF VerifyMissed, End
<1>7. ASSUME NEW r \in Requests, VerifyCommit(r) PROVE ClearedAreLocked'
  BY <1>7 DEF VerifyCommit, DnsFound, End
<1>8. ASSUME NEW r \in Requests, Clear(r) PROVE ClearedAreLocked'
  BY <1>8 DEF Clear
<1>9. ASSUME NEW r \in Requests, SetPrimaryCommit(r) PROVE ClearedAreLocked'
  BY <1>9 DEF SetPrimaryCommit, End
<1>10. ASSUME NEW r \in Requests, DeleteReset(r) PROVE ClearedAreLocked'
  BY <1>10 DEF DeleteReset
<1>11. ASSUME NEW r \in Requests, DeleteCommit(r) PROVE ClearedAreLocked'
  BY <1>11 DEF DeleteCommit, End
<1>12. ASSUME NEW r \in Requests, DeadlockVictim(r) PROVE ClearedAreLocked'
  BY <1>12 DEF DeadlockVictim, End
<1>13. CASE Restart
  BY <1>13 DEF Restart, End
<1>14. ASSUME NEW n \in Names \cup Tenants, Release(n) PROVE ClearedAreLocked'
  BY <1>14 DEF Release
<1>15. ASSUME NEW t \in Tenants, ChangePlan(t) PROVE ClearedAreLocked'
  BY <1>15 DEF ChangePlan
<1>16. ASSUME NEW i \in Ids, Publish(i) PROVE ClearedAreLocked'
  BY <1>16 DEF Publish
<1>17. ASSUME NEW i \in Ids, Expire(i) PROVE ClearedAreLocked'
  BY <1>17 DEF Expire
<1>18. CASE UNCHANGED vars
  BY <1>18 DEF vars
<1> QED
  BY <1>1, <1>2, <1>3, <1>4, <1>5, <1>6, <1>7, <1>8, <1>9,
     <1>10, <1>11, <1>12, <1>13, <1>14, <1>15, <1>16, <1>17, <1>18 DEF Next

LEMMA NextHeldOnce == IInv /\ [Next]_vars => HeldOnce'
<1> SUFFICES ASSUME IInv, [Next]_vars
             PROVE  HeldOnce'
  OBVIOUS
<1> USE SentinelAssumption, DisjointAssumption
    DEF IInv, RowsInOrder, RequestsMatchRows, HeldOnce, IndexRejects, TypeOK, Rows,
        Exists, Serving, table, requests, locks
<1>1. ASSUME NEW r \in Requests, NEW t \in Tenants, NEW n \in Names, AddCheck(r, t, n)
      PROVE  HeldOnce'
  BY <1>1 DEF AddCheck
<1>2. ASSUME NEW r \in Requests, AddInsert(r) PROVE HeldOnce'
  <2>1. CASE UNCHANGED <<name, status>>
    BY <2>1
  <2>2. CASE ~ UNCHANGED <<name, status>>
    <3>1. \A j \in Rows : Exists(j) => name[j] # asks[r][2]
      BY <1>2, <2>2 DEF AddInsert
    <3>2. PICK i \in Ids : /\ name' = [name EXCEPT ![i] = asks[r][2]]
                          /\ status' = [status EXCEPT ![i] = "pending"]
      BY <1>2, <2>2 DEF AddInsert
    <3>3. \A j \in Rows \ {i} : Exists(j)' => Exists(j) /\ name'[j] = name[j]
      BY <3>2
    <3>4. name'[i] = asks[r][2]
      BY <3>2
    <3> QED BY <3>1, <3>3, <3>4
  <2> QED BY <2>1, <2>2
<1>3. ASSUME NEW r \in Requests, NEW i \in Ids, VerifyRead(r, i) PROVE HeldOnce'
  BY <1>3 DEF VerifyRead, Begin
<1>4. ASSUME NEW r \in Requests, NEW i \in Ids, DeleteRead(r, i) PROVE HeldOnce'
  BY <1>4 DEF DeleteRead, Begin
<1>5. ASSUME NEW r \in Requests, NEW i \in Rows, SetPrimaryRead(r, i)
      PROVE  HeldOnce'
  BY <1>5 DEF SetPrimaryRead, Begin
<1>6. ASSUME NEW r \in Requests, VerifyMissed(r) PROVE HeldOnce'
  BY <1>6 DEF VerifyMissed, End
<1>7. ASSUME NEW r \in Requests, VerifyCommit(r) PROVE HeldOnce'
  BY <1>7 DEF VerifyCommit, DnsFound, End
<1>8. ASSUME NEW r \in Requests, Clear(r) PROVE HeldOnce'
  BY <1>8 DEF Clear
<1>9. ASSUME NEW r \in Requests, SetPrimaryCommit(r) PROVE HeldOnce'
  BY <1>9 DEF SetPrimaryCommit, End
<1>10. ASSUME NEW r \in Requests, DeleteReset(r) PROVE HeldOnce'
  BY <1>10 DEF DeleteReset
<1>11. ASSUME NEW r \in Requests, DeleteCommit(r) PROVE HeldOnce'
  BY <1>11 DEF DeleteCommit, End
<1>12. ASSUME NEW r \in Requests, DeadlockVictim(r) PROVE HeldOnce'
  BY <1>12 DEF DeadlockVictim, End
<1>13. CASE Restart
  BY <1>13 DEF Restart, End
<1>14. ASSUME NEW n \in Names \cup Tenants, Release(n) PROVE HeldOnce'
  BY <1>14 DEF Release
<1>15. ASSUME NEW t \in Tenants, ChangePlan(t) PROVE HeldOnce'
  BY <1>15 DEF ChangePlan
<1>16. ASSUME NEW i \in Ids, Publish(i) PROVE HeldOnce'
  BY <1>16 DEF Publish
<1>17. ASSUME NEW i \in Ids, Expire(i) PROVE HeldOnce'
  BY <1>17 DEF Expire
<1>18. CASE UNCHANGED vars
  BY <1>18 DEF vars
<1> QED
  BY <1>1, <1>2, <1>3, <1>4, <1>5, <1>6, <1>7, <1>8, <1>9,
     <1>10, <1>11, <1>12, <1>13, <1>14, <1>15, <1>16, <1>17, <1>18 DEF Next

LEMMA NextOnePrimary == IInv /\ [Next]_vars => OnePrimary'
<1> SUFFICES ASSUME IInv, [Next]_vars
             PROVE  OnePrimary'
  OBVIOUS
<1> USE SentinelAssumption, DisjointAssumption
    DEF IInv, RowsInOrder, RequestsMatchRows, ClearedAreLocked, OnePrimary, Cleared,
        TypeOK, Rows, Exists, Serving, table, requests, locks
<1>1. ASSUME NEW r \in Requests, NEW t \in Tenants, NEW n \in Names, AddCheck(r, t, n)
      PROVE  OnePrimary'
  BY <1>1 DEF AddCheck
<1>2. ASSUME NEW r \in Requests, AddInsert(r) PROVE OnePrimary'
  BY <1>2 DEF AddInsert, End
<1>3. ASSUME NEW r \in Requests, NEW i \in Ids, VerifyRead(r, i) PROVE OnePrimary'
  BY <1>3 DEF VerifyRead, Begin
<1>4. ASSUME NEW r \in Requests, NEW i \in Ids, DeleteRead(r, i) PROVE OnePrimary'
  BY <1>4 DEF DeleteRead, Begin
<1>5. ASSUME NEW r \in Requests, NEW i \in Rows, SetPrimaryRead(r, i)
      PROVE  OnePrimary'
  BY <1>5 DEF SetPrimaryRead, Begin
<1>6. ASSUME NEW r \in Requests, VerifyMissed(r) PROVE OnePrimary'
  BY <1>6 DEF VerifyMissed, End
<1>7. ASSUME NEW r \in Requests, VerifyCommit(r) PROVE OnePrimary'
  BY <1>7 DEF VerifyCommit, DnsFound, End
<1>8. ASSUME NEW r \in Requests, Clear(r) PROVE OnePrimary'
  BY <1>8 DEF Clear
<1>9. ASSUME NEW r \in Requests, SetPrimaryCommit(r) PROVE OnePrimary'
  BY <1>9 DEF SetPrimaryCommit, End
<1>10. ASSUME NEW r \in Requests, DeleteReset(r) PROVE OnePrimary'
  BY <1>10 DEF DeleteReset
<1>11. ASSUME NEW r \in Requests, DeleteCommit(r) PROVE OnePrimary'
  BY <1>11 DEF DeleteCommit, End
<1>12. ASSUME NEW r \in Requests, DeadlockVictim(r) PROVE OnePrimary'
  BY <1>12 DEF DeadlockVictim, End
<1>13. CASE Restart
  BY <1>13 DEF Restart, End
<1>14. ASSUME NEW n \in Names \cup Tenants, Release(n) PROVE OnePrimary'
  BY <1>14 DEF Release
<1>15. ASSUME NEW t \in Tenants, ChangePlan(t) PROVE OnePrimary'
  BY <1>15 DEF ChangePlan
<1>16. ASSUME NEW i \in Ids, Publish(i) PROVE OnePrimary'
  BY <1>16 DEF Publish
<1>17. ASSUME NEW i \in Ids, Expire(i) PROVE OnePrimary'
  BY <1>17 DEF Expire
<1>18. CASE UNCHANGED vars
  BY <1>18 DEF vars
<1> QED
  BY <1>1, <1>2, <1>3, <1>4, <1>5, <1>6, <1>7, <1>8, <1>9,
     <1>10, <1>11, <1>12, <1>13, <1>14, <1>15, <1>16, <1>17, <1>18 DEF Next

------------------------------------------------------------------------------

\* The strengthened invariant of the domains holds in every reachable state.
THEOREM Inductive == Spec => []IInv
<1>1. IInv /\ [Next]_vars => IInv'
  BY NextTypeOK, NextLocksMatchRequests, NextRowsInOrder, NextRequestsMatchRows, NextClearedAreLocked,
     NextHeldOnce, NextOnePrimary DEF IInv
<1> QED
  BY InitInv, <1>1, PTL DEF Spec

\* Every variable keeps its type: the rows and statuses of tenant_domains, the
\* workspace URL of tenants, the requests under way and their row locks.
THEOREM TypeCorrect == Spec => []TypeOK
<1>1. IInv => TypeOK
  BY DEF IInv
<1> QED
  BY Inductive, <1>1, PTL

\* A host name is held by one row at most: two add requests that both passed
\* check_domain cannot both insert, and a released row keeps its name reserved.
THEOREM NamesHeldOnce == Spec => []HeldOnce
<1>1. IInv => HeldOnce
  BY DEF IInv
<1> QED
  BY Inductive, <1>1, PTL

\* At most one domain of a workspace is marked primary: whoever has cleared the
\* tenant's rows keeps their locks until the new one is marked.
THEOREM PrimaryUnique == Spec => []OnePrimary
<1>1. IInv => OnePrimary
  BY DEF IInv
<1> QED
  BY Inductive, <1>1, PTL

\* A custom host is served for one tenant at most, whose own token was in DNS;
\* tls-check, the request routing and resolve-host agree on that.
THEOREM ServedHostsProved == Spec => []HostsProved
<1>1. IInv => HostsProved
  <2> SUFFICES ASSUME IInv, NEW n \in Names
               PROVE  /\ \A i \in ServingRows(n) : i \in published
                      /\ \A s, t \in RoutedTo(n) : s = t
                      /\ TlsAllowed(n) <=> RoutedTo(n) # {}
                      /\ ResolvedTo(n) \subseteq RoutedTo(n)
    BY DEF HostsProved
  <2>1. ServingRows(n) \subseteq Ids
    BY DisjointAssumption DEF IInv, RowsInOrder, ServingRows, Rows
  <2>2. \A i \in ServingRows(n) : i \in published
    BY <2>1 DEF IInv, RowsInOrder, ServingRows
  <2>3. \A i, j \in ServingRows(n) : i = j
    BY DEF IInv, HeldOnce, ServingRows, Exists, Serving
  <2>4. \A s, t \in RoutedTo(n) : s = t
    BY <2>3 DEF RoutedTo
  <2>5. TlsAllowed(n) <=> RoutedTo(n) # {}
    BY DEF TlsAllowed, RoutedTo
  <2>6. ResolvedTo(n) \subseteq RoutedTo(n)
    BY DEF ResolvedTo, RoutedTo
  <2> QED BY <2>2, <2>4, <2>5, <2>6
<1> QED
  BY Inductive, <1>1, PTL

\* A host that is served stays so until its row is removed or released; checks
\* that fail late, or succeed late, do not take it down.
THEOREM ServedStays == Spec => ServedUntilRemoved
<1>1. IInv /\ [Next]_vars =>
        [\A i \in Ids : status[i] \in Serving =>
           status'[i] \in Serving \cup {"removed", "restricted"}]_vars
  <2> SUFFICES ASSUME IInv, [Next]_vars, NEW i \in Ids, status[i] \in Serving
               PROVE  status'[i] \in Serving \cup {"removed", "restricted"}
    OBVIOUS
  <2> USE DEF IInv, TypeOK, Rows, Serving, table
  <2>1. ASSUME NEW r \in Requests, AddInsert(r)
        PROVE  status'[i] \in Serving
    BY <2>1 DEF AddInsert
  <2>2. ASSUME NEW r \in Requests, VerifyCommit(r)
        PROVE  status'[i] \in Serving
    BY <2>2 DEF VerifyCommit
  <2>3. ASSUME NEW r \in Requests, SetPrimaryCommit(r)
        PROVE  status'[i] \in Serving
    BY <2>3 DEF SetPrimaryCommit
  <2>4. ASSUME NEW r \in Requests, DeleteCommit(r)
        PROVE  status'[i] \in Serving \cup {"removed"}
    BY <2>4 DEF DeleteCommit
  <2>5. ASSUME NEW n \in Names \cup Tenants, Release(n)
        PROVE  status'[i] \in Serving \cup {"restricted"}
    BY <2>5 DEF Release
  <2>6. CASE UNCHANGED status
    BY <2>6
  <2> QED
    BY <2>1, <2>2, <2>3, <2>4, <2>5, <2>6
       DEF Next, vars, AddCheck, VerifyRead, DeleteRead, SetPrimaryRead, Begin,
           VerifyMissed, Clear, DeleteReset, DeadlockVictim, Restart, ChangePlan,
           Publish, Expire
<1> QED
  BY Inductive, <1>1, PTL DEF Spec, ServedUntilRemoved

\* However many requests wait for one another, one of them can go on or is one of
\* two that PostgreSQL finds waiting for each other: set-primary requests of one
\* tenant cannot both hold its default subdomain.
THEOREM NobodyStaysStuck == Spec => []NobodyIsStuck
<1>1. IInv => NobodyIsStuck
  <2> SUFFICES ASSUME IInv, NEW S \in SUBSET Requests, NEW r \in S, pc[r] # "idle",
                      \A p \in S, q \in Requests : WaitsFor(p, q) => q \in S
               PROVE  \E p \in S : /\ pc[p] # "idle"
                                   /\ (\E q \in Requests : WaitsFor(p, q)) => Deadlocked(p)
    BY DEF NobodyIsStuck
  <2> DEFINE GoesOn(p) == pc[p] # "idle" /\ ((\E q \in Requests : WaitsFor(p, q)) => Deadlocked(p))
  <2> USE SentinelAssumption DEF IInv, TypeOK
  \* Whom a request can wait for, and that nobody else waits further.
  <2>1. ASSUME NEW p \in S, NEW q \in Requests, WaitsFor(p, q), pc[p] # "repoint", pc[p] # "reset"
        PROVE  /\ q \in S /\ pc[q] = "repoint"
               /\ owner[at[q]] = owner[at[p]]
    BY <2>1 DEF WaitsFor, LocksMatchRequests, RequestsMatchRows, RowsOf, Rows
  <2>2. ASSUME NEW p \in S, NEW q \in Requests, WaitsFor(p, q), pc[p] \in {"repoint", "reset"}
        PROVE  /\ q \in S /\ pc[q] = "delete" /\ tenantLock[owner[at[p]]] = q
               /\ owner[at[q]] = owner[at[p]]
    BY <2>2 DEF WaitsFor, LocksMatchRequests, RequestsMatchRows, RowsInOrder, Rows
  <2>3. ASSUME NEW p \in Requests, NEW q \in Requests, pc[p] = "repoint", pc[q] = "repoint",
               owner[at[p]] = owner[at[q]]
        PROVE  p = q
    <3>1. owner[at[p]] \in Tenants
      BY <2>3 DEF RequestsMatchRows, RowsInOrder, Rows
    <3>2. rowLock[owner[at[p]]] = p /\ rowLock[owner[at[p]]] = q
      BY <2>3, <3>1 DEF ClearedAreLocked, RowsInOrder
    <3> QED BY <3>2
  \* A removal that waits for a set-primary request is waited for by nobody else
  \* than that request, or that request goes on.
  <2>4. ASSUME NEW p \in S, NEW q \in S, pc[p] = "delete", WaitsFor(p, q),
               tenantLock[owner[at[p]]] = p
        PROVE  \E x \in S : GoesOn(x)
    <3>1. pc[q] = "repoint" /\ owner[at[q]] = owner[at[p]]
      BY <2>1, <2>4
    <3>2. CASE \E x \in Requests : WaitsFor(q, x)
      <4>1. PICK x \in Requests : WaitsFor(q, x)
        BY <3>2
      <4>2. x = p
        BY <2>2, <2>4, <3>1, <4>1
      <4> QED BY <3>1, <4>1, <4>2, <2>4 DEF Deadlocked
    <3>3. CASE ~ \E x \in Requests : WaitsFor(q, x)
      BY <3>1, <3>3
    <3> QED BY <3>2, <3>3
  <2>5. ASSUME NEW p \in S, pc[p] \in {"repoint", "reset"}
        PROVE  \E x \in S : GoesOn(x)
    <3>1. CASE ~ \E q \in Requests : WaitsFor(p, q)
      BY <2>5, <3>1
    <3>2. ASSUME NEW q \in Requests, WaitsFor(p, q)
          PROVE  \E x \in S : GoesOn(x)
      <4>1. /\ q \in S /\ pc[q] = "delete" /\ tenantLock[owner[at[q]]] = q
        BY <2>2, <2>5, <3>2
      <4>2. CASE ~ \E x \in Requests : WaitsFor(q, x)
        BY <4>1, <4>2
      <4>3. ASSUME NEW x \in Requests, WaitsFor(q, x)
            PROVE  \E y \in S : GoesOn(y)
        <5>1. x \in S
          BY <2>1, <4>1, <4>3
        <5> HIDE DEF GoesOn
        <5> QED BY <2>4, <4>1, <4>3, <5>1
      <4> QED BY <4>2, <4>3
    <3> QED BY <3>1, <3>2
  <2>6. CASE pc[r] \in {"repoint", "reset"}
    BY <2>5, <2>6
  <2>7. CASE pc[r] \notin {"repoint", "reset"}
    <3>1. CASE ~ \E q \in Requests : WaitsFor(r, q)
      BY <3>1
    <3>2. ASSUME NEW q \in Requests, WaitsFor(r, q)
          PROVE  \E x \in S : GoesOn(x)
      <4>1. q \in S /\ pc[q] = "repoint"
        BY <2>1, <2>7, <3>2
      <4> HIDE DEF GoesOn
      <4> QED BY <2>5, <4>1
    <3> QED BY <3>1, <3>2
  <2> QED BY <2>6, <2>7
<1> QED
  BY Inductive, <1>1, PTL

------------------------------------------------------------------------------

\* The book the mapping makes of the table.
BookMap == {Entry(i) : i \in {j \in Ids : Exists(j)}}

\* The rows other than those of I are as before.
KeepsAllBut(I) ==
  \A j \in Ids \ I : /\ Exists(j)' <=> Exists(j)
                     /\ Exists(j) => Entry(j)' = Entry(j)

LEMMA BookStays == KeepsAllBut({}) => BookMap' = BookMap
BY DEF KeepsAllBut, BookMap

\* Names are held once, so that a change of one row is a change of one entry.
LEMMA EntriesDiffer ==
  HeldOnce => \A i, j \in Ids : Exists(i) /\ Exists(j) /\ Entry(i) = Entry(j) => i = j
<1> SUFFICES ASSUME HeldOnce, NEW i \in Ids, NEW j \in Ids, Exists(i), Exists(j),
                    Entry(i) = Entry(j)
             PROVE  i = j
  OBVIOUS
<1>1. Entry(i).host = name[i] /\ Entry(j).host = name[j]
  BY DEF Entry
<1> QED BY <1>1 DEF HeldOnce, Rows

LEMMA OneEntryChanges ==
  ASSUME HeldOnce, NEW i \in Ids, Exists(i), KeepsAllBut({i}), NEW f, Exists(i)', f = Entry(i)'
  PROVE  Entry(i) \in BookMap /\ BookMap' = (BookMap \ {Entry(i)}) \cup {f}
<1>1. \A e : e \in BookMap' <=> e = f \/ \E j \in Ids \ {i} : Exists(j) /\ e = Entry(j)
  BY DEF BookMap, KeepsAllBut
<1>2. \A e : e \in BookMap <=> e = Entry(i) \/ \E j \in Ids \ {i} : Exists(j) /\ e = Entry(j)
  BY DEF BookMap
<1>3. \A j \in Ids \ {i} : Exists(j) => Entry(j) # Entry(i)
  BY EntriesDiffer
<1> QED BY <1>1, <1>2, <1>3

LEMMA OneEntryGoes ==
  ASSUME HeldOnce, NEW i \in Ids, Exists(i), KeepsAllBut({i}), ~ Exists(i)'
  PROVE  Entry(i) \in BookMap /\ BookMap' = BookMap \ {Entry(i)}
<1>1. \A e : e \in BookMap' <=> \E j \in Ids \ {i} : Exists(j) /\ e = Entry(j)
  BY DEF BookMap, KeepsAllBut
<1>2. \A e : e \in BookMap <=> e = Entry(i) \/ \E j \in Ids \ {i} : Exists(j) /\ e = Entry(j)
  BY DEF BookMap
<1>3. \A j \in Ids \ {i} : Exists(j) => Entry(j) # Entry(i)
  BY EntriesDiffer
<1> QED BY <1>1, <1>2, <1>3

LEMMA BookStep == IInv /\ [Next]_vars => [Book!Next]_BookMap
<1> SUFFICES ASSUME IInv, [Next]_vars, BookMap' # BookMap
             PROVE  Book!Next
  OBVIOUS
<1> USE SentinelAssumption, DisjointAssumption DEF IInv, TypeOK, Rows, table
<1>1. ASSUME NEW r \in Requests, AddInsert(r) PROVE Book!Next
  <2>1. PICK i \in Ids : /\ ~ IndexRejects(asks[r][2])
                        /\ status[i] = "absent"
                        /\ owner' = [owner EXCEPT ![i] = asks[r][1]]
                        /\ name' = [name EXCEPT ![i] = asks[r][2]]
                        /\ status' = [status EXCEPT ![i] = "pending"]
                        /\ published' = published
    <3>1. ~ UNCHANGED <<owner, name, status>>
      <4> SUFFICES ASSUME UNCHANGED <<owner, name, status>> PROVE FALSE
        OBVIOUS
      <4>1. KeepsAllBut({})
        BY <1>1 DEF AddInsert, KeepsAllBut, Entry, Exists
      <4> QED BY <4>1, BookStays
    <3> QED BY <1>1, <3>1 DEF AddInsert
  <2>2. asks[r][1] \in Tenants /\ asks[r][2] \in Names
    BY <1>1 DEF AddInsert, RequestsMatchRows
  <2>3. i \notin published /\ ~ Exists(i) /\ Exists(i)'
    BY <2>1 DEF RowsInOrder, Exists
  <2>4. KeepsAllBut({i})
    BY <2>1 DEF KeepsAllBut, Entry, Exists
  <2>5. Entry(i)' = [host |-> asks[r][2], holder |-> asks[r][1], standing |-> "held",
                     proof |-> "none"]
    BY <2>1, <2>3 DEF Entry, Serving
  <2>6. BookMap' = BookMap \cup {[host |-> asks[r][2], holder |-> asks[r][1],
                                  standing |-> "held", proof |-> "none"]}
    <3>1. \A e : e \in BookMap' <=> e \in BookMap \/ e = Entry(i)'
      BY <2>3, <2>4 DEF BookMap, KeepsAllBut
    <3> QED BY <2>5, <3>1
  <2>7. \A e \in BookMap : e.host # asks[r][2]
    BY <2>1 DEF BookMap, Entry, IndexRejects, Exists, Serving
  <2>8. PICK n \in Names, t \in Tenants : n = asks[r][2] /\ t = asks[r][1]
    BY <2>2
  <2>9. Book!Claim(n, t)
    BY <2>6, <2>7, <2>8 DEF Book!Claim, BookMap
  <2> QED BY <2>9 DEF Book!Next
<1>2. ASSUME NEW r \in Requests, VerifyCommit(r) PROVE Book!Next
  <2>1. at[r] \in Ids /\ at[r] \in published /\ published' = published
        /\ UNCHANGED <<owner, name>>
    BY <1>2 DEF VerifyCommit, DnsFound, RequestsMatchRows
  <2>2. Exists(at[r]) /\ status' = [status EXCEPT ![at[r]] = "verified"]
    <3> SUFFICES ASSUME status' = status PROVE FALSE
      BY <1>2 DEF VerifyCommit
    <3>1. KeepsAllBut({})
      BY <2>1 DEF KeepsAllBut, Entry, Exists
    <3> QED BY <3>1, BookStays
  <2>3. PICK i \in Ids : i = at[r]
    BY <2>1
  <2>4. KeepsAllBut({i}) /\ Exists(i) /\ Exists(i)'
    BY <2>1, <2>2, <2>3 DEF KeepsAllBut, Entry, Exists
  <2>5. Entry(i)' = [Entry(i) EXCEPT !.standing = "served"] /\ Entry(i).proof = "given"
    BY <2>1, <2>2, <2>3 DEF Entry, Serving
  <2>6. PICK e \in BookMap : e = Entry(i) /\ BookMap' = (BookMap \ {e}) \cup {Entry(i)'}
    BY <2>4, OneEntryChanges
  <2> QED BY <2>5, <2>6 DEF Book!Next, Book!Serve, Book!Replace, BookMap
<1>3. ASSUME NEW r \in Requests, SetPrimaryCommit(r) PROVE FALSE
  <2>1. at[r] \in Rows /\ UNCHANGED <<owner, name, published>>
        /\ (status' = status \/ status' = [status EXCEPT ![at[r]] = IF @ = "verified" THEN "active" ELSE @])
    BY <1>3 DEF SetPrimaryCommit, RequestsMatchRows
  <2>2. \A j \in Ids : status'[j] = status[j] \/ (status[j] = "verified" /\ status'[j] = "active")
    BY <2>1
  <2>3. KeepsAllBut({})
    BY <2>1, <2>2 DEF KeepsAllBut, Entry, Exists, Serving
  <2> QED BY <2>3, BookStays
<1>4. ASSUME NEW r \in Requests, DeleteCommit(r) PROVE Book!Next
  <2>1. at[r] \in Ids /\ UNCHANGED <<owner, name, published>>
        /\ status' = [status EXCEPT ![at[r]] = "removed"]
    BY <1>4 DEF DeleteCommit, RequestsMatchRows
  <2>2. PICK i \in Ids : i = at[r]
    BY <2>1
  <2>3. Exists(i)
    <3> SUFFICES ASSUME ~ Exists(i) PROVE FALSE
      OBVIOUS
    <3>1. KeepsAllBut({})
      BY <2>1, <2>2 DEF KeepsAllBut, Entry, Exists
    <3> QED BY <3>1, BookStays
  <2>4. KeepsAllBut({i}) /\ ~ Exists(i)'
    BY <2>1, <2>2 DEF KeepsAllBut, Entry, Exists
  <2>5. PICK e \in BookMap : BookMap' = BookMap \ {e}
    BY <2>3, <2>4, OneEntryGoes
  <2> QED BY <2>5 DEF Book!Next, Book!GiveUp, BookMap
<1>5. ASSUME NEW n \in Names \cup Tenants, Release(n) PROVE Book!Next
  <2> DEFINE released == {i \in Rows : name[i] = n /\ status[i] \in {"pending"} \cup Serving}
  <2>1. status' = [i \in Rows |-> IF i \in released THEN "restricted" ELSE status[i]]
        /\ UNCHANGED <<owner, name, published>>
    BY <1>5 DEF Release
  <2>2. PICK i \in Ids : i \in released
    <3> SUFFICES ASSUME \A i \in Ids : i \notin released PROVE FALSE
      OBVIOUS
    <3>1. KeepsAllBut({})
      BY <2>1 DEF KeepsAllBut, Entry, Exists
    <3> QED BY <3>1, BookStays
  <2>3. \A j \in Ids : j \in released => j = i
    BY <2>2 DEF HeldOnce, Exists, Serving
  <2>4. status'[i] = "restricted" /\ \A j \in Ids \ {i} : status'[j] = status[j]
    BY <2>1, <2>2, <2>3
  <2>5. KeepsAllBut({i}) /\ Exists(i) /\ Exists(i)'
    BY <2>1, <2>2, <2>4 DEF KeepsAllBut, Entry, Exists, Serving
  <2>6. Entry(i)' = [Entry(i) EXCEPT !.standing = "restricted"]
    BY <2>1, <2>4 DEF Entry, Serving
  <2>7. PICK e \in BookMap : e = Entry(i) /\ BookMap' = (BookMap \ {e}) \cup {Entry(i)'}
    BY <2>5, OneEntryChanges
  <2> QED BY <2>6, <2>7 DEF Book!Next, Book!Restrict, Book!Replace, BookMap
<1>6. ASSUME NEW i \in Ids, Publish(i) PROVE Book!Next
  <2>1. Exists(i) /\ published' = published \cup {i} /\ UNCHANGED table
    BY <1>6 DEF Publish
  <2>2. KeepsAllBut({i}) /\ Exists(i)'
    BY <2>1 DEF KeepsAllBut, Entry, Exists
  <2>3. Entry(i)' = [Entry(i) EXCEPT !.proof = "given"]
    BY <2>1 DEF Entry
  <2>4. PICK e \in BookMap : e = Entry(i) /\ BookMap' = (BookMap \ {e}) \cup {Entry(i)'}
    BY <2>1, <2>2, OneEntryChanges
  <2> QED BY <2>3, <2>4 DEF Book!Next, Book!Prove, Book!Replace, BookMap
<1>7. ASSUME UNCHANGED <<owner, name, status, published>> PROVE FALSE
  <2>1. KeepsAllBut({})
    BY <1>7 DEF KeepsAllBut, Entry, Exists
  <2> QED BY <2>1, BookStays
<1> QED
  BY <1>1, <1>2, <1>3, <1>4, <1>5, <1>6, <1>7
     DEF Next, vars, AddCheck, VerifyRead, DeleteRead, SetPrimaryRead, Begin,
         VerifyMissed, Clear, DeleteReset, DeadlockVictim, Restart, ChangePlan, Expire

\* The custom domains are a book of hosts: every step of a request, of DNS or of
\* the administrator changes one entry as the book allows, or none.
THEOREM RefinesHostBook == Spec => ImplementsHostBook
<1>1. Init => Book!Init
  BY DisjointAssumption DEF Init, Book!Init, Exists, Rows
<1>2. IInv /\ [Next]_vars => [Book!Next]_({Entry(i) : i \in {j \in Ids : Exists(j)}})
  BY BookStep DEF BookMap
<1> QED
  BY <1>1, <1>2, Inductive, PTL DEF Spec, ImplementsHostBook, Book!Spec
===============================================================================
