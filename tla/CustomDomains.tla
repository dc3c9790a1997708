---------------------------- MODULE CustomDomains ----------------------------
(***************************************************************************)
(* Custom domains of workspaces: routers/tenants.py (add, verify, make     *)
(* primary, remove), the administrator's release and plan change of        *)
(* routers/admin.py, and the three places that look a host name up         *)
(* (internal.py tls-check and resolve-host, deps.py).                      *)
(*                                                                         *)
(* Every portal request is one transaction.  It reads its domain row       *)
(* without a lock, may wait for DNS, and then writes what the row it read  *)
(* calls for: what other requests commit in between is part of the model.  *)
(* Uncommitted writes appear as the row locks that keep others out.        *)
(*                                                                         *)
(* The default subdomain of tenant t is the row t, and its host name is t. *)
(***************************************************************************)
EXTENDS Naturals, FiniteSets

CONSTANTS
  Tenants,
  Names,        \* host names outside the base domain
  Ids,          \* ids of rows for custom domains; bounds how many are added
  Requests,     \* portal requests the API can serve at once
  DomainLimit,  \* plans.custom_domain_limit
  NoRow,
  NoName,
  NoRequest

ASSUME LimitAssumption == DomainLimit \in Nat
ASSUME SentinelAssumption ==
  /\ NoRow \notin Ids \cup Tenants
  /\ NoName \notin Names \cup Tenants
  /\ NoRequest \notin Requests
ASSUME DisjointAssumption == Ids \cap Tenants = {} /\ Names \cap Tenants = {}

Rows == Ids \cup Tenants
NoTenant == NoRow

VARIABLES
  owner,         \* tenant_domains.tenant_id
  name,          \* tenant_domains.normalized_domain
  status,        \* tenant_domains.status; "absent" before, "removed" after
  primary,       \* rows with is_primary
  primaryDomain, \* tenants.primary_domain
  business,      \* tenants whose plan allows custom domains
  overdue,       \* rows whose expires_at has passed
  published,     \* rows whose CNAME and TXT records were put into DNS at some time
  pc,            \* pc[r]: what request r does next
  at,            \* at[r]: domain row request r read
  asks,          \* asks[r]: tenant and name an add request is about
  rowLock,       \* rowLock[i]: request that holds row i of tenant_domains
  tenantLock     \* tenantLock[t]: request that holds row t of tenants

table == <<owner, name, status, primary>>
requests == <<pc, at, asks>>
locks == <<rowLock, tenantLock>>
vars == <<table, primaryDomain, business, overdue, published, requests, locks>>

Init ==
  /\ owner = [i \in Rows |-> IF i \in Tenants THEN i ELSE NoTenant]
  /\ name = [i \in Rows |-> IF i \in Tenants THEN i ELSE NoName]
  /\ status = [i \in Rows |-> IF i \in Tenants THEN "active" ELSE "absent"]
  /\ primary = Tenants
  /\ primaryDomain = [t \in Tenants |-> t]
  /\ business = {}
  /\ overdue = {}
  /\ published = {}
  /\ pc = [r \in Requests |-> "idle"]
  /\ at = [r \in Requests |-> NoRow]
  /\ asks = [r \in Requests |-> <<NoTenant, NoName>>]
  /\ rowLock = [i \in Rows |-> NoRequest]
  /\ tenantLock = [t \in Tenants |-> NoRequest]

Exists(i) == status[i] \notin {"absent", "removed"}
RowsOf(t) == {i \in Rows : Exists(i) /\ owner[i] = t}
Free(i) == rowLock[i] = NoRequest

\* The statuses under which the host name is served.
Serving == {"verified", "active"}

\* Faulty variant: row locks outlive the transactions of R.
EndKeepingLocks(R) ==
  /\ pc' = [r \in Requests |-> IF r \in R THEN "idle" ELSE pc[r]]
  /\ at' = [r \in Requests |-> IF r \in R THEN NoRow ELSE at[r]]
  /\ asks' = [r \in Requests |-> IF r \in R THEN <<NoTenant, NoName>> ELSE asks[r]]
  /\ UNCHANGED locks

\* The transactions of requests R end and release their locks.
End(R) ==
  /\ pc' = [r \in Requests |-> IF r \in R THEN "idle" ELSE pc[r]]
  /\ at' = [r \in Requests |-> IF r \in R THEN NoRow ELSE at[r]]
  /\ asks' = [r \in Requests |-> IF r \in R THEN <<NoTenant, NoName>> ELSE asks[r]]
  /\ rowLock' = [i \in Rows |-> IF rowLock[i] \in R THEN NoRequest ELSE rowLock[i]]
  /\ tenantLock' = [t \in Tenants |->
                      IF tenantLock[t] \in R THEN NoRequest ELSE tenantLock[t]]

\* Request r has read row i and goes on at step s.
Begin(r, i, s) ==
  /\ pc[r] = "idle"
  /\ pc' = [pc EXCEPT ![r] = s]
  /\ at' = [at EXCEPT ![r] = i]
  /\ UNCHANGED <<table, primaryDomain, business, overdue, published, asks, locks>>

------------------------------------------------------------------------------
\* POST /api/domains

Counted(t) == {i \in RowsOf(t) \cap Ids : status[i] \in {"pending"} \cup Serving}

AddCheck(r, t, n) ==
  /\ pc[r] = "idle"
  /\ t \in business
  /\ Cardinality(Counted(t)) < DomainLimit
  /\ pc' = [pc EXCEPT ![r] = "insert"]
  /\ asks' = [asks EXCEPT ![r] = <<t, n>>]
  /\ UNCHANGED <<table, primaryDomain, business, overdue, published, at, locks>>

\* Faulty variant: a restricted row does not reserve its name.
IndexWithoutRestricted(n) ==
  \E i \in Rows : name[i] = n /\ status[i] \in {"pending"} \cup Serving

\* The partial unique index uniq_active_domain.
IndexRejects(n) ==
  \E i \in Rows : name[i] = n /\ status[i] \in {"pending", "restricted"} \cup Serving

\* The row of the INSERT; 409 and no row if the index rejects the name.
AddInsert(r) ==
  /\ pc[r] = "insert"
  /\ \/ /\ IndexRejects(asks[r][2])
        /\ UNCHANGED <<owner, name, status>>
     \/ /\ ~ IndexRejects(asks[r][2])
        /\ \E i \in Ids :
             /\ status[i] = "absent"
             /\ owner' = [owner EXCEPT ![i] = asks[r][1]]
             /\ name' = [name EXCEPT ![i] = asks[r][2]]
             /\ status' = [status EXCEPT ![i] = "pending"]
  /\ End({r})
  /\ UNCHANGED <<primary, primaryDomain, business, overdue, published>>

------------------------------------------------------------------------------
\* POST /api/domains/{id}/verify

\* An overdue row is answered with 410, which rolls the UPDATE to 'expired'
\* back: no step.
VerifyRead(r, i) ==
  /\ i \in Ids
  /\ Exists(i)
  /\ status[i] \notin Serving
  /\ i \notin overdue
  /\ Begin(r, i, "lookup")

\* Faulty variant: any record for the name will do, whatever its token.
CnameFound(i) == \E j \in published : name[j] = name[i]

\* verify_domain: the CNAME, and the TXT record with the token of this row.  (A
\* record withdrawn from the zone may still be answered from a cache.)
DnsFound(i) == i \in published

\* Faulty variant: the failed check is recorded, 409 does not undo it.
VerifyMissedKept(r) ==
  /\ pc[r] = "lookup"
  /\ Free(at[r])
  /\ status' = IF Exists(at[r]) THEN [status EXCEPT ![at[r]] = "pending"] ELSE status
  /\ End({r})
  /\ UNCHANGED <<owner, name, primary, primaryDomain, business, overdue, published>>

\* The lookup fails or times out: 409 after the UPDATE to 'pending', which is rolled back.
VerifyMissed(r) ==
  /\ pc[r] = "lookup"
  /\ Free(at[r])
  /\ End({r})
  /\ UNCHANGED <<table, primaryDomain, business, overdue, published>>

\* The lookup succeeds.  The UPDATE does not look at the status again, only at the id: whatever
\* happened since VerifyRead, the row is 'verified' now.  If it was removed the
\* attempt cannot be recorded (foreign key) and the request gets 500.
VerifyCommit(r) ==
  /\ pc[r] = "lookup"
  /\ DnsFound(at[r])
  /\ Free(at[r])
  /\ status' = IF Exists(at[r]) THEN [status EXCEPT ![at[r]] = "verified"] ELSE status
  /\ End({r})
  /\ UNCHANGED <<owner, name, primary, primaryDomain, business, overdue, published>>

------------------------------------------------------------------------------
\* POST /api/domains/{id}/set-primary

SetPrimaryRead(r, i) ==
  /\ Exists(i)
  /\ owner[i] \in business
  /\ status[i] \in Serving
  /\ Begin(r, i, "clear")

\* UPDATE ... SET is_primary = FALSE for all rows of the tenant, after their
\* locks were granted, and of the row itself.
Clear(r) ==
  /\ pc[r] = "clear"
  /\ \A i \in RowsOf(owner[at[r]]) : Free(i)
  /\ rowLock' = [i \in Rows |-> IF i \in RowsOf(owner[at[r]]) THEN r ELSE rowLock[i]]
  /\ pc' = [pc EXCEPT ![r] = "repoint"]
  /\ UNCHANGED <<table, primaryDomain, business, overdue, published, at, asks, tenantLock>>

\* Faulty variant: only custom domains are cleared.
ClearedCustom(r) == {i \in Ids : rowLock[i] = r}

Cleared(r) == {i \in Rows : rowLock[i] = r}

\* UPDATE of the tenants row, after its lock was granted, and the commit.  A row
\* that was removed cannot be refreshed: 500, and nothing is changed.
SetPrimaryCommit(r) ==
  LET i == at[r]
      t == owner[i]
  IN
  /\ pc[r] = "repoint"
  /\ tenantLock[t] = NoRequest
  /\ \/ /\ ~ Exists(i)
        /\ UNCHANGED <<status, primary, primaryDomain>>
     \/ /\ Exists(i)
        /\ primary' = (primary \ Cleared(r)) \cup {i}
        /\ status' = [status EXCEPT ![i] = IF @ = "verified" THEN "active" ELSE @]
        /\ primaryDomain' = [primaryDomain EXCEPT ![t] = name[i]]
  /\ End({r})
  /\ UNCHANGED <<owner, name, business, overdue, published>>

------------------------------------------------------------------------------
\* DELETE /api/domains/{id}

\* is_primary is looked at here and not again.
DeleteRead(r, i) ==
  /\ i \in Ids
  /\ Exists(i)
  /\ Begin(r, i, IF i \in primary THEN "reset" ELSE "delete")

\* UPDATE of the tenants row back to the default subdomain, visible at the commit.
DeleteReset(r) ==
  /\ pc[r] = "reset"
  /\ tenantLock[owner[at[r]]] = NoRequest
  /\ tenantLock' = [tenantLock EXCEPT ![owner[at[r]]] = r]
  /\ pc' = [pc EXCEPT ![r] = "delete"]
  /\ UNCHANGED <<table, primaryDomain, business, overdue, published, at, asks, rowLock>>

\* Faulty variant: tenants.primary_domain is left empty.
DeleteToNull(r) ==
  /\ pc[r] = "delete"
  /\ Free(at[r])
  /\ status' = [status EXCEPT ![at[r]] = "removed"]
  /\ primary' = primary \ {at[r]}
  /\ primaryDomain' = [t \in Tenants |->
                        IF tenantLock[t] = r THEN NoName ELSE primaryDomain[t]]
  /\ End({r})
  /\ UNCHANGED <<owner, name, business, overdue, published>>

\* The DELETE, which waits for the row, and the commit.
DeleteCommit(r) ==
  LET i == at[r]
      t == owner[i]
  IN
  /\ pc[r] = "delete"
  /\ Free(i)
  /\ status' = [status EXCEPT ![i] = "removed"]
  /\ primary' = primary \ {i}
  /\ primaryDomain' = IF tenantLock[t] = r THEN [primaryDomain EXCEPT ![t] = t]
                                           ELSE primaryDomain
  /\ End({r})
  /\ UNCHANGED <<owner, name, business, overdue, published>>

------------------------------------------------------------------------------
\* Requests that do not get to their commit

\* Request r waits for a lock that q holds.
WaitsFor(r, q) ==
  /\ q # r
  /\ \/ pc[r] \in {"lookup", "delete"} /\ rowLock[at[r]] = q
     \/ pc[r] = "clear" /\ \E i \in RowsOf(owner[at[r]]) : rowLock[i] = q
     \/ pc[r] \in {"reset", "repoint"} /\ tenantLock[owner[at[r]]] = q

\* set-primary locks domain rows and then the tenant, DELETE the tenant and then
\* the domain row.  PostgreSQL ends a request that waits for itself.
Deadlocked(r) == \E q \in Requests : WaitsFor(r, q) /\ WaitsFor(q, r)

DeadlockVictim(r) ==
  /\ Deadlocked(r)
  /\ End({r})
  /\ UNCHANGED <<table, primaryDomain, business, overdue, published>>

\* The API process dies; every open transaction is rolled back.
Restart ==
  /\ \E r \in Requests : pc[r] # "idle"
  /\ End(Requests)
  /\ UNCHANGED <<table, primaryDomain, business, overdue, published>>

------------------------------------------------------------------------------
\* Administration, DNS and time

\* POST /api/admin/domains/release: every row under the name, of either type.
Release(n) ==
  LET released == {i \in Rows : name[i] = n /\ status[i] \in {"pending"} \cup Serving}
  IN
  /\ released # {}
  /\ \A i \in released : Free(i)
  /\ status' = [i \in Rows |-> IF i \in released THEN "restricted" ELSE status[i]]
  /\ UNCHANGED <<owner, name, primary, primaryDomain, business, overdue, published>>
  /\ UNCHANGED <<requests, locks>>

\* POST /api/admin/tenants/{id}/change-plan: no domain row is touched.
ChangePlan(t) ==
  /\ tenantLock[t] = NoRequest
  /\ business' = IF t \in business THEN business \ {t} ELSE business \cup {t}
  /\ UNCHANGED <<table, primaryDomain, overdue, published, requests, locks>>

\* Whoever controls the zone publishes the records the portal shows for row i.
Publish(i) ==
  /\ Exists(i)
  /\ i \notin published
  /\ published' = published \cup {i}
  /\ UNCHANGED <<table, primaryDomain, business, overdue, requests, locks>>

\* 72 hours pass.  (They matter to rows that are still to be verified.)
Expire(i) ==
  /\ status[i] \in {"pending", "restricted"}
  /\ i \notin overdue
  /\ overdue' = overdue \cup {i}
  /\ UNCHANGED <<table, primaryDomain, business, published, requests, locks>>

Next ==
  \/ \E r \in Requests :
       \/ \E t \in Tenants, n \in Names : AddCheck(r, t, n)
       \/ AddInsert(r)
       \/ \E i \in Ids : VerifyRead(r, i) \/ DeleteRead(r, i)
       \/ \E i \in Rows : SetPrimaryRead(r, i)
       \/ VerifyMissed(r)
       \/ VerifyCommit(r)
       \/ Clear(r)
       \/ SetPrimaryCommit(r)
       \/ DeleteReset(r)
       \/ DeleteCommit(r)
       \/ DeadlockVictim(r)
  \/ Restart
  \/ \E n \in Names \cup Tenants : Release(n)
  \/ \E t \in Tenants : ChangePlan(t)
  \/ \E i \in Ids : Publish(i) \/ Expire(i)

Spec == Init /\ [][Next]_vars

------------------------------------------------------------------------------
\* The three places that look a host name up

ServingRows(n) == {i \in Rows : name[i] = n /\ status[i] \in Serving}

\* internal.py: Caddy may ask for a certificate.
TlsAllowed(n) == ServingRows(n) \cap Ids # {}

\* deps.py: tenants a request to the host may be served for.
RoutedTo(n) == {owner[i] : i \in ServingRows(n) \cap Ids}

\* internal.py: tenants resolve-host may answer with.
ResolvedTo(n) == {owner[i] : i \in {j \in ServingRows(n) \cap Ids : status[j] = "active"}}

------------------------------------------------------------------------------

TypeOK ==
  /\ owner \in [Rows -> Tenants \cup {NoTenant}]
  /\ name \in [Rows -> Names \cup Tenants \cup {NoName}]
  /\ status \in [Rows -> {"absent", "pending", "verified", "active", "restricted", "removed"}]
  /\ primary \subseteq Rows
  /\ primaryDomain \in [Tenants -> Names \cup Tenants]
  /\ business \subseteq Tenants
  /\ overdue \subseteq Ids
  /\ published \subseteq Ids
  /\ pc \in [Requests -> {"idle", "insert", "lookup", "clear", "repoint",
                          "reset", "delete"}]
  /\ at \in [Requests -> Rows \cup {NoRow}]
  /\ asks \in [Requests -> (Tenants \cup {NoTenant}) \X (Names \cup {NoName})]
  /\ rowLock \in [Rows -> Requests \cup {NoRequest}]
  /\ tenantLock \in [Tenants -> Requests \cup {NoRequest}]

\* However requests for a name overlap and an administrator interferes, the name
\* is held by one row at most, restricted ones included.
HeldOnce ==
  \A i, j \in Rows :
    Exists(i) /\ Exists(j) /\ name[i] = name[j] => i = j

\* A host is served for one tenant at most, and only if DNS has answered with the
\* token handed to that tenant for it, not one of an earlier holder of the name.
\* A certificate is allowed for the hosts that are routed, and resolve-host does
\* not answer with a tenant the host is not routed to.
HostsProved ==
  \A n \in Names :
    /\ \A i \in ServingRows(n) : i \in published
    /\ \A s, t \in RoutedTo(n) : s = t
    /\ TlsAllowed(n) <=> RoutedTo(n) # {}
    /\ ResolvedTo(n) \subseteq RoutedTo(n)

\* At most one domain of a tenant is marked primary, whichever set-primary and
\* removal requests overlap.
OnePrimary ==
  \A i, j \in primary : owner[i] = owner[j] => i = j

\* A host that is served stays served until its row is removed or released: a
\* check that started before and fails late does not take it down.
ServedUntilRemoved ==
  [][\A i \in Ids : status[i] \in Serving =>
       status'[i] \in Serving \cup {"removed", "restricted"}]_vars

\* Whoever waits, waits in the end for a request that can go on or that
\* PostgreSQL ends: no row stays locked by a request that is over, and however
\* many set-primary and removal requests wait, it is two of them that deadlock.
NobodyIsStuck ==
  \A S \in SUBSET Requests :
    /\ \E r \in S : pc[r] # "idle"
    /\ \A r \in S, q \in Requests : WaitsFor(r, q) => q \in S
    => \E r \in S :
         /\ pc[r] # "idle"
         /\ (\E q \in Requests : WaitsFor(r, q)) => Deadlocked(r)

\* The entry of HostBook that row i stands for.
Entry(i) ==
  [host |-> name[i], holder |-> owner[i],
   standing |-> IF status[i] \in Serving THEN "served"
                ELSE IF status[i] = "restricted" THEN "restricted" ELSE "held",
   proof |-> IF i \in published THEN "given" ELSE "none"]

Book == INSTANCE HostBook
  WITH Hosts <- Names, Holders <- Tenants,
       book <- {Entry(i) : i \in {j \in Ids : Exists(j)}}

\* Overlapping requests, slow lookups, deadlocks, restarts and the administrator
\* come to nothing more than a book of hosts: the first claim holds a name, it is
\* served only after its holder's own proof, and a check that started before and
\* fails late does not take it down.
ImplementsHostBook == Book!Spec
===============================================================================
