---------------------------- MODULE PlatformProofs ----------------------------
(***************************************************************************)
(* Proofs about Signup, Access and RateLimiter, and about Platform, which  *)
(* runs one of them, for any number of users, workspaces and requests.     *)
(***************************************************************************)
EXTENDS Platform, FiniteSetTheorems, TLAPS

------------------------------------------------------------------------------
(***************************************************************************)
(* Signup.  The unique indexes make the rows that are not committed yet    *)
(* differ (InsertsDiffer); a record whose task nothing disturbed is in the *)
(* copy of every task that is yet to write (CopiesKeep).                   *)
(***************************************************************************)

\* What a request asks for.
Asking ==
  \A r \in Signups : signup[r].step # "idle" =>
    signup[r].email \in Emails /\ signup[r].slug \in Slugs \ Reserved

\* Rows that are inserted and not committed are unlike the committed ones.
InsertsNew ==
  \A r \in Signups :
    /\ signup[r].step \in {"user", "tenant"} => signup[r].email \notin users
    /\ signup[r].step = "tenant" => signup[r].slug \notin tenants

\* ... and unlike each other.
InsertsDiffer ==
  \A r, q \in Signups : r # q =>
    /\ signup[r].step \in {"user", "tenant"} /\ signup[q].step \in {"user", "tenant"} =>
         signup[r].email # signup[q].email
    /\ signup[r].step = "tenant" /\ signup[q].step = "tenant" => signup[r].slug # signup[q].slug

\* A task works for a workspace that exists, from a zone that was sound.
TasksBacked ==
  \A s \in Slugs :
    /\ task[s] # "none" => s \in tenants
    /\ task[s] = "merging" => Apex \in copy[s] /\ copy[s] \ {Apex} \subseteq tenants

\* Tasks that overlap are known for it, both of them.
OverlapsKnown ==
  \A s, t \in Slugs : s # t /\ task[s] = "merging" /\ task[t] = "merging" => s \in disturbed

\* Whoever is yet to write has read the records that nothing disturbed.
CopiesKeep ==
  \A s, t \in Slugs :
    task[s] = "ended" /\ s \notin disturbed /\ task[t] = "merging" => s \in copy[t]

RowsInv == SignupTypeOK /\ Asking /\ InsertsNew /\ InsertsDiffer /\ SignupWhole

TasksKnown == OverlapsKnown /\ CopiesKeep

SignupIInv == RowsInv /\ TasksBacked /\ ZoneBacked /\ TasksKnown /\ LossesExplained

LEMMA SignupInitIInv == SignupInit => SignupIInv
<1> SUFFICES ASSUME SignupInit PROVE SignupIInv
  OBVIOUS
<1>1. \A r \in Signups : signup[r] = NoSignup
  BY DEF SignupInit
<1>2. SignupTypeOK
  BY DEF SignupInit, SignupTypeOK, NoSignup
<1>3. Asking /\ InsertsNew /\ InsertsDiffer
  BY <1>1 DEF Asking, InsertsNew, InsertsDiffer, NoSignup
<1>4. SignupWhole
  BY DEF SignupInit, SignupWhole
<1>5. TasksBacked /\ ZoneBacked /\ TasksKnown /\ LossesExplained
  BY DEF SignupInit, TasksBacked, ZoneBacked, TasksKnown, OverlapsKnown, CopiesKeep, LossesExplained
<1> QED
  BY <1>2, <1>3, <1>4, <1>5 DEF SignupIInv, RowsInv

------------------------------------------------------------------------------
\* The rows

LEMMA CheckRows ==
  ASSUME RowsInv, NEW r \in Signups, NEW e \in Emails, NEW s \in Slugs, Check(r, e, s)
  PROVE  RowsInv'
<1>1. /\ signup' = [signup EXCEPT ![r] = [step |-> "checked", email |-> e, slug |-> s]]
      /\ s \notin Reserved
      /\ UNCHANGED <<users, tenants, owner, homes, subscribed, zone, task, copy, disturbed>>
  BY DEF Check, rows, dns
<1>2. SignupTypeOK'
  BY <1>1 DEF RowsInv, SignupTypeOK
<1>3. \A q \in Signups :
        signup'[q] = IF q = r THEN [step |-> "checked", email |-> e, slug |-> s] ELSE signup[q]
  BY <1>1 DEF RowsInv, SignupTypeOK
<1>4. Asking' /\ InsertsNew' /\ InsertsDiffer'
  BY <1>1, <1>3 DEF RowsInv, Asking, InsertsNew, InsertsDiffer
<1>5. SignupWhole'
  BY <1>1 DEF RowsInv, SignupWhole
<1> QED
  BY <1>2, <1>4, <1>5 DEF RowsInv

\* A request ends and leaves no row.
LEMMA EndRows ==
  ASSUME RowsInv, NEW r \in Signups, EndSignup(r), UNCHANGED rows, SignupTypeOK'
  PROVE  RowsInv'
<1>1. \A q \in Signups : signup'[q] = IF q = r THEN NoSignup ELSE signup[q]
  BY DEF EndSignup, RowsInv, SignupTypeOK
<1>2. Asking' /\ InsertsNew' /\ InsertsDiffer'
  BY <1>1 DEF RowsInv, Asking, InsertsNew, InsertsDiffer, NoSignup, rows
<1>3. SignupWhole'
  BY DEF RowsInv, SignupWhole, rows
<1> QED
  BY <1>2, <1>3 DEF RowsInv

LEMMA EndType ==
  ASSUME SignupTypeOK, NEW r \in Signups, EndSignup(r), UNCHANGED <<rows, dns>>
  PROVE  SignupTypeOK'
BY DEF SignupTypeOK, EndSignup, NoSignup, rows, dns

LEMMA InsertUserRows ==
  ASSUME RowsInv, NEW r \in Signups, InsertUser(r)
  PROVE  RowsInv'
<1>1. CASE EndSignup(r)
  BY <1>1, EndRows, EndType DEF InsertUser, RowsInv
<1>2. CASE signup[r].email \notin users /\ SignupTo(r, "user")
  <2>1. /\ signup[r].step = "checked" /\ SameUser(r) = {}
        /\ signup' = [signup EXCEPT ![r].step = "user"]
        /\ UNCHANGED <<users, tenants, owner, homes, subscribed, zone, task, copy, disturbed>>
    BY <1>2 DEF InsertUser, SignupTo, rows, dns
  <2>2. SignupTypeOK'
    BY <2>1 DEF RowsInv, SignupTypeOK
  <2>3. \A q \in Signups :
          /\ signup'[q].step = IF q = r THEN "user" ELSE signup[q].step
          /\ signup'[q].email = signup[q].email
          /\ signup'[q].slug = signup[q].slug
    BY <2>1 DEF RowsInv, SignupTypeOK
  <2>4. \A q \in Signups \ {r} :
          signup[q].step \in {"user", "tenant"} => signup[q].email # signup[r].email
    BY <2>1 DEF SameUser
  <2>5. Asking' /\ InsertsNew'
    BY <1>2, <2>1, <2>3 DEF RowsInv, Asking, InsertsNew
  <2>6. InsertsDiffer'
    BY <2>3, <2>4 DEF RowsInv, InsertsDiffer
  <2>7. SignupWhole'
    BY <2>1 DEF RowsInv, SignupWhole
  <2> QED
    BY <2>2, <2>5, <2>6, <2>7 DEF RowsInv
<1> QED
  BY <1>1, <1>2 DEF InsertUser

LEMMA InsertTenantRows ==
  ASSUME RowsInv, NEW r \in Signups, InsertTenant(r)
  PROVE  RowsInv'
<1>1. CASE EndSignup(r)
  BY <1>1, EndRows, EndType DEF InsertTenant, RowsInv
<1>2. CASE signup[r].slug \notin tenants /\ SignupTo(r, "tenant")
  <2>1. /\ signup[r].step = "user" /\ SameTenant(r) = {}
        /\ signup' = [signup EXCEPT ![r].step = "tenant"]
        /\ UNCHANGED <<users, tenants, owner, homes, subscribed, zone, task, copy, disturbed>>
    BY <1>2 DEF InsertTenant, SignupTo, rows, dns
  <2>2. SignupTypeOK'
    BY <2>1 DEF RowsInv, SignupTypeOK
  <2>3. \A q \in Signups :
          /\ signup'[q].step = IF q = r THEN "tenant" ELSE signup[q].step
          /\ signup'[q].email = signup[q].email
          /\ signup'[q].slug = signup[q].slug
    BY <2>1 DEF RowsInv, SignupTypeOK
  <2>4. \A q \in Signups \ {r} : signup[q].step = "tenant" => signup[q].slug # signup[r].slug
    BY <2>1 DEF SameTenant
  <2>5. Asking' /\ InsertsNew'
    BY <1>2, <2>1, <2>3 DEF RowsInv, Asking, InsertsNew
  <2>6. InsertsDiffer'
    BY <2>1, <2>3, <2>4 DEF RowsInv, InsertsDiffer
  <2>7. SignupWhole'
    BY <2>1 DEF RowsInv, SignupWhole
  <2> QED
    BY <2>2, <2>5, <2>6, <2>7 DEF RowsInv
<1> QED
  BY <1>1, <1>2 DEF InsertTenant

LEMMA CommitRows ==
  ASSUME RowsInv, NEW r \in Signups, Commit(r)
  PROVE  RowsInv'
<1> DEFINE e == signup[r].email
           s == signup[r].slug
<1>1. /\ signup[r].step = "tenant"
      /\ users' = users \cup {e} /\ tenants' = tenants \cup {s}
      /\ owner' = [owner EXCEPT ![s] = e]
      /\ homes' = homes \cup {s} /\ subscribed' = subscribed \cup {s}
      /\ task' = [task EXCEPT ![s] = "due"]
      /\ signup' = [signup EXCEPT ![r] = NoSignup]
      /\ UNCHANGED <<zone, copy, disturbed>>
  BY DEF Commit, EndSignup
<1>2. e \in Emails /\ e \notin users /\ s \in Slugs \ Reserved /\ s \notin tenants
  BY <1>1 DEF RowsInv, Asking, InsertsNew
<1>3. SignupTypeOK'
  BY <1>1, <1>2 DEF RowsInv, SignupTypeOK, NoSignup
<1>4. \A q \in Signups : signup'[q] = IF q = r THEN NoSignup ELSE signup[q]
  BY <1>1 DEF RowsInv, SignupTypeOK
<1>5. \A q \in Signups \ {r} :
        /\ signup[q].step \in {"user", "tenant"} => signup[q].email # e
        /\ signup[q].step = "tenant" => signup[q].slug # s
  BY <1>1 DEF RowsInv, InsertsDiffer
<1>6. Asking' /\ InsertsDiffer'
  BY <1>4 DEF RowsInv, Asking, InsertsDiffer, NoSignup
<1>7. InsertsNew'
  BY <1>1, <1>4, <1>5 DEF RowsInv, InsertsNew, NoSignup
<1>8. SignupWhole'
  <2>1. \A t \in Slugs : owner'[t] = IF t = s THEN e ELSE owner[t]
    BY <1>1, <1>2 DEF RowsInv, SignupTypeOK
  <2>2. \A t \in tenants : owner[t] # e
    BY <1>2 DEF RowsInv, SignupWhole
  <2>3. tenants \subseteq Slugs
    BY DEF RowsInv, SignupTypeOK
  <2> HIDE DEF e, s
  <2>4. \A f \in users' : \E t \in tenants' :
          owner'[t] = f /\ \A v \in tenants' : owner'[v] = f => v = t
    <3> SUFFICES ASSUME NEW f \in users'
                 PROVE  \E t \in tenants' :
                          owner'[t] = f /\ \A v \in tenants' : owner'[v] = f => v = t
      OBVIOUS
    <3>1. CASE f = e
      <4>1. s \in tenants' /\ owner'[s] = f /\ \A v \in tenants' : owner'[v] = f => v = s
        BY <3>1, <1>1, <1>2, <2>1, <2>2, <2>3
      <4> QED
        BY <4>1
    <3>2. CASE f # e
      <4>1. f \in users
        BY <3>2, <1>1
      <4>2. PICK t \in tenants : owner[t] = f /\ \A v \in tenants : owner[v] = f => v = t
        BY <4>1 DEF RowsInv, SignupWhole
      <4>3. t \in tenants' /\ owner'[t] = f /\ \A v \in tenants' : owner'[v] = f => v = t
        BY <3>2, <4>2, <1>1, <1>2, <2>1, <2>3
      <4> QED
        BY <4>3
    <3> QED
      BY <3>1, <3>2
  <2>5. \A t \in tenants' : owner'[t] \in users'
    BY <1>1, <1>2, <2>1, <2>3 DEF RowsInv, SignupWhole
  <2>6. homes' = tenants' /\ subscribed' = tenants' /\ tenants' \cap Reserved = {}
    BY <1>1, <1>2 DEF RowsInv, SignupWhole
  <2> QED
    BY <2>4, <2>5, <2>6 DEF SignupWhole
<1> QED
  BY <1>3, <1>6, <1>7, <1>8 DEF RowsInv

LEMMA RestartRows ==
  ASSUME RowsInv, Restart
  PROVE  RowsInv'
<1>1. \A q \in Signups : signup'[q] = NoSignup
  BY DEF Restart
<1>2. SignupTypeOK'
  BY DEF Restart, rows, RowsInv, SignupTypeOK, NoSignup
<1>3. Asking' /\ InsertsNew' /\ InsertsDiffer'
  BY <1>1 DEF Asking, InsertsNew, InsertsDiffer, NoSignup
<1>4. SignupWhole'
  BY DEF Restart, rows, RowsInv, SignupWhole
<1> QED
  BY <1>2, <1>3, <1>4 DEF RowsInv

\* The tasks touch no row.
LEMMA TaskRows ==
  ASSUME RowsInv, NEW s \in Slugs, ReadZone(s) \/ WriteZone(s) \/ TaskFails(s)
  PROVE  RowsInv'
<1>1. UNCHANGED <<rows, signup>>
  BY DEF ReadZone, WriteZone, TaskFails
<1>2. SignupTypeOK'
  <2>1. Merging \subseteq Slugs
    BY DEF Merging
  <2> QED BY <1>1, <2>1 DEF ReadZone, WriteZone, TaskFails, rows, RowsInv, SignupTypeOK
<1>3. (Asking /\ InsertsNew /\ InsertsDiffer /\ SignupWhole)'
  BY <1>1 DEF rows, RowsInv, Asking, InsertsNew, InsertsDiffer, SignupWhole
<1> QED
  BY <1>2, <1>3 DEF RowsInv

------------------------------------------------------------------------------
\* The zone

DnsInv == TasksBacked /\ ZoneBacked /\ TasksKnown /\ LossesExplained

\* A request that has not committed leaves zone and tasks alone.
LEMMA RequestDns ==
  ASSUME DnsInv, UNCHANGED <<rows, dns>>
  PROVE  DnsInv'
BY DEF rows, dns, DnsInv, TasksBacked, ZoneBacked, TasksKnown, OverlapsKnown, CopiesKeep,
       LossesExplained

LEMMA CommitDns ==
  ASSUME RowsInv, DnsInv, NEW r \in Signups, Commit(r)
  PROVE  DnsInv'
<1> DEFINE s == signup[r].slug
<1>1. /\ s \in Slugs /\ s \notin tenants
      /\ tenants' = tenants \cup {s}
      /\ task' = [task EXCEPT ![s] = "due"]
      /\ UNCHANGED <<zone, copy, disturbed>>
  BY DEF Commit, RowsInv, Asking, InsertsNew
<1>2. \A t \in Slugs : task'[t] = IF t = s THEN "due" ELSE task[t]
  BY <1>1 DEF RowsInv, SignupTypeOK
<1> HIDE DEF s
<1>3. TasksBacked'
  BY <1>1, <1>2 DEF DnsInv, TasksBacked
<1>4. ZoneBacked'
  BY <1>1 DEF DnsInv, ZoneBacked
<1>5. TasksKnown'
  BY <1>1, <1>2 DEF DnsInv, TasksKnown, OverlapsKnown, CopiesKeep
<1>6. LossesExplained'
  BY <1>1, <1>2 DEF DnsInv, LossesExplained, RowsInv, SignupTypeOK
<1> QED
  BY <1>3, <1>4, <1>5, <1>6 DEF DnsInv

LEMMA RestartDns ==
  ASSUME RowsInv, DnsInv, Restart
  PROVE  DnsInv'
<1>1. /\ \A t \in Slugs : task'[t] = IF task[t] = "none" THEN "none" ELSE "ended"
      /\ disturbed' = disturbed \cup {t \in Slugs : task[t] \in {"due", "merging"}}
      /\ tenants' = tenants /\ zone' = zone /\ copy' = copy
  BY DEF Restart, rows
<1>2. tenants \subseteq Slugs /\ task \in [Slugs -> {"none", "due", "merging", "ended"}]
  BY DEF RowsInv, SignupTypeOK
<1>3. TasksBacked' /\ ZoneBacked' /\ TasksKnown'
  BY <1>1 DEF DnsInv, TasksBacked, ZoneBacked, TasksKnown, OverlapsKnown, CopiesKeep
<1>4. LossesExplained'
  BY <1>1, <1>2 DEF DnsInv, LossesExplained
<1> QED
  BY <1>3, <1>4 DEF DnsInv

LEMMA ReadDns ==
  ASSUME RowsInv, DnsInv, NEW s \in Slugs, ReadZone(s)
  PROVE  DnsInv'
<1>1. /\ task[s] = "due" /\ tenants' = tenants /\ zone' = zone
      /\ disturbed \subseteq disturbed'
      /\ \A t \in Slugs : task[t] = "merging" => t \in disturbed' /\ s \in disturbed'
      /\ \A t \in Slugs : /\ task'[t] = IF t = s THEN "merging" ELSE task[t]
                          /\ copy'[t] = IF t = s THEN zone ELSE copy[t]
  BY DEF ReadZone, Merging, rows, RowsInv, SignupTypeOK
<1>2. TasksBacked' /\ ZoneBacked'
  BY <1>1 DEF DnsInv, TasksBacked, ZoneBacked
<1>3. TasksKnown'
  <2>1. OverlapsKnown'
    BY <1>1 DEF DnsInv, TasksKnown, OverlapsKnown
  <2>2. ASSUME NEW q \in Slugs, NEW t \in Slugs,
               task'[q] = "ended", q \notin disturbed', task'[t] = "merging"
        PROVE  q \in copy'[t]
    <3>1. task[q] = "ended" /\ q \notin disturbed /\ q \in tenants
      BY <1>1, <2>2 DEF DnsInv, TasksBacked
    <3>2. q \in zone
      BY <3>1 DEF DnsInv, LossesExplained
    <3> QED BY <1>1, <2>2, <3>1, <3>2 DEF DnsInv, TasksKnown, CopiesKeep
  <2> QED BY <2>1, <2>2 DEF TasksKnown, CopiesKeep
<1>4. LossesExplained'
  BY <1>1 DEF DnsInv, LossesExplained, RowsInv, SignupTypeOK
<1> QED
  BY <1>2, <1>3, <1>4 DEF DnsInv

LEMMA WriteDns ==
  ASSUME RowsInv, DnsInv, NEW s \in Slugs, WriteZone(s)
  PROVE  DnsInv'
<1>1. /\ task[s] = "merging" /\ tenants' = tenants /\ zone' = copy[s] \cup {s}
      /\ copy' = copy /\ disturbed' = disturbed
      /\ \A t \in Slugs : task'[t] = IF t = s THEN "ended" ELSE task[t]
  BY DEF WriteZone, rows, RowsInv, SignupTypeOK
<1>2. s \in tenants /\ Apex \in copy[s] /\ copy[s] \ {Apex} \subseteq tenants
  BY <1>1 DEF DnsInv, TasksBacked
<1>3. TasksBacked' /\ ZoneBacked'
  BY <1>1, <1>2 DEF DnsInv, TasksBacked, ZoneBacked
<1>4. TasksKnown'
  BY <1>1 DEF DnsInv, TasksKnown, OverlapsKnown, CopiesKeep
<1>5. LossesExplained'
  BY <1>1 DEF DnsInv, TasksKnown, CopiesKeep, LossesExplained, RowsInv, SignupTypeOK
<1> QED
  BY <1>3, <1>4, <1>5 DEF DnsInv

LEMMA FailDns ==
  ASSUME RowsInv, DnsInv, NEW s \in Slugs, TaskFails(s)
  PROVE  DnsInv'
<1>1. /\ task[s] \in {"due", "merging"} /\ tenants' = tenants /\ zone' = zone /\ copy' = copy
      /\ disturbed' = disturbed \cup {s}
      /\ \A t \in Slugs : task'[t] = IF t = s THEN "ended" ELSE task[t]
  BY DEF TaskFails, rows, RowsInv, SignupTypeOK
<1> QED
  BY <1>1 DEF DnsInv, TasksBacked, ZoneBacked, TasksKnown, OverlapsKnown, CopiesKeep,
     LossesExplained, RowsInv, SignupTypeOK

------------------------------------------------------------------------------

LEMMA SignupStepIInv == SignupIInv /\ [SignupNext]_signupVars => SignupIInv'
<1> SUFFICES ASSUME RowsInv, DnsInv, [SignupNext]_signupVars PROVE RowsInv' /\ DnsInv'
  BY DEF SignupIInv, DnsInv
<1>1. ASSUME NEW r \in Signups, NEW e \in Emails, NEW s \in Slugs, Check(r, e, s)
      PROVE  RowsInv' /\ DnsInv'
  BY <1>1, CheckRows, RequestDns DEF Check
<1>2. ASSUME NEW r \in Signups, InsertUser(r) PROVE RowsInv' /\ DnsInv'
  BY <1>2, InsertUserRows, RequestDns DEF InsertUser
<1>3. ASSUME NEW r \in Signups, InsertTenant(r) PROVE RowsInv' /\ DnsInv'
  BY <1>3, InsertTenantRows, RequestDns DEF InsertTenant
<1>4. ASSUME NEW r \in Signups, Commit(r) PROVE RowsInv' /\ DnsInv'
  BY <1>4, CommitRows, CommitDns
<1>5. ASSUME NEW r \in Signups, Rollback(r) PROVE RowsInv' /\ DnsInv'
  BY <1>5, EndRows, EndType, RequestDns DEF Rollback, RowsInv
<1>6. ASSUME NEW s \in Slugs, ReadZone(s) \/ WriteZone(s) \/ TaskFails(s)
      PROVE  RowsInv' /\ DnsInv'
  BY <1>6, TaskRows, ReadDns, WriteDns, FailDns
<1>7. CASE Restart
  BY <1>7, RestartRows, RestartDns
<1>8. CASE UNCHANGED signupVars
  BY <1>8, RequestDns DEF signupVars, rows, dns, RowsInv, SignupTypeOK, Asking, InsertsNew,
     InsertsDiffer, SignupWhole
<1> QED
  BY <1>1, <1>2, <1>3, <1>4, <1>5, <1>6, <1>7, <1>8 DEF SignupNext, Serve

THEOREM SignupInvariant == SignupSpec => []SignupIInv
BY SignupInitIInv, SignupStepIInv, PTL DEF SignupSpec

\* Every variable of the signup model keeps its type.
THEOREM SignupTypeCorrect == SignupSpec => []SignupTypeOK
<1>1. SignupIInv => SignupTypeOK
  BY DEF SignupIInv, RowsInv
<1> QED
  BY <1>1, SignupInvariant, PTL

\* An account and its workspace come into being together: one workspace for each
\* user, with an owner, a default domain and a subscription (auth.py:30-150).
THEOREM SignupsWhole == SignupSpec => []SignupWhole
<1>1. SignupIInv => SignupWhole
  BY DEF SignupIInv, RowsInv
<1> QED
  BY <1>1, SignupInvariant, PTL

\* The zone keeps the platform's own records and names no workspace that does not
\* exist, in whatever order the tasks write it (dynadot.py:74-122).
THEOREM ZonesBacked == SignupSpec => []ZoneBacked
<1>1. SignupIInv => ZoneBacked
  BY DEF SignupIInv
<1> QED
  BY <1>1, SignupInvariant, PTL

\* A workspace lacks its record only if its own task failed, was lost or overlapped
\* another one; whatever the tasks of others do, a record that was written
\* undisturbed stays (dynadot.py:92-122, auth.py:107-117).
THEOREM LossesAreExplained == SignupSpec => []LossesExplained
<1>1. SignupIInv => LossesExplained
  BY DEF SignupIInv
<1> QED
  BY <1>1, SignupInvariant, PTL

------------------------------------------------------------------------------
\* Workspaces

OwnerMap == [s \in Slugs |-> WorkspaceOwner(s)]

LEMMA ExistingAreTenants == RowsInv => Registered!Existing = tenants
<1> SUFFICES ASSUME RowsInv PROVE Registered!Existing = tenants
  OBVIOUS
<1>1. tenants \subseteq Slugs /\ homes = tenants /\ subscribed = tenants
      /\ \A s \in tenants : owner[s] \in Emails
  BY DEF RowsInv, SignupTypeOK, SignupWhole
<1> QED BY <1>1, SignupSentinels DEF Registered!Existing, WorkspaceOwner

LEMMA WorkspacesStep ==
  SignupIInv /\ [SignupNext]_signupVars =>
    Registered!Next \/ UNCHANGED <<users, OwnerMap, zone>>
<1> SUFFICES ASSUME SignupIInv, [SignupNext]_signupVars
             PROVE  Registered!Next \/ UNCHANGED <<users, OwnerMap, zone>>
  OBVIOUS
<1>1. ASSUME NEW r \in Signups, Commit(r) PROVE Registered!Next
  <2>1. PICK e \in Emails, s \in Slugs : e = signup[r].email /\ s = signup[r].slug
    BY <1>1 DEF Commit, SignupIInv, RowsInv, Asking
  <2>2. /\ users' = users \cup {e} /\ tenants' = tenants \cup {s}
        /\ owner' = [owner EXCEPT ![s] = e]
        /\ homes' = homes \cup {s} /\ subscribed' = subscribed \cup {s} /\ zone' = zone
    BY <1>1, <2>1 DEF Commit
  <2>3. e \notin users /\ s \notin Reserved /\ s \notin tenants
    BY <1>1, <2>1 DEF Commit, SignupIInv, RowsInv, Asking, InsertsNew
  <2>4. homes = tenants /\ subscribed = tenants /\ owner \in [Slugs -> Emails \cup {NoEmail}]
    BY DEF SignupIInv, RowsInv, SignupWhole, SignupTypeOK
  <2>5. OwnerMap[s] = NoEmail /\ OwnerMap' = [OwnerMap EXCEPT ![s] = e]
    BY <2>2, <2>3, <2>4 DEF OwnerMap, WorkspaceOwner
  <2>6. Registered!Register(e, s)
    BY <2>2, <2>3, <2>5 DEF Registered!Register, OwnerMap
  <2> QED BY <2>6 DEF Registered!Next
<1>2. ASSUME NEW s \in Slugs, WriteZone(s) PROVE Registered!Next
  <2>1. zone' = copy[s] \cup {s} /\ UNCHANGED <<users, OwnerMap>>
    BY <1>2 DEF WriteZone, rows, OwnerMap, WorkspaceOwner
  <2>2. s \in tenants /\ Apex \in copy[s] /\ copy[s] \ {Apex} \subseteq tenants
    BY <1>2 DEF WriteZone, SignupIInv, TasksBacked
  <2>3. PICK R \in SUBSET Registered!Existing : R = (copy[s] \ {Apex}) \cup {s}
    BY <2>2, ExistingAreTenants DEF SignupIInv
  <2>4. zone' = R \cup {Apex}
    BY <2>1, <2>2, <2>3
  <2>5. Registered!Rewrite(R)
    BY <2>1, <2>4 DEF Registered!Rewrite, OwnerMap
  <2> QED BY <2>5 DEF Registered!Next
<1>3. ASSUME UNCHANGED <<rows, zone>> PROVE UNCHANGED <<users, OwnerMap, zone>>
  BY <1>3 DEF rows, OwnerMap, WorkspaceOwner
<1> QED
  BY <1>1, <1>2, <1>3
     DEF SignupNext, signupVars, Serve, Check, InsertUser, InsertTenant, Rollback, ReadZone,
         TaskFails, Restart, dns

\* Signing up is a registration in one step, and the zone names no workspace that
\* is not there: whatever overlaps, clashes or is lost (auth.py:30-150,
\* dynadot.py:74-122).
THEOREM RefinesWorkspaces == SignupSpec => ImplementsWorkspaces
<1>1. SignupInit => Registered!Init
  BY DEF SignupInit, Registered!Init, WorkspaceOwner
<1>2. SignupIInv /\ [SignupNext]_signupVars => [Registered!Next]_(Registered!vars)
  BY WorkspacesStep DEF Registered!vars, OwnerMap
<1> QED
  BY <1>1, <1>2, SignupInvariant, PTL DEF SignupSpec, ImplementsWorkspaces, Registered!Spec

------------------------------------------------------------------------------
(***************************************************************************)
(* Access.  Who is inside a workspace is entitled to be, and only a caller *)
(* who is no administrator any more can take the last one.                 *)
(***************************************************************************)

AdminSteps == {"promote", "count", "demote", "enable", "disable", "impersonate"}

\* What a request carries with it, from the reads it was let through by.
Honest(q) ==
  /\ q.step \in AdminSteps => q.super /\ q.caller \in Users
  /\ q.step \in AdminSteps \ {"impersonate"} => q.user \in Users
  /\ q.step \in {"count", "demote", "disable"} => q.caller # q.user
  /\ q.step = "impersonate" => q.tenant \in Tenants
  /\ q.step = "resolve" => q.caller \in Users /\ q.key = NoKey
  /\ q.step = "inside" => q.tenant \in Tenants
  /\ q.caller # NoUser => q.key = NoKey

RequestsHonest == \A r \in Requests : Honest(req[r])

\* A membership comes from a signup or from an impersonation.
MembersEntitled ==
  \A u \in Users, t \in Tenants : <<u, t>> \in members => u = Owner[t] \/ <<u, t>> \in audited

AccessIInv ==
  /\ AccessTypeOK
  /\ RequestsHonest
  /\ MembersEntitled
  /\ StrangersWereAudited

LEMMA NoRequestHonest == NoRequest \in RequestRecord /\ Honest(NoRequest)
BY AccessSentinels DEF NoRequest, RequestRecord, Honest, AdminSteps

LEMMA AccessInitIInv == AccessInit => AccessIInv
<1> SUFFICES ASSUME AccessInit PROVE AccessIInv
  OBVIOUS
<1>1. \A r \in Requests : req[r] = NoRequest
  BY DEF AccessInit
<1>2. AccessTypeOK
  BY NoRequestHonest, OwnerAssumption DEF AccessInit, AccessTypeOK
<1>3. RequestsHonest
  BY <1>1, NoRequestHonest DEF RequestsHonest
<1>4. MembersEntitled
  BY DEF AccessInit, MembersEntitled
<1>5. StrangersWereAudited
  <2>1. \A r \in Requests : req[r].step # "inside"
    BY <1>1 DEF NoRequest
  <2>2. \A k \in Keys : keyOf[k] = NoTenant
    BY DEF AccessInit
  <2> QED
    BY <2>1, <2>2 DEF StrangersWereAudited
<1> QED
  BY <1>2, <1>3, <1>4, <1>5 DEF AccessIInv

\* A request that begins, goes on or ends outside every workspace.
LEMMA OutsideStep ==
  ASSUME AccessIInv, NEW r \in Requests, NEW q,
         q \in RequestRecord, Honest(q), q.step # "inside",
         req' = [req EXCEPT ![r] = q], UNCHANGED <<access, keys>>,
         superAdmins' \subseteq Users, activeUsers' \subseteq Users
  PROVE  AccessIInv'
<1>1. AccessTypeOK'
  BY DEF AccessIInv, AccessTypeOK, access, keys
<1>2. \A p \in Requests : req'[p] = IF p = r THEN q ELSE req[p]
  BY DEF AccessIInv, AccessTypeOK
<1>3. RequestsHonest'
  BY <1>2 DEF AccessIInv, RequestsHonest, Honest
<1>4. MembersEntitled'
  BY DEF AccessIInv, MembersEntitled, access
<1>5. StrangersWereAudited'
  BY <1>2 DEF AccessIInv, StrangersWereAudited, Entitled, access, keys
<1> QED
  BY <1>1, <1>3, <1>4, <1>5 DEF AccessIInv

LEMMA EndStep ==
  ASSUME AccessIInv, NEW r \in Requests, End(r), UNCHANGED <<access, keys>>,
         superAdmins' \subseteq Users, activeUsers' \subseteq Users
  PROVE  AccessIInv'
<1>1. NoRequest.step # "inside"
  BY DEF NoRequest
<1> QED
  BY <1>1, NoRequestHonest, OutsideStep DEF End

LEMMA AuthenticateStep ==
  ASSUME AccessIInv, NEW r \in Requests, NEW u \in Users,
         NEW s \in AdminSteps \cup {"resolve"},
         NEW v \in Users \cup {NoUser}, NEW t \in Tenants \cup {NoTenant},
         Authenticate(r, u, s, v, t),
         s # "resolve" => u \in superAdmins,
         s \in AdminSteps \ {"impersonate"} => v \in Users,
         s \in {"count", "demote", "disable"} => u # v,
         s = "impersonate" => t \in Tenants
  PROVE  AccessIInv'
<1> DEFINE q == AskedBy(u, s, v, t)
<1>1. q \in RequestRecord /\ q.step # "inside"
  BY DEF AskedBy, RequestRecord, AdminSteps
<1>2. Honest(q)
  BY DEF AskedBy, Honest, AdminSteps
<1>3. /\ req' = [req EXCEPT ![r] = q] /\ UNCHANGED <<access, keys>>
      /\ superAdmins' \subseteq Users /\ activeUsers' \subseteq Users
  BY DEF Authenticate, accounts, AccessIInv, AccessTypeOK
<1> HIDE DEF q
<1> QED
  BY <1>1, <1>2, <1>3, OutsideStep

LEMMA CountStep ==
  ASSUME AccessIInv, NEW r \in Requests, CountAdmins(r)
  PROVE  AccessIInv'
<1>1. UNCHANGED <<access, keys>> /\ superAdmins' \subseteq Users /\ activeUsers' \subseteq Users
  BY DEF CountAdmins, accounts, AccessIInv, AccessTypeOK
<1>2. CASE End(r)
  BY <1>1, <1>2, EndStep
<1>3. CASE Goto(r, "demote")
  <2> DEFINE q == [req[r] EXCEPT !.step = "demote"]
  <2>1. req[r] \in RequestRecord /\ Honest(req[r]) /\ req[r].step = "count"
    BY DEF AccessIInv, AccessTypeOK, RequestsHonest, CountAdmins
  <2>2. q \in RequestRecord /\ q.step # "inside"
    BY <2>1 DEF RequestRecord
  <2>3. Honest(q)
    BY <2>1 DEF Honest, RequestRecord, AdminSteps
  <2>4. req' = [req EXCEPT ![r] = q]
    BY <1>3 DEF Goto
  <2> HIDE DEF q
  <2> QED
    BY <1>1, <2>2, <2>3, <2>4, OutsideStep
<1> QED
  BY <1>2, <1>3 DEF CountAdmins

LEMMA JoinStep ==
  ASSUME AccessIInv, NEW r \in Requests, Join(r)
  PROVE  AccessIInv'
<1>1. /\ req[r].caller \in Users /\ req[r].tenant \in Tenants
      /\ members' = members \cup {<<req[r].caller, req[r].tenant>>}
      /\ audited' = audited \cup {<<req[r].caller, req[r].tenant>>}
      /\ req' = [req EXCEPT ![r] = NoRequest]
      /\ UNCHANGED <<superAdmins, activeUsers, keyOf, madeBy, revoked>>
  BY DEF Join, End, accounts, keys, AccessIInv, RequestsHonest, Honest, AdminSteps
<1>2. AccessTypeOK'
  BY <1>1, NoRequestHonest DEF AccessIInv, AccessTypeOK
<1>3. \A p \in Requests : req'[p] = IF p = r THEN NoRequest ELSE req[p]
  BY <1>1 DEF AccessIInv, AccessTypeOK
<1>4. RequestsHonest'
  BY <1>3, NoRequestHonest DEF AccessIInv, RequestsHonest, Honest
<1>5. MembersEntitled'
  BY <1>1 DEF AccessIInv, MembersEntitled
<1>6. StrangersWereAudited'
  <2>1. NoRequest.step # "inside"
    BY DEF NoRequest
  <2> QED
    BY <1>1, <1>3, <2>1 DEF AccessIInv, StrangersWereAudited, Entitled
<1> QED
  BY <1>2, <1>4, <1>5, <1>6 DEF AccessIInv

LEMMA EnterStep ==
  ASSUME AccessIInv, NEW r \in Requests, NEW t \in Tenants, Enter(r, t)
  PROVE  AccessIInv'
<1> DEFINE q == [req[r] EXCEPT !.step = "inside", !.tenant = t]
<1>1. req[r] \in RequestRecord /\ Honest(req[r]) /\ req[r].step = "resolve"
  BY DEF AccessIInv, AccessTypeOK, RequestsHonest, Enter
<1>2. req[r].caller \in Users /\ req[r].key = NoKey
  BY <1>1 DEF Honest
<1>3. q \in RequestRecord
  BY <1>1 DEF RequestRecord
<1>4. /\ q.step = "inside" /\ q.tenant = t /\ q.caller = req[r].caller
      /\ q.super = req[r].super /\ q.key = NoKey
  BY <1>1, <1>2 DEF RequestRecord
<1>5. Honest(q)
  BY <1>1, <1>2, <1>4 DEF Honest, AdminSteps
<1>6. Entitled(q, t)
  BY <1>2, <1>4 DEF Enter, WorkspacesOf, Entitled, AccessIInv, MembersEntitled
<1>7. req' = [req EXCEPT ![r] = q] /\ UNCHANGED <<accounts, access, keys>>
  BY DEF Enter
<1> HIDE DEF q
<1>8. \A p \in Requests : req'[p] = IF p = r THEN q ELSE req[p]
  BY <1>7 DEF AccessIInv, AccessTypeOK
<1>9. AccessTypeOK'
  BY <1>3, <1>7 DEF AccessIInv, AccessTypeOK, accounts, access, keys
<1>10. RequestsHonest'
  BY <1>5, <1>8 DEF AccessIInv, RequestsHonest, Honest
<1>11. MembersEntitled'
  BY <1>7 DEF AccessIInv, MembersEntitled, access
<1>12. StrangersWereAudited'
  BY <1>4, <1>6, <1>7, <1>8 DEF AccessIInv, StrangersWereAudited, Entitled, access, keys
<1> QED
  BY <1>9, <1>10, <1>11, <1>12 DEF AccessIInv

\* Who is inside in person has no key and is entitled.
LEMMA InsideEntitled ==
  ASSUME AccessIInv, NEW r \in Requests, req[r].step = "inside", req[r].caller # NoUser
  PROVE  req[r].tenant \in Tenants /\ req[r].key = NoKey /\ Entitled(req[r], req[r].tenant)
BY DEF AccessIInv, RequestsHonest, Honest, StrangersWereAudited

LEMMA CreateKeyStep ==
  ASSUME AccessIInv, NEW r \in Requests, NEW k \in Keys, CreateKey(r, k)
  PROVE  AccessIInv'
<1>1. /\ req[r].tenant \in Tenants /\ Entitled(req[r], req[r].tenant)
      /\ keyOf[k] = NoTenant
      /\ keyOf' = [keyOf EXCEPT ![k] = req[r].tenant]
      /\ madeBy' = [madeBy EXCEPT ![k] = req[r]]
      /\ req' = [req EXCEPT ![r] = NoRequest]
      /\ UNCHANGED <<superAdmins, activeUsers, members, audited, revoked>>
  BY InsideEntitled DEF CreateKey, End, accounts, access
<1>2. AccessTypeOK'
  BY <1>1, NoRequestHonest DEF AccessIInv, AccessTypeOK
<1>3. \A p \in Requests : req'[p] = IF p = r THEN NoRequest ELSE req[p]
  BY <1>1 DEF AccessIInv, AccessTypeOK
<1>4. RequestsHonest'
  BY <1>3, NoRequestHonest DEF AccessIInv, RequestsHonest, Honest
<1>5. MembersEntitled'
  BY <1>1 DEF AccessIInv, MembersEntitled
<1>6. \A j \in Keys : /\ keyOf'[j] = IF j = k THEN req[r].tenant ELSE keyOf[j]
                      /\ madeBy'[j] = IF j = k THEN req[r] ELSE madeBy[j]
  BY <1>1 DEF AccessIInv, AccessTypeOK
<1>7. ASSUME NEW p \in Requests, req'[p].step = "inside"
      PROVE  (IF req[p].key = NoKey THEN Entitled(req[p], req[p].tenant)
              ELSE keyOf[req[p].key] = req[p].tenant)'
  <2>1. p # r /\ req'[p] = req[p]
    BY <1>3, <1>7 DEF NoRequest
  <2>2. req[p].tenant \in Tenants /\ req[p].key \in Keys \cup {NoKey}
    BY <1>7, <2>1 DEF AccessIInv, AccessTypeOK, RequestRecord, RequestsHonest, Honest
  <2>3. CASE req[p].key = NoKey
    BY <1>1, <1>7, <2>1, <2>3 DEF AccessIInv, StrangersWereAudited, Entitled
  <2>4. CASE req[p].key # NoKey
    <3>1. keyOf[req[p].key] = req[p].tenant
      BY <1>7, <2>1, <2>4 DEF AccessIInv, StrangersWereAudited
    <3>2. req[p].key # k
      BY <3>1, <1>1, <2>2, AccessSentinels
    <3> QED
      BY <3>1, <3>2, <1>6, <2>1, <2>2, <2>4
  <2> QED
    BY <2>3, <2>4
<1>8. ASSUME NEW j \in Keys, keyOf'[j] # NoTenant
      PROVE  Entitled(madeBy[j], keyOf[j])'
  <2>1. CASE j = k
    BY <1>1, <1>6, <2>1 DEF Entitled
  <2>2. CASE j # k
    BY <1>1, <1>6, <1>8, <2>2 DEF AccessIInv, StrangersWereAudited, Entitled
  <2> QED
    BY <2>1, <2>2
<1>9. StrangersWereAudited'
  BY <1>7, <1>8 DEF StrangersWereAudited
<1> QED
  BY <1>2, <1>4, <1>5, <1>9 DEF AccessIInv

LEMMA RevokeKeyStep ==
  ASSUME AccessIInv, NEW r \in Requests, NEW k \in Keys, RevokeKey(r, k)
  PROVE  AccessIInv'
<1>1. /\ revoked' = revoked \cup {k} /\ req' = [req EXCEPT ![r] = NoRequest]
      /\ UNCHANGED <<superAdmins, activeUsers, members, audited, keyOf, madeBy>>
  BY DEF RevokeKey, End, accounts, access
<1>2. AccessTypeOK'
  BY <1>1, NoRequestHonest DEF AccessIInv, AccessTypeOK
<1>3. \A p \in Requests : req'[p] = IF p = r THEN NoRequest ELSE req[p]
  BY <1>1 DEF AccessIInv, AccessTypeOK
<1>4. RequestsHonest'
  BY <1>3, NoRequestHonest DEF AccessIInv, RequestsHonest, Honest
<1>5. MembersEntitled'
  BY <1>1 DEF AccessIInv, MembersEntitled
<1>6. StrangersWereAudited'
  <2>1. NoRequest.step # "inside"
    BY DEF NoRequest
  <2> QED
    BY <1>1, <1>3, <2>1 DEF AccessIInv, StrangersWereAudited, Entitled
<1> QED
  BY <1>2, <1>4, <1>5, <1>6 DEF AccessIInv

LEMMA CallStep ==
  ASSUME AccessIInv, NEW r \in Requests, NEW k \in Keys, Call(r, k)
  PROVE  AccessIInv'
<1> DEFINE q == [NoRequest EXCEPT !.step = "inside", !.tenant = keyOf[k], !.key = k]
<1>1. keyOf[k] \in Tenants
  BY DEF Call, AccessIInv, AccessTypeOK
<1>2. /\ q \in RequestRecord /\ q.step = "inside" /\ q.tenant = keyOf[k]
      /\ q.caller = NoUser /\ q.key = k
  BY <1>1, NoRequestHonest DEF NoRequest, RequestRecord
<1>3. Honest(q)
  BY <1>1, <1>2 DEF Honest, AdminSteps
<1>4. req' = [req EXCEPT ![r] = q] /\ UNCHANGED <<accounts, access, keys>>
  BY DEF Call
<1> HIDE DEF q
<1>5. \A p \in Requests : req'[p] = IF p = r THEN q ELSE req[p]
  BY <1>4 DEF AccessIInv, AccessTypeOK
<1>6. AccessTypeOK'
  BY <1>2, <1>4 DEF AccessIInv, AccessTypeOK, accounts, access, keys
<1>7. RequestsHonest'
  BY <1>3, <1>5 DEF AccessIInv, RequestsHonest, Honest
<1>8. MembersEntitled'
  BY <1>4 DEF AccessIInv, MembersEntitled, access
<1>9. StrangersWereAudited'
  BY <1>2, <1>4, <1>5, AccessSentinels DEF AccessIInv, StrangersWereAudited, Entitled, access, keys
<1> QED
  BY <1>6, <1>7, <1>8, <1>9 DEF AccessIInv

LEMMA UpdateUserStep ==
  ASSUME AccessIInv, NEW r \in Requests, UpdateUser(r)
  PROVE  AccessIInv'
<1>1. req[r].step \in AdminSteps \ {"impersonate"}
  BY DEF UpdateUser, AdminSteps
<1>2. req[r].user \in Users
  BY <1>1 DEF AccessIInv, RequestsHonest, Honest
<1>3. superAdmins \subseteq Users /\ activeUsers \subseteq Users
  BY DEF AccessIInv, AccessTypeOK
<1>4. superAdmins' \subseteq Users /\ activeUsers' \subseteq Users
  BY <1>2, <1>3 DEF UpdateUser
<1> QED
  BY <1>4, EndStep DEF UpdateUser

LEMMA BootstrapStep ==
  ASSUME AccessIInv, NEW u \in Users, Bootstrap(u)
  PROVE  AccessIInv'
BY DEF Bootstrap, access, keys, AccessIInv, AccessTypeOK, RequestsHonest, MembersEntitled,
       StrangersWereAudited, Entitled

LEMMA AccessStepIInv == AccessIInv /\ [AccessNext]_accessVars => AccessIInv'
<1> SUFFICES ASSUME AccessIInv, [AccessNext]_accessVars PROVE AccessIInv'
  OBVIOUS
<1>1. ASSUME NEW r \in Requests, NEW u \in Users, NEW v \in Users, Promote(r, u, v)
      PROVE  AccessIInv'
  BY <1>1, AuthenticateStep DEF Promote, RequireAdmin, AdminSteps
<1>2. ASSUME NEW r \in Requests, NEW u \in Users, NEW v \in Users, Demote(r, u, v)
      PROVE  AccessIInv'
  BY <1>2, AuthenticateStep DEF Demote, RequireAdmin, AdminSteps
<1>3. ASSUME NEW r \in Requests, NEW u \in Users, NEW v \in Users,
             NEW s \in {"enable", "disable"}, SetActive(r, u, v, s)
      PROVE  AccessIInv'
  BY <1>3, AuthenticateStep DEF SetActive, RequireAdmin, AdminSteps
<1>4. ASSUME NEW r \in Requests, NEW u \in Users, NEW t \in Tenants, Impersonate(r, u, t)
      PROVE  AccessIInv'
  BY <1>4, AuthenticateStep DEF Impersonate, RequireAdmin, AdminSteps
<1>5. ASSUME NEW r \in Requests, NEW u \in Users, Ask(r, u)
      PROVE  AccessIInv'
  BY <1>5, AuthenticateStep DEF Ask, AdminSteps
<1>6. ASSUME NEW r \in Requests, Leave(r) PROVE AccessIInv'
  BY <1>6, EndStep DEF Leave, accounts, AccessIInv, AccessTypeOK
<1>7. CASE UNCHANGED accessVars
  BY <1>7 DEF accessVars, accounts, access, keys, AccessIInv, AccessTypeOK, RequestsHonest,
     MembersEntitled, StrangersWereAudited, Entitled
<1> QED
  BY <1>1, <1>2, <1>3, <1>4, <1>5, <1>6, <1>7, CountStep, UpdateUserStep, JoinStep, EnterStep,
     CreateKeyStep, RevokeKeyStep, CallStep, BootstrapStep DEF AccessNext, Resolvable

THEOREM AccessInvariant == AccessSpec => []AccessIInv
BY AccessInitIInv, AccessStepIInv, PTL DEF AccessSpec

\* Every variable of accounts, memberships, keys and requests keeps its type.
THEOREM AccessTypeCorrect == AccessSpec => []AccessTypeOK
<1>1. AccessIInv => AccessTypeOK
  BY DEF AccessIInv
<1> QED
  BY <1>1, AccessInvariant, PTL

\* Whoever works in a workspace, in person or by a key, is its owner, was read as
\* super admin or has impersonated it with an audit row, and so was whoever made
\* the key (deps.py:128-232, admin.py:289-317, api_keys.py:50-76).
THEOREM InsidersEntitled == AccessSpec => []StrangersWereAudited
<1>1. AccessIInv => StrangersWereAudited
  BY DEF AccessIInv
<1> QED
  BY <1>1, AccessInvariant, PTL

LEMMA LastAdminTaker ==
  ASSUME AccessIInv, AccessNext, Admins # {}, Admins' = {}
  PROVE  \E r \in Requests : req'[r] # req[r] /\ req[r].super /\ req[r].caller \notin Admins
<1>1. \E r \in Requests : UpdateUser(r)
  <2> SUFFICES ASSUME ~ \E r \in Requests : UpdateUser(r) PROVE FALSE
    OBVIOUS
  <2>1. superAdmins \subseteq superAdmins' /\ activeUsers' = activeUsers
    BY DEF AccessNext, Promote, Demote, SetActive, RequireAdmin, CountAdmins,
       Impersonate, Join, Ask, Authenticate, Enter, CreateKey, RevokeKey, Call, Leave, Bootstrap,
       accounts
  <2> QED
    BY <2>1 DEF Admins
<1>2. PICK r \in Requests : UpdateUser(r)
  BY <1>1
<1>3. req[r].step \in {"demote", "disable"}
  BY <1>2 DEF UpdateUser, Admins
<1>4. req[r].super /\ req[r].caller # req[r].user
  BY <1>3 DEF AccessIInv, RequestsHonest, Honest, AdminSteps
<1>5. req[r].caller \notin Admins
  BY <1>2, <1>3, <1>4 DEF UpdateUser, Admins
<1>6. req'[r] = NoRequest
  BY <1>2 DEF UpdateUser, End, AccessIInv, AccessTypeOK
<1>7. req'[r] # req[r]
  BY <1>3, <1>6 DEF NoRequest
<1> QED
  BY <1>4, <1>5, <1>7

\* The platform loses its last administrator only to a request whose caller has
\* been demoted or disabled since it was authenticated (admin.py:157-173, 200-213).
THEOREM LastAdminTakenByStale == AccessSpec => LastAdminFallsToStaleCaller
<1>1. AccessIInv /\ [AccessNext]_accessVars =>
        [Admins # {} /\ Admins' = {} =>
           \E r \in Requests :
             req'[r] # req[r] /\ req[r].super /\ req[r].caller \notin Admins]_accessVars
  BY LastAdminTaker
<1> QED
  BY <1>1, AccessInvariant, PTL DEF AccessSpec, LastAdminFallsToStaleCaller

------------------------------------------------------------------------------
(***************************************************************************)
(* RateLimiter.  The limit follows from what the bucket holds and has      *)
(* handed out together (Credit); a key that expires needs the time-outs of *)
(* the calls to be shorter than the grace the script adds                  *)
(* (TimingAssumption).  What a breaker that is open may still cost are the *)
(* calls that are waiting (BreakerBound).                                  *)
(***************************************************************************)

TimesOrdered ==
  /\ ts <= touched
  /\ touched <= now
  /\ \A r \in Calls : reading[r] <= now

\* A call on its way has not taken longer than the time-outs allow.
ReadingRecent == \A r \in Calls : pc[r] = "eval" => now <= reading[r] + Latency

\* What is in the bucket and what it has allowed.
Credit == tokens + granted <= Capacity + Refill * (ts + setBack)

\* The calls that wait for Redis.
InFlight == {r \in Calls : pc[r] \in {"check", "eval"}}

\* Before the breaker opens fewer than Threshold calls have failed; afterwards nobody
\* asks any more.
BreakerBound ==
  /\ ~ CircuitOpen => wasted <= failures /\ (failures = Threshold => wasted = 0)
  /\ CircuitOpen => wasted + Cardinality(InFlight) <= Threshold - 1 + Cardinality(Calls)

LimiterIInv ==
  /\ LimiterTypeOK
  /\ TimesOrdered
  /\ ReadingRecent
  /\ Credit
  /\ BreakerBound

LEMMA TimesMonotone ==
  ASSUME NEW k \in Nat, NEW a \in Int, NEW b \in Int, a <= b
  PROVE  k * a <= k * b
OBVIOUS

LEMMA TimesDistributes ==
  ASSUME NEW k \in Nat, NEW a \in Int, NEW b \in Int
  PROVE  k * (a + b) = k * a + k * b
OBVIOUS

LEMMA InFlightIsFinite ==
  /\ Cardinality(Calls) \in Nat
  /\ Cardinality(InFlight) \in Nat
  /\ Cardinality(InFlight) <= Cardinality(Calls)
  /\ Cardinality(InFlight') \in Nat
  /\ Cardinality(InFlight') <= Cardinality(Calls)
<1>1. InFlight \in SUBSET Calls /\ InFlight' \in SUBSET Calls
  BY DEF InFlight
<1> QED
  BY <1>1, CallsAssumption, FS_Subset, FS_CardinalityType

\* A call that has failed or was answered waits no longer.
LEMMA OneReturns ==
  ASSUME NEW r \in Calls, NEW s \in {"take", "served", "throttled"},
         pc \in [Calls -> {"idle", "check", "take", "eval", "served", "throttled"}],
         pc[r] \in {"check", "eval"}, pc' = [pc EXCEPT ![r] = s]
  PROVE  Cardinality(InFlight') = Cardinality(InFlight) - 1
<1>1. InFlight' = InFlight \ {r} /\ r \in InFlight
  BY DEF InFlight
<1>2. IsFiniteSet(InFlight)
  BY CallsAssumption, FS_Subset DEF InFlight
<1> QED
  BY <1>1, <1>2, FS_RemoveElement

\* The breaker after a call that was answered or has failed.
LEMMA ReturnKeepsBreaker ==
  ASSUME LimiterIInv, NEW r \in Calls, NEW s \in {"take", "served", "throttled"},
         pc[r] \in {"check", "eval"}, pc' = [pc EXCEPT ![r] = s],
         RecordSuccess \/ RecordFailure, now' = now
  PROVE  /\ failures' \in 0..Threshold
         /\ disabledUntil' \in 0..(MaxTime + DisabledFor)
         /\ wasted' \in Nat
         /\ BreakerBound'
<1>1. /\ now \in 0..MaxTime /\ failures \in 0..Threshold /\ wasted \in Nat
      /\ disabledUntil \in 0..(MaxTime + DisabledFor)
      /\ Threshold \in Nat \ {0} /\ DisabledFor \in Nat \ {0} /\ MaxTime \in Nat
  BY TimingAssumption, BoundAssumption DEF LimiterIInv, LimiterTypeOK
<1>2. Cardinality(InFlight') = Cardinality(InFlight) - 1
  BY OneReturns DEF LimiterIInv, LimiterTypeOK
<1>3. CASE RecordSuccess
  BY <1>1, <1>3, InFlightIsFinite DEF RecordSuccess, BreakerBound, CircuitOpen
<1>4. CASE RecordFailure
  <2>1. /\ failures' = IF failures + 1 <= Threshold THEN failures + 1 ELSE Threshold
        /\ disabledUntil' = IF failures + 1 >= Threshold THEN now + DisabledFor ELSE disabledUntil
        /\ wasted' = wasted + 1
    BY <1>4 DEF RecordFailure, Smaller
  <2>2. /\ failures' \in 0..Threshold
        /\ disabledUntil' \in 0..(MaxTime + DisabledFor)
        /\ wasted' \in Nat
    BY <1>1, <2>1
  <2>3. CASE CircuitOpen
    <3>1. wasted + Cardinality(InFlight) <= Threshold - 1 + Cardinality(Calls)
      BY <2>3 DEF LimiterIInv, BreakerBound
    <3>2. now < disabledUntil'
      BY <1>1, <2>1, <2>3 DEF CircuitOpen
    <3>3. wasted' + Cardinality(InFlight') <= Threshold - 1 + Cardinality(Calls)
      BY <1>1, <1>2, <2>1, <3>1, InFlightIsFinite
    <3> QED BY <2>2, <3>2, <3>3 DEF BreakerBound, CircuitOpen
  <2>4. CASE ~ CircuitOpen
    <3>1. wasted <= failures /\ (failures = Threshold => wasted = 0)
      BY <2>4 DEF LimiterIInv, BreakerBound
    <3>2. wasted + 1 <= Threshold
      BY <1>1, <3>1
    <3>3. wasted' + Cardinality(InFlight') <= Threshold - 1 + Cardinality(Calls)
      BY <1>1, <1>2, <2>1, <3>2, InFlightIsFinite
    <3>4. ~ CircuitOpen' => wasted' <= failures' /\ failures' # Threshold
      BY <1>1, <2>1, <3>1 DEF CircuitOpen
    <3> QED BY <2>2, <3>3, <3>4 DEF BreakerBound
  <2> QED BY <2>2, <2>3, <2>4
<1> QED BY <1>3, <1>4

\* As long as nobody asks Redis for the first time while it is open, nothing that leaves
\* the breaker alone changes what it is good for.
LEMMA BreakerKept ==
  ASSUME LimiterIInv, UNCHANGED <<now, failures, disabledUntil, wasted>>,
         CircuitOpen => InFlight' = InFlight
  PROVE  BreakerBound'
BY DEF LimiterIInv, BreakerBound, CircuitOpen

\* The script never makes a token that time has not refilled.
LEMMA EvalKeepsBucket ==
  ASSUME LimiterIInv, NEW r \in Calls, Eval(r)
  PROVE  /\ tokens' \in 0..Capacity
         /\ ts' = reading[r]
         /\ touched' = now
         /\ granted' \in Nat
         /\ setBack' \in Nat
         /\ Credit'
<1> DEFINE t == reading[r]
           level == Refilled(t)
           spent == IF level >= 1 THEN 1 ELSE 0
<1>1. /\ now \in Nat /\ tokens \in 0..Capacity /\ ts \in Nat /\ touched \in Nat
      /\ t \in Nat /\ granted \in Nat /\ setBack \in Nat
      /\ ts <= touched /\ touched <= now /\ t <= now /\ now <= t + Latency
  BY BoundAssumption DEF LimiterIInv, LimiterTypeOK, TimesOrdered, ReadingRecent, Eval
<1>2. Capacity \in Nat /\ Refill \in Nat /\ Lifetime \in Nat /\ Grace \in Nat /\ Latency \in Nat
  BY BucketAssumption, TimingAssumption
<1>3. Refill * Larger(0, t - ts) \in Nat
  <2>1. Larger(0, t - ts) \in Nat
    BY <1>1 DEF Larger
  <2> QED
    BY <2>1, <1>2
<1>4. level \in 0..Capacity
  BY <1>1, <1>2, <1>3 DEF Refilled, Smaller
<1>5. /\ tokens' = level - spent /\ ts' = t /\ touched' = now /\ granted' = granted + spent
      /\ setBack' = setBack + (IF Expired THEN 0 ELSE Larger(0, ts - t))
  BY DEF Eval
<1>6. spent \in {0, 1} /\ spent <= level
  BY <1>4, <1>2
<1>7. /\ tokens' \in 0..Capacity /\ granted' \in Nat /\ setBack' \in Nat
  <2>1. (IF Expired THEN 0 ELSE Larger(0, ts - t)) \in Nat
    BY <1>1 DEF Larger
  <2> HIDE DEF level, spent
  <2> QED
    BY <1>1, <1>2, <1>4, <1>5, <1>6, <2>1
<1>8. tokens' + granted' = level + granted
  <2> HIDE DEF level, spent
  <2> QED
    BY <1>1, <1>2, <1>4, <1>5, <1>6
<1>9. tokens + granted <= Capacity + Refill * (ts + setBack)
  BY DEF LimiterIInv, Credit
<1>10. ASSUME Expired PROVE Credit'
  <2>1. touched + Lifetime + Grace <= now
    BY <1>10, <1>1, <1>2 DEF Expired
  <2>2. ts + setBack + Lifetime <= t + setBack
    BY <2>1, <1>1, <1>2, TimingAssumption
  <2>3. Refill * ((ts + setBack) + Lifetime) <= Refill * (t + setBack)
    BY <2>2, <1>1, <1>2, TimesMonotone
  <2>4. Refill * ((ts + setBack) + Lifetime) = Refill * (ts + setBack) + Refill * Lifetime
    BY <1>1, <1>2, TimesDistributes
  <2>5. level = Capacity /\ setBack' = setBack
    BY <1>10, <1>5, <1>1 DEF Refilled
  <2>6. Refill * (ts + setBack) \in Int /\ Refill * Lifetime \in Int /\ Refill * (t + setBack) \in Int
    BY <1>1, <1>2
  <2>7. tokens + granted <= Capacity + Refill * (ts + setBack) /\ Capacity <= Refill * Lifetime
    BY <1>9, BucketAssumption
  <2> HIDE DEF t
  <2>8. Capacity + granted <= Capacity + Refill * (t + setBack)
    BY <1>1, <1>2, <2>3, <2>4, <2>6, <2>7
  <2> HIDE DEF level, spent
  <2> QED
    BY <2>5, <2>8, <1>8, <1>5 DEF Credit
<1>11. ASSUME ~ Expired PROVE Credit'
  <2>1. level <= tokens + Refill * Larger(0, t - ts)
    BY <1>11, <1>1, <1>2, <1>3 DEF Refilled, Smaller
  <2>2. t + setBack' = (ts + setBack) + Larger(0, t - ts)
    BY <1>11, <1>5, <1>1 DEF Larger
  <2>3. Larger(0, t - ts) \in Int
    BY <1>1 DEF Larger
  <2>4. Refill * (t + setBack') = Refill * (ts + setBack) + Refill * Larger(0, t - ts)
    BY <2>2, <2>3, <1>1, <1>2, TimesDistributes
  <2>5. Refill * (ts + setBack) \in Int
    BY <1>1, <1>2
  <2> HIDE DEF level, t
  <2>6. level + granted <= Capacity + Refill * (t + setBack')
    BY <2>1, <2>4, <2>5, <1>9, <1>1, <1>2, <1>3, <1>4
  <2> HIDE DEF spent
  <2> QED
    BY <2>6, <1>8, <1>5 DEF Credit
<1> QED
  BY <1>5, <1>7, <1>10, <1>11

LEMMA LimiterInitIInv == LimiterInit => LimiterIInv
<1> SUFFICES ASSUME LimiterInit PROVE LimiterIInv
  OBVIOUS
<1>1. LimiterTypeOK
  BY BucketAssumption, TimingAssumption, BoundAssumption DEF LimiterInit, LimiterTypeOK
<1>2. TimesOrdered /\ ReadingRecent
  BY TimingAssumption DEF LimiterInit, TimesOrdered, ReadingRecent
<1>3. Credit /\ BreakerBound
  <2>1. Refill * (0 + 0) = 0
    BY BucketAssumption
  <2> QED
    BY <2>1, BucketAssumption, TimingAssumption
       DEF LimiterInit, Credit, BreakerBound, CircuitOpen
<1> QED
  BY <1>1, <1>2, <1>3 DEF LimiterIInv

LEMMA LimiterStepIInv == LimiterIInv /\ [LimiterNext]_limiterVars => LimiterIInv'
<1> SUFFICES ASSUME LimiterIInv, [LimiterNext]_limiterVars PROVE LimiterIInv'
  OBVIOUS
<1> USE DEF bucket, breaker, history
<1>1. CASE Tick
  <2>1. LimiterTypeOK'
    BY <1>1, BoundAssumption DEF Tick, LimiterIInv, LimiterTypeOK
  <2>2. TimesOrdered' /\ ReadingRecent'
    BY <1>1, TimingAssumption, BoundAssumption
    DEF Tick, LimiterIInv, LimiterTypeOK, TimesOrdered, ReadingRecent
  <2>3. Credit'
    BY <1>1 DEF Tick, LimiterIInv, Credit
  <2>4. BreakerBound'
    <3>1. /\ now' = now + 1 /\ InFlight' = InFlight
          /\ wasted' = IF now + 1 = disabledUntil THEN 0 ELSE wasted
          /\ UNCHANGED <<failures, disabledUntil>>
      BY <1>1 DEF Tick, InFlight
    <3>2. now \in Nat /\ disabledUntil \in Nat /\ failures \in Nat
      BY BoundAssumption, TimingAssumption DEF LimiterIInv, LimiterTypeOK
    <3> QED BY <3>1, <3>2 DEF LimiterIInv, BreakerBound, CircuitOpen
  <2> QED
    BY <2>1, <2>2, <2>3, <2>4 DEF LimiterIInv
<1>2. ASSUME NEW r \in Calls, BlockedCheck(r) PROVE LimiterIInv'
  <2>1. LimiterTypeOK'
    BY <1>2 DEF BlockedCheck, CallTo, LimiterIInv, LimiterTypeOK
  <2>2. TimesOrdered'
    BY <1>2 DEF BlockedCheck, LimiterIInv, LimiterTypeOK, TimesOrdered
  <2>3. ReadingRecent'
    BY <1>2 DEF BlockedCheck, CallTo, LimiterIInv, LimiterTypeOK, ReadingRecent
  <2>4. Credit'
    BY <1>2 DEF BlockedCheck, LimiterIInv, Credit
  <2>5. CircuitOpen => InFlight' = InFlight
    BY <1>2 DEF BlockedCheck, CallTo, InFlight, LimiterIInv, LimiterTypeOK
  <2>6. BreakerBound'
    BY <1>2, <2>5, BreakerKept DEF BlockedCheck
  <2> QED
    BY <2>1, <2>2, <2>3, <2>4, <2>6 DEF LimiterIInv
<1>8. ASSUME NEW r \in Calls, BlockedAnswer(r) PROVE LimiterIInv'
  <2>1. /\ pc[r] \in {"check", "eval"} /\ pc' = [pc EXCEPT ![r] = "take"]
        /\ RecordSuccess \/ RecordFailure
        /\ UNCHANGED <<now, bucket, reading, granted, setBack>>
    BY <1>8 DEF BlockedAnswer, CallTo
  <2>2. /\ failures' \in 0..Threshold /\ disabledUntil' \in 0..(MaxTime + DisabledFor)
        /\ wasted' \in Nat /\ BreakerBound'
    BY <2>1, ReturnKeepsBreaker
  <2>3. LimiterTypeOK'
    BY <2>1, <2>2 DEF LimiterIInv, LimiterTypeOK
  <2>4. TimesOrdered' /\ ReadingRecent' /\ Credit'
    BY <2>1 DEF LimiterIInv, LimiterTypeOK, TimesOrdered, ReadingRecent, Credit
  <2> QED
    BY <2>2, <2>3, <2>4 DEF LimiterIInv
<1>3. ASSUME NEW r \in Calls, Take(r) PROVE LimiterIInv'
  <2>1. LimiterTypeOK'
    BY <1>3 DEF Take, CallTo, LimiterIInv, LimiterTypeOK
  <2>2. TimesOrdered'
    BY <1>3, BoundAssumption DEF Take, LimiterIInv, LimiterTypeOK, TimesOrdered
  <2>3. ReadingRecent'
    BY <1>3, BoundAssumption, TimingAssumption
    DEF Take, CallTo, LimiterIInv, LimiterTypeOK, ReadingRecent
  <2>4. Credit'
    BY <1>3 DEF Take, LimiterIInv, Credit
  <2>5. CircuitOpen => InFlight' = InFlight
    BY <1>3 DEF Take, CallTo, InFlight, LimiterIInv, LimiterTypeOK
  <2>6. BreakerBound'
    BY <1>3, <2>5, BreakerKept DEF Take
  <2> QED
    BY <2>1, <2>2, <2>3, <2>4, <2>6 DEF LimiterIInv
<1>4. ASSUME NEW r \in Calls, Eval(r) PROVE LimiterIInv'
  <2>1. /\ failures' \in 0..Threshold /\ disabledUntil' \in 0..(MaxTime + DisabledFor)
        /\ wasted' \in Nat /\ BreakerBound'
    <3>1. PICK s \in {"served", "throttled"} : pc' = [pc EXCEPT ![r] = s]
      BY <1>4 DEF Eval, CallTo
    <3> QED
      BY <1>4, <3>1, ReturnKeepsBreaker DEF Eval
  <2>2. /\ tokens' \in 0..Capacity /\ ts' = reading[r] /\ touched' = now
        /\ granted' \in Nat /\ setBack' \in Nat /\ Credit'
    BY <1>4, EvalKeepsBucket
  <2>3. /\ now' = now /\ reading' = reading
        /\ \E s \in {"served", "throttled"} : pc' = [pc EXCEPT ![r] = s]
    BY <1>4 DEF Eval, CallTo
  <2>4. LimiterTypeOK'
    BY <2>1, <2>2, <2>3 DEF LimiterIInv, LimiterTypeOK
  <2>5. TimesOrdered'
    BY <2>1, <2>2, <2>3, BoundAssumption DEF LimiterIInv, LimiterTypeOK, TimesOrdered
  <2>6. ReadingRecent'
    BY <2>3 DEF LimiterIInv, LimiterTypeOK, ReadingRecent
  <2> QED
    BY <2>1, <2>2, <2>4, <2>5, <2>6 DEF LimiterIInv
<1>5. ASSUME NEW r \in Calls, EvalFails(r) PROVE LimiterIInv'
  <2>1. /\ failures' \in 0..Threshold /\ disabledUntil' \in 0..(MaxTime + DisabledFor)
        /\ wasted' \in Nat /\ BreakerBound'
    BY <1>5, ReturnKeepsBreaker DEF EvalFails, CallTo
  <2>2. LimiterTypeOK'
    BY <1>5, <2>1 DEF EvalFails, CallTo, LimiterIInv, LimiterTypeOK
  <2>3. TimesOrdered'
    BY <1>5, <2>1, BoundAssumption DEF EvalFails, LimiterIInv, LimiterTypeOK, TimesOrdered
  <2>4. ReadingRecent'
    BY <1>5 DEF EvalFails, CallTo, LimiterIInv, LimiterTypeOK, ReadingRecent
  <2>5. Credit'
    BY <1>5 DEF EvalFails, LimiterIInv, Credit
  <2> QED
    BY <2>1, <2>2, <2>3, <2>4, <2>5 DEF LimiterIInv
<1>6. ASSUME NEW r \in Calls, Answer(r) PROVE LimiterIInv'
  <2>1. LimiterTypeOK'
    BY <1>6, BoundAssumption DEF Answer, LimiterIInv, LimiterTypeOK
  <2>2. TimesOrdered'
    BY <1>6, BoundAssumption DEF Answer, LimiterIInv, LimiterTypeOK, TimesOrdered
  <2>3. ReadingRecent'
    BY <1>6 DEF Answer, LimiterIInv, LimiterTypeOK, ReadingRecent
  <2>4. Credit'
    BY <1>6 DEF Answer, LimiterIInv, Credit
  <2>5. InFlight' = InFlight
    BY <1>6 DEF Answer, InFlight, LimiterIInv, LimiterTypeOK
  <2>6. BreakerBound'
    BY <1>6, <2>5, BreakerKept DEF Answer
  <2> QED
    BY <2>1, <2>2, <2>3, <2>4, <2>6 DEF LimiterIInv
<1>7. CASE UNCHANGED limiterVars
  <2>1. InFlight' = InFlight
    BY <1>7 DEF limiterVars, InFlight
  <2>2. BreakerBound'
    BY <1>7, <2>1, BreakerKept DEF limiterVars
  <2> QED
    BY <1>7, <2>2
       DEF limiterVars, LimiterIInv, LimiterTypeOK, TimesOrdered, ReadingRecent, Credit
<1> QED
  BY <1>1, <1>2, <1>3, <1>4, <1>5, <1>6, <1>7, <1>8 DEF LimiterNext

THEOREM LimiterInvariant == LimiterSpec => []LimiterIInv
BY LimiterInitIInv, LimiterStepIInv, PTL DEF LimiterSpec

\* Every variable of the limiter keeps its type: in particular the bucket never
\* holds more than its capacity nor less than nothing (rate_limit.py:63-90).
THEOREM LimiterTypeCorrect == LimiterSpec => []LimiterTypeOK
<1>1. LimiterIInv => LimiterTypeOK
  BY DEF LimiterIInv
<1> QED
  BY <1>1, LimiterInvariant, PTL

\* The bucket never allows more than its capacity and what time has refilled,
\* whatever order the calls reach Redis in and however often the key expires
\* (rate_limit.py:63-132).
THEOREM LimitKept == LimiterSpec => []LimitHolds
<1>1. LimiterIInv => LimitHolds
  <2> SUFFICES ASSUME LimiterIInv PROVE LimitHolds
    OBVIOUS
  <2>1. /\ tokens \in 0..Capacity /\ granted \in Nat /\ ts \in Nat /\ setBack \in Nat
        /\ now \in Nat /\ touched \in Nat /\ ts <= now
    BY BoundAssumption DEF LimiterIInv, LimiterTypeOK, TimesOrdered
  <2>2. Refill \in Nat /\ Capacity \in Nat
    BY BucketAssumption
  <2>3. Refill * (ts + setBack) <= Refill * (now + setBack)
    BY <2>1, <2>2, TimesMonotone
  <2>4. Refill * (ts + setBack) \in Int /\ Refill * (now + setBack) \in Int
    BY <2>1, <2>2
  <2> QED
    BY <2>1, <2>2, <2>3, <2>4 DEF LimiterIInv, Credit, LimitHolds
<1> QED
  BY <1>1, LimiterInvariant, PTL

\* Until Redis answers or the breaker closes, at most Threshold - 1 calls fail besides
\* those that can wait for it at once, however late they are recorded and however
\* often they extend the outage (rate_limit.py:16-58, 114-149).
THEOREM TimeoutsAreFew == LimiterSpec => []TimeoutsBounded
<1>1. LimiterIInv => TimeoutsBounded
  <2> SUFFICES ASSUME LimiterIInv PROVE TimeoutsBounded
    OBVIOUS
  <2>1. wasted \in Nat /\ failures \in 0..Threshold /\ Threshold \in Nat \ {0}
    BY TimingAssumption DEF LimiterIInv, LimiterTypeOK
  <2>2. CASE CircuitOpen
    BY <2>1, <2>2, InFlightIsFinite DEF LimiterIInv, BreakerBound, TimeoutsBounded
  <2>3. CASE ~ CircuitOpen
    BY <2>1, <2>3, InFlightIsFinite DEF LimiterIInv, BreakerBound, TimeoutsBounded
  <2> QED BY <2>2, <2>3
<1> QED
  BY <1>1, LimiterInvariant, PTL

------------------------------------------------------------------------------
(***************************************************************************)
(* Platform: what holds of a component holds of a behaviour that runs it.  *)
(***************************************************************************)

\* Whichever part runs, each of them takes steps of its own specification or none:
\* whatever is proved of a part holds of what the runs check.
THEOREM PlatformRunsItsParts == Spec => SignupSpec /\ AccessSpec /\ LimiterSpec
<1>1. Init => SignupInit /\ AccessInit /\ LimiterInit
  BY DEF Init
<1>2. [Next]_vars =>
        /\ [SignupNext]_signupVars
        /\ [AccessNext]_accessVars
        /\ [LimiterNext]_limiterVars
  BY DEF Next, vars
<1> QED
  BY <1>1, <1>2, PTL DEF Spec, SignupSpec, AccessSpec, LimiterSpec

\* The joint type invariant of the runs: the rows of accounts and workspaces, the
\* requests in them and the bucket keep their types (auth.py, admin.py, deps.py,
\* rate_limit.py).
THEOREM PlatformTypeCorrect == Spec => []PlatformTypeOK
<1>1. SignupTypeOK /\ AccessTypeOK /\ LimiterTypeOK => PlatformTypeOK
  BY DEF PlatformTypeOK
<1> QED
  BY <1>1, PlatformRunsItsParts, SignupTypeCorrect, AccessTypeCorrect, LimiterTypeCorrect, PTL
==============================================================================
