------------------------------- MODULE Signup -------------------------------
(***************************************************************************)
(* Signing up (routers/auth.py) and the DNS record every new workspace     *)
(* gets afterwards (services/dynadot.py).                                  *)
(*                                                                         *)
(* A signup looks whether e-mail and slug are free and inserts the rows of *)
(* the user, the tenant and everything that belongs to it in one           *)
(* transaction; only the unique indexes decide between two of them.  The   *)
(* record is added by a task nobody waits for, which reads the whole zone  *)
(* and writes it back.                                                     *)
(***************************************************************************)
EXTENDS FiniteSets

CONSTANTS
  Emails,
  Slugs,
  Reserved,   \* RESERVED_SUBDOMAINS
  Signups,   \* signup requests the API can serve at once
  Apex,       \* the records of the zone that belong to no workspace
  NoEmail,
  NoSlug

ASSUME ReservedAssumption == Reserved \subseteq Slugs
ASSUME ApexAssumption == Apex \notin Slugs
ASSUME SignupSentinels == NoEmail \notin Emails /\ NoSlug \notin Slugs

VARIABLES
  users,       \* users.email of the committed rows
  tenants,     \* tenants.slug of the committed rows
  owner,       \* owner[s]: the 'owner' row of tenant_members
  homes,       \* tenants with a default_subdomain row in tenant_domains
  subscribed,  \* tenants with a row in subscriptions
  signup,         \* signup[r]: [step, email, slug] of request r
  zone,        \* names the registrar's zone has records for
  task,        \* task[s]: state of the task that adds the record of s
  copy,        \* copy[s]: the zone as that task read it
  disturbed    \* workspaces whose task has failed, was lost or overlapped another one

rows == <<users, tenants, owner, homes, subscribed>>
dns == <<zone, task, copy, disturbed>>
signupVars == <<rows, signup, dns>>

NoSignup == [step |-> "idle", email |-> NoEmail, slug |-> NoSlug]

SignupInit ==
  /\ users = {}
  /\ tenants = {}
  /\ owner = [s \in Slugs |-> NoEmail]
  /\ homes = {}
  /\ subscribed = {}
  /\ signup = [r \in Signups |-> NoSignup]
  /\ zone = {Apex}
  /\ task = [s \in Slugs |-> "none"]
  /\ copy = [s \in Slugs |-> {}]
  /\ disturbed = {}

SignupTo(r, s) == signup' = [signup EXCEPT ![r].step = s]
EndSignup(r) == signup' = [signup EXCEPT ![r] = NoSignup]

------------------------------------------------------------------------------
\* POST /api/auth/signup

\* The two SELECTs; a hit is answered with 409 and changes nothing.
Check(r, e, s) ==
  /\ signup[r] = NoSignup
  /\ s \notin Reserved
  /\ e \notin users
  /\ s \notin tenants
  /\ signup' = [signup EXCEPT ![r] = [step |-> "checked", email |-> e, slug |-> s]]
  /\ UNCHANGED <<rows, dns>>

\* Signups that have inserted, and not committed, the same user or tenant.
SameUser(r) ==
  {q \in Signups \ {r} : signup[q].step \in {"user", "tenant"} /\ signup[q].email = signup[r].email}
SameTenant(r) ==
  {q \in Signups \ {r} : signup[q].step = "tenant" /\ signup[q].slug = signup[r].slug}

\* flush of the User: the unique index makes it wait for an uncommitted row, and
\* a committed one ends the request with 500.
InsertUser(r) ==
  /\ signup[r].step = "checked"
  /\ SameUser(r) = {}
  /\ IF signup[r].email \in users THEN EndSignup(r) ELSE SignupTo(r, "user")
  /\ UNCHANGED <<rows, dns>>

\* Faulty variant: the 409 leaves the transaction to be committed.
InsertTenantKeepsUser(r) ==
  /\ signup[r].step = "user"
  /\ SameTenant(r) = {}
  /\ IF signup[r].slug \in tenants
     THEN EndSignup(r) /\ users' = users \cup {signup[r].email}
     ELSE SignupTo(r, "tenant") /\ UNCHANGED users
  /\ UNCHANGED <<tenants, owner, homes, subscribed, dns>>

\* flush of the Tenant: rolled back and answered with 409 if the slug is taken.
InsertTenant(r) ==
  /\ signup[r].step = "user"
  /\ SameTenant(r) = {}
  /\ IF signup[r].slug \in tenants THEN EndSignup(r) ELSE SignupTo(r, "tenant")
  /\ UNCHANGED <<rows, dns>>

\* The rows of owner, default domain and subscription, COMMIT, and the task.
Commit(r) ==
  LET e == signup[r].email
      s == signup[r].slug
  IN /\ signup[r].step = "tenant"
     /\ users' = users \cup {e}
     /\ tenants' = tenants \cup {s}
     /\ owner' = [owner EXCEPT ![s] = e]
     /\ homes' = homes \cup {s}
     /\ subscribed' = subscribed \cup {s}
     /\ task' = [task EXCEPT ![s] = "due"]
     /\ EndSignup(r)
     /\ UNCHANGED <<zone, copy, disturbed>>

\* Faulty variant: the task is started before the COMMIT, which then fails.
FailAfterTask(r) ==
  /\ signup[r].step \in {"checked", "user", "tenant"}
  /\ IF signup[r].step = "tenant"
     THEN task' = [task EXCEPT ![signup[r].slug] = "due"]
     ELSE UNCHANGED task
  /\ EndSignup(r)
  /\ UNCHANGED <<rows, zone, copy, disturbed>>

\* A statement or the COMMIT fails: the transaction is rolled back.
Rollback(r) ==
  /\ signup[r].step \in {"checked", "user", "tenant"}
  /\ EndSignup(r)
  /\ UNCHANGED <<rows, dns>>

\* The API restarts: transactions and the tasks of the process are gone.
Restart ==
  /\ signup' = [r \in Signups |-> NoSignup]
  /\ task' = [s \in Slugs |-> IF task[s] = "none" THEN "none" ELSE "ended"]
  /\ disturbed' = disturbed \cup {s \in Slugs : task[s] \in {"due", "merging"}}
  /\ UNCHANGED <<rows, zone, copy>>

------------------------------------------------------------------------------
\* add_subdomain_a: get_dns, replace or append, set_dns2.

\* The tasks between their read and their write.
Merging == {t \in Slugs : task[t] = "merging"}

\* Faulty variant: a task works with the zone as it was when the platform was set up.
ReadFirstZone(s) ==
  /\ task[s] = "due"
  /\ task' = [task EXCEPT ![s] = "merging"]
  /\ copy' = [copy EXCEPT ![s] = {Apex}]
  /\ disturbed' = disturbed \cup (IF Merging = {} THEN {} ELSE Merging \cup {s})
  /\ UNCHANGED <<rows, signup, zone>>

\* Assumed of the registrar: an answer without an error has the whole zone.  One
\* that lacked it would be taken for an empty zone.
ReadZone(s) ==
  /\ task[s] = "due"
  /\ task' = [task EXCEPT ![s] = "merging"]
  /\ copy' = [copy EXCEPT ![s] = zone]
  /\ disturbed' = disturbed \cup (IF Merging = {} THEN {} ELSE Merging \cup {s})
  /\ UNCHANGED <<rows, signup, zone>>

\* The registrar replaces every record of the zone.
WriteZone(s) ==
  /\ task[s] = "merging"
  /\ zone' = copy[s] \cup {s}
  /\ task' = [task EXCEPT ![s] = "ended"]
  /\ UNCHANGED <<rows, signup, copy, disturbed>>

\* The registrar refuses, or does not answer: logged, and not tried again.
TaskFails(s) ==
  /\ task[s] \in {"due", "merging"}
  /\ task' = [task EXCEPT ![s] = "ended"]
  /\ disturbed' = disturbed \cup {s}
  /\ UNCHANGED <<rows, signup, zone, copy>>

------------------------------------------------------------------------------

Serve(r) == InsertUser(r) \/ InsertTenant(r) \/ Commit(r)

SignupNext ==
  \/ \E r \in Signups :
       \/ \E e \in Emails, s \in Slugs : Check(r, e, s)
       \/ Serve(r)
       \/ Rollback(r)
  \/ \E s \in Slugs : ReadZone(s) \/ WriteZone(s) \/ TaskFails(s)
  \/ Restart

SignupSpec == SignupInit /\ [][SignupNext]_signupVars

------------------------------------------------------------------------------

SignupTypeOK ==
  /\ users \subseteq Emails
  /\ tenants \subseteq Slugs
  /\ owner \in [Slugs -> Emails \cup {NoEmail}]
  /\ homes \subseteq Slugs
  /\ subscribed \subseteq Slugs
  /\ signup \in [Signups -> [step : {"idle", "checked", "user", "tenant"},
                           email : Emails \cup {NoEmail},
                           slug : Slugs \cup {NoSlug}]]
  /\ zone \subseteq Slugs \cup {Apex}
  /\ task \in [Slugs -> {"none", "due", "merging", "ended"}]
  /\ copy \in [Slugs -> SUBSET (Slugs \cup {Apex})]
  /\ disturbed \subseteq Slugs

\* Whatever signups overlap, fail or clash, an account and its workspace come into
\* being together: a user owns exactly one workspace, and a workspace has an
\* owner, its default domain and its subscription.
SignupWhole ==
  /\ \A e \in users : \E s \in tenants :
       owner[s] = e /\ \A t \in tenants : owner[t] = e => t = s
  /\ \A s \in tenants : owner[s] \in users
  /\ homes = tenants
  /\ subscribed = tenants
  /\ tenants \cap Reserved = {}

\* The zone never loses the records of the platform itself, and never has one for
\* a workspace that does not exist, in whatever order the tasks write it.
ZoneBacked == Apex \in zone /\ zone \ {Apex} \subseteq tenants

\* A workspace whose task is done lacks its record only if that very task failed, was
\* lost in a restart or overlapped another one: a record that made it into the zone
\* undisturbed survives the tasks of all later signups, whichever of those overlap.
LossesExplained ==
  \A s \in tenants : task[s] = "ended" => s \in zone \/ s \in disturbed

\* A workspace is there for others when all of its rows are.
WorkspaceOwner(s) == IF s \in tenants \cap homes \cap subscribed THEN owner[s] ELSE NoEmail

Registered == INSTANCE Workspaces
  WITH People <- Emails, Places <- Slugs, Platform <- Apex, Nobody <- NoEmail,
       accounts <- users, workspace <- [s \in Slugs |-> WorkspaceOwner(s)], records <- zone

\* Overlapping signups, clashes, rollbacks, restarts and tasks that write the
\* zone from old copies come to nothing more than registrations in one step each
\* and a zone without records of workspaces that are not there.
ImplementsWorkspaces == Registered!Spec
==============================================================================
