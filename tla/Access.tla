------------------------------- MODULE Access -------------------------------
(***************************************************************************)
(* Administrators, workspaces and who gets into them: the user part and    *)
(* the impersonation of routers/admin.py, the sessions of routers/auth.py, *)
(* the checks of deps.py and the keys of routers/api_keys.py.              *)
(*                                                                         *)
(* An administration request is one transaction: current_user reads the    *)
(* caller's row, the handler decides by what that read said, and writes.   *)
(* A workspace request reads the caller in a transaction of its own and    *)
(* finds the workspace and the membership in a second one.  What other     *)
(* requests commit in between is part of the model.                        *)
(*                                                                         *)
(* Nothing removes a membership, and a token names a workspace its user is *)
(* a member of: what the tokens in use may say follows from the            *)
(* memberships (WorkspacesOf), and tokens are not part of the state.  The  *)
(* audit log is kept as far as it tells who impersonated.                  *)
(***************************************************************************)
EXTENDS FiniteSets, Naturals

CONSTANTS
  Users,
  Tenants,
  Owner,      \* Owner[t]: who signed up workspace t
  Keys,       \* API keys; bounds how many are made
  Requests,   \* requests the API can serve at once
  NoUser,
  NoTenant,
  NoKey

ASSUME OwnerAssumption == Owner \in [Tenants -> Users]
ASSUME AccessSentinels ==
  NoUser \notin Users /\ NoTenant \notin Tenants /\ NoKey \notin Keys

VARIABLES
  superAdmins,   \* users.is_super_admin
  activeUsers,   \* users.is_active
  members,       \* <<user, tenant>> of tenant_members
  audited,       \* <<actor, tenant>> of the tenant.impersonate rows of audit_logs
  keyOf,         \* keyOf[k]: api_keys.tenant_id
  madeBy,        \* madeBy[k]: the request that made k, as it was read
  revoked,       \* keys with revoked_at
  req            \* req[r]: what request r is about and what it has read

accounts == <<superAdmins, activeUsers>>
access == <<members, audited>>
keys == <<keyOf, madeBy, revoked>>
accessVars == <<accounts, access, keys, req>>

NoRequest ==
  [step |-> "idle", caller |-> NoUser, super |-> FALSE,
   user |-> NoUser, tenant |-> NoTenant, key |-> NoKey]

\* Every workspace has been signed up by its owner; bootstrap_admin.py makes the
\* first administrators.
AccessInit ==
  /\ superAdmins \in (SUBSET Users) \ {{}}
  /\ activeUsers = Users
  /\ members = {<<Owner[t], t>> : t \in Tenants}
  /\ audited = {}
  /\ keyOf = [k \in Keys |-> NoTenant]
  /\ madeBy = [k \in Keys |-> NoRequest]
  /\ revoked = {}
  /\ req = [r \in Requests |-> NoRequest]

Admins == superAdmins \cap activeUsers

End(r) == req' = [req EXCEPT ![r] = NoRequest]
Goto(r, s) == req' = [req EXCEPT ![r].step = s]

\* The request of u to do s with user v and tenant t.
AskedBy(u, s, v, t) ==
  [step |-> s, caller |-> u, super |-> u \in superAdmins,
   user |-> v, tenant |-> t, key |-> NoKey]

\* current_user: the caller's row as the request goes on with it; 401 if it is
\* not active.
Authenticate(r, u, s, v, t) ==
  /\ req[r] = NoRequest
  /\ u \in activeUsers
  /\ req' = [req EXCEPT ![r] = AskedBy(u, s, v, t)]
  /\ UNCHANGED <<accounts, access, keys>>

\* _require_admin; 403 otherwise.
RequireAdmin(r, u, s, v, t) == u \in superAdmins /\ Authenticate(r, u, s, v, t)

------------------------------------------------------------------------------
\* /api/admin/users/{uid}/promote, demote and set-active

Promote(r, u, v) == RequireAdmin(r, u, "promote", v, NoTenant)

\* Faulty variant: the COUNT is trusted to keep the last administrator.
DemoteAnyone(r, u, v) == RequireAdmin(r, u, "count", v, NoTenant)

Demote(r, u, v) == u # v /\ RequireAdmin(r, u, "count", v, NoTenant)

\* The COUNT; 400 if one administrator is left.
CountAdmins(r) ==
  /\ req[r].step = "count"
  /\ IF Cardinality(Admins) <= 1 THEN End(r) ELSE Goto(r, "demote")
  /\ UNCHANGED <<accounts, access, keys>>

SetActive(r, u, v, s) ==
  /\ s = "disable" => u # v
  /\ RequireAdmin(r, u, s, v, NoTenant)

\* The UPDATE of the users row, the audit row and COMMIT.
UpdateUser(r) ==
  /\ \/ /\ req[r].step = "promote"
        /\ superAdmins' = superAdmins \cup {req[r].user}
        /\ UNCHANGED activeUsers
     \/ /\ req[r].step = "demote"
        /\ superAdmins' = superAdmins \ {req[r].user}
        /\ UNCHANGED activeUsers
     \/ /\ req[r].step = "enable"
        /\ activeUsers' = activeUsers \cup {req[r].user}
        /\ UNCHANGED superAdmins
     \/ /\ req[r].step = "disable"
        /\ activeUsers' = activeUsers \ {req[r].user}
        /\ UNCHANGED superAdmins
  /\ End(r)
  /\ UNCHANGED <<access, keys>>

\* bootstrap_admin.py, run by the operator.
Bootstrap(u) ==
  /\ superAdmins' = superAdmins \cup {u}
  /\ UNCHANGED <<activeUsers, access, keys, req>>

------------------------------------------------------------------------------
\* /api/admin/tenants/{tid}/impersonate

Impersonate(r, u, t) == RequireAdmin(r, u, "impersonate", NoUser, t)

\* The membership, the audit row and COMMIT; the token is handed out afterwards.
Join(r) ==
  LET row == <<req[r].caller, req[r].tenant>> IN
  /\ req[r].step = "impersonate"
  /\ members' = members \cup {row}
  /\ audited' = audited \cup {row}
  /\ End(r)
  /\ UNCHANGED <<accounts, keys>>

------------------------------------------------------------------------------
\* Requests inside a workspace

Ask(r, u) == Authenticate(r, u, "resolve", NoUser, NoTenant)

\* What a request can turn out to be about: the forwarded slug, the host, the path or
\* the token may name any workspace.
Resolvable == Tenants

\* The workspaces u is a member of.  An access token of u names one of them: login
\* and refresh put in the latest membership, impersonation the one it just made.
WorkspacesOf(u) == {t \in Tenants : <<u, t>> \in members}

\* Faulty variant: a workspace is entered as soon as it is resolved.
EnterUnchecked(r, t) ==
  /\ req[r].step = "resolve"
  /\ req' = [req EXCEPT ![r].step = "inside", ![r].tenant = t]
  /\ UNCHANGED <<accounts, access, keys>>

\* tenant_session: whatever the host or the token names, 403 unless the caller is
\* a member or was read as super admin.
Enter(r, t) ==
  /\ req[r].step = "resolve"
  /\ t \in WorkspacesOf(req[r].caller) \/ req[r].super
  /\ req' = [req EXCEPT ![r].step = "inside", ![r].tenant = t]
  /\ UNCHANGED <<accounts, access, keys>>

CreateKey(r, k) ==
  /\ req[r].step = "inside"
  /\ req[r].caller # NoUser
  /\ keyOf[k] = NoTenant
  /\ keyOf' = [keyOf EXCEPT ![k] = req[r].tenant]
  /\ madeBy' = [madeBy EXCEPT ![k] = req[r]]
  /\ End(r)
  /\ UNCHANGED <<accounts, access, revoked>>

\* 404 for the key of another workspace.
RevokeKey(r, k) ==
  /\ req[r].step = "inside"
  /\ req[r].caller # NoUser
  /\ keyOf[k] = req[r].tenant
  /\ revoked' = revoked \cup {k}
  /\ End(r)
  /\ UNCHANGED <<accounts, access, keyOf, madeBy>>

\* api_key_session: a key that is not revoked opens its own workspace, for as
\* long as the request takes.
Call(r, k) ==
  /\ req[r] = NoRequest
  /\ keyOf[k] # NoTenant
  /\ k \notin revoked
  /\ req' = [req EXCEPT ![r] =
               [NoRequest EXCEPT !.step = "inside", !.tenant = keyOf[k], !.key = k]]
  /\ UNCHANGED <<accounts, access, keys>>

------------------------------------------------------------------------------

\* A request ends without having written: read-only, refused, failed and rolled
\* back, or cut off by a restart.
Leave(r) ==
  /\ req[r] # NoRequest
  /\ End(r)
  /\ UNCHANGED <<accounts, access, keys>>

AccessNext ==
  \/ \E r \in Requests :
       \/ \E u, v \in Users :
            \/ Promote(r, u, v)
            \/ Demote(r, u, v)
            \/ \E s \in {"enable", "disable"} : SetActive(r, u, v, s)
       \/ CountAdmins(r)
       \/ UpdateUser(r)
       \/ \E u \in Users, t \in Tenants : Impersonate(r, u, t)
       \/ Join(r)
       \/ \E u \in Users : Ask(r, u)
       \/ \E t \in Resolvable : Enter(r, t)
       \/ \E k \in Keys : CreateKey(r, k) \/ RevokeKey(r, k) \/ Call(r, k)
       \/ Leave(r)
  \/ \E u \in Users : Bootstrap(u)

AccessSpec == AccessInit /\ [][AccessNext]_accessVars

------------------------------------------------------------------------------

RequestRecord ==
  [step : {"idle", "promote", "count", "demote", "enable", "disable",
           "impersonate", "resolve", "inside"},
   caller : Users \cup {NoUser}, super : BOOLEAN, user : Users \cup {NoUser},
   tenant : Tenants \cup {NoTenant}, key : Keys \cup {NoKey}]

AccessTypeOK ==
  /\ superAdmins \subseteq Users
  /\ activeUsers \subseteq Users
  /\ members \subseteq Users \X Tenants
  /\ audited \subseteq Users \X Tenants
  /\ keyOf \in [Keys -> Tenants \cup {NoTenant}]
  /\ madeBy \in [Keys -> RequestRecord]
  /\ revoked \subseteq Keys
  /\ req \in [Requests -> RequestRecord]

\* "Make sure at least one super-admin remains", says demote_user of its COUNT: no
\* demotion leaves the platform without an administrator.
DemotionLeavesOne ==
  [][superAdmins' # superAdmins /\ Admins # {} => Admins' # {}]_accessVars

\* The platform loses its last administrator only to a request whose caller has
\* itself been demoted or disabled since the request was authenticated: never to
\* requests that follow one another, whatever the COUNT says.
LastAdminFallsToStaleCaller ==
  [][Admins # {} /\ Admins' = {} =>
       \E r \in Requests : req'[r] # req[r] /\ req[r].super /\ req[r].caller \notin Admins]_accessVars

\* Let in by right: as owner, by an impersonation that was audited, or as a
\* caller that was read as super admin.
Entitled(q, t) == q.super \/ <<q.caller, t>> \in audited \/ q.caller = Owner[t]

\* Whoever works in a workspace, in person or by a key, is entitled to, and so was
\* whoever made the key, however many steps and requests lie in between.
StrangersWereAudited ==
  /\ \A r \in Requests : req[r].step = "inside" =>
       IF req[r].key = NoKey THEN Entitled(req[r], req[r].tenant)
       ELSE keyOf[req[r].key] = req[r].tenant
  /\ \A k \in Keys : keyOf[k] # NoTenant => Entitled(madeBy[k], keyOf[k])
==============================================================================
