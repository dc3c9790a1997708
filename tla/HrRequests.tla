----------------------------- MODULE HrRequests -----------------------------
(***************************************************************************)
(* Invitations and requests of employees: routers/employee_app.py on the   *)
(* employee's side, routers/hr.py on the reviewer's.                       *)
(*                                                                         *)
(* An invitation is a token in the employee's account row; who brings it   *)
(* chooses a password.  A correction or leave request is pending until it  *)
(* is approved or rejected, and the employee is told of a correction.      *)
(* Both handlers read the row, decide by what they read, and UPDATE by id  *)
(* without repeating the condition.                                        *)
(***************************************************************************)
EXTENDS Integers

CONSTANTS
  Employees,
  Corrections,  \* ids of attendance_correction_requests
  Leaves,       \* ids of leave_requests
  Handlers,     \* review and accept requests the API can serve at once
  MaxInvites,   \* bound of the invitations HR sends
  MaxNotices,   \* bound of the notifications about one request
  NoEmployee,
  NoPetition,
  NoHandler

Petitions == Corrections \cup Leaves
Decisions == {"approved", "rejected"}
NoToken == 0
Tokens == 1..MaxInvites
NoticeIds == 1..MaxNotices

ASSUME InvitesAssumption == MaxInvites \in Nat /\ MaxNotices \in Nat
ASSUME KindsAssumption == Corrections \cap Leaves = {}
ASSUME HrSentinels ==
  NoEmployee \notin Employees /\ NoPetition \notin Petitions /\ NoHandler \notin Handlers

VARIABLES
  invites,     \* tokens given out so far; they are numbered in that order
  invitation,  \* employee_accounts.invite_token
  expired,     \* tokens whose invite_expires_at has passed
  password,    \* employee_accounts.password_hash: the token it was chosen with
  author,      \* employee_id of a request
  status,      \* status of a request; "none" before it is submitted
  rowLock,     \* rowLock[p]: whose uncommitted UPDATE holds the row of p
  notices,     \* notices[p]: notifications about p, [id, of: whose transaction, decision]
  early,       \* early[p]: reviews under way since before p was first decided
  overtaken,   \* requests that hold an invitation no newer than a password chosen meanwhile
  work         \* work[h]: what request h is about and what it has read

accountRows == <<invites, invitation, expired, password>>
petitionRows == <<author, status, rowLock, notices, early>>
hrVars == <<accountRows, petitionRows, overtaken, work>>

NoWork ==
  [step |-> "idle", employee |-> NoEmployee, token |-> NoToken,
   petition |-> NoPetition, decision |-> "rejected"]

HrInit ==
  /\ invites = 0
  /\ invitation = [e \in Employees |-> NoToken]
  /\ expired = {}
  /\ password = [e \in Employees |-> NoToken]
  /\ author = [p \in Petitions |-> NoEmployee]
  /\ status = [p \in Petitions |-> "none"]
  /\ rowLock = [p \in Petitions |-> NoHandler]
  /\ notices = [p \in Petitions |-> {}]
  /\ early = [p \in Petitions |-> {}]
  /\ overtaken = {}
  /\ work = [h \in Handlers |-> NoWork]

------------------------------------------------------------------------------
\* POST /api/hr/employees/{eid}/invite and /api/employee/accept-invite

\* One statement: the account is made, or its invitation replaced.
Invite(e) ==
  /\ invites < MaxInvites
  /\ invites' = invites + 1
  /\ invitation' = [invitation EXCEPT ![e] = invites + 1]
  /\ UNCHANGED <<expired, password, petitionRows, overtaken, work>>

\* Seven days later.
Expire(t) ==
  /\ t <= invites
  /\ t \notin expired
  /\ expired' = expired \cup {t}
  /\ UNCHANGED <<invites, invitation, password, petitionRows, overtaken, work>>

\* The SELECT by token; 404 without a row.
FindInvitation(h, e) ==
  /\ work[h] = NoWork
  /\ invitation[e] # NoToken
  /\ invitation[e] \notin expired
  /\ work' = [work EXCEPT ![h] =
                [NoWork EXCEPT !.step = "invited", !.employee = e, !.token = invitation[e]]]
  /\ UNCHANGED <<accountRows, petitionRows, overtaken>>

\* The requests under way for the same employee, with that invitation or an older one.
Overtakes(h) ==
  {g \in Handlers \ {h} : work[g].employee = work[h].employee /\ work[g].token <= work[h].token}

\* Faulty variant: the password is set and the invitation is left.
SetPasswordOnly(h) ==
  /\ work[h].step = "invited"
  /\ password' = [password EXCEPT ![work[h].employee] = work[h].token]
  /\ overtaken' = (overtaken \ {h}) \cup Overtakes(h)
  /\ work' = [work EXCEPT ![h] = NoWork]
  /\ UNCHANGED <<invites, invitation, expired, petitionRows>>

\* The UPDATE by id, whatever the invitation is by then, and COMMIT.
SetPassword(h) ==
  /\ work[h].step = "invited"
  /\ password' = [password EXCEPT ![work[h].employee] = work[h].token]
  /\ invitation' = [invitation EXCEPT ![work[h].employee] = NoToken]
  /\ overtaken' = (overtaken \ {h}) \cup Overtakes(h)
  /\ work' = [work EXCEPT ![h] = NoWork]
  /\ UNCHANGED <<invites, expired, petitionRows>>

------------------------------------------------------------------------------
\* POST /api/employee/correction-requests and leave-requests

\* The employee could log in, with some password; the account is never closed.
LoggedIn(e) == password[e] # NoToken

Submit(e, p) ==
  /\ LoggedIn(e)
  /\ status[p] = "none"
  /\ status' = [status EXCEPT ![p] = "pending"]
  /\ author' = [author EXCEPT ![p] = e]
  /\ UNCHANGED <<accountRows, rowLock, notices, early, overtaken, work>>

------------------------------------------------------------------------------
\* POST /api/hr/correction-requests/{rid}/review and leave-requests/{rid}/review

Reviewing(p) == {h \in Handlers : work[h].petition = p}

\* Faulty variant: a review does not ask whether the request is pending.
FindSubmitted(h, p, d) ==
  /\ work[h] = NoWork
  /\ status[p] # "none"
  /\ work' = [work EXCEPT ![h] =
                [NoWork EXCEPT !.step = "found", !.petition = p, !.decision = d]]
  /\ UNCHANGED <<accountRows, petitionRows, overtaken>>

\* The SELECT; 409 "already reviewed" if the request is not pending.
FindPending(h, p, d) ==
  /\ work[h] = NoWork
  /\ status[p] = "pending"
  /\ work' = [work EXCEPT ![h] =
                [NoWork EXCEPT !.step = "found", !.petition = p, !.decision = d]]
  /\ UNCHANGED <<accountRows, petitionRows, overtaken>>

\* The UPDATE: waits for an UPDATE of the row that is not committed.
LockPetition(h) ==
  /\ rowLock[work[h].petition] = NoHandler
  /\ rowLock' = [rowLock EXCEPT ![work[h].petition] = h]
  /\ UNCHANGED notices

\* Ids are drawn at the INSERT; those of rolled back rows leave gaps, which are closed here.
NextId(p, i) ==
  /\ \A n \in notices[p] : n.id < i
  /\ i = 1 \/ \E n \in notices[p] : n.id = i - 1

\* The INSERT of a notification, for a correction.
Notify(h) ==
  LET p == work[h].petition IN
  /\ \/ /\ p \in Corrections
        /\ \E i \in NoticeIds :
             /\ NextId(p, i)
             /\ notices' = [notices EXCEPT ![p] =
                              @ \cup {[id |-> i, of |-> h, decision |-> work[h].decision]}]
     \/ p \in Leaves /\ UNCHANGED notices
  /\ UNCHANGED rowLock

\* Faulty variant: the employee is told before the row is updated.
ReviewNotifiesFirst(h) ==
  /\ \/ work[h].step = "found" /\ Notify(h) /\ work' = [work EXCEPT ![h].step = "updated"]
     \/ work[h].step = "updated" /\ LockPetition(h) /\ work' = [work EXCEPT ![h].step = "noted"]
  /\ UNCHANGED <<accountRows, author, status, early, overtaken>>

Review(h) ==
  /\ \/ work[h].step = "found" /\ LockPetition(h) /\ work' = [work EXCEPT ![h].step = "updated"]
     \/ work[h].step = "updated" /\ Notify(h) /\ work' = [work EXCEPT ![h].step = "noted"]
  /\ UNCHANGED <<accountRows, author, status, early, overtaken>>

Unlocked(h) == [p \in Petitions |-> IF rowLock[p] = h THEN NoHandler ELSE rowLock[p]]

\* COMMIT: decision and notification become visible together.
CommitReview(h) ==
  LET p == work[h].petition IN
  /\ work[h].step = "noted"
  /\ status' = [status EXCEPT ![p] = work[h].decision]
  /\ notices' = [notices EXCEPT ![p] =
                   {IF n.of = h THEN [n EXCEPT !.of = NoHandler] ELSE n : n \in @}]
  /\ rowLock' = Unlocked(h)
  /\ early' = [early EXCEPT ![p] =
                 (IF status[p] = "pending" THEN Reviewing(p) ELSE @) \ {h}]
  /\ work' = [work EXCEPT ![h] = NoWork]
  /\ UNCHANGED <<accountRows, author, overtaken>>

\* A statement or COMMIT fails, or the API restarts: the transaction is rolled back.
GiveUp(h) ==
  /\ work[h] # NoWork
  /\ notices' = [p \in Petitions |-> {n \in notices[p] : n.of # h}]
  /\ rowLock' = Unlocked(h)
  /\ early' = [p \in Petitions |-> early[p] \ {h}]
  /\ overtaken' = overtaken \ {h}
  /\ work' = [work EXCEPT ![h] = NoWork]
  /\ UNCHANGED <<accountRows, author, status>>

------------------------------------------------------------------------------

HrNext ==
  \/ \E e \in Employees :
       \/ Invite(e)
       \/ \E p \in Petitions : Submit(e, p)
       \/ \E h \in Handlers : FindInvitation(h, e)
  \/ \E t \in Tokens : Expire(t)
  \/ \E h \in Handlers :
       \/ SetPassword(h)
       \/ \E p \in Petitions, d \in Decisions : FindPending(h, p, d)
       \/ Review(h)
       \/ CommitReview(h)
       \/ GiveUp(h)

HrSpec == HrInit /\ [][HrNext]_hrVars

------------------------------------------------------------------------------

HrTypeOK ==
  /\ invites \in 0..MaxInvites
  /\ invitation \in [Employees -> 0..MaxInvites]
  /\ expired \subseteq Tokens
  /\ password \in [Employees -> 0..MaxInvites]
  /\ author \in [Petitions -> Employees \cup {NoEmployee}]
  /\ status \in [Petitions -> Decisions \cup {"none", "pending"}]
  /\ rowLock \in [Petitions -> Handlers \cup {NoHandler}]
  /\ notices \in [Petitions -> SUBSET [id : NoticeIds, of : Handlers \cup {NoHandler},
                                     decision : Decisions]]
  /\ early \in [Petitions -> SUBSET Handlers]
  /\ overtaken \subseteq Handlers
  /\ work \in [Handlers -> [step : {"idle", "invited", "found", "updated", "noted"},
                            employee : Employees \cup {NoEmployee},
                            token : 0..MaxInvites,
                            petition : Petitions \cup {NoPetition},
                            decision : Decisions]]

\* An invitation is spent when a password is chosen with it, and so are the older ones:
\* one that is used again, or that replaces the password of a newer one, was found by
\* its request before that password was chosen.  So much the code permits: two requests
\* that overlap can both choose with one link, and the slower one can be the older one.
OldInvitationsLose ==
  [][\A h \in Handlers :
       SetPassword(h) => work[h].token > password[work[h].employee] \/ h \in overtaken]_hrVars

\* A decision is overruled only by a review that was under way before the request
\* was first decided: of reviews that follow one another the first one stands.
FirstReviewStands ==
  [][\A p \in Petitions :
       status[p] \in Decisions /\ status'[p] # status[p] =>
         \E h \in early[p] : work[h].petition = p /\ work'[h] = NoWork]_hrVars

\* However many reviews of a correction overlap, and whichever of them fail, the
\* last thing the employee was told is what the request now says.
Told(p) == {n \in notices[p] : n.of = NoHandler}
LastNoticeTrue ==
  \A p \in Corrections : status[p] \in Decisions =>
    \E n \in Told(p) : n.decision = status[p] /\ \A m \in Told(p) : m.id <= n.id
==============================================================================
