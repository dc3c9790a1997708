--------------------------- MODULE WorkforceProofs ---------------------------
(***************************************************************************)
(* Proofs about HrRequests, MonthReport and Directory, for any number of   *)
(* employees, requests, reviewers, invitations and pushes, any batch, and  *)
(* any month.                                                              *)
(***************************************************************************)
EXTENDS Workforce, FiniteSetTheorems, TLAPS

WorkRecord ==
  [step : {"idle", "invited", "found", "updated", "noted"},
   employee : Employees \cup {NoEmployee}, token : Nat,
   petition : Petitions \cup {NoPetition}, decision : Decisions]

\* The types the accounts and the reviews need; notifications come below.
HrType ==
  /\ invites \in Nat
  /\ invitation \in [Employees -> Nat]
  /\ password \in [Employees -> Nat]
  /\ status \in [Petitions -> Decisions \cup {"none", "pending"}]
  /\ early \in [Petitions -> SUBSET Handlers]
  /\ work \in [Handlers -> WorkRecord]

\* Tokens are numbered as they are given out, and an account follows that order.
TokensInOrder ==
  /\ \A e \in Employees : invitation[e] <= invites /\ password[e] <= invites
  /\ \A h \in Handlers : work[h].step = "invited" =>
       /\ work[h].employee \in Employees
       /\ work[h].token \in 1..invites
       /\ work[h].petition = NoPetition
       /\ invitation[work[h].employee] # NoToken =>
            work[h].token <= invitation[work[h].employee]

\* The link in the row is newer than the password in use, and so is the one a request
\* holds, unless a password was chosen with it or with a newer one since it was found.
PasswordsOrdered ==
  /\ \A e \in Employees : invitation[e] # NoToken => password[e] < invitation[e]
  /\ \A h \in Handlers : work[h].step = "invited" =>
       password[work[h].employee] < work[h].token \/ h \in overtaken

\* Reviews of a request that is decided began before it was.
ReviewsEarly ==
  \A h \in Handlers :
    /\ work[h].step \in {"found", "updated", "noted"} => work[h].petition \in Petitions
    /\ \A p \in Petitions : work[h].petition = p =>
         status[p] # "none" /\ (status[p] \in Decisions => h \in early[p])

HrIInv == HrType /\ TokensInOrder /\ PasswordsOrdered /\ ReviewsEarly

LEMMA NoWorkRecord ==
  /\ NoWork \in WorkRecord /\ NoWork.step = "idle" /\ NoWork.petition = NoPetition
  /\ NoPetition \notin Petitions
BY HrSentinels DEF NoWork, WorkRecord, NoToken, Decisions

LEMMA HrInitIInv == HrInit => HrIInv
<1> SUFFICES ASSUME HrInit PROVE HrIInv
  OBVIOUS
<1>1. \A h \in Handlers : work[h] = NoWork
  BY DEF HrInit
<1>2. HrType
  BY NoWorkRecord DEF HrInit, HrType, NoToken
<1>3. TokensInOrder /\ PasswordsOrdered
  BY <1>1, NoWorkRecord DEF HrInit, TokensInOrder, PasswordsOrdered, NoToken
<1>4. ReviewsEarly
  BY <1>1, NoWorkRecord DEF ReviewsEarly
<1> QED
  BY <1>2, <1>3, <1>4 DEF HrIInv

LEMMA InviteStep ==
  ASSUME HrIInv, NEW e \in Employees, Invite(e)
  PROVE  HrIInv'
<1>1. /\ invites' = invites + 1
      /\ invitation' = [invitation EXCEPT ![e] = invites + 1]
      /\ UNCHANGED <<password, status, early, overtaken, work>>
  BY DEF Invite, petitionRows
<1>2. HrType'
  BY <1>1 DEF HrIInv, HrType
<1>3. \A f \in Employees : invitation'[f] = IF f = e THEN invites + 1 ELSE invitation[f]
  BY <1>1 DEF HrIInv, HrType
<1>4. \A h \in Handlers : work[h].token \in Nat
  BY DEF HrIInv, HrType, WorkRecord
<1>5. TokensInOrder'
  BY <1>1, <1>3, <1>4 DEF HrIInv, HrType, TokensInOrder, NoToken
<1>6. PasswordsOrdered'
  BY <1>1, <1>3 DEF HrIInv, HrType, TokensInOrder, PasswordsOrdered, NoToken
<1>7. ReviewsEarly'
  BY <1>1 DEF HrIInv, ReviewsEarly
<1> QED
  BY <1>2, <1>5, <1>6, <1>7 DEF HrIInv

LEMMA FindInvitationStep ==
  ASSUME HrIInv, NEW h \in Handlers, NEW e \in Employees, FindInvitation(h, e)
  PROVE  HrIInv'
<1> DEFINE w == [NoWork EXCEPT !.step = "invited", !.employee = e, !.token = invitation[e]]
<1>1. /\ invitation[e] \in Nat \ {0} /\ invitation[e] <= invites /\ invites \in Nat
      /\ work' = [work EXCEPT ![h] = w]
      /\ UNCHANGED <<invites, invitation, password, status, early, overtaken>>
  BY DEF FindInvitation, accountRows, petitionRows, HrIInv, HrType, TokensInOrder, NoToken
<1>2. /\ w \in WorkRecord /\ w.step = "invited" /\ w.employee = e
      /\ w.token = invitation[e] /\ w.petition = NoPetition
  BY <1>1, NoWorkRecord DEF NoWork, WorkRecord
<1> HIDE DEF w
<1>3. \A g \in Handlers : work'[g] = IF g = h THEN w ELSE work[g]
  BY <1>1 DEF HrIInv, HrType
<1>4. HrType'
  BY <1>1, <1>2 DEF HrIInv, HrType
<1>5. TokensInOrder'
  BY <1>1, <1>2, <1>3 DEF HrIInv, TokensInOrder
<1>6. PasswordsOrdered'
  BY <1>1, <1>2, <1>3 DEF HrIInv, PasswordsOrdered, NoToken
<1>7. ReviewsEarly'
  BY <1>1, <1>2, <1>3, NoWorkRecord DEF HrIInv, ReviewsEarly
<1> QED
  BY <1>4, <1>5, <1>6, <1>7 DEF HrIInv

LEMMA SetPasswordStep ==
  ASSUME HrIInv, NEW h \in Handlers, SetPassword(h)
  PROVE  HrIInv'
<1> DEFINE e == work[h].employee
<1>1. /\ e \in Employees /\ work[h].token \in 1..invites
      /\ password' = [password EXCEPT ![e] = work[h].token]
      /\ invitation' = [invitation EXCEPT ![e] = NoToken]
      /\ work' = [work EXCEPT ![h] = NoWork]
      /\ UNCHANGED <<invites, status, early>>
  BY DEF SetPassword, petitionRows, HrIInv, TokensInOrder
<1> HIDE DEF e
<1>2. HrType'
  BY <1>1, NoWorkRecord DEF HrIInv, HrType, NoToken
<1>3. /\ \A g \in Handlers : work'[g] = IF g = h THEN NoWork ELSE work[g]
      /\ \A f \in Employees : /\ invitation'[f] = IF f = e THEN 0 ELSE invitation[f]
                              /\ password'[f] = IF f = e THEN work[h].token ELSE password[f]
  BY <1>1 DEF HrIInv, HrType, NoToken
<1>4. TokensInOrder'
  BY <1>1, <1>3, NoWorkRecord DEF HrIInv, HrType, TokensInOrder, NoToken
<1>5. PasswordsOrdered'
  <2>1. \A f \in Employees : invitation'[f] # NoToken => password'[f] < invitation'[f]
    BY <1>3 DEF HrIInv, PasswordsOrdered, NoToken
  <2>2. ASSUME NEW g \in Handlers, work'[g].step = "invited"
        PROVE  password'[work'[g].employee] < work'[g].token \/ g \in overtaken'
    <3>1. g # h /\ work'[g] = work[g] /\ work[g].employee \in Employees
      BY <2>2, <1>3, NoWorkRecord DEF HrIInv, TokensInOrder
    <3>2. CASE work[g].employee = e /\ work[g].token <= work[h].token
      BY <3>1, <3>2 DEF SetPassword, Overtakes, e
    <3>3. CASE work[g].employee = e /\ work[g].token > work[h].token
      BY <1>3, <3>1, <3>3
    <3>4. CASE work[g].employee # e
      BY <1>3, <2>2, <3>1, <3>4 DEF SetPassword, HrIInv, PasswordsOrdered
    <3> QED
      BY <1>1, <3>1, <3>2, <3>3, <3>4 DEF HrIInv, HrType, WorkRecord
  <2> QED
    BY <2>1, <2>2 DEF PasswordsOrdered
<1>6. ReviewsEarly'
  BY <1>1, <1>3, NoWorkRecord DEF HrIInv, ReviewsEarly
<1> QED
  BY <1>2, <1>4, <1>5, <1>6 DEF HrIInv

LEMMA SubmitStep ==
  ASSUME HrIInv, NEW e \in Employees, NEW p \in Petitions, Submit(e, p)
  PROVE  HrIInv'
<1>1. /\ status[p] = "none" /\ status' = [status EXCEPT ![p] = "pending"]
      /\ UNCHANGED <<invites, invitation, password, early, overtaken, work>>
  BY DEF Submit, accountRows
<1>2. HrType'
  BY <1>1 DEF HrIInv, HrType
<1>3. TokensInOrder' /\ PasswordsOrdered'
  BY <1>1 DEF HrIInv, TokensInOrder, PasswordsOrdered
<1>4. ReviewsEarly'
  BY <1>1 DEF HrIInv, HrType, ReviewsEarly, Decisions
<1> QED
  BY <1>2, <1>3, <1>4 DEF HrIInv

LEMMA FindPendingStep ==
  ASSUME HrIInv, NEW h \in Handlers, NEW p \in Petitions, NEW d \in Decisions,
         FindPending(h, p, d)
  PROVE  HrIInv'
<1> DEFINE w == [NoWork EXCEPT !.step = "found", !.petition = p, !.decision = d]
<1>1. /\ status[p] = "pending" /\ work' = [work EXCEPT ![h] = w]
      /\ UNCHANGED <<invites, invitation, password, status, early, overtaken>>
  BY DEF FindPending, accountRows, petitionRows
<1>2. w \in WorkRecord /\ w.step = "found" /\ w.petition = p
  BY NoWorkRecord DEF NoWork, WorkRecord
<1> HIDE DEF w
<1>3. \A g \in Handlers : work'[g] = IF g = h THEN w ELSE work[g]
  BY <1>1 DEF HrIInv, HrType
<1>4. HrType'
  BY <1>1, <1>2 DEF HrIInv, HrType
<1>5. TokensInOrder' /\ PasswordsOrdered'
  BY <1>1, <1>2, <1>3 DEF HrIInv, TokensInOrder, PasswordsOrdered
<1>6. ReviewsEarly'
  BY <1>1, <1>2, <1>3 DEF HrIInv, ReviewsEarly, Decisions
<1> QED
  BY <1>4, <1>5, <1>6 DEF HrIInv

LEMMA ReviewStep ==
  ASSUME HrIInv, NEW h \in Handlers, Review(h)
  PROVE  HrIInv'
<1>1. PICK s \in {"updated", "noted"} : work' = [work EXCEPT ![h].step = s]
  BY DEF Review
<1>2. /\ work[h].step \in {"found", "updated"}
      /\ UNCHANGED <<invites, invitation, password, status, early, overtaken>>
  BY DEF Review, accountRows
<1>3. \A g \in Handlers :
        /\ work'[g].step = IF g = h THEN s ELSE work[g].step
        /\ work'[g].employee = work[g].employee
        /\ work'[g].token = work[g].token
        /\ work'[g].petition = work[g].petition
  BY <1>1 DEF HrIInv, HrType, WorkRecord
<1>4. HrType'
  BY <1>1, <1>2 DEF HrIInv, HrType, WorkRecord
<1>5. TokensInOrder' /\ PasswordsOrdered'
  BY <1>2, <1>3 DEF HrIInv, TokensInOrder, PasswordsOrdered
<1>6. ReviewsEarly'
  BY <1>2, <1>3 DEF HrIInv, ReviewsEarly
<1> QED
  BY <1>4, <1>5, <1>6 DEF HrIInv

LEMMA CommitReviewStep ==
  ASSUME HrIInv, NEW h \in Handlers, CommitReview(h)
  PROVE  HrIInv'
<1> DEFINE p == work[h].petition
<1>1. /\ p \in Petitions /\ work[h].decision \in Decisions
      /\ status' = [status EXCEPT ![p] = work[h].decision]
      /\ early' = [early EXCEPT ![p] =
                     (IF status[p] = "pending" THEN Reviewing(p) ELSE @) \ {h}]
      /\ work' = [work EXCEPT ![h] = NoWork]
      /\ UNCHANGED <<invites, invitation, password, overtaken>>
  BY DEF CommitReview, accountRows, HrIInv, HrType, WorkRecord, ReviewsEarly
<1> HIDE DEF p
<1>2. /\ \A g \in Handlers : work'[g] = IF g = h THEN NoWork ELSE work[g]
      /\ \A q \in Petitions : /\ q = p => status'[q] \in Decisions
                              /\ q # p => status'[q] = status[q] /\ early'[q] = early[q]
      /\ early'[p] = (IF status[p] = "pending" THEN Reviewing(p) ELSE early[p]) \ {h}
  BY <1>1 DEF HrIInv, HrType
<1>3. HrType'
  BY <1>1, NoWorkRecord DEF HrIInv, HrType, Reviewing
<1>4. TokensInOrder' /\ PasswordsOrdered'
  BY <1>1, <1>2, NoWorkRecord DEF HrIInv, TokensInOrder, PasswordsOrdered
<1>5. ReviewsEarly'
  <2> SUFFICES ASSUME NEW g \in Handlers
               PROVE  /\ work'[g].step \in {"found", "updated", "noted"} =>
                           work'[g].petition \in Petitions
                      /\ \A q \in Petitions : work'[g].petition = q =>
                           status'[q] # "none" /\ (status'[q] \in Decisions => g \in early'[q])
    BY DEF ReviewsEarly
  <2>1. CASE g = h
    BY <2>1, <1>2, NoWorkRecord
  <2>2. CASE g # h
    <3>1. work'[g] = work[g]
      BY <2>2, <1>2
    <3>2. ASSUME work[g].petition = p
          PROVE  status'[p] # "none" /\ g \in early'[p]
      <4>1. status[p] \in {"pending"} \cup Decisions
        BY <3>2, <1>1 DEF HrIInv, HrType, ReviewsEarly
      <4>2. g \in Reviewing(p)
        BY <3>2 DEF Reviewing
      <4>3. status[p] \in Decisions => g \in early[p]
        BY <3>2, <1>1 DEF HrIInv, ReviewsEarly
      <4> QED
        BY <4>1, <4>2, <4>3, <1>1, <1>2, <2>2 DEF Decisions
    <3> QED
      BY <3>1, <3>2, <1>2 DEF HrIInv, ReviewsEarly
  <2> QED
    BY <2>1, <2>2
<1> QED
  BY <1>3, <1>4, <1>5 DEF HrIInv

LEMMA GiveUpStep ==
  ASSUME HrIInv, NEW h \in Handlers, GiveUp(h)
  PROVE  HrIInv'
<1>1. /\ early' = [q \in Petitions |-> early[q] \ {h}]
      /\ work' = [work EXCEPT ![h] = NoWork]
      /\ overtaken' = overtaken \ {h}
      /\ UNCHANGED <<invites, invitation, password, status>>
  BY DEF GiveUp, accountRows
<1>2. \A g \in Handlers : work'[g] = IF g = h THEN NoWork ELSE work[g]
  BY <1>1 DEF HrIInv, HrType
<1>3. HrType'
  BY <1>1, NoWorkRecord DEF HrIInv, HrType
<1>4. TokensInOrder' /\ PasswordsOrdered'
  BY <1>1, <1>2, NoWorkRecord DEF HrIInv, TokensInOrder, PasswordsOrdered
<1>5. ReviewsEarly'
  BY <1>1, <1>2, NoWorkRecord DEF HrIInv, ReviewsEarly
<1> QED
  BY <1>3, <1>4, <1>5 DEF HrIInv

LEMMA HrStepIInv == HrIInv /\ [HrNext]_hrVars => HrIInv'
<1> SUFFICES ASSUME HrIInv, [HrNext]_hrVars PROVE HrIInv'
  OBVIOUS
<1>1. ASSUME NEW t \in Tokens, Expire(t) PROVE HrIInv'
  BY <1>1 DEF Expire, petitionRows, HrIInv, HrType, TokensInOrder, PasswordsOrdered, ReviewsEarly
<1>2. CASE UNCHANGED hrVars
  BY <1>2 DEF hrVars, accountRows, petitionRows, HrIInv, HrType, TokensInOrder,
     PasswordsOrdered, ReviewsEarly
<1> QED
  BY <1>1, <1>2, InviteStep, FindInvitationStep, SetPasswordStep, SubmitStep, FindPendingStep,
     ReviewStep, CommitReviewStep, GiveUpStep DEF HrNext

THEOREM HrInvariant == HrSpec => []HrIInv
BY HrInitIInv, HrStepIInv, PTL DEF HrSpec

\* An invitation that is used again, or brings back an older password, was found by its
\* request before the password it replaces was chosen (employee_app.py:214-244).
THEOREM OldInvitationsAreLate == HrSpec => OldInvitationsLose
<1>1. HrIInv /\ [HrNext]_hrVars =>
        [\A h \in Handlers :
           SetPassword(h) => work[h].token > password[work[h].employee] \/ h \in overtaken]_hrVars
  <2> SUFFICES ASSUME HrIInv, NEW h \in Handlers, SetPassword(h)
               PROVE  work[h].token > password[work[h].employee] \/ h \in overtaken
    OBVIOUS
  <2>1. work[h].step = "invited" /\ work[h].employee \in Employees /\ work[h].token \in Nat
    BY DEF SetPassword, HrIInv, HrType, TokensInOrder, WorkRecord
  <2> QED
    BY <2>1 DEF HrIInv, HrType, PasswordsOrdered
<1> QED
  BY <1>1, HrInvariant, PTL DEF HrSpec, OldInvitationsLose

LEMMA Overruler ==
  ASSUME HrIInv, HrNext, NEW p \in Petitions, status[p] \in Decisions, status'[p] # status[p]
  PROVE  \E h \in early[p] : work[h].petition = p /\ work'[h] = NoWork
<1>1. (\E e \in Employees, q \in Petitions : Submit(e, q))
      \/ (\E h \in Handlers : CommitReview(h))
  BY DEF HrNext, Invite, FindInvitation, SetPassword, Expire, FindPending, Review, GiveUp,
     petitionRows
<1>2. ~ \E e \in Employees, q \in Petitions : Submit(e, q)
  BY DEF Submit, HrIInv, HrType, Decisions
<1>3. PICK h \in Handlers : CommitReview(h)
  BY <1>1, <1>2
<1>4. work[h].petition = p /\ work'[h] = NoWork
  BY <1>3 DEF CommitReview, HrIInv, HrType
<1>5. h \in early[p]
  BY <1>4 DEF HrIInv, ReviewsEarly
<1> QED
  BY <1>4, <1>5

\* A decision is overruled only by a review that was under way before the request
\* was first decided (hr.py:55-152).
THEOREM FirstReviewsStand == HrSpec => FirstReviewStands
<1>1. HrIInv /\ [HrNext]_hrVars =>
        [\A p \in Petitions :
           status[p] \in Decisions /\ status'[p] # status[p] =>
             \E h \in early[p] : work[h].petition = p /\ work'[h] = NoWork]_hrVars
  BY Overruler
<1> QED
  BY <1>1, HrInvariant, PTL DEF HrSpec, FirstReviewStands

------------------------------------------------------------------------------

\* Everything HrRequests keeps has its type.
LEMMA HrTypeStep == HrIInv /\ HrTypeOK /\ [HrNext]_hrVars => HrTypeOK'
<1> SUFFICES ASSUME HrIInv, HrTypeOK, [HrNext]_hrVars PROVE HrTypeOK'
  OBVIOUS
<1> USE InvitesAssumption DEF HrTypeOK
<1>1. ASSUME NEW e \in Employees, Invite(e) PROVE HrTypeOK'
  BY <1>1 DEF Invite, petitionRows
<1>2. ASSUME NEW e \in Employees, NEW p \in Petitions, Submit(e, p) PROVE HrTypeOK'
  BY <1>2 DEF Submit, accountRows
<1>3. ASSUME NEW e \in Employees, NEW h \in Handlers, FindInvitation(h, e) PROVE HrTypeOK'
  BY <1>3 DEF FindInvitation, accountRows, petitionRows, NoWork, NoToken, Decisions
<1>4. ASSUME NEW t \in Tokens, Expire(t) PROVE HrTypeOK'
  BY <1>4 DEF Expire, petitionRows
<1>5. ASSUME NEW h \in Handlers, SetPassword(h) PROVE HrTypeOK'
  <2>1. Overtakes(h) \subseteq Handlers
    BY DEF Overtakes
  <2> QED
    BY <1>5, <2>1 DEF SetPassword, petitionRows, NoWork, NoToken, Decisions, HrIInv, TokensInOrder
<1>6. ASSUME NEW h \in Handlers, NEW p \in Petitions, NEW d \in Decisions, FindPending(h, p, d)
      PROVE  HrTypeOK'
  BY <1>6 DEF FindPending, accountRows, petitionRows, NoWork, NoToken
<1>7. ASSUME NEW h \in Handlers, Review(h) PROVE HrTypeOK'
  <2>1. work[h].petition \in Petitions
    BY <1>7 DEF Review, HrIInv, ReviewsEarly
  <2>2. /\ work[h].decision \in Decisions
        /\ work' = [work EXCEPT ![h].step = "updated"] \/ work' = [work EXCEPT ![h].step = "noted"]
        /\ UNCHANGED <<invites, invitation, expired, password, author, status, early, overtaken>>
    BY <1>7 DEF Review, accountRows
  <2>3. work' \in [Handlers -> [step : {"idle", "invited", "found", "updated", "noted"},
                                employee : Employees \cup {NoEmployee}, token : 0..MaxInvites,
                                petition : Petitions \cup {NoPetition}, decision : Decisions]]
    <3>1. PICK s \in {"updated", "noted"} : work' = [work EXCEPT ![h].step = s]
      BY <2>2
    <3> QED
      BY <3>1
  <2>4. rowLock' \in [Petitions -> Handlers \cup {NoHandler}]
    BY <1>7, <2>1 DEF Review, LockPetition, Notify
  <2>5. notices' \in [Petitions -> SUBSET [id : NoticeIds, of : Handlers \cup {NoHandler},
                                           decision : Decisions]]
    <3>1. CASE LockPetition(h)
      BY <3>1 DEF LockPetition
    <3>2. CASE Notify(h)
      BY <2>1, <2>2, <3>2 DEF Notify
    <3> QED
      BY <1>7, <3>1, <3>2 DEF Review
  <2> QED
    BY <2>2, <2>3, <2>4, <2>5
<1>8. ASSUME NEW h \in Handlers, CommitReview(h) PROVE HrTypeOK'
  <2> DEFINE p == work[h].petition
             told == {IF n.of = h THEN [n EXCEPT !.of = NoHandler] ELSE n : n \in notices[p]}
  <2>1. p \in Petitions /\ work[h].decision \in Decisions
    BY <1>8 DEF CommitReview, HrIInv, ReviewsEarly
  <2>2. told \subseteq [id : NoticeIds, of : Handlers \cup {NoHandler}, decision : Decisions]
    BY <2>1
  <2>3. notices' = [notices EXCEPT ![p] = told]
    BY <1>8 DEF CommitReview
  <2>4. early' \in [Petitions -> SUBSET Handlers]
    BY <1>8, <2>1 DEF CommitReview, Reviewing
  <2>5. rowLock' \in [Petitions -> Handlers \cup {NoHandler}]
    BY <1>8 DEF CommitReview, Unlocked
  <2>6. work' = [work EXCEPT ![h] = NoWork] /\ status' = [status EXCEPT ![p] = work[h].decision]
        /\ UNCHANGED <<invites, invitation, expired, password, author, overtaken>>
    BY <1>8 DEF CommitReview, accountRows
  <2> HIDE DEF p, told
  <2> QED
    BY <2>1, <2>2, <2>3, <2>4, <2>5, <2>6 DEF NoWork, NoToken, Decisions
<1>9. ASSUME NEW h \in Handlers, GiveUp(h) PROVE HrTypeOK'
  BY <1>9 DEF GiveUp, Unlocked, accountRows, NoWork, NoToken, Decisions
<1>10. CASE UNCHANGED hrVars
  BY <1>10 DEF hrVars, accountRows, petitionRows
<1> QED
  BY <1>1, <1>2, <1>3, <1>4, <1>5, <1>6, <1>7, <1>8, <1>9, <1>10 DEF HrNext

\* The rows, the notifications and what the handlers remember have their types.
THEOREM HrTypeCorrect == HrSpec => []HrTypeOK
<1>1. HrInit => HrTypeOK
  BY InvitesAssumption DEF HrInit, HrTypeOK, NoWork, NoToken, Decisions
<1> QED
  BY <1>1, HrTypeStep, HrInvariant, PTL DEF HrSpec

\* A review that has written holds the lock of its row; a notification that is not
\* committed is the newest about its request and carries its review's decision.
NoticesLocked ==
  /\ \A h \in Handlers : work[h].step \in {"updated", "noted"} => rowLock[work[h].petition] = h
  /\ \A p \in Petitions : \A n \in notices[p] : n.of # NoHandler =>
       /\ work[n.of].step = "noted" /\ work[n.of].petition = p
       /\ n.decision = work[n.of].decision
       /\ \A m \in notices[p] : m = n \/ m.id < n.id
  /\ \A h \in Handlers : work[h].step = "noted" /\ work[h].petition \in Corrections =>
       \E n \in notices[work[h].petition] : n.of = h

NoticeIInv == HrIInv /\ HrTypeOK /\ NoticesLocked /\ LastNoticeTrue

\* Steps that leave locks, notifications and decisions alone.
LEMMA QuietStep ==
  ASSUME NoticeIInv, UNCHANGED <<rowLock, notices>>,
         \A h \in Handlers : work'[h] = work[h] \/
           (/\ work[h].step \notin {"updated", "noted"}
            /\ work'[h].step \notin {"updated", "noted"}),
         \A p \in Petitions : status'[p] \in Decisions => status'[p] = status[p]
  PROVE  (NoticesLocked /\ LastNoticeTrue)'
<1>1. \A p \in Petitions : \A n \in notices[p] :
        n.of # NoHandler => n.of \in Handlers /\ work'[n.of] = work[n.of]
  BY DEF NoticeIInv, NoticesLocked, HrTypeOK
<1>2. NoticesLocked'
  BY <1>1 DEF NoticeIInv, NoticesLocked
<1>3. LastNoticeTrue'
  BY DEF NoticeIInv, LastNoticeTrue, Told, Petitions
<1> QED
  BY <1>2, <1>3

LEMMA LockNotices ==
  ASSUME NoticeIInv, NEW h \in Handlers, work[h].step = "found", LockPetition(h),
         work' = [work EXCEPT ![h].step = "updated"], UNCHANGED status
  PROVE  (NoticesLocked /\ LastNoticeTrue)'
<1>1. work[h].petition \in Petitions
  BY DEF NoticeIInv, HrIInv, ReviewsEarly
<1>2. \A g \in Handlers : /\ g # h => work'[g] = work[g]
                          /\ work'[h].step = "updated"
                          /\ work'[h].petition = work[h].petition
  BY DEF NoticeIInv, HrTypeOK
<1>3. \A g \in Handlers \ {h} : work[g].step \in {"updated", "noted"} =>
        work[g].petition # work[h].petition
  BY HrSentinels DEF NoticeIInv, NoticesLocked, LockPetition
<1>4. \A p \in Petitions : \A n \in notices[p] :
        n.of # NoHandler => n.of \in Handlers \ {h}
  BY DEF NoticeIInv, NoticesLocked, HrTypeOK
<1>5. notices' = notices
      /\ \A p \in Petitions : rowLock'[p] = IF p = work[h].petition THEN h ELSE rowLock[p]
  BY <1>1 DEF LockPetition, NoticeIInv, HrTypeOK
<1>6. \A g \in Handlers \ {h} : work[g].step \in {"updated", "noted"} => work[g].petition \in Petitions
  BY DEF NoticeIInv, HrIInv, ReviewsEarly
<1>7. NoticesLocked'
  BY <1>1, <1>2, <1>3, <1>4, <1>5, <1>6 DEF NoticeIInv, NoticesLocked
<1>8. LastNoticeTrue'
  BY <1>5 DEF NoticeIInv, LastNoticeTrue, Told
<1> QED
  BY <1>7, <1>8

LEMMA NotifyNotices ==
  ASSUME NoticeIInv, NEW h \in Handlers, work[h].step = "updated", Notify(h),
         work' = [work EXCEPT ![h].step = "noted"], UNCHANGED status
  PROVE  (NoticesLocked /\ LastNoticeTrue)'
<1> DEFINE p == work[h].petition
<1>1. p \in Petitions /\ rowLock[p] = h
  BY DEF NoticeIInv, HrIInv, ReviewsEarly, NoticesLocked
<1>2. \A g \in Handlers : /\ g # h => work'[g] = work[g]
                          /\ work'[h].step = "noted"
                          /\ work'[h].petition = p
                          /\ work'[h].decision = work[h].decision
  BY DEF NoticeIInv, HrTypeOK
<1>3. \A n \in notices[p] : n.of = NoHandler
  <2> SUFFICES ASSUME NEW n \in notices[p], n.of # NoHandler PROVE FALSE
    OBVIOUS
  <2>1. n.of \in Handlers /\ work[n.of].step = "noted" /\ work[n.of].petition = p
    BY <1>1 DEF NoticeIInv, NoticesLocked, HrTypeOK
  <2>2. rowLock[p] = n.of
    BY <2>1 DEF NoticeIInv, NoticesLocked
  <2> QED
    BY <1>1, <2>1, <2>2
<1>4. \A q \in Petitions : \A n \in notices[q] : n.of # NoHandler => n.of \in Handlers \ {h}
  BY DEF NoticeIInv, NoticesLocked, HrTypeOK
<1>5. CASE p \in Leaves /\ UNCHANGED notices
  <2>1. p \notin Corrections
    BY <1>5, KindsAssumption
  <2>2. NoticesLocked'
    BY <1>1, <1>2, <1>4, <1>5, <2>1 DEF NoticeIInv, NoticesLocked, Notify
  <2> QED
    BY <1>5, <2>2 DEF NoticeIInv, LastNoticeTrue, Told
<1>6. ASSUME p \in Corrections, NEW i \in NoticeIds, NextId(p, i),
             notices' = [notices EXCEPT ![p] =
                          @ \cup {[id |-> i, of |-> h, decision |-> work[h].decision]}]
      PROVE  (NoticesLocked /\ LastNoticeTrue)'
  <2> DEFINE new == [id |-> i, of |-> h, decision |-> work[h].decision]
  <2>1. new.id = i /\ new.of = h /\ new.decision = work[h].decision /\ h # NoHandler
    BY HrSentinels
  <2>2. \A q \in Petitions : notices'[q] = IF q = p THEN notices[p] \cup {new} ELSE notices[q]
    BY <1>1, <1>6 DEF NoticeIInv, HrTypeOK
  <2>3. \A n \in notices[p] : n.id < i
    BY <1>6 DEF NextId
  <2>4. UNCHANGED rowLock
    BY DEF Notify
  <2> HIDE DEF new, p
  <2>5. \A g \in Handlers : work'[g].step \in {"updated", "noted"} => rowLock'[work'[g].petition] = g
    BY <1>1, <1>2, <2>4 DEF NoticeIInv, NoticesLocked
  <2>6. ASSUME NEW q \in Petitions, NEW n \in notices'[q], n.of # NoHandler
        PROVE  /\ work'[n.of].step = "noted" /\ work'[n.of].petition = q
               /\ n.decision = work'[n.of].decision
               /\ \A m \in notices'[q] : m = n \/ m.id < n.id
    <3>1. CASE q = p
      BY <3>1, <2>6, <1>2, <1>3, <2>1, <2>2, <2>3
    <3>2. CASE q # p
      BY <3>2, <2>6, <1>2, <1>4, <2>2 DEF NoticeIInv, NoticesLocked
    <3> QED
      BY <3>1, <3>2
  <2>7. ASSUME NEW g \in Handlers, work'[g].step = "noted", work'[g].petition \in Corrections
        PROVE  \E n \in notices'[work'[g].petition] : n.of = g
    <3>1. CASE g = h
      BY <3>1, <1>1, <1>2, <2>1, <2>2
    <3>2. CASE g # h
      BY <3>2, <2>7, <1>2, <2>2 DEF NoticeIInv, NoticesLocked, Petitions
    <3> QED
      BY <3>1, <3>2
  <2>8. NoticesLocked'
    BY <2>5, <2>6, <2>7 DEF NoticesLocked
  <2>9. \A q \in Petitions : Told(q)' = Told(q)
    BY <2>1, <2>2 DEF Told
  <2> QED
    BY <2>8, <2>9 DEF NoticeIInv, LastNoticeTrue, Petitions
<1> QED
  BY <1>5, <1>6 DEF Notify

LEMMA CommitNotices ==
  ASSUME NoticeIInv, NEW h \in Handlers, CommitReview(h)
  PROVE  (NoticesLocked /\ LastNoticeTrue)'
<1> DEFINE p == work[h].petition
           Committed(n) == IF n.of = h THEN [n EXCEPT !.of = NoHandler] ELSE n
<1>1. /\ p \in Petitions /\ rowLock[p] = h /\ h # NoHandler /\ work[h].step = "noted"
      /\ status' = [status EXCEPT ![p] = work[h].decision]
      /\ notices' = [notices EXCEPT ![p] = {Committed(n) : n \in notices[p]}]
      /\ rowLock' = Unlocked(h)
      /\ work' = [work EXCEPT ![h] = NoWork]
  BY HrSentinels DEF CommitReview, NoticeIInv, HrIInv, ReviewsEarly, NoticesLocked
<1>2. \A n \in notices[p] :
        /\ n.of \in {h, NoHandler}
        /\ Committed(n).of = NoHandler /\ Committed(n).id = n.id
        /\ Committed(n).decision = n.decision
  <2> SUFFICES ASSUME NEW n \in notices[p]
               PROVE  /\ n.of \in {h, NoHandler}
                      /\ Committed(n).of = NoHandler /\ Committed(n).id = n.id
                      /\ Committed(n).decision = n.decision
    OBVIOUS
  <2>1. n \in [id : NoticeIds, of : Handlers \cup {NoHandler}, decision : Decisions]
    BY <1>1 DEF NoticeIInv, HrTypeOK
  <2>2. n.of # NoHandler => n.of = h
    <3> SUFFICES ASSUME n.of # NoHandler PROVE n.of = h
      OBVIOUS
    <3>1. n.of \in Handlers /\ work[n.of].step = "noted" /\ work[n.of].petition = p
      BY <1>1, <2>1 DEF NoticeIInv, NoticesLocked
    <3> QED
      BY <1>1, <3>1 DEF NoticeIInv, NoticesLocked
  <2> QED
    BY <2>1, <2>2
<1>3. \A g \in Handlers : work'[g] = IF g = h THEN NoWork ELSE work[g]
  BY <1>1 DEF NoticeIInv, HrTypeOK
<1>4. \A q \in Petitions :
        /\ status'[q] = IF q = p THEN work[h].decision ELSE status[q]
        /\ rowLock[q] # h => rowLock'[q] = rowLock[q]
        /\ q # p => notices'[q] = notices[q]
  BY <1>1 DEF NoticeIInv, HrTypeOK, Unlocked
<1>5. notices'[p] = {Committed(n) : n \in notices[p]}
  BY <1>1 DEF NoticeIInv, HrTypeOK
<1>6. \A m \in notices'[p] :
        m.of = NoHandler /\ \E n \in notices[p] : m.id = n.id /\ m.decision = n.decision
  <2> SUFFICES ASSUME NEW m \in notices'[p]
               PROVE  m.of = NoHandler /\ \E n \in notices[p] : m.id = n.id /\ m.decision = n.decision
    OBVIOUS
  <2>1. PICK n \in notices[p] : m = Committed(n)
    BY <1>5
  <2> HIDE DEF Committed
  <2> QED
    BY <1>2, <2>1
<1>7. \A n \in notices[p] : \E m \in notices'[p] : m.id = n.id /\ m.decision = n.decision
  BY <1>2, <1>5
<1> HIDE DEF p, Committed
<1>8. \A q \in Petitions \ {p} : \A n \in notices[q] : n.of # NoHandler => n.of \in Handlers \ {h}
  BY DEF NoticeIInv, NoticesLocked, HrTypeOK, p
<1>9. \A g \in Handlers \ {h} : work[g].step \in {"updated", "noted"} =>
        work[g].petition \in Petitions \ {p} /\ rowLock[work[g].petition] = g
  BY <1>1 DEF NoticeIInv, HrIInv, ReviewsEarly, NoticesLocked
<1>10. NoticesLocked'
  <2>1. \A g \in Handlers : work'[g].step \in {"updated", "noted"} => rowLock'[work'[g].petition] = g
    BY <1>3, <1>4, <1>9, NoWorkRecord
  <2>2. ASSUME NEW q \in Petitions, NEW n \in notices'[q], n.of # NoHandler
        PROVE  /\ work'[n.of].step = "noted" /\ work'[n.of].petition = q
               /\ n.decision = work'[n.of].decision
               /\ \A m \in notices'[q] : m = n \/ m.id < n.id
    <3>1. q # p
      BY <1>6, <2>2
    <3>2. n \in notices[q] /\ n.of \in Handlers \ {h} /\ notices'[q] = notices[q]
      BY <3>1, <2>2, <1>4, <1>8
    <3>3. work'[n.of] = work[n.of]
      BY <3>2, <1>3
    <3> QED
      BY <3>2, <3>3, <2>2 DEF NoticeIInv, NoticesLocked
  <2>3. ASSUME NEW g \in Handlers, work'[g].step = "noted", work'[g].petition \in Corrections
        PROVE  \E n \in notices'[work'[g].petition] : n.of = g
    <3>1. g # h /\ work'[g] = work[g]
      BY <2>3, <1>3, NoWorkRecord
    <3>2. notices'[work[g].petition] = notices[work[g].petition]
      BY <3>1, <2>3, <1>4, <1>9
    <3> QED
      BY <3>1, <3>2, <2>3 DEF NoticeIInv, NoticesLocked
  <2> QED
    BY <2>1, <2>2, <2>3 DEF NoticesLocked
<1>11. LastNoticeTrue'
  <2> SUFFICES ASSUME NEW q \in Corrections, status'[q] \in Decisions
               PROVE  \E n \in Told(q)' : n.decision = status'[q] /\ \A m \in Told(q)' : m.id <= n.id
    BY DEF LastNoticeTrue
  <2>1. CASE q = p
    <3>1. PICK n \in notices[p] : n.of = h
      BY <2>1, <1>1 DEF NoticeIInv, NoticesLocked, p
    <3>2. n.decision = work[h].decision /\ \A m \in notices[p] : m = n \/ m.id < n.id
      BY <3>1, <1>1 DEF NoticeIInv, NoticesLocked
    <3>3. \A m \in notices[p] : m.id \in Int
      BY <1>1 DEF NoticeIInv, HrTypeOK, NoticeIds
    <3>4. \A m \in notices[p] : m.id <= n.id
      BY <3>2, <3>3
    <3>5. Told(q)' = notices'[p]
      BY <2>1, <1>6 DEF Told
    <3>6. status'[q] = work[h].decision
      BY <2>1, <1>1, <1>4
    <3> QED
      BY <3>2, <3>4, <3>5, <3>6, <1>6, <1>7
  <2>2. CASE q # p
    BY <2>2, <1>4 DEF NoticeIInv, LastNoticeTrue, Told, Petitions
  <2> QED
    BY <2>1, <2>2
<1> QED
  BY <1>10, <1>11

LEMMA GiveUpNotices ==
  ASSUME NoticeIInv, NEW h \in Handlers, GiveUp(h)
  PROVE  (NoticesLocked /\ LastNoticeTrue)'
<1>1. /\ \A g \in Handlers : work'[g] = IF g = h THEN NoWork ELSE work[g]
      /\ \A q \in Petitions :
           /\ notices'[q] = {n \in notices[q] : n.of # h}
           /\ rowLock[q] # h => rowLock'[q] = rowLock[q]
      /\ UNCHANGED status
  BY DEF GiveUp, NoticeIInv, HrTypeOK, Unlocked
<1>2. \A g \in Handlers : work[g].step \in {"updated", "noted"} => work[g].petition \in Petitions
  BY DEF NoticeIInv, HrIInv, ReviewsEarly
<1>3. NoticesLocked'
  <2>1. \A g \in Handlers : work'[g].step \in {"updated", "noted"} => rowLock'[work'[g].petition] = g
    BY <1>1, <1>2, NoWorkRecord DEF NoticeIInv, NoticesLocked
  <2>2. ASSUME NEW q \in Petitions, NEW n \in notices'[q], n.of # NoHandler
        PROVE  /\ work'[n.of].step = "noted" /\ work'[n.of].petition = q
               /\ n.decision = work'[n.of].decision
               /\ \A m \in notices'[q] : m = n \/ m.id < n.id
    <3>1. n \in notices[q] /\ n.of \in Handlers \ {h}
      BY <2>2, <1>1 DEF NoticeIInv, HrTypeOK
    <3> QED
      BY <3>1, <2>2, <1>1 DEF NoticeIInv, NoticesLocked
  <2>3. ASSUME NEW g \in Handlers, work'[g].step = "noted", work'[g].petition \in Corrections
        PROVE  \E n \in notices'[work'[g].petition] : n.of = g
    BY <2>3, <1>1, <1>2, NoWorkRecord DEF NoticeIInv, NoticesLocked
  <2> QED
    BY <2>1, <2>2, <2>3 DEF NoticesLocked
<1>4. \A q \in Petitions : Told(q)' = Told(q)
  BY <1>1, HrSentinels DEF Told
<1>5. LastNoticeTrue'
  BY <1>1, <1>4 DEF NoticeIInv, LastNoticeTrue, Petitions
<1> QED
  BY <1>3, <1>5

LEMMA NoticeStep ==
  ASSUME NoticeIInv, [HrNext]_hrVars
  PROVE  (NoticesLocked /\ LastNoticeTrue)'
<1>1. ASSUME NEW e \in Employees, Invite(e) PROVE (NoticesLocked /\ LastNoticeTrue)'
  BY <1>1, QuietStep DEF Invite, petitionRows
<1>2. ASSUME NEW t \in Tokens, Expire(t) PROVE (NoticesLocked /\ LastNoticeTrue)'
  BY <1>2, QuietStep DEF Expire, petitionRows
<1>3. ASSUME NEW e \in Employees, NEW p \in Petitions, Submit(e, p)
      PROVE  (NoticesLocked /\ LastNoticeTrue)'
  <2>1. \A q \in Petitions : status'[q] \in Decisions => status'[q] = status[q]
    BY <1>3 DEF Submit, NoticeIInv, HrTypeOK, Decisions
  <2> QED
    BY <1>3, <2>1, QuietStep DEF Submit
<1>4. ASSUME NEW e \in Employees, NEW h \in Handlers, FindInvitation(h, e)
      PROVE  (NoticesLocked /\ LastNoticeTrue)'
  <2>1. \A g \in Handlers : work'[g] = work[g] \/
          (/\ work[g].step \notin {"updated", "noted"}
           /\ work'[g].step \notin {"updated", "noted"})
    BY <1>4, NoWorkRecord DEF FindInvitation, NoticeIInv, HrTypeOK, NoWork
  <2> QED
    BY <1>4, <2>1, QuietStep DEF FindInvitation, petitionRows
<1>5. ASSUME NEW h \in Handlers, SetPassword(h) PROVE (NoticesLocked /\ LastNoticeTrue)'
  <2>1. \A g \in Handlers : work'[g] = work[g] \/
          (/\ work[g].step \notin {"updated", "noted"}
           /\ work'[g].step \notin {"updated", "noted"})
    BY <1>5, NoWorkRecord DEF SetPassword, NoticeIInv, HrTypeOK
  <2> QED
    BY <1>5, <2>1, QuietStep DEF SetPassword, petitionRows
<1>6. ASSUME NEW h \in Handlers, NEW p \in Petitions, NEW d \in Decisions, FindPending(h, p, d)
      PROVE  (NoticesLocked /\ LastNoticeTrue)'
  <2>1. \A g \in Handlers : work'[g] = work[g] \/
          (/\ work[g].step \notin {"updated", "noted"}
           /\ work'[g].step \notin {"updated", "noted"})
    BY <1>6, NoWorkRecord DEF FindPending, NoticeIInv, HrTypeOK, NoWork
  <2> QED
    BY <1>6, <2>1, QuietStep DEF FindPending, petitionRows
<1>7. ASSUME NEW h \in Handlers, Review(h) PROVE (NoticesLocked /\ LastNoticeTrue)'
  BY <1>7, LockNotices, NotifyNotices DEF Review
<1>8. CASE UNCHANGED hrVars
  BY <1>8, QuietStep DEF hrVars, petitionRows
<1> QED
  BY <1>1, <1>2, <1>3, <1>4, <1>5, <1>6, <1>7, <1>8, CommitNotices, GiveUpNotices DEF HrNext

\* However reviews of a correction overlap and fail, the last notification the
\* employee has says what the request says (hr.py:55-104).
THEOREM LastNoticesTrue == HrSpec => []LastNoticeTrue
<1>1. HrInit => NoticesLocked /\ LastNoticeTrue
  BY NoWorkRecord DEF HrInit, NoticesLocked, LastNoticeTrue, Petitions, Decisions
<1>2. HrSpec => [](HrIInv /\ HrTypeOK)
  BY HrInvariant, HrTypeCorrect, PTL
<1>3. HrIInv /\ HrTypeOK /\ NoticesLocked /\ LastNoticeTrue /\ [HrNext]_hrVars =>
        (NoticesLocked /\ LastNoticeTrue)'
  BY NoticeStep DEF NoticeIInv
<1> QED
  BY <1>1, <1>2, <1>3, PTL DEF HrSpec

------------------------------------------------------------------------------

\* The rows the month views are made of keep their types.
THEOREM ReportTypeCorrect == ReportSpec => []ReportTypeOK
<1>1. ReportInit => ReportTypeOK
  BY DEF ReportInit, ReportTypeOK
<1>2. ReportTypeOK /\ [ReportNext]_reportVars => ReportTypeOK'
  <2> SUFFICES ASSUME ReportTypeOK, [ReportNext]_reportVars PROVE ReportTypeOK'
    OBVIOUS
  <2>1. ASSUME NEW d \in Days, AddHoliday(d) \/ Hire(d) \/ Terminate(d) PROVE ReportTypeOK'
    BY <2>1 DEF ReportTypeOK, AddHoliday, Hire, Terminate, settings
  <2>2. ASSUME NEW s \in Days, NEW e \in Days, ApproveLeave(s, e) PROVE ReportTypeOK'
    <3>1. [start |-> s, end |-> e] \in [start : Days, end : Days]
      OBVIOUS
    <3> QED
      BY <2>2, <3>1 DEF ReportTypeOK, ApproveLeave, settings
  <2>3. ASSUME NEW m \in Moments(Days), Punch(m) PROVE ReportTypeOK'
    BY <2>3 DEF ReportTypeOK, Punch, settings
  <2>4. ASSUME NEW b \in BOOLEAN, SetActive(b) PROVE ReportTypeOK'
    BY <2>4 DEF ReportTypeOK, SetActive, settings
  <2>5. CASE UNCHANGED reportVars
    BY <2>5 DEF ReportTypeOK, reportVars, rowVars, settings
  <2> QED
    BY <2>1, <2>2, <2>3, <2>4, <2>5 DEF ReportNext
<1> QED
  BY <1>1, <1>2, PTL DEF ReportSpec

\* A cell of the dashboard.
LEMMA CellOfMonth ==
  ASSUME NEW cell \in Dashboard
  PROVE  cell.day \in Month /\ cell.code = Cell(cell.day)
<1>1. PICK d \in Month : cell = [day |-> d, code |-> Cell(d)]
  BY DEF Dashboard
<1> QED
  BY <1>1

LEMMA LeaveDaysCover ==
  ASSUME ReportTypeOK, NEW d \in Month, NEW l \in leaves, l.start <= d, d <= l.end
  PROVE  d \in LeaveDays
<1>1. l.start \in Int /\ l.end \in Int /\ d \in Int /\ First <= d /\ d <= Last
  <2>1. l \in [start : Days, end : Days]
    BY DEF ReportTypeOK
  <2>2. l.start \in Days /\ l.end \in Days
    BY <2>1
  <2>3. l.start \in Int /\ l.end \in Int
    BY <2>2, DaysAssumption
  <2>4. d \in Int /\ First <= d /\ d <= Last
    BY MonthAssumption DEF Month
  <2> QED
    BY <2>3, <2>4
<1>2. l.start <= Last /\ l.end >= First
  BY <1>1, MonthAssumption
<1>3. d \in (IF l.start >= First THEN l.start ELSE First)..(IF l.end <= Last THEN l.end ELSE Last)
  BY <1>1, MonthAssumption
<1> QED
  BY <1>2, <1>3 DEF LeaveDays

LEMMA TimesheetPunched ==
  ASSUME NEW r \in Timesheet
  PROVE  PunchesOn(r.day) # {}
<1> DEFINE inPeriod == {m \in punches : m >= First * PerDay /\ m < (Last + 1) * PerDay}
<1>1. PICK m \in inPeriod : r = Row(DayOf(m), {n \in inPeriod : DayOf(n) = DayOf(m)})
  BY DEF Timesheet
<1>2. r.day = DayOf(m)
  BY <1>1 DEF Row
<1> QED
  BY <1>2 DEF PunchesOn

\* A day the dashboard shows as absent is no day off, is not covered by an approved leave and has
\* no row in the timesheet, whatever the month (attendance.py:48-312).
THEOREM AbsencesReal == ReportSpec => []AbsentIsAbsent
<1>1. ReportTypeOK => AbsentIsAbsent
  <2> SUFFICES ASSUME ReportTypeOK, NEW d \in Month, Cell(d) = "A"
               PROVE  /\ d \notin holidays
                      /\ ~ \E l \in leaves : l.start <= d /\ d <= l.end
                      /\ ~ \E line \in Timesheet : line.day = d
    BY CellOfMonth DEF AbsentIsAbsent
  <2>1. d \notin holidays /\ d \notin LeaveDays /\ PunchesOn(d) = {}
    BY DEF Cell, StatusFor
  <2> QED
    BY <2>1, LeaveDaysCover, TimesheetPunched
<1> QED
  BY <1>1, ReportTypeCorrect, PTL

LEMMA ProductMonotone ==
  ASSUME NEW a \in Int, NEW b \in Int, NEW P \in Nat, a <= b
  PROVE  a * P <= b * P
BY Z3

LEMMA DivisionBounds ==
  ASSUME NEW m \in Int, NEW P \in Nat \ {0}
  PROVE  m \div P \in Int /\ (m \div P) * P <= m /\ m < (m \div P + 1) * P
BY Z3

\* DATE(punched_at) = d is the same as the interval from d to the next day.
LEMMA DayIsInterval ==
  ASSUME NEW m \in Int, NEW d \in Int
  PROVE  DayOf(m) = d <=> d * PerDay <= m /\ m < (d + 1) * PerDay
<1> DEFINE e == DayOf(m)
<1>1. /\ PerDay \in Nat \ {0} /\ e \in Int
      /\ e * PerDay <= m /\ m < (e + 1) * PerDay
  BY ClockAssumption, DivisionBounds DEF DayOf
<1>2. /\ d * PerDay \in Int /\ (d + 1) * PerDay \in Int
      /\ e * PerDay \in Int /\ (e + 1) * PerDay \in Int
  BY <1>1
<1> HIDE DEF e
<1>3. ASSUME d * PerDay <= m, m < (d + 1) * PerDay, d < e PROVE FALSE
  <2>1. (d + 1) * PerDay <= e * PerDay
    BY <1>1, <1>3, ProductMonotone
  <2> QED
    BY <1>1, <1>2, <1>3, <2>1
<1>4. ASSUME d * PerDay <= m, m < (d + 1) * PerDay, e < d PROVE FALSE
  <2>1. (e + 1) * PerDay <= d * PerDay
    BY <1>1, <1>4, ProductMonotone
  <2> QED
    BY <1>1, <1>2, <1>4, <2>1
<1>5. d * PerDay <= m /\ m < (d + 1) * PerDay => e = d
  BY <1>1, <1>3, <1>4
<1> QED
  BY <1>1, <1>5 DEF e

\* The three views look at the same punches of a day.
LEMMA SamePunches ==
  ASSUME ReportTypeOK, NEW d \in Month
  PROVE  /\ PunchesOn(d) = {m \in punches : m >= d * PerDay /\ m < (d + 1) * PerDay}
         /\ {r \in Timesheet : r.day = d} =
              IF PunchesOn(d) = {} THEN {} ELSE {Row(d, PunchesOn(d))}
<1> DEFINE inPeriod == {m \in punches : m >= First * PerDay /\ m < (Last + 1) * PerDay}
<1>1. /\ PerDay \in Nat \ {0} /\ d \in Int /\ First \in Int /\ Last \in Int
      /\ First <= d /\ d + 1 <= Last + 1
  BY ClockAssumption, MonthAssumption DEF Month
<1>2. First * PerDay <= d * PerDay /\ (d + 1) * PerDay <= (Last + 1) * PerDay
  BY <1>1, ProductMonotone
<1>3. /\ First * PerDay \in Int /\ d * PerDay \in Int
      /\ (d + 1) * PerDay \in Int /\ (Last + 1) * PerDay \in Int
  BY <1>1
<1>4. \A m \in punches : m \in Int
  <2> SUFFICES ASSUME NEW m \in punches PROVE m \in Int
    OBVIOUS
  <2>1. PICK x \in Days, i \in 0..PerDay - 1 : m = x * PerDay + i
    BY DEF ReportTypeOK, Moments
  <2> QED
    BY <1>1, <2>1, DaysAssumption
<1>5. PunchesOn(d) = {m \in punches : m >= d * PerDay /\ m < (d + 1) * PerDay}
  BY <1>1, <1>2, <1>3, <1>4, DayIsInterval DEF PunchesOn
<1>6. {m \in inPeriod : DayOf(m) = d} = PunchesOn(d)
  BY DEF PunchesOn
<1>7. \A r \in Timesheet : r.day = d => PunchesOn(d) # {} /\ r = Row(d, PunchesOn(d))
  <2> SUFFICES ASSUME NEW r \in Timesheet, r.day = d
               PROVE  PunchesOn(d) # {} /\ r = Row(d, PunchesOn(d))
    OBVIOUS
  <2>1. PICK m \in inPeriod : r = Row(DayOf(m), {n \in inPeriod : DayOf(n) = DayOf(m)})
    BY DEF Timesheet
  <2>2. DayOf(m) = d
    BY <2>1 DEF Row
  <2> QED
    BY <1>6, <2>1, <2>2
<1>8. PunchesOn(d) # {} => Row(d, PunchesOn(d)) \in Timesheet /\ Row(d, PunchesOn(d)).day = d
  <2> SUFFICES ASSUME NEW m \in PunchesOn(d)
               PROVE  Row(d, PunchesOn(d)) \in Timesheet /\ Row(d, PunchesOn(d)).day = d
    OBVIOUS
  <2>1. m \in inPeriod /\ DayOf(m) = d
    BY DEF PunchesOn
  <2>2. Row(d, {n \in inPeriod : DayOf(n) = d}) \in Timesheet
    BY <2>1 DEF Timesheet
  <2> QED
    BY <1>6, <2>2 DEF Row
<1> QED
  BY <1>5, <1>7, <1>8

\* Timesheets and today's card agree about every day of any month, and the dashboard
\* agrees with them about every employee it has cells for (attendance.py:48-312,
\* employee_app.py:300-444).
THEOREM ViewsAgreeAlways == ReportSpec => []ViewsAgree
<1>1. ReportTypeOK => ViewsAgree
  <2> SUFFICES ASSUME ReportTypeOK PROVE ViewsAgree
    OBVIOUS
  <2> DEFINE R(d) == {r \in Timesheet : r.day = d}
  <2>1. ASSUME NEW d \in Month
        PROVE  /\ Cardinality(R(d)) <= 1
               /\ Cell(d) = "P" => R(d) # {}
               /\ R(d) # {} => Cell(d) \in CellCodes \ {"A"}
               /\ R(d) = {} <=> Today(d).status = "absent"
               /\ \A r \in R(d) : Today(d) = [status |-> r.status, worked |-> r.worked]
    <3>1. /\ Cell(d) \in CellCodes
          /\ Cell(d) = "P" => PunchesOn(d) # {}
          /\ Cell(d) = "A" => PunchesOn(d) = {}
      BY DEF Cell, StatusFor, CellCodes
    <3>2. CASE PunchesOn(d) = {}
      <4>1. R(d) = {}
        BY <3>2, SamePunches
      <4>2. Today(d).status = "absent"
        BY <3>2, SamePunches DEF Today
      <4>3. Cardinality(R(d)) = 0
        BY <4>1, FS_EmptySet
      <4> QED
        BY <3>1, <3>2, <4>1, <4>2, <4>3
    <3>3. CASE PunchesOn(d) # {}
      <4>1. R(d) = {Row(d, PunchesOn(d))}
        BY <3>3, SamePunches
      <4>2. Today(d) = [status |-> Row(d, PunchesOn(d)).status,
                        worked |-> Row(d, PunchesOn(d)).worked]
        BY <3>3, SamePunches DEF Today
      <4>3. Row(d, PunchesOn(d)).status \in {"missing_checkout", "present"}
        BY DEF Row
      <4>4. Today(d).status # "absent"
        BY <4>2, <4>3
      <4>5. Cardinality(R(d)) = 1
        BY <4>1, FS_Singleton
      <4> HIDE DEF R
      <4> QED
        BY <3>1, <3>3, <4>1, <4>2, <4>4, <4>5
    <3> QED
      BY <3>2, <3>3
  <2> HIDE DEF R
  <2>2. ASSUME NEW d \in Month
        PROVE  \A cell \in Dashboard : cell.day = d =>
                 /\ cell.code = "P" => R(d) # {}
                 /\ R(d) # {} => cell.code \in CellCodes \ {"A"}
    BY <2>1, CellOfMonth
  <2> QED
    BY <2>1, <2>2 DEF ViewsAgree, R
<1> QED
  BY <1>1, ReportTypeCorrect, PTL

------------------------------------------------------------------------------

PushRecord ==
  [step : {"idle", "match", "update", "insert", "aborted"}, todo : Seq(Items),
   create : BOOLEAN, target : Ids \cup {NoId}, done : Seq(Rows), skipped : BOOLEAN]

DirectoryType ==
  /\ row \in [Ids -> Rows \cup {NoRow}]
  /\ push \in [Pushes -> PushRecord]
  /\ DOMAIN own = Pushes
  /\ \A r \in Pushes : DOMAIN own[r] \subseteq Ids /\ \A i \in DOMAIN own[r] : own[r][i] \in Rows
  /\ overlapped \subseteq Odoos

\* The rows a push has written are rows it has counted, and a counted row that is not
\* there any more was taken by a later employee of the same list.
DoneIsOwn(r) ==
  /\ \A i \in DOMAIN own[r] : \E k \in DOMAIN push[r].done : own[r][i] = push[r].done[k]
  /\ \A j \in DOMAIN push[r].done :
       \/ \E i \in DOMAIN own[r] : own[r][i] = push[r].done[j]
       \/ \E k \in DOMAIN push[r].done : k > j /\ SameAs(push[r].done[j], push[r].done[k])

\* A push meets a row of its own again by odoo_id, PIN or code, and only one that
\* creates employees and has counted a skip is aborted.
TargetFound(r) ==
  /\ push[r].step \in {"update", "insert"} => push[r].todo # <<>>
  /\ push[r].step = "insert" => push[r].create
  /\ push[r].step = "aborted" => push[r].create /\ push[r].skipped
  /\ push[r].step = "update" =>
       /\ push[r].target \in Ids
       /\ View(r)[push[r].target] # NoRow
       /\ push[r].target \in DOMAIN own[r] => SameAs(own[r][push[r].target], Head(push[r].todo))

DirIInv == DirectoryType /\ \A r \in Pushes : DoneIsOwn(r) /\ TargetFound(r)

LEMMA BatchFacts ==
  ASSUME NEW b \in Batches
  PROVE  b \in Seq(Items)
<1>1. PICK n \in 1..MaxBatch : b \in [1..n -> Items]
  BY DEF Batches
<1>2. n \in Nat
  BY <1>1
<1> QED
  BY <1>1, <1>2

LEMMA NoPushFacts ==
  /\ NoPush \in PushRecord /\ NoPush.step = "idle" /\ NoPush.todo = <<>> /\ NoPush.done = <<>>
  /\ DOMAIN Nothing = {}
BY DEF NoPush, PushRecord, Nothing

LEMMA HeadTail ==
  ASSUME NEW s \in Seq(Items), s # <<>>
  PROVE  /\ Head(s) = s[1] /\ s[1] \in Items /\ 1 \in DOMAIN s
         /\ Tail(s) \in Seq(Items)
         /\ \A k \in DOMAIN Tail(s) : Tail(s)[k] = s[k + 1] /\ k + 1 \in DOMAIN s
OBVIOUS

LEMMA AppendFacts ==
  ASSUME NEW s \in Seq(Rows), NEW v \in Rows
  PROVE  /\ Append(s, v) \in Seq(Rows)
         /\ Len(s) + 1 \in DOMAIN Append(s, v) /\ Append(s, v)[Len(s) + 1] = v
         /\ \A j \in DOMAIN s : j \in DOMAIN Append(s, v) /\ Append(s, v)[j] = s[j] /\ Len(s) + 1 > j
         /\ \A j \in DOMAIN Append(s, v) : j = Len(s) + 1 \/ j \in DOMAIN s
OBVIOUS

LEMMA HeadIsItem ==
  ASSUME DirectoryType, NEW r \in Pushes, push[r].todo # <<>>
  PROVE  Head(push[r].todo) \in Items /\ Tail(push[r].todo) \in Seq(Items)
<1>1. push[r].todo \in Seq(Items)
  BY DEF DirectoryType, PushRecord
<1> QED
  BY <1>1, HeadTail

LEMMA DirInitIInv == DirectoryInit => DirIInv
<1> SUFFICES ASSUME DirectoryInit PROVE DirIInv
  OBVIOUS
<1>1. DirectoryType
  BY NoPushFacts DEF DirectoryInit, DirectoryType
<1>2. \A r \in Pushes : push[r] = NoPush /\ own[r] = Nothing
  BY DEF DirectoryInit
<1>3. \A r \in Pushes : DoneIsOwn(r) /\ TargetFound(r)
  BY <1>2, NoPushFacts DEF DoneIsOwn, TargetFound
<1> QED
  BY <1>1, <1>3 DEF DirIInv

\* What a push relies on concerns its own entries only.
LEMMA OthersKept ==
  ASSUME DirIInv, NEW q \in Pushes, push'[q] = push[q], own'[q] = own[q],
         \A i \in Ids : row[i] # NoRow => row'[i] # NoRow
  PROVE  (DoneIsOwn(q) /\ TargetFound(q))'
<1>1. DoneIsOwn(q)'
  BY DEF DirIInv, DoneIsOwn
<1>2. TargetFound(q)'
  BY DEF DirIInv, TargetFound, View
<1> QED
  BY <1>1, <1>2

LEMMA RollbackStep ==
  ASSUME DirIInv, NEW r \in Pushes, Rollback(r), UNCHANGED overlapped,
         row' \in [Ids -> Rows \cup {NoRow}],
         \A i \in Ids : row[i] # NoRow => row'[i] # NoRow
  PROVE  DirIInv'
<1>1. /\ push'[r] = NoPush /\ own'[r] = Nothing
      /\ \A q \in Pushes : q # r => push'[q] = push[q] /\ own'[q] = own[q]
  BY DEF Rollback, DirIInv, DirectoryType
<1>2. DirectoryType'
  BY <1>1, NoPushFacts DEF Rollback, DirIInv, DirectoryType
<1>3. \A q \in Pushes : (DoneIsOwn(q) /\ TargetFound(q))'
  <2>1. (DoneIsOwn(r) /\ TargetFound(r))'
    BY <1>1, NoPushFacts DEF DoneIsOwn, TargetFound
  <2> QED
    BY <1>1, <2>1, OthersKept
<1> QED
  BY <1>2, <1>3 DEF DirIInv

\* A step that changes the entries of one push, with what has to be shown of them.
LEMMA OwnStep ==
  ASSUME DirIInv, NEW r \in Pushes, UNCHANGED row, overlapped' \subseteq Odoos,
         NEW P \in PushRecord, push' = [push EXCEPT ![r] = P],
         DOMAIN own' = Pushes, \A q \in Pushes \ {r} : own'[q] = own[q],
         DOMAIN own'[r] \subseteq Ids, \A i \in DOMAIN own'[r] : own'[r][i] \in Rows,
         (DoneIsOwn(r) /\ TargetFound(r))'
  PROVE  DirIInv'
<1>1. \A q \in Pushes : push'[q] = IF q = r THEN P ELSE push[q]
  BY DEF DirIInv, DirectoryType
<1>2. DirectoryType'
  BY <1>1 DEF DirIInv, DirectoryType
<1>3. \A q \in Pushes : (DoneIsOwn(q) /\ TargetFound(q))'
  BY <1>1, OthersKept
<1> QED
  BY <1>2, <1>3 DEF DirIInv

LEMMA PushStep ==
  ASSUME DirIInv, NEW r \in Pushes, NEW b \in Batches, NEW create \in BOOLEAN,
         Push(r, b, create)
  PROVE  DirIInv'
<1> DEFINE P == [NoPush EXCEPT !.step = "match", !.todo = b, !.create = create]
<1>1. P \in PushRecord /\ P.step = "match" /\ P.done = <<>>
  BY BatchFacts, NoPushFacts DEF NoPush, PushRecord
<1>2. push' = [push EXCEPT ![r] = P] /\ UNCHANGED <<row, own>>
  BY DEF Push
<1> HIDE DEF P
<1>3. overlapped' \subseteq Odoos
  <2>1. \A k \in DOMAIN b : b[k] \in Items
    BY BatchFacts
  <2>2. \A e \in Range(b) : e.odoo \in Odoos
    BY <2>1 DEF Range, Items
  <2> QED
    BY <2>2 DEF Push, DirIInv, DirectoryType
<1>4. push'[r] = P
  BY <1>2 DEF DirIInv, DirectoryType
<1>5. push[r].done = <<>>
  BY NoPushFacts DEF Push
<1>6. DoneIsOwn(r)' /\ TargetFound(r)'
  BY <1>1, <1>2, <1>4, <1>5 DEF DirIInv, DoneIsOwn, TargetFound
<1> QED
  BY <1>1, <1>2, <1>3, <1>6, OwnStep DEF DirIInv, DirectoryType

\* Whatever a push finds, of its own or of others, it finds by something they share.
LEMMA FoundIsSame ==
  ASSUME NEW r \in Pushes, NEW e, NEW i \in Matches(r, e)
  PROVE  i \in Ids /\ View(r)[i] # NoRow /\ SameAs(View(r)[i], e)
BY DEF Matches, SameAs

LEMMA MatchStep ==
  ASSUME DirIInv, NEW r \in Pushes, Match(r)
  PROVE  DirIInv'
<1> DEFINE e == Head(push[r].todo)
<1>1. /\ push[r] \in PushRecord /\ push[r].todo # <<>> /\ push[r].step = "match"
      /\ UNCHANGED <<row, own, overlapped>>
  BY DEF Match, DirIInv, DirectoryType
<1>2. ASSUME NEW i \in Matches(r, e), push' = [push EXCEPT ![r].step = "update", ![r].target = i]
      PROVE  DirIInv'
  <2> DEFINE P == [push[r] EXCEPT !.step = "update", !.target = i]
  <2>1. i \in Ids /\ View(r)[i] # NoRow /\ SameAs(View(r)[i], e)
    BY FoundIsSame
  <2>2. /\ P \in PushRecord /\ P.step = "update" /\ P.target = i /\ P.todo = push[r].todo
        /\ P.done = push[r].done
    BY <1>1, <2>1 DEF PushRecord
  <2>3. push' = [push EXCEPT ![r] = P]
    BY <1>2
  <2> HIDE DEF P
  <2>4. push'[r] = P
    BY <2>3 DEF DirIInv, DirectoryType
  <2>5. DoneIsOwn(r)'
    BY <1>1, <2>2, <2>4 DEF DirIInv, DoneIsOwn
  <2>6. TargetFound(r)'
    BY <1>1, <2>1, <2>2, <2>4 DEF TargetFound, View
  <2> QED
    BY <1>1, <2>2, <2>3, <2>5, <2>6, OwnStep DEF DirIInv, DirectoryType
<1>3. ASSUME push[r].create, push' = [push EXCEPT ![r].step = "insert"] PROVE DirIInv'
  <2> DEFINE P == [push[r] EXCEPT !.step = "insert"]
  <2>1. /\ P \in PushRecord /\ P.step = "insert" /\ P.todo = push[r].todo /\ P.done = push[r].done
        /\ P.create = push[r].create
    BY <1>1 DEF PushRecord
  <2>2. push' = [push EXCEPT ![r] = P]
    BY <1>3
  <2> HIDE DEF P
  <2>3. push'[r] = P
    BY <2>2 DEF DirIInv, DirectoryType
  <2>4. DoneIsOwn(r)' /\ TargetFound(r)'
    BY <1>1, <1>3, <2>1, <2>3 DEF DirIInv, DoneIsOwn, TargetFound
  <2> QED
    BY <1>1, <2>1, <2>2, <2>4, OwnStep DEF DirIInv, DirectoryType
<1>4. ASSUME push' = [push EXCEPT ![r].todo = Tail(@), ![r].skipped = TRUE] PROVE DirIInv'
  <2> DEFINE P == [push[r] EXCEPT !.todo = Tail(@), !.skipped = TRUE]
  <2>1. P \in PushRecord /\ P.step = "match" /\ P.done = push[r].done
    BY <1>1, HeadIsItem DEF PushRecord, DirIInv
  <2>2. push' = [push EXCEPT ![r] = P]
    BY <1>4
  <2> HIDE DEF P
  <2>3. push'[r] = P
    BY <2>2 DEF DirIInv, DirectoryType
  <2>4. DoneIsOwn(r)' /\ TargetFound(r)'
    BY <1>1, <2>1, <2>3 DEF DirIInv, DoneIsOwn, TargetFound
  <2> QED
    BY <1>1, <2>1, <2>2, <2>4, OwnStep DEF DirIInv, DirectoryType
<1> QED
  BY <1>2, <1>3, <1>4 DEF Match

\* Storing the next employee in a row the push has not written, or that it shares.
LEMMA StoredStep ==
  ASSUME DirIInv, NEW r \in Pushes, push[r].todo # <<>>, push[r].step \in {"update", "insert"},
         NEW i \in Ids, NEW v \in Rows,
         v.odoo = Head(push[r].todo).odoo, v.pin = Head(push[r].todo).pin,
         i \in DOMAIN own[r] => SameAs(own[r][i], v),
         Stored(r, Head(push[r].todo), i, v), UNCHANGED <<row, overlapped>>
  PROVE  DirIInv'
<1>0. PICK e \in Items : e = Head(push[r].todo)
  BY HeadIsItem DEF DirIInv
<1>1. push[r] \in PushRecord /\ push[r].done \in Seq(Rows)
  BY DEF DirIInv, DirectoryType, PushRecord
<1>2. [e EXCEPT !.code = v.code] = v
  BY <1>0 DEF Items, Rows
<1> DEFINE s == push[r].done
           P == [push[r] EXCEPT !.step = "match", !.todo = Tail(@), !.target = NoId,
                                !.done = Append(@, v)]
           new == [j \in DOMAIN own[r] \cup {i} |-> IF j = i THEN v ELSE own[r][j]]
<1>3. P \in PushRecord /\ P.step = "match" /\ P.done = Append(s, v)
  BY <1>1, HeadIsItem, AppendFacts DEF PushRecord, DirIInv
<1>4. push' = [push EXCEPT ![r] = P] /\ own' = [own EXCEPT ![r] = new]
  BY <1>0, <1>2 DEF Stored
<1> HIDE DEF P
<1>5. /\ push'[r] = P /\ own'[r] = new /\ DOMAIN own' = Pushes
      /\ \A q \in Pushes \ {r} : own'[q] = own[q]
  BY <1>4 DEF DirIInv, DirectoryType
<1>6. /\ DOMAIN own'[r] = DOMAIN own[r] \cup {i} /\ own'[r][i] = v
      /\ \A j \in DOMAIN own[r] : j # i => own'[r][j] = own[r][j]
  BY <1>5
<1> HIDE DEF new
<1>7. DOMAIN own'[r] \subseteq Ids /\ \A j \in DOMAIN own'[r] : own'[r][j] \in Rows
  BY <1>6 DEF DirIInv, DirectoryType
<1>8. DoneIsOwn(r)'
  <2>1. /\ Len(s) + 1 \in DOMAIN Append(s, v) /\ Append(s, v)[Len(s) + 1] = v
        /\ \A j \in DOMAIN s : j \in DOMAIN Append(s, v) /\ Append(s, v)[j] = s[j] /\ Len(s) + 1 > j
        /\ \A j \in DOMAIN Append(s, v) : j = Len(s) + 1 \/ j \in DOMAIN s
    BY <1>1, AppendFacts
  <2>2. push'[r].done = Append(s, v)
    BY <1>3, <1>5
  <2>3. \A j \in DOMAIN own'[r] : \E k \in DOMAIN push'[r].done : own'[r][j] = push'[r].done[k]
    BY <1>6, <2>1, <2>2 DEF DirIInv, DoneIsOwn
  <2>4. ASSUME NEW j \in DOMAIN s
        PROVE  \/ \E l \in DOMAIN own'[r] : own'[r][l] = push'[r].done[j]
               \/ \E k \in DOMAIN push'[r].done :
                    k > j /\ SameAs(push'[r].done[j], push'[r].done[k])
    <3>1. CASE \E k \in DOMAIN s : k > j /\ SameAs(s[j], s[k])
      BY <2>1, <2>2, <3>1
    <3>2. ASSUME NEW l \in DOMAIN own[r], own[r][l] = s[j], l # i
          PROVE  own'[r][l] = push'[r].done[j] /\ l \in DOMAIN own'[r]
      BY <1>6, <2>1, <2>2, <3>2
    <3>3. ASSUME i \in DOMAIN own[r], own[r][i] = s[j]
          PROVE  /\ Len(s) + 1 \in DOMAIN push'[r].done /\ Len(s) + 1 > j
                 /\ SameAs(push'[r].done[j], push'[r].done[Len(s) + 1])
      BY <2>1, <2>2, <3>3
    <3> QED
      BY <3>1, <3>2, <3>3 DEF DirIInv, DoneIsOwn
  <2>5. i \in DOMAIN own'[r] /\ own'[r][i] = push'[r].done[Len(s) + 1]
    BY <1>6, <2>1, <2>2
  <2> HIDE DEF s
  <2>6. \A j \in DOMAIN push'[r].done :
          \/ \E l \in DOMAIN own'[r] : own'[r][l] = push'[r].done[j]
          \/ \E k \in DOMAIN push'[r].done : k > j /\ SameAs(push'[r].done[j], push'[r].done[k])
    BY <2>1, <2>2, <2>4, <2>5
  <2> QED
    BY <2>3, <2>6 DEF DoneIsOwn
<1>9. TargetFound(r)'
  BY <1>3, <1>5 DEF TargetFound
<1> QED
  BY <1>3, <1>4, <1>5, <1>7, <1>8, <1>9, OwnStep DEF DirIInv, DirectoryType

LEMMA UpdateStep ==
  ASSUME DirIInv, NEW r \in Pushes, Update(r)
  PROVE  DirIInv'
<1> DEFINE e == Head(push[r].todo)
           i == push[r].target
           v == Updated(View(r)[i], e)
<1>1. /\ push[r].step = "update" /\ push[r].todo # <<>> /\ i \in Ids
      /\ View(r)[i] # NoRow
      /\ i \in DOMAIN own[r] => SameAs(own[r][i], e)
      /\ UNCHANGED <<row, overlapped>>
  BY DEF Update, DirIInv, TargetFound
<1>2. CASE Rollback(r)
  BY <1>1, <1>2, RollbackStep DEF DirIInv, DirectoryType
<1>3. CASE Stored(r, e, i, v)
  <2>1. e \in Items
    BY <1>1, HeadIsItem DEF DirIInv
  <2>2. View(r)[i] \in Rows
    BY <1>1 DEF View, DirIInv, DirectoryType
  <2>3. v \in Rows /\ v.odoo = e.odoo /\ v.pin = e.pin
    BY <2>1, <2>2 DEF Updated, Rows, Items
  <2>4. ASSUME i \in DOMAIN own[r] PROVE SameAs(own[r][i], v)
    <3>1. View(r)[i] = own[r][i] /\ SameAs(own[r][i], e)
      BY <1>1, <2>4 DEF View
    <3>2. v.code = IF e.code = NoCode THEN own[r][i].code ELSE e.code
      BY <3>1 DEF Updated
    <3> QED
      BY <2>3, <3>1, <3>2 DEF SameAs
  <2> HIDE DEF v
  <2> QED
    BY <1>1, <1>3, <2>3, <2>4, StoredStep
<1> QED
  BY <1>2, <1>3 DEF Update

LEMMA InsertStep ==
  ASSUME DirIInv, NEW r \in Pushes, Insert(r)
  PROVE  DirIInv'
<1> DEFINE e == Head(push[r].todo)
           v == Inserted(e)
<1>1. PICK i \in Ids : Free(i) /\ Stored(r, e, i, v)
  BY DEF Insert
<1>2. push[r].step = "insert" /\ push[r].todo # <<>> /\ UNCHANGED <<row, overlapped>>
  BY DEF Insert, DirIInv, TargetFound
<1>3. e \in Items
  BY <1>2, HeadIsItem DEF DirIInv
<1>4. v \in Rows /\ v.odoo = e.odoo /\ v.pin = e.pin
  BY <1>3 DEF Inserted, Rows, Items
<1>5. i \notin DOMAIN own[r]
  BY <1>1 DEF Free
<1> HIDE DEF v
<1> QED
  BY <1>1, <1>2, <1>4, <1>5, StoredStep

LEMMA InsertFailsStep ==
  ASSUME DirIInv, NEW r \in Pushes, InsertFails(r)
  PROVE  DirIInv'
<1> DEFINE P == [push[r] EXCEPT !.step = "aborted", !.todo = Tail(@), !.skipped = TRUE]
<1>1. /\ push[r] \in PushRecord /\ push[r].todo # <<>> /\ push[r].create
      /\ push' = [push EXCEPT ![r] = P] /\ UNCHANGED <<row, own, overlapped>>
  BY DEF InsertFails, DirIInv, DirectoryType, TargetFound
<1>2. /\ P \in PushRecord /\ P.step = "aborted" /\ P.done = push[r].done
      /\ P.create = push[r].create /\ P.skipped
  BY <1>1, HeadIsItem DEF PushRecord, DirIInv
<1> HIDE DEF P
<1>3. push'[r] = P
  BY <1>1 DEF DirIInv, DirectoryType
<1>4. DoneIsOwn(r)'
  BY <1>1, <1>2, <1>3 DEF DirIInv, DoneIsOwn
<1>5. push'[r].step = "aborted" /\ push'[r].create /\ push'[r].skipped
  BY <1>1, <1>2, <1>3
<1>6. TargetFound(r)'
  BY <1>5 DEF TargetFound
<1> QED
  BY <1>1, <1>2, <1>4, <1>6, OwnStep DEF DirIInv, DirectoryType

\* What an answer leaves in the table.
LEMMA AnswerRows ==
  ASSUME DirIInv, NEW r \in Pushes, Answer(r)
  PROVE  /\ row' \in [Ids -> Rows \cup {NoRow}]
         /\ \A i \in Ids : row[i] # NoRow => row'[i] # NoRow
         /\ push[r].step = "match" => \A i \in DOMAIN own[r] : i \in Ids /\ row'[i] = own[r][i]
<1>1. row' = View(r) \/ (row' = row /\ push[r].step # "match")
  BY DEF Answer
<1> QED
  BY <1>1, DirectorySentinels DEF View, Answer, DirIInv, DirectoryType

LEMMA HrCreatesStep ==
  ASSUME DirIInv, NEW i \in Ids, NEW p \in Pins, NEW c \in Codes, HrCreates(i, p, c)
  PROVE  DirIInv'
<1>1. /\ row' = [row EXCEPT ![i] = [odoo |-> NoOdoo, pin |-> p, code |-> c]]
      /\ UNCHANGED <<push, own, overlapped>>
  BY DEF HrCreates
<1>2. [odoo |-> NoOdoo, pin |-> p, code |-> c] \in Rows
  BY DEF Rows
<1>3. \A j \in Ids : row[j] # NoRow => row'[j] # NoRow
  BY <1>1, <1>2, DirectorySentinels DEF DirIInv, DirectoryType
<1>4. DirectoryType'
  BY <1>1, <1>2 DEF DirIInv, DirectoryType
<1>5. \A q \in Pushes : (DoneIsOwn(q) /\ TargetFound(q))'
  BY <1>1, <1>3, OthersKept
<1> QED
  BY <1>4, <1>5 DEF DirIInv

LEMMA DirStep == DirIInv /\ [DirectoryNext]_directoryVars => DirIInv'
<1> SUFFICES ASSUME DirIInv, [DirectoryNext]_directoryVars PROVE DirIInv'
  OBVIOUS
<1>1. ASSUME NEW r \in Pushes, Discard(r) PROVE DirIInv'
  BY <1>1, RollbackStep DEF Discard, DirIInv, DirectoryType
<1>2. ASSUME NEW r \in Pushes, Answer(r) PROVE DirIInv'
  BY <1>2, AnswerRows, RollbackStep DEF Answer
<1>3. CASE UNCHANGED directoryVars
  BY <1>3 DEF directoryVars, DirIInv, DirectoryType, DoneIsOwn, TargetFound, View
<1> QED
  BY <1>1, <1>2, <1>3, PushStep, MatchStep, UpdateStep, InsertStep, InsertFailsStep,
     HrCreatesStep DEF DirectoryNext

THEOREM DirInvariant == DirectorySpec => []DirIInv
BY DirInitIInv, DirStep, PTL DEF DirectorySpec

\* Who reads an answer without skipped employees, or of a workspace that creates none,
\* can rely on its counts: everybody counted is in the table, unless a later employee
\* of the same list has taken the row (odoo.py:119-225).
THEOREM AnswersAreStored == DirectorySpec => AnsweredIsStored
<1>1. ASSUME DirIInv, NEW r \in Pushes, Answer(r), ~ (push[r].create /\ push[r].skipped),
             NEW j \in DOMAIN push[r].done
      PROVE  \/ \E i \in Ids : row'[i] = push[r].done[j]
             \/ \E k \in DOMAIN push[r].done :
                  k > j /\ SameAs(push[r].done[j], push[r].done[k])
  <2>1. push[r].step = "match"
    BY <1>1 DEF Answer, DirIInv, TargetFound
  <2>2. \A i \in DOMAIN own[r] : i \in Ids /\ row'[i] = own[r][i]
    BY <1>1, <2>1, AnswerRows
  <2>3. \/ \E i \in DOMAIN own[r] : own[r][i] = push[r].done[j]
        \/ \E k \in DOMAIN push[r].done : k > j /\ SameAs(push[r].done[j], push[r].done[k])
    BY <1>1 DEF DirIInv, DoneIsOwn
  <2> QED
    BY <2>2, <2>3
<1>2. DirIInv /\ [DirectoryNext]_directoryVars =>
        [\A r \in Pushes :
           Answer(r) /\ ~ (push[r].create /\ push[r].skipped) =>
             \A j \in DOMAIN push[r].done :
               \/ \E i \in Ids : row'[i] = push[r].done[j]
               \/ \E k \in DOMAIN push[r].done :
                    k > j /\ SameAs(push[r].done[j], push[r].done[k])]_directoryVars
  BY <1>1
<1> QED
  BY <1>2, DirInvariant, PTL DEF DirectorySpec, AnsweredIsStored

------------------------------------------------------------------------------

Has(T, i, o) == T[i] # NoRow /\ T[i].odoo = o
OneRow(T, o) == \A i, j \in Ids : Has(T, i, o) /\ Has(T, j, o) => i = j

\* What a push that stores Odoo employee o has found is still all there is of it.
StillFound(r, o) ==
  push[r].step \in {"update", "insert"} /\ Head(push[r].todo).odoo = o =>
    \A j \in Ids : Has(View(r), j, o) => push[r].step = "update" /\ j = push[r].target

\* At most one push works on o, and neither the table nor any push's view of it, which
\* is what the table can become, has two rows of o.
TwinFree(o) ==
  /\ \A q, r \in Pushes : o \in WorkedOn(q) /\ o \in WorkedOn(r) => q = r
  /\ OneRow(row, o)
  /\ \A r \in Pushes : OneRow(View(r), o) /\ StillFound(r, o)

TwinIInv == \A o \in Odoos \ overlapped : TwinFree(o)

LEMMA OneRowShrinks ==
  ASSUME NEW T, NEW U, NEW o, OneRow(T, o), \A j \in Ids : Has(U, j, o) => Has(T, j, o)
  PROVE  OneRow(U, o)
BY DEF OneRow

LEMMA WorkedOnFacts ==
  ASSUME NEW r \in Pushes, NEW o
  PROVE  o \in WorkedOn(r) <=> \/ \E k \in DOMAIN push[r].todo : push[r].todo[k].odoo = o
                               \/ \E k \in DOMAIN push[r].done : push[r].done[k].odoo = o
BY DEF WorkedOn, Range

\* What a push has written is what it works on.
LEMMA OwnWorkedOn ==
  ASSUME DirIInv, NEW r \in Pushes, NEW i \in DOMAIN own[r]
  PROVE  own[r][i].odoo \in WorkedOn(r)
BY WorkedOnFacts DEF DirIInv, DoneIsOwn

LEMMA HeadWorkedOn ==
  ASSUME DirectoryType, NEW r \in Pushes, push[r].todo # <<>>
  PROVE  Head(push[r].todo).odoo \in WorkedOn(r)
<1>1. push[r].todo \in Seq(Items)
  BY DEF DirectoryType, PushRecord
<1>2. Head(push[r].todo) = push[r].todo[1] /\ 1 \in DOMAIN push[r].todo
  BY <1>1, HeadTail
<1> QED
  BY <1>2, WorkedOnFacts

\* A push that goes on to the next employee works on nobody new.
LEMMA WorkShrinks ==
  ASSUME DirIInv, NEW r \in Pushes, push[r].todo # <<>>, NEW o \in WorkedOn(r)',
         push'[r].todo \in {push[r].todo, Tail(push[r].todo)},
         \/ push'[r].done = push[r].done
         \/ \E v \in Rows : /\ push'[r].done = Append(push[r].done, v)
                            /\ v.odoo = Head(push[r].todo).odoo
  PROVE  o \in WorkedOn(r)
<1>1. push[r].todo \in Seq(Items) /\ push[r].done \in Seq(Rows)
  BY DEF DirIInv, DirectoryType, PushRecord
<1>2. \/ \E k \in DOMAIN push'[r].todo : push'[r].todo[k].odoo = o
      \/ \E k \in DOMAIN push'[r].done : push'[r].done[k].odoo = o
  BY DEF WorkedOn, Range
<1>3. CASE \E k \in DOMAIN push'[r].todo : push'[r].todo[k].odoo = o
  <2>1. ASSUME NEW k \in DOMAIN Tail(push[r].todo), Tail(push[r].todo)[k].odoo = o
        PROVE  k + 1 \in DOMAIN push[r].todo /\ push[r].todo[k + 1].odoo = o
    BY <1>1, <2>1, HeadTail
  <2>2. \E k \in DOMAIN push[r].todo : push[r].todo[k].odoo = o
    BY <1>3, <2>1
  <2> QED
    BY <2>2, WorkedOnFacts
<1>4. CASE \E k \in DOMAIN push'[r].done : push'[r].done[k].odoo = o
  <2>1. CASE push'[r].done = push[r].done
    BY <1>4, <2>1, WorkedOnFacts
  <2>2. ASSUME NEW v \in Rows, push'[r].done = Append(push[r].done, v),
               v.odoo = Head(push[r].todo).odoo
        PROVE  o \in WorkedOn(r)
    <3>1. (\E k \in DOMAIN push[r].done : push[r].done[k].odoo = o) \/ v.odoo = o
      BY <1>1, <1>4, <2>2, AppendFacts
    <3> QED
      BY <2>2, <3>1, WorkedOnFacts, HeadWorkedOn DEF DirIInv
  <2> QED
    BY <2>1, <2>2
<1> QED
  BY <1>2, <1>3, <1>4

\* A step of push r that commits nothing.
LEMMA OwnTwinFree ==
  ASSUME DirIInv, NEW r \in Pushes, NEW o, TwinFree(o), UNCHANGED row,
         \A q \in Pushes : q # r => push'[q] = push[q] /\ own'[q] = own[q],
         o \in WorkedOn(r)' => o \in WorkedOn(r), OneRow(View(r)', o), StillFound(r, o)'
  PROVE  TwinFree(o)'
<1>1. \A q \in Pushes : q # r =>
        WorkedOn(q)' = WorkedOn(q) /\ View(q)' = View(q) /\ StillFound(q, o)'
  BY DEF WorkedOn, View, StillFound, TwinFree
<1>2. \A q, p \in Pushes : o \in WorkedOn(q)' /\ o \in WorkedOn(p)' => q = p
  BY <1>1 DEF TwinFree
<1>3. \A q \in Pushes : OneRow(View(q)', o)
  BY <1>1 DEF TwinFree
<1> QED
  BY <1>1, <1>2, <1>3 DEF TwinFree

LEMMA PushTwinFree ==
  ASSUME DirIInv, NEW r \in Pushes, NEW b \in Batches, NEW create \in BOOLEAN,
         Push(r, b, create), NEW o \in Odoos \ overlapped', TwinFree(o)
  PROVE  TwinFree(o)'
<1>1. /\ push' = [push EXCEPT ![r] = [NoPush EXCEPT !.step = "match", !.todo = b, !.create = create]]
      /\ UNCHANGED <<row, own>>
      /\ o \notin {e.odoo : e \in Range(b)} \/ \A q \in Pushes : o \notin WorkedOn(q)
  BY DEF Push
<1>2. /\ push'[r].step = "match" /\ push'[r].todo = b /\ push'[r].done = <<>>
      /\ \A q \in Pushes : q # r => push'[q] = push[q]
  BY <1>1 DEF DirIInv, DirectoryType, NoPush
<1>3. WorkedOn(r)' = {e.odoo : e \in Range(b)}
  BY <1>2 DEF WorkedOn, Range
<1>4. \A q \in Pushes : View(q)' = View(q) /\ (q # r => WorkedOn(q)' = WorkedOn(q))
  BY <1>1, <1>2 DEF View, WorkedOn
<1>5. \A q, p \in Pushes : o \in WorkedOn(q)' /\ o \in WorkedOn(p)' => q = p
  BY <1>1, <1>3, <1>4 DEF TwinFree
<1>6. \A q \in Pushes : StillFound(q, o)'
  BY <1>2, <1>4 DEF TwinFree, StillFound
<1> QED
  BY <1>1, <1>4, <1>5, <1>6 DEF TwinFree

LEMMA MatchTwinFree ==
  ASSUME DirIInv, NEW r \in Pushes, Match(r), NEW o, TwinFree(o)
  PROVE  TwinFree(o)'
<1> DEFINE e == Head(push[r].todo)
<1>1. /\ push[r].todo # <<>> /\ push[r].step = "match" /\ push[r] \in PushRecord
      /\ UNCHANGED <<row, own>>
      /\ \A q \in Pushes : q # r => push'[q] = push[q] /\ own'[q] = own[q]
  BY DEF Match, DirIInv, DirectoryType
<1>2. View(r)' = View(r) /\ OneRow(View(r), o)
  BY <1>1 DEF View, TwinFree
<1>3. /\ push'[r].todo \in {push[r].todo, Tail(push[r].todo)}
      /\ push'[r].done = push[r].done
  BY <1>1 DEF Match, DirIInv, DirectoryType, PushRecord
<1>4. StillFound(r, o)'
  <2>1. ASSUME NEW i \in Matches(r, e), push' = [push EXCEPT ![r].step = "update", ![r].target = i]
        PROVE  StillFound(r, o)'
    <3>1. push'[r].step = "update" /\ push'[r].target = i /\ push'[r].todo = push[r].todo
      BY <1>1, <2>1 DEF DirIInv, DirectoryType, PushRecord
    <3>2. ASSUME e.odoo = o, NEW j \in Ids, Has(View(r), j, o) PROVE j = i
      <4>1. i \in Ids /\ Has(View(r), i, o)
        BY <3>2 DEF Matches, Has
      <4> QED
        BY <1>2, <3>2, <4>1 DEF OneRow
    <3> QED
      BY <1>2, <3>1, <3>2 DEF StillFound
  <2>2. ASSUME Matches(r, e) = {}, push' = [push EXCEPT ![r].step = "insert"]
        PROVE  StillFound(r, o)'
    <3>1. push'[r].todo = push[r].todo
      BY <1>1, <2>2 DEF DirIInv, DirectoryType, PushRecord
    <3>2. e.odoo = o => \A j \in Ids : ~ Has(View(r), j, o)
      BY <2>2 DEF Matches, Has
    <3> QED
      BY <1>2, <3>1, <3>2 DEF StillFound
  <2>3. ASSUME push' = [push EXCEPT ![r].todo = Tail(@), ![r].skipped = TRUE]
        PROVE  StillFound(r, o)'
    <3>1. push'[r].step = "match"
      BY <1>1, <2>3 DEF DirIInv, DirectoryType, PushRecord
    <3> QED
      BY <3>1 DEF StillFound
  <2> QED
    BY <2>1, <2>2, <2>3 DEF Match
<1> QED
  BY <1>1, <1>2, <1>3, <1>4, WorkShrinks, OwnTwinFree

LEMMA RollbackTwinFree ==
  ASSUME DirIInv, NEW r \in Pushes, Rollback(r), UNCHANGED row, NEW o, TwinFree(o)
  PROVE  TwinFree(o)'
<1>1. /\ push'[r] = NoPush /\ own'[r] = Nothing
      /\ \A q \in Pushes : q # r => push'[q] = push[q] /\ own'[q] = own[q]
  BY DEF Rollback, DirIInv, DirectoryType
<1>2. WorkedOn(r)' = {}
  BY <1>1, NoPushFacts DEF WorkedOn, Range
<1>3. View(r)' = row
  BY <1>1, NoPushFacts DEF View, DirIInv, DirectoryType
<1>4. StillFound(r, o)'
  BY <1>1, NoPushFacts DEF StillFound
<1> QED
  BY <1>1, <1>2, <1>3, <1>4, OwnTwinFree DEF TwinFree

LEMMA StoredTwinFree ==
  ASSUME DirIInv, NEW r \in Pushes, push[r].todo # <<>>, push[r].step \in {"update", "insert"},
         NEW i \in Ids, NEW v \in Rows,
         v.odoo = Head(push[r].todo).odoo, v.pin = Head(push[r].todo).pin,
         push[r].step = "update" => i = push[r].target,
         Stored(r, Head(push[r].todo), i, v), UNCHANGED row, NEW o, TwinFree(o)
  PROVE  TwinFree(o)'
<1>1. Head(push[r].todo) \in Items /\ push[r] \in PushRecord
  BY HeadIsItem DEF DirIInv, DirectoryType
<1>2. [Head(push[r].todo) EXCEPT !.code = v.code] = v
  BY <1>1 DEF Items, Rows
<1>3. /\ push'[r].step = "match" /\ push'[r].todo = Tail(push[r].todo)
      /\ push'[r].done = Append(push[r].done, v)
      /\ own'[r] = [j \in DOMAIN own[r] \cup {i} |-> IF j = i THEN v ELSE own[r][j]]
      /\ \A q \in Pushes : q # r => push'[q] = push[q] /\ own'[q] = own[q]
  BY <1>1, <1>2 DEF Stored, DirIInv, DirectoryType, PushRecord
<1>4. View(r)'[i] = v /\ \A j \in Ids : j # i => View(r)'[j] = View(r)[j]
  BY <1>3 DEF View
<1>5. OneRow(View(r)', o)
  <2>1. OneRow(View(r), o) /\ StillFound(r, o)
    BY DEF TwinFree
  <2>2. CASE v.odoo = o
    <3>1. \A j \in Ids : Has(View(r), j, o) => j = i
      BY <2>1, <2>2 DEF StillFound
    <3> QED
      BY <1>4, <3>1 DEF OneRow, Has
  <2>3. CASE v.odoo # o
    <3>1. \A j \in Ids : Has(View(r)', j, o) => Has(View(r), j, o)
      BY <1>4, <2>3 DEF Has
    <3> QED
      BY <2>1, <3>1, OneRowShrinks
  <2> QED
    BY <2>2, <2>3
<1>6. StillFound(r, o)'
  BY <1>3 DEF StillFound
<1>7. o \in WorkedOn(r)' => o \in WorkedOn(r)
  BY <1>3, WorkShrinks
<1> QED
  BY <1>3, <1>5, <1>6, <1>7, OwnTwinFree

LEMMA InsertFailsTwinFree ==
  ASSUME DirIInv, NEW r \in Pushes, InsertFails(r), NEW o, TwinFree(o)
  PROVE  TwinFree(o)'
<1>1. /\ push[r].todo # <<>> /\ push'[r].step = "aborted" /\ push'[r].todo = Tail(push[r].todo)
      /\ push'[r].done = push[r].done /\ UNCHANGED <<row, own>>
      /\ \A q \in Pushes : q # r => push'[q] = push[q] /\ own'[q] = own[q]
  BY DEF InsertFails, DirIInv, TargetFound, DirectoryType, PushRecord
<1>2. OneRow(View(r)', o) /\ StillFound(r, o)'
  BY <1>1 DEF View, TwinFree, StillFound
<1> QED
  BY <1>1, <1>2, WorkShrinks, OwnTwinFree

\* The commit of r: what others see of o is what r has seen, or what they have seen.
LEMMA CommitTwinFree ==
  ASSUME DirIInv, NEW r \in Pushes, Rollback(r), row' = View(r), NEW o, TwinFree(o)
  PROVE  TwinFree(o)'
<1>1. /\ push'[r] = NoPush /\ own'[r] = Nothing
      /\ \A q \in Pushes : q # r => push'[q] = push[q] /\ own'[q] = own[q]
  BY DEF Rollback, DirIInv, DirectoryType
<1>2. WorkedOn(r)' = {} /\ \A q \in Pushes : q # r => WorkedOn(q)' = WorkedOn(q)
  BY <1>1, NoPushFacts DEF WorkedOn, Range
<1>3. View(r)' = row' /\ StillFound(r, o)'
  BY <1>1, NoPushFacts DEF View, StillFound
<1>4. ASSUME NEW q \in Pushes, q # r, o \in WorkedOn(r), NEW j \in Ids, Has(View(q)', j, o)
      PROVE  Has(View(r), j, o)
  <2>1. o \notin WorkedOn(q)
    BY <1>4 DEF TwinFree
  <2>2. j \notin DOMAIN own[q]
    BY <1>1, <1>4, <2>1, OwnWorkedOn DEF View, Has
  <2> QED
    BY <1>1, <1>4, <2>2 DEF View, Has
<1>5. ASSUME NEW q \in Pushes, q # r, o \notin WorkedOn(r), NEW j \in Ids, Has(View(q)', j, o)
      PROVE  Has(View(q), j, o)
  <2>1. CASE j \in DOMAIN own[q]
    BY <1>1, <1>5, <2>1 DEF View, Has
  <2>2. CASE j \notin DOMAIN own[q]
    <3>1. View(q)'[j] = View(r)[j] /\ View(q)[j] = row[j]
      BY <1>1, <1>5, <2>2 DEF View
    <3>2. j \notin DOMAIN own[r]
      BY <1>5, <3>1, OwnWorkedOn DEF View, Has
    <3> QED
      BY <1>5, <3>1, <3>2 DEF View, Has
  <2> QED
    BY <2>1, <2>2
<1>6. ASSUME NEW q \in Pushes, q # r PROVE OneRow(View(q)', o) /\ StillFound(q, o)'
  <2>1. OneRow(View(q)', o)
    BY <1>4, <1>5, <1>6, OneRowShrinks DEF TwinFree
  <2>2. StillFound(q, o)'
    <3> SUFFICES ASSUME push[q].step \in {"update", "insert"}, Head(push[q].todo).odoo = o
                 PROVE  StillFound(q, o)'
      BY <1>1, <1>6 DEF StillFound
    <3>1. o \in WorkedOn(q)
      BY HeadWorkedOn DEF DirIInv, TargetFound
    <3>2. o \notin WorkedOn(r)
      BY <1>6, <3>1 DEF TwinFree
    <3> QED
      BY <1>1, <1>5, <1>6, <3>2 DEF StillFound, TwinFree
  <2> QED
    BY <2>1, <2>2
<1>7. OneRow(row', o)
  BY DEF TwinFree
<1>8. \A q, p \in Pushes : o \in WorkedOn(q)' /\ o \in WorkedOn(p)' => q = p
  BY <1>2 DEF TwinFree
<1>9. \A q \in Pushes : OneRow(View(q)', o) /\ StillFound(q, o)'
  BY <1>3, <1>6, <1>7
<1> QED
  BY <1>7, <1>8, <1>9 DEF TwinFree

LEMMA HrCreatesTwinFree ==
  ASSUME DirIInv, NEW i \in Ids, NEW p \in Pins, NEW c \in Codes, HrCreates(i, p, c),
         NEW o \in Odoos, TwinFree(o)
  PROVE  TwinFree(o)'
<1> DEFINE v == [odoo |-> NoOdoo, pin |-> p, code |-> c]
<1>1. /\ row' = [row EXCEPT ![i] = v] /\ UNCHANGED <<push, own>> /\ v.odoo # o
  BY DirectorySentinels DEF HrCreates
<1> HIDE DEF v
<1>2. \A j \in Ids : Has(row', j, o) => Has(row, j, o)
  BY <1>1 DEF DirIInv, DirectoryType, Has
<1>3. \A q \in Pushes : \A j \in Ids : Has(View(q)', j, o) => Has(View(q), j, o)
  BY <1>1, <1>2 DEF View, Has
<1>4. OneRow(row', o) /\ \A q \in Pushes : OneRow(View(q)', o)
  BY <1>2, <1>3, OneRowShrinks DEF TwinFree
<1>5. \A q \in Pushes : WorkedOn(q)' = WorkedOn(q) /\ StillFound(q, o)'
  BY <1>1, <1>3 DEF WorkedOn, StillFound, TwinFree
<1> QED
  BY <1>4, <1>5 DEF TwinFree

LEMMA TwinStep ==
  ASSUME DirIInv, TwinIInv, [DirectoryNext]_directoryVars
  PROVE  TwinIInv'
<1>1. overlapped \subseteq overlapped'
  BY DEF DirectoryNext, directoryVars, Push, Match, Update, Insert, InsertFails, Answer, Discard,
     HrCreates
<1> SUFFICES ASSUME NEW o \in Odoos \ overlapped' PROVE TwinFree(o)'
  BY DEF TwinIInv
<1>2. TwinFree(o)
  BY <1>1 DEF TwinIInv
<1>3. ASSUME NEW r \in Pushes, Update(r) PROVE TwinFree(o)'
  <2> DEFINE e == Head(push[r].todo)
             i == push[r].target
             v == Updated(View(r)[i], e)
  <2>1. /\ push[r].step = "update" /\ push[r].todo # <<>> /\ i \in Ids /\ UNCHANGED row
        /\ View(r)[i] \in Rows
    BY <1>3 DEF Update, DirIInv, TargetFound, View, DirectoryType
  <2>2. e \in Items
    BY <2>1, HeadIsItem DEF DirIInv
  <2>3. v \in Rows /\ v.odoo = e.odoo /\ v.pin = e.pin
    BY <2>1, <2>2 DEF Updated, Rows, Items
  <2>4. Rollback(r) \/ Stored(r, e, i, v)
    BY <1>3 DEF Update
  <2> HIDE DEF v
  <2> QED
    BY <1>2, <2>1, <2>3, <2>4, RollbackTwinFree, StoredTwinFree
<1>4. ASSUME NEW r \in Pushes, Insert(r) PROVE TwinFree(o)'
  <2> DEFINE e == Head(push[r].todo)
             v == Inserted(e)
  <2>1. PICK i \in Ids : Stored(r, e, i, v)
    BY <1>4 DEF Insert
  <2>2. push[r].step = "insert" /\ push[r].todo # <<>> /\ UNCHANGED row
    BY <1>4 DEF Insert, DirIInv, TargetFound
  <2>3. e \in Items
    BY <2>2, HeadIsItem DEF DirIInv
  <2>4. v \in Rows /\ v.odoo = e.odoo /\ v.pin = e.pin
    BY <2>3 DEF Inserted, Rows, Items
  <2> HIDE DEF v
  <2> QED
    BY <1>2, <2>1, <2>2, <2>4, StoredTwinFree
<1>5. ASSUME NEW r \in Pushes, Answer(r) PROVE TwinFree(o)'
  <2>1. Rollback(r) /\ (row' = View(r) \/ row' = row)
    BY <1>5 DEF Answer
  <2> QED
    BY <1>2, <2>1, CommitTwinFree, RollbackTwinFree
<1>6. ASSUME NEW r \in Pushes, Discard(r) PROVE TwinFree(o)'
  BY <1>2, <1>6, RollbackTwinFree DEF Discard
<1>7. CASE UNCHANGED directoryVars
  BY <1>2, <1>7 DEF directoryVars, TwinFree, OneRow, Has, StillFound, View, WorkedOn
<1> QED
  BY <1>2, <1>3, <1>4, <1>5, <1>6, <1>7, PushTwinFree, MatchTwinFree, InsertFailsTwinFree,
     HrCreatesTwinFree DEF DirectoryNext

\* An Odoo employee has two rows only if two pushes have worked on that employee at the
\* same time: the SELECT by odoo_id finds what other pushes left (odoo.py:141-185).
THEOREM TwinsComeFromOverlap == DirectorySpec => []TwinsFromOverlap
<1>1. DirectoryInit => TwinIInv
  <2> SUFFICES ASSUME DirectoryInit, NEW o \in Odoos PROVE TwinFree(o)
    BY DEF TwinIInv
  <2>1. \A r \in Pushes : push[r] = NoPush /\ own[r] = Nothing
    BY DEF DirectoryInit
  <2>2. \A r \in Pushes : WorkedOn(r) = {}
    BY <2>1, NoPushFacts DEF WorkedOn, Range
  <2>3. \A i \in Ids : ~ Has(row, i, o) /\ \A r \in Pushes : ~ Has(View(r), i, o)
    BY <2>1, NoPushFacts DEF DirectoryInit, View, Has
  <2> QED
    BY <2>2, <2>3 DEF TwinFree, OneRow, StillFound
<1>2. DirIInv /\ TwinIInv /\ [DirectoryNext]_directoryVars => TwinIInv'
  BY TwinStep
<1>3. DirIInv /\ TwinIInv => TwinsFromOverlap
  <2> SUFFICES ASSUME DirIInv, TwinIInv, NEW i \in Ids, NEW j \in Ids, row[i] # NoRow,
                      row[j] # NoRow, i # j, row[i].odoo = row[j].odoo, row[i].odoo # NoOdoo,
                      row[i].odoo \notin overlapped
               PROVE  FALSE
    BY DEF TwinsFromOverlap
  <2>1. row[i] \in Rows
    BY DEF DirIInv, DirectoryType
  <2>2. row[i].odoo \in Odoos
    BY <2>1 DEF Rows
  <2>3. OneRow(row, row[i].odoo)
    BY <2>2 DEF TwinIInv, TwinFree
  <2> QED
    BY <2>3 DEF OneRow, Has
<1> QED
  BY <1>1, <1>2, <1>3, DirInvariant, PTL DEF DirectorySpec

\* The rows and the pushes have their types.
THEOREM DirectoryTypeCorrect == DirectorySpec => []DirectoryTypeOK
<1>1. DirIInv => DirectoryTypeOK
  BY DEF DirIInv, DirectoryType, DirectoryTypeOK, PushRecord, Range
<1> QED
  BY <1>1, DirInvariant, PTL

------------------------------------------------------------------------------
(***************************************************************************)
(* Workforce: what holds of a component holds of a behaviour that runs it. *)
(***************************************************************************)

\* Whichever part runs, each of them takes steps of its own specification or none:
\* whatever is proved of a part holds of what the run checks.
THEOREM WorkforceRunsItsParts == Spec => HrSpec /\ DirectorySpec /\ ReportSpec
<1>1. Init => HrInit /\ DirectoryInit /\ ReportInit
  BY DEF Init
<1>2. [Next]_vars =>
        /\ [HrNext]_hrVars
        /\ [DirectoryNext]_directoryVars
        /\ [ReportNext]_reportVars
  BY DEF Next, vars
<1> QED
  BY <1>1, <1>2, PTL DEF Spec, HrSpec, DirectorySpec, ReportSpec

\* The joint type invariant of the run: accounts, requests and notices, the rows
\* and pushes of the directory, and what the month views read keep their types
\* (hr.py, employee_app.py, odoo.py, attendance.py).
THEOREM WorkforceTypeCorrect == Spec => []WorkforceTypeOK
<1>1. HrTypeOK /\ DirectoryTypeOK /\ ReportTypeOK => WorkforceTypeOK
  BY DEF WorkforceTypeOK
<1> QED
  BY <1>1, WorkforceRunsItsParts, HrTypeCorrect, DirectoryTypeCorrect, ReportTypeCorrect, PTL
==============================================================================
