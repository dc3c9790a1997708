------------------------------ MODULE Directory ------------------------------
(***************************************************************************)
(* The employees of a workspace as Odoo pushes them (routers/odoo.py) and  *)
(* HR enters them (routers/employees.py).                                  *)
(*                                                                         *)
(* A push is one transaction.  For every employee it looks for a row by    *)
(* odoo_id, then by PIN, then by code, and updates what it found or        *)
(* inserts a row.  PIN and code are unique, odoo_id is not.  A failing     *)
(* UPDATE ends the push; a failing INSERT is swallowed, but PostgreSQL     *)
(* refuses everything that follows and turns COMMIT into ROLLBACK: if no   *)
(* statement follows, the counts are answered all the same.                *)
(***************************************************************************)
EXTENDS Integers, Sequences, Functions

CONSTANTS
  Ids,      \* rows; bounds how many employees there are
  Odoos,    \* hr.employee ids; also stands for the code "ODOO-<id>" made from one
  Pins,
  Codes,
  Pushes,   \* pushes the API can serve at once
  MaxBatch, \* employees in a push
  MaxItems, \* employees still to do in a new push and any other one
  NoOdoo,
  NoCode,
  NoId,
  NoRow

Items == [odoo : Odoos, pin : Pins, code : Codes \cup {NoCode}]
Rows == [odoo : Odoos \cup {NoOdoo}, pin : Pins, code : Codes \cup Odoos]

ASSUME BatchAssumption == MaxBatch \in Nat
ASSUME DirectorySentinels ==
  /\ NoOdoo \notin Odoos /\ NoCode \notin Codes \cup Odoos
  /\ NoId \notin Ids /\ NoRow \notin Rows

VARIABLES
  row,        \* row[i]: the committed row i of employees
  push,       \* push[r]: what is left of push r, and what it has counted; done holds
              \* each employee created or updated, with the code of the row it got
  own,        \* own[r]: the rows r has written and not committed
  overlapped  \* the Odoo employees that two pushes have worked on at the same time

directoryVars == <<row, push, own, overlapped>>

\* Any list: nothing says that its employees differ.  Those without a PIN are skipped
\* before anything is asked of the database; they are left out.
Batches == UNION {[1..n -> Items] : n \in 1..MaxBatch}

NoPush ==
  [step |-> "idle", todo |-> <<>>, create |-> FALSE, target |-> NoId,
   done |-> <<>>, skipped |-> FALSE]
Nothing == [i \in {} |-> NoRow]

DirectoryInit ==
  /\ row = [i \in Ids |-> NoRow]
  /\ push = [r \in Pushes |-> NoPush]
  /\ own = [r \in Pushes |-> Nothing]
  /\ overlapped = {}

\* The table as transaction r sees it.
View(r) == [i \in Ids |-> IF i \in DOMAIN own[r] THEN own[r][i] ELSE row[i]]

Clash(v, w) == v # NoRow /\ w # NoRow /\ (v.pin = w.pin \/ v.code = w.code)

\* Writing v to row i waits for transactions other than those of R: for one that has
\* written i, or another row that has, or had, the PIN or the code of v.
Blocked(R, i, v) ==
  \E q \in Pushes \ R : \E j \in DOMAIN own[q] :
    j = i \/ Clash(own[q][j], v) \/ Clash(row[j], v)

\* Then a unique index refuses it if another row of the table T has them.
Refused(T, i, v) == \E j \in Ids \ {i} : Clash(T[j], v)

------------------------------------------------------------------------------
\* POST /api/odoo/employees/upsert

\* The Odoo employees that push r has before it or has stored.
WorkedOn(r) == {e.odoo : e \in Range(push[r].todo) \cup Range(push[r].done)}

Push(r, b, create) ==
  /\ push[r] = NoPush
  /\ \A q \in Pushes : Len(push[q].todo) + Len(b) <= MaxItems
  /\ push' = [push EXCEPT ![r] = [NoPush EXCEPT !.step = "match", !.todo = b, !.create = create]]
  /\ overlapped' = overlapped \cup ({e.odoo : e \in Range(b)} \cap UNION {WorkedOn(q) : q \in Pushes})
  /\ UNCHANGED <<row, own>>

\* Faulty variant: the PIN decides first.
MatchesPinOnly(r, e) ==
  LET T == View(r)
      ByPin == {i \in Ids : T[i] # NoRow /\ T[i].pin = e.pin}
      ByCode == {i \in Ids : T[i] # NoRow /\ T[i].code = e.code}
  IN IF ByPin # {} THEN ByPin ELSE ByCode

\* Match priority: odoo_id, device_pin, employee_code.
Matches(r, e) ==
  LET T == View(r)
      ByOdoo == {i \in Ids : T[i] # NoRow /\ T[i].odoo = e.odoo}
      ByPin == {i \in Ids : T[i] # NoRow /\ T[i].pin = e.pin}
      ByCode == {i \in Ids : T[i] # NoRow /\ T[i].code = e.code}
  IN IF ByOdoo # {} THEN ByOdoo ELSE IF ByPin # {} THEN ByPin ELSE ByCode

\* The SELECTs for the next employee.  Without a match it is skipped, unless
\* auto_create_from_odoo is set.
Match(r) ==
  LET M == Matches(r, Head(push[r].todo)) IN
  /\ push[r].step = "match"
  /\ push[r].todo # <<>>
  /\ \/ \E i \in M :
          push' = [push EXCEPT ![r].step = "update", ![r].target = i]
     \/ /\ M = {}
        /\ push' = IF push[r].create THEN [push EXCEPT ![r].step = "insert"]
                   ELSE [push EXCEPT ![r].todo = Tail(@), ![r].skipped = TRUE]
  /\ UNCHANGED <<row, own, overlapped>>

\* The write of employee e has succeeded, as row i with value v.
Stored(r, e, i, v) ==
  /\ own' = [own EXCEPT ![r] = [j \in DOMAIN own[r] \cup {i} |-> IF j = i THEN v ELSE own[r][j]]]
  /\ push' = [push EXCEPT ![r].step = "match", ![r].todo = Tail(@), ![r].target = NoId,
                          ![r].done = Append(@, [e EXCEPT !.code = v.code])]

Rollback(r) ==
  /\ push' = [push EXCEPT ![r] = NoPush]
  /\ own' = [own EXCEPT ![r] = Nothing]

Updated(old, e) ==
  [odoo |-> e.odoo, pin |-> e.pin, code |-> IF e.code = NoCode THEN old.code ELSE e.code]

\* The UPDATE, of the row as it is by then; a duplicate ends the push with 500.
Update(r) ==
  LET e == Head(push[r].todo)
      i == push[r].target
      v == Updated(View(r)[i], e)
  IN /\ push[r].step = "update"
     /\ ~ Blocked({r}, i, v)
     /\ IF Refused(View(r), i, v) THEN Rollback(r) ELSE Stored(r, e, i, v)
     /\ UNCHANGED <<row, overlapped>>

\* Faulty variant: no code is made up for an employee without one.
InsertedUncoded(e) == [odoo |-> e.odoo, pin |-> e.pin, code |-> e.code]

Inserted(e) ==
  [odoo |-> e.odoo, pin |-> e.pin, code |-> IF e.code = NoCode THEN e.odoo ELSE e.code]

Free(i) == row[i] = NoRow /\ \A q \in Pushes : i \notin DOMAIN own[q]

\* The INSERT.
Insert(r) ==
  LET e == Head(push[r].todo)
      v == Inserted(e)
  IN /\ push[r].step = "insert"
     /\ \E i \in Ids :
          /\ Free(i)
          /\ ~ Blocked({r}, i, v)
          /\ ~ Refused(View(r), i, v)
          /\ Stored(r, e, i, v)
     /\ UNCHANGED <<row, overlapped>>

\* Faulty variant: a failing INSERT is not counted.
InsertFailsUncounted(r) ==
  /\ push[r].step = "insert"
  /\ push' = [push EXCEPT ![r].step = "aborted", ![r].todo = Tail(@)]
  /\ UNCHANGED <<row, own, overlapped>>

\* It fails - a duplicate, a deadlock with another push - and is counted as skipped:
\* the transaction is aborted, and the handler does not know.
InsertFails(r) ==
  /\ push[r].step = "insert"
  /\ push' = [push EXCEPT ![r].step = "aborted", ![r].todo = Tail(@), ![r].skipped = TRUE]
  /\ UNCHANGED <<row, own, overlapped>>

\* The last employee is done: the counts, and COMMIT, which rolls back a transaction
\* that is aborted.
Answer(r) ==
  /\ push[r].step \in {"match", "aborted"}
  /\ push[r].todo = <<>>
  /\ row' = IF push[r].step = "match" THEN View(r) ELSE row
  /\ Rollback(r)
  /\ UNCHANGED overlapped

\* No answer, and rolled back: the next statement of an aborted transaction (500), a
\* deadlock at an UPDATE, a failure or a restart.
Discard(r) ==
  /\ push[r] # NoPush
  /\ Rollback(r)
  /\ UNCHANGED <<row, overlapped>>

------------------------------------------------------------------------------
\* POST /api/employees; employees made for unknown PINs are inserted alike.  A
\* duplicate is answered with 409 and changes nothing, and so does PATCH: of what is
\* kept here it cannot touch a thing.

HrCreates(i, p, c) ==
  LET v == [odoo |-> NoOdoo, pin |-> p, code |-> c] IN
  /\ Free(i)
  /\ ~ Blocked({}, i, v)
  /\ ~ Refused(row, i, v)
  /\ row' = [row EXCEPT ![i] = v]
  /\ UNCHANGED <<push, own, overlapped>>

------------------------------------------------------------------------------

DirectoryNext ==
  \/ \E r \in Pushes :
       \/ \E b \in Batches, create \in BOOLEAN : Push(r, b, create)
       \/ Match(r)
       \/ Update(r)
       \/ Insert(r)
       \/ InsertFails(r)
       \/ Answer(r)
       \/ Discard(r)
  \/ \E i \in Ids, p \in Pins, c \in Codes : HrCreates(i, p, c)

DirectorySpec == DirectoryInit /\ [][DirectoryNext]_directoryVars

------------------------------------------------------------------------------

DirectoryTypeOK ==
  /\ row \in [Ids -> Rows \cup {NoRow}]
  /\ \A r \in Pushes :
       /\ push[r] \in [step : {"idle", "match", "update", "insert", "aborted"},
                       todo : Seq(Items), create : BOOLEAN,
                       target : Ids \cup {NoId}, done : Seq(Rows), skipped : BOOLEAN]
       /\ DOMAIN own[r] \subseteq Ids
       /\ Range(own[r]) \subseteq Rows
  /\ overlapped \subseteq Odoos

\* An answer that reports nobody as skipped can be trusted, and so can any answer of a
\* workspace that does not create employees: everybody counted as created or updated
\* is in the table, with odoo_id, PIN and the code of its row, whatever other pushes
\* and HR were writing, unless a later one of the same list has taken the row, by the
\* same odoo_id, PIN or code.  An answer with skipped employees in a workspace that
\* creates them may stand for a transaction that was rolled back.
SameAs(v, e) == v.odoo = e.odoo \/ v.pin = e.pin \/ v.code = e.code
AnsweredIsStored ==
  [][\A r \in Pushes :
       Answer(r) /\ ~ (push[r].create /\ push[r].skipped) =>
         \A j \in DOMAIN push[r].done :
           \/ \E i \in Ids : row'[i] = push[r].done[j]
           \/ \E k \in DOMAIN push[r].done :
                k > j /\ SameAs(push[r].done[j], push[r].done[k])]_directoryVars

\* An Odoo employee has two rows only if two pushes have worked on that employee at the
\* same time: pushes of other employees, HR's entries, failures and repetitions in
\* one list give none.
TwinsFromOverlap ==
  \A i, j \in Ids :
    /\ row[i] # NoRow /\ row[j] # NoRow /\ i # j
    /\ row[i].odoo = row[j].odoo /\ row[i].odoo # NoOdoo
    => row[i].odoo \in overlapped
==============================================================================
