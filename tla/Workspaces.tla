------------------------------ MODULE Workspaces ------------------------------
(***************************************************************************)
(* What signing up promises, without requests, transactions, unique        *)
(* indexes or a registrar: an account and its workspace appear in one      *)
(* step, nobody has two and no workspace changes hands; the DNS zone       *)
(* always has the platform's own records, and beyond these only records    *)
(* of workspaces there are (some may be missing).  Signup implements this  *)
(* module.                                                                 *)
(***************************************************************************)
CONSTANTS
  People,      \* who can have an account
  Places,      \* names a workspace can have
  Reserved,    \* names no workspace can have
  Platform,    \* the platform's own records
  Nobody

VARIABLES
  accounts,
  workspace,   \* workspace[s]: whose workspace s is
  records      \* what the zone has records for

vars == <<accounts, workspace, records>>

Existing == {s \in Places : workspace[s] # Nobody}

Init ==
  /\ accounts = {}
  /\ workspace = [s \in Places |-> Nobody]
  /\ records = {Platform}

Register(e, s) ==
  /\ e \notin accounts
  /\ s \notin Reserved
  /\ workspace[s] = Nobody
  /\ accounts' = accounts \cup {e}
  /\ workspace' = [workspace EXCEPT ![s] = e]
  /\ UNCHANGED records

\* The zone is only ever replaced as a whole.
Rewrite(R) ==
  /\ records' = R \cup {Platform}
  /\ UNCHANGED <<accounts, workspace>>

Next ==
  \/ \E e \in People, s \in Places : Register(e, s)
  \/ \E R \in SUBSET Existing : Rewrite(R)

Spec == Init /\ [][Next]_vars
===============================================================================
