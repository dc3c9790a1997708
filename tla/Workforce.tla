------------------------------ MODULE Workforce ------------------------------
(***************************************************************************)
(* HrRequests, Directory and MonthReport side by side: a behaviour runs    *)
(* one of them (part) and leaves the others alone.                         *)
(***************************************************************************)
EXTENDS HrRequests, Directory, MonthReport

CONSTANT Parts  \* of "requests", "directory" and "report"

VARIABLE part

vars == <<part, hrVars, directoryVars, reportVars>>

Init ==
  /\ part \in Parts
  /\ HrInit /\ DirectoryInit /\ ReportInit
  /\ part # "report" => weekDays = 6 /\ ~ crowded

Next ==
  /\ UNCHANGED part
  /\ \/ part = "requests" /\ HrNext /\ UNCHANGED <<directoryVars, reportVars>>
     \/ part = "directory" /\ DirectoryNext /\ UNCHANGED <<hrVars, reportVars>>
     \/ part = "report" /\ ReportNext /\ UNCHANGED <<hrVars, directoryVars>>

Spec == Init /\ [][Next]_vars

\* The state of every part has its type, whatever interleaves.
WorkforceTypeOK == HrTypeOK /\ DirectoryTypeOK /\ ReportTypeOK
==============================================================================
