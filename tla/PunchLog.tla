------------------------------- MODULE PunchLog -------------------------------
(***************************************************************************)
(* What attendance ingestion promises, without requests, retries, lost     *)
(* responses or employees: a punch happens, it is recorded once and for    *)
(* all, and a terminal forgets a punch only when it is recorded (or was    *)
(* waved through unread).  AttendanceIngest implements this module.        *)
(***************************************************************************)
EXTENDS Naturals

CONSTANTS
  MaxPunches,  \* bound on punches
  Entry,       \* what a record may say about whose punch it is
  Unrecorded   \* no record yet; not in Entry

VARIABLES
  happened,    \* punches so far are 1..happened
  recorded,    \* recorded[n]: the record of punch n
  waived,      \* punches answered with OK and not recorded
  kept         \* punches terminals still keep to send

vars == <<happened, recorded, waived, kept>>

Punches == 1..MaxPunches

Init ==
  /\ happened = 0
  /\ recorded = [n \in Punches |-> Unrecorded]
  /\ waived = {}
  /\ kept = {}

Punch ==
  /\ happened < MaxPunches
  /\ happened' = happened + 1
  /\ kept' = kept \cup {happened + 1}
  /\ UNCHANGED <<recorded, waived>>

\* Some punches are recorded, those that have a record keep it, and terminals
\* may forget what is recorded or waived.
Record ==
  /\ recorded' \in [Punches -> Entry \cup {Unrecorded}]
  /\ \A n \in Punches :
       recorded'[n] # recorded[n] => recorded[n] = Unrecorded /\ n <= happened
  /\ waived \subseteq waived' /\ waived' \subseteq 1..happened
  /\ kept' \subseteq 1..happened
  /\ \A n \in kept \ kept' : recorded'[n] # Unrecorded \/ n \in waived'
  /\ UNCHANGED happened

Next == Punch \/ Record

Spec == Init /\ [][Next]_vars
===============================================================================
