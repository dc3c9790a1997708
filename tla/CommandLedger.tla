---------------------------- MODULE CommandLedger ----------------------------
(***************************************************************************)
(* What the command queue promises, without transactions, row locks, ids,  *)
(* rollbacks or deadlocks: commands appear in batches, each batch in a     *)
(* turn of its own and with at most one command for a subject; a command   *)
(* is sent once or lapses; what a terminal holds about a subject is only   *)
(* replaced by a command of a later turn; and a command ends as what       *)
(* carrying it out came to.  CommandQueue implements this module.          *)
(***************************************************************************)
EXTENDS Naturals

CONSTANTS
  Items,      \* commands
  Subjects,   \* what a command is about
  Outcomes,   \* what carrying a command out can come to
  NoItem,
  NoSubject

VARIABLES
  phase,      \* phase[c]: "absent", "waiting", "lapsed", "sent" or an outcome
  about,      \* about[c]: the subject of command c
  turn,       \* turn[c]: the turn command c appeared in
  turns,      \* turns so far
  held,       \* held[s]: the command a terminal carried out last about s
  result      \* result[c]: what carrying out c came to

vars == <<phase, about, turn, turns, held, result>>

Init ==
  /\ phase = [c \in Items |-> "absent"]
  /\ about = [c \in Items |-> NoSubject]
  /\ turn = [c \in Items |-> 0]
  /\ turns = 0
  /\ held = [s \in Subjects |-> NoItem]
  /\ result = [c \in Items |-> "none"]

\* The commands C appear, all of them at once.
Publish(C) ==
  /\ \A c \in C : phase[c] = "absent"
  /\ phase' = [c \in Items |-> IF c \in C THEN "waiting" ELSE phase[c]]
  /\ \E subject \in [C -> Subjects] :
       /\ \A c, e \in C : subject[c] = subject[e] => c = e
       /\ about' = [c \in Items |-> IF c \in C THEN subject[c] ELSE about[c]]
  /\ turns' = turns + 1
  /\ turn' = [c \in Items |-> IF c \in C THEN turns' ELSE turn[c]]
  /\ UNCHANGED <<held, result>>

Lapse(c) ==
  /\ phase[c] = "waiting"
  /\ phase' = [phase EXCEPT ![c] = "lapsed"]
  /\ UNCHANGED <<about, turn, turns, held, result>>

\* The commands about a subject leave in the order of their turns.
Leave(c) ==
  /\ phase[c] = "waiting"
  /\ \A e \in Items : phase[e] = "waiting" /\ about[e] = about[c] => turn[c] <= turn[e]
  /\ phase' = [phase EXCEPT ![c] = "sent"]
  /\ UNCHANGED <<about, turn, turns>>

\* A command may be lost on its way: then nobody ever carries it out.
Lose(c) ==
  /\ Leave(c)
  /\ UNCHANGED <<held, result>>

CarryOut(c) ==
  /\ Leave(c)
  /\ held[about[c]] # NoItem => turn[held[about[c]]] < turn[c]
  /\ held' = [held EXCEPT ![about[c]] = c]
  /\ \E o \in Outcomes : result' = [result EXCEPT ![c] = o]

Conclude(c) ==
  /\ phase[c] = "sent"
  /\ result[c] \in Outcomes
  /\ phase' = [phase EXCEPT ![c] = result[c]]
  /\ UNCHANGED <<about, turn, turns, held, result>>

Next ==
  \/ \E C \in SUBSET Items : Publish(C)
  \/ \E c \in Items : Lapse(c) \/ Lose(c) \/ CarryOut(c) \/ Conclude(c)

Spec == Init /\ [][Next]_vars
==============================================================================
