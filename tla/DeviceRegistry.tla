---------------------------- MODULE DeviceRegistry ----------------------------
(***************************************************************************)
(* What the device registry of ATGO promises, without transactions, locks, *)
(* claim-code expiry or plan limits: a device record is registered, a      *)
(* terminal's serial number is attached to it once and for all, the record *)
(* is activated and retired, and at no time do two live records answer     *)
(* for the same serial number.  DeviceClaim implements this module.        *)
(***************************************************************************)
CONSTANTS
  Records,   \* device records (rows of `devices`)
  Serials,   \* serial numbers of physical terminals
  NoSerial   \* a record no terminal is attached to yet; not in Serials

VARIABLES
  phase,     \* phase[d]: where record d is in its life
  attached   \* attached[d]: the serial number record d stands for

vars == <<phase, attached>>

LivePhases == {"pending_claim", "active"}

\* The live records that answer for serial number s.
Holders(s) == {d \in Records : phase[d] \in LivePhases /\ attached[d] = s}

Init ==
  /\ phase = [d \in Records |-> "absent"]
  /\ attached = [d \in Records |-> NoSerial]

Register(d) ==
  /\ phase[d] = "absent"
  /\ phase' = [phase EXCEPT ![d] = "pending_claim"]
  /\ UNCHANGED attached

\* A record that was retired meanwhile may still receive a serial number, even
\* one a live record holds: nobody will answer for it under the retired record.
Attach(d, s) ==
  /\ phase[d] # "absent"
  /\ attached[d] = NoSerial
  /\ phase[d] \in LivePhases => Holders(s) = {}
  /\ attached' = [attached EXCEPT ![d] = s]
  /\ UNCHANGED phase

Activate(d) ==
  /\ phase[d] # "absent"
  /\ attached[d] # NoSerial
  /\ Holders(attached[d]) \subseteq {d}
  /\ phase' = [phase EXCEPT ![d] = "active"]
  /\ UNCHANGED attached

Retire(d) ==
  /\ phase[d] # "absent"
  /\ phase' = [phase EXCEPT ![d] = "disabled"]
  /\ UNCHANGED attached

Next ==
  \E d \in Records :
    \/ Register(d)
    \/ \E s \in Serials : Attach(d, s)
    \/ Activate(d)
    \/ Retire(d)

Spec == Init /\ [][Next]_vars
===============================================================================
