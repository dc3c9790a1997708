------------------------------- MODULE Platform -------------------------------
(***************************************************************************)
(* Signup, Access and RateLimiter side by side.  They share no state, so a *)
(* behaviour runs one of them (part) and leaves the others alone.          *)
(***************************************************************************)
EXTENDS Signup, Access, RateLimiter

CONSTANT Parts  \* of "signup", "access" and "limiter"

VARIABLE part

vars == <<part, signupVars, accessVars, limiterVars>>

Init == part \in Parts /\ SignupInit /\ AccessInit /\ LimiterInit

Next ==
  /\ UNCHANGED part
  /\ \/ part = "signup" /\ SignupNext /\ UNCHANGED <<accessVars, limiterVars>>
     \/ part = "access" /\ AccessNext /\ UNCHANGED <<signupVars, limiterVars>>
     \/ part = "limiter" /\ LimiterNext /\ UNCHANGED <<signupVars, accessVars>>

Spec == Init /\ [][Next]_vars

\* The state of every part has its type, whatever interleaves.
PlatformTypeOK == SignupTypeOK /\ AccessTypeOK /\ LimiterTypeOK
==============================================================================
