------------------------------- MODULE HostBook -------------------------------
(***************************************************************************)
(* What the custom domains of ATGO promise, without rows, row locks, DNS   *)
(* lookups or requests that overlap: a book with one entry per host name.  *)
(* Whoever claims a host first holds it; it is served only after the       *)
(* holder's own proof; once served it stays so until it is given up or     *)
(* restricted, and what a former holder proved counts for nobody else.     *)
(* CustomDomains implements this module.                                   *)
(***************************************************************************)
CONSTANTS Hosts, Holders

VARIABLE book   \* entries [host, holder, standing, proof]

Init == book = {}

Claim(n, t) ==
  /\ \A e \in book : e.host # n
  /\ book' = book \cup {[host |-> n, holder |-> t, standing |-> "held", proof |-> "none"]}

Replace(e, f) == book' = (book \ {e}) \cup {f}

Prove(e) == Replace(e, [e EXCEPT !.proof = "given"])

Serve(e) ==
  /\ e.proof = "given"
  /\ Replace(e, [e EXCEPT !.standing = "served"])

\* A restricted host stays with its holder, who may have it served again.
Restrict(e) == Replace(e, [e EXCEPT !.standing = "restricted"])

GiveUp(e) == book' = book \ {e}

Next ==
  \/ \E n \in Hosts, t \in Holders : Claim(n, t)
  \/ \E e \in book : Prove(e) \/ Serve(e) \/ Restrict(e) \/ GiveUp(e)

Spec == Init /\ [][Next]_book
===============================================================================
