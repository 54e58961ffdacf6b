---------------------------- MODULE MCAdmission ----------------------------
(* Admission for model checking: a flooder with three expensive requests and *)
(* a quiet client with two cheap ones, on one general and one reserved slot. *)
EXTENDS Admission

CONSTANTS f1, f2, f3, q1, q2, flooder, quiet

MCRequests == {f1, f2, f3, q1, q2}
MCClients == {flooder, quiet}
MCClient == [r \in MCRequests |-> IF r \in {f1, f2, f3} THEN flooder ELSE quiet]
MCCost == [r \in MCRequests |-> IF r \in {f1, f2, f3} THEN 2 ELSE 1]

\* All requests cost the same: nobody is above a fair share for long.
MCEvenCost == [r \in MCRequests |-> 1]

\* Requests of one client and one cost are alike.
RequestSymmetry == Permutations({f1, f2, f3}) \cup Permutations({q1, q2})
=============================================================================
