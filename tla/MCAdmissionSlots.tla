-------------------------- MODULE MCAdmissionSlots --------------------------
(* AdmissionSlots for model checking: three expensive and two cheap requests *)
(* on two general slots and one reserved slot.  Every pool can be full while *)
(* a request of either class waits.                                          *)
EXTENDS AdmissionSlots

CONSTANTS c1, c2, e1, e2, e3

MCRequests == {c1, c2, e1, e2, e3}
MCCost == [r \in MCRequests |-> IF r \in {c1, c2} THEN 1 ELSE 9]
=============================================================================
