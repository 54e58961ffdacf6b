----------------------------- MODULE MCSlotPool -----------------------------
(* SlotPool for model checking.  Four requests and two slots let two queue  *)
(* behind two holders: the least number at which a slot that is handed back *)
(* by a timed-out request meets another waiter.                             *)
EXTENDS SlotPool

=============================================================================
