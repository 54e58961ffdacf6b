------------------------------ MODULE SlotPool ------------------------------
(***************************************************************************)
(* SlotPool of gateway/slots.py: a counter of held slots, a deque of       *)
(* asyncio futures in arrival order, and a bounded wait on each of them.   *)
(*                                                                         *)
(* The event loop is single threaded, so what a coroutine does between two *)
(* awaits is one action.  acquire() is cut at its await:                   *)
(*                                                                         *)
(*   TryAcquire | Enqueue   the call, up to the await of the future        *)
(*   TimeoutFires           the timer of wait_for, a callback of the loop  *)
(*   ResumeGranted          the coroutine continues with the slot          *)
(*   ResumeTimedOut         the coroutine continues in the except branch   *)
(*                                                                         *)
(* Between release() resolving a future and its coroutine continuing, the  *)
(* timer may still fire.  What wait_for then does depends on the           *)
(* interpreter (pyproject.toml admits every version from 3.10): up to 3.11 *)
(* a resolved future wins, from 3.12 on the timer wins.  Both are          *)
(* behaviours of the model: ResumeGranted and TimeoutFires are both        *)
(* enabled there.                                                          *)
(*                                                                         *)
(* A request stands for a handler of the gateway; one that was refused or  *)
(* has released its slot may come again.  A pool of capacity 0 refuses at  *)
(* once and changes nothing, so it has no action here.                     *)
(***************************************************************************)
EXTENDS Integers, FiniteSets, SequencesExt

CONSTANTS Requests,     \* the handlers that call acquire and release
          Capacity      \* SlotPool.capacity, already clamped at 0

ASSUME CapacityAssumption == Capacity \in Nat

VARIABLES held,         \* SlotPool.held
          waiters,      \* SlotPool._waiters, oldest first
          fut,          \* the state of the future a request waits on
          pc            \* where the request is in acquire ... release

poolVars == <<held, waiters, fut, pc>>

TypeOK ==
    /\ held \in 0 .. Capacity
    /\ waiters \in Seq(Requests)
    /\ fut \in [Requests -> {"none", "pending", "set"}]
    /\ pc \in [Requests -> {"idle", "waiting", "expired", "holding"}]

Init ==
    /\ held = 0
    /\ waiters = <<>>
    /\ fut = [r \in Requests |-> "none"]
    /\ pc = [r \in Requests |-> "idle"]

-----------------------------------------------------------------------------
(* acquire, up to its await *)

FreeSlotMutant == held <= Capacity

FreeSlot == held < Capacity

TryAcquire(r) ==
    /\ pc[r] = "idle" /\ FreeSlot
    /\ held' = held + 1
    /\ pc' = [pc EXCEPT ![r] = "holding"]
    /\ UNCHANGED <<waiters, fut>>

\* A bug in the queue discipline: the newcomer is put at the front.
EnqueuedMutant(r) == <<r>> \o waiters

Enqueued(r) == Append(waiters, r)

Enqueue(r) ==
    /\ pc[r] = "idle" /\ ~FreeSlot /\ Capacity # 0
    /\ waiters' = Enqueued(r)
    /\ fut' = [fut EXCEPT ![r] = "pending"]
    /\ pc' = [pc EXCEPT ![r] = "waiting"]
    /\ UNCHANGED held

-----------------------------------------------------------------------------
(* release: the first waiter whose future is not done gets the slot; held  *)
(* changes only when there is no such waiter.                              *)

\* A bug: the slot is handed over and counted as free as well.
HandOverMutant(r, i) ==
    /\ i \in DOMAIN waiters /\ fut[waiters[i]] = "pending"
    /\ \A j \in 1 .. (i - 1) : fut[waiters[j]] # "pending"
    /\ waiters' = SubSeq(waiters, i + 1, Len(waiters))
    /\ fut' = [fut EXCEPT ![r] = "none", ![waiters[i]] = "set"]
    /\ held' = IF held = 0 THEN 0 ELSE held - 1

HandOver(r, i) ==
    /\ i \in DOMAIN waiters /\ fut[waiters[i]] = "pending"
    /\ \A j \in 1 .. (i - 1) : fut[waiters[j]] # "pending"
    /\ waiters' = SubSeq(waiters, i + 1, Len(waiters))
    /\ fut' = [fut EXCEPT ![r] = "none", ![waiters[i]] = "set"]
    /\ UNCHANGED held

\* A bug: the counter goes down and the deque is not looked at.
GiveUpMutant(r) ==
    /\ held' = IF held = 0 THEN 0 ELSE held - 1
    /\ fut' = [fut EXCEPT ![r] = "none"]
    /\ UNCHANGED waiters

GiveUp(r) ==
    /\ \A j \in DOMAIN waiters : fut[waiters[j]] # "pending"
    /\ waiters' = <<>>
    /\ fut' = [fut EXCEPT ![r] = "none"]
    /\ held' = IF held = 0 THEN 0 ELSE held - 1

\* The slot r owns, held or just handed to it, goes back; r's future is dropped.
ReleaseSlot(r) == GiveUp(r) \/ \E i \in DOMAIN waiters : HandOver(r, i)

Release(r) ==
    /\ pc[r] = "holding"
    /\ ReleaseSlot(r)
    /\ pc' = [pc EXCEPT ![r] = "idle"]

-----------------------------------------------------------------------------
(* acquire, from its await on *)

TimeoutFires(r) ==
    /\ pc[r] = "waiting"
    /\ pc' = [pc EXCEPT ![r] = "expired"]
    /\ UNCHANGED <<held, waiters, fut>>

ResumeGranted(r) ==
    /\ pc[r] = "waiting" /\ fut[r] = "set"
    /\ pc' = [pc EXCEPT ![r] = "holding"]
    /\ fut' = [fut EXCEPT ![r] = "none"]
    /\ UNCHANGED <<held, waiters>>

\* A bug: the coroutine gives up and leaves its future in the deque.
WithdrawMutant(r, i) ==
    /\ i \in DOMAIN waiters /\ waiters[i] = r
    /\ fut' = [fut EXCEPT ![r] = "none"]
    /\ UNCHANGED <<held, waiters>>

\* Still queued: deque.remove takes the future out of the deque.
Withdraw(r, i) ==
    /\ i \in DOMAIN waiters /\ waiters[i] = r
    /\ waiters' = RemoveAt(waiters, i)
    /\ fut' = [fut EXCEPT ![r] = "none"]
    /\ UNCHANGED held

\* A bug: the ValueError is ignored and the slot is never given back.
HandBackMutant(r) ==
    /\ \A i \in DOMAIN waiters : waiters[i] # r
    /\ fut' = [fut EXCEPT ![r] = "none"]
    /\ UNCHANGED <<held, waiters>>

\* No longer queued (ValueError): release() has granted the slot meanwhile.
HandBack(r) ==
    /\ \A i \in DOMAIN waiters : waiters[i] # r
    /\ fut[r] = "set"
    /\ ReleaseSlot(r)

\* A bug: a request that is not queued any more raises out of the handler.
ResumeTimedOutMutant(r) ==
    /\ pc[r] = "expired"
    /\ \E i \in DOMAIN waiters : Withdraw(r, i)
    /\ pc' = [pc EXCEPT ![r] = "idle"]

ResumeTimedOut(r) ==
    /\ pc[r] = "expired"
    /\ HandBack(r) \/ \E i \in DOMAIN waiters : Withdraw(r, i)
    /\ pc' = [pc EXCEPT ![r] = "idle"]

-----------------------------------------------------------------------------
\* The steps the event loop owes a waiting request.
Resume(r) == TimeoutFires(r) \/ ResumeGranted(r) \/ ResumeTimedOut(r)

Step(r) == TryAcquire(r) \/ Enqueue(r) \/ Release(r) \/ Resume(r)

Next == \E r \in Requests : Step(r)

Spec == Init /\ [][Next]_poolVars

\* A timer that is due fires and a coroutine that is ready runs; nothing
\* obliges a holder to release, nor a client to come.
FairSpec == Spec /\ \A r \in Requests : WF_poolVars(Resume(r))

-----------------------------------------------------------------------------
(* Properties *)

\* The requests a slot is accounted to: those that hold one, and those whose
\* future was resolved but whose coroutine has not continued yet.
Owners == {r \in Requests : pc[r] = "holding" \/ fut[r] = "set"}

\* No capacity is leaked and none is invented: whatever the interleaving of
\* releases, hand-overs and timers, SlotPool.held is exactly the number of
\* requests that own a slot (slots.py:57 "rather than leaking capacity").
HeldIsOwned == held = Cardinality(Owners)

\* The pool never lets more requests through than it has slots.
NoOverCommit == Cardinality(Owners) <= Capacity

\* No wake-up is lost: nobody queues while a slot is free, in particular not
\* after a slot was handed back by a request that timed out.
NoIdleSlot == waiters # <<>> => held = Capacity

\* Only live requests sit in the deque, each once: the future of a request
\* that gave up never stays behind to swallow a slot.
DequeIsLive ==
    /\ \A i, j \in DOMAIN waiters : waiters[i] = waiters[j] => i = j
    /\ \A r \in Requests :
          (\E i \in DOMAIN waiters : waiters[i] = r) <=> fut[r] = "pending"
    /\ \A r \in Requests :
          fut[r] # "none" <=> pc[r] \in {"waiting", "expired"}

\* First come, first served: a request becomes an owner only when nobody
\* waits or when it is the one that has waited longest.
NoBarging ==
    [][\A r \in Requests :
          r \in Owners' \ Owners => waiters = <<>> \/ r = Head(waiters)]_poolVars

\* Every wait ends: with a slot, or with the refusal that queue_wait_ms
\* promises, also when the slot arrives while the request times out.
EveryWaitEnds ==
    \A r \in Requests : pc[r] = "waiting" ~> pc[r] \in {"idle", "holding"}

\* The pool implements the first-come-first-served ledger.
Ledger == INSTANCE SlotLedger WITH owners <- Owners, queue <- waiters
ImplementsLedger == Ledger!Spec
=============================================================================
