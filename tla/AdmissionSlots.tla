--------------------------- MODULE AdmissionSlots ---------------------------
(***************************************************************************)
(* AdmissionSlots of gateway/slots.py: the gateway's slots in two pools.   *)
(* The general pool is a SlotPool with its deque, futures and timers; the  *)
(* reserved pool is only ever asked with try_acquire, so nobody waits on   *)
(* it and its counter is all of its state.                                 *)
(*                                                                         *)
(* acquire tries the general pool, then for a cheap request the reserved   *)
(* one, then waits on the general pool.  There is no await before the      *)
(* wait, so each of the three outcomes is one action.                      *)
(***************************************************************************)
EXTENDS Integers, FiniteSets, SequencesExt

CONSTANTS Requests,             \* the handlers that call acquire and release
          Cost,                 \* the estimated token cost of each request
          Total,                \* backpressure.global_max_inflight
          ReservedCheap,        \* backpressure.reserved_cheap_slots
          CheapCostThreshold    \* backpressure.cheap_cost_threshold

ASSUME SlotsAssumption ==
    /\ Total \in Int /\ ReservedCheap \in Int /\ CheapCostThreshold \in Int
    /\ Cost \in [Requests -> Nat]

VARIABLES held, waiters, fut, pc,   \* the general pool, as in SlotPool
          reservedHeld,             \* reserved.held
          reservedBy                \* the requests whose slot_pool is "reserved"

reservedVars == <<reservedHeld, reservedBy>>
slotVars == <<held, waiters, fut, pc, reservedHeld, reservedBy>>

-----------------------------------------------------------------------------
(* The split made by the constructor *)

AtLeastZero(n) == IF n < 0 THEN 0 ELSE n

\* At least one slot stays general, whatever the configuration says.
ReservedCapacity ==
    LET most == AtLeastZero(Total - 1)
    IN  AtLeastZero(IF ReservedCheap < most THEN ReservedCheap ELSE most)

GeneralCapacity == AtLeastZero(Total - ReservedCapacity)

General == INSTANCE SlotPool WITH Capacity <- GeneralCapacity

IsCheap(r) == Cost[r] <= CheapCostThreshold

Init == General!Init /\ reservedHeld = 0 /\ reservedBy = {}

-----------------------------------------------------------------------------
(* acquire *)

\* A bug: every request may use the reserve.
MayUseReserveMutant(r) == reservedHeld < ReservedCapacity

MayUseReserve(r) == IsCheap(r) /\ reservedHeld < ReservedCapacity

AcquireGeneral(r) ==
    /\ r \notin reservedBy
    /\ General!TryAcquire(r)
    /\ UNCHANGED reservedVars

AcquireReserved(r) ==
    /\ r \notin reservedBy /\ pc[r] = "idle"
    /\ ~General!FreeSlot /\ MayUseReserve(r)
    /\ reservedHeld' = reservedHeld + 1
    /\ reservedBy' = reservedBy \cup {r}
    /\ UNCHANGED <<held, waiters, fut, pc>>

AwaitGeneral(r) ==
    /\ r \notin reservedBy
    /\ ~MayUseReserve(r)
    /\ General!Enqueue(r)
    /\ UNCHANGED reservedVars

\* The await of the general pool: timer, grant, refusal.
ResumeGeneral(r) == General!Resume(r) /\ UNCHANGED reservedVars

-----------------------------------------------------------------------------
(* release(pool), with the pool name acquire returned *)

ReleaseGeneral(r) == General!Release(r) /\ UNCHANGED reservedVars

\* A bug: the slot is returned to the general pool whatever it came from.
ReleaseReservedMutant(r) ==
    /\ r \in reservedBy
    /\ General!ReleaseSlot(r)
    /\ reservedBy' = reservedBy \ {r}
    /\ UNCHANGED <<pc, reservedHeld>>

\* The reserved pool has no waiters: release only lowers its counter.
ReleaseReserved(r) ==
    /\ r \in reservedBy
    /\ reservedHeld' = AtLeastZero(reservedHeld - 1)
    /\ reservedBy' = reservedBy \ {r}
    /\ UNCHANGED <<held, waiters, fut, pc>>

-----------------------------------------------------------------------------
Step(r) ==
    \/ AcquireGeneral(r) \/ AcquireReserved(r) \/ AwaitGeneral(r)
    \/ ResumeGeneral(r)
    \/ ReleaseGeneral(r) \/ ReleaseReserved(r)

Next == \E r \in Requests : Step(r)

Spec == Init /\ [][Next]_slotVars

-----------------------------------------------------------------------------
(* Properties *)

Owners == General!Owners \cup reservedBy

\* The general pool stays a SlotPool in a correct state, and the two books of
\* the reserve agree.
TypeOK ==
    /\ General!TypeOK
    /\ reservedHeld \in 0 .. ReservedCapacity
    /\ reservedBy \subseteq Requests

\* Slots are neither lost nor invented across the two pools: each owner is in
\* one pool only, and AdmissionSlots.held counts the owners.
SlotsConserved ==
    /\ General!Owners \cap reservedBy = {}
    /\ held = Cardinality(General!Owners)
    /\ reservedHeld = Cardinality(reservedBy)

\* However much expensive traffic comes, it never occupies the reserve: at
\* least ReservedCapacity slots are free of it.
ExpensiveLeavesReserve ==
    Cardinality({r \in Owners : ~IsCheap(r)}) + ReservedCapacity <= AtLeastZero(Total)

\* The general pool behaves as a SlotPool of its own: the reserve does not
\* disturb its queue.
GeneralIsAPool == General!Spec

\* slots.py:8-10 "cheap requests may use either [...] A small reserved pool
\* means low-cost traffic always has somewhere to go, no matter how much
\* expensive traffic is queued": no cheap request queues while a reserved
\* slot is free.
CheapHasSomewhereToGo ==
    \A r \in Requests :
        IsCheap(r) /\ fut[r] = "pending" => reservedHeld = ReservedCapacity
=============================================================================
