------------------------ MODULE AdmissionSlotsProofs ------------------------
(***************************************************************************)
(* Proofs about AdmissionSlots.  Every step is a step of the general       *)
(* SlotPool or leaves that pool alone, so all that SlotPoolProofs          *)
(* establishes holds of the general pool; what is left to prove is the     *)
(* book-keeping of the reserve and what it guarantees against expensive    *)
(* traffic.                                                                *)
(***************************************************************************)
EXTENDS AdmissionSlots, FiniteSetTheorems, TLAPS

\* The theorems of SlotPoolProofs, about the general pool.
Pool == INSTANCE SlotPoolProofs WITH Capacity <- GeneralCapacity

\* The split: both parts are capacities, together they are the total, and
\* reserved_cheap_slots can never leave the general pool empty.
LEMMA Split ==
    /\ ReservedCapacity \in Nat /\ GeneralCapacity \in Nat
    /\ GeneralCapacity + ReservedCapacity = AtLeastZero(Total)
    /\ Total >= 1 => GeneralCapacity >= 1
  BY SlotsAssumption DEF ReservedCapacity, GeneralCapacity, AtLeastZero

-----------------------------------------------------------------------------
(* The general pool is a SlotPool *)

LEMMA StepOfPool ==
    ASSUME NEW r \in Requests, Step(r)
    PROVE  \/ Pool!Step(r)
           \/ UNCHANGED <<held, waiters, fut, pc>>
  BY DEF Step, AcquireGeneral, AcquireReserved, AwaitGeneral, ResumeGeneral,
         ReleaseGeneral, ReleaseReserved, Pool!Step, Pool!Resume, General!Resume,
         General!TryAcquire, Pool!TryAcquire, General!FreeSlot, Pool!FreeSlot,
         General!Enqueue, Pool!Enqueue, General!Enqueued, Pool!Enqueued,
         General!TimeoutFires, Pool!TimeoutFires,
         General!ResumeGranted, Pool!ResumeGranted,
         General!ResumeTimedOut, Pool!ResumeTimedOut,
         General!HandBack, Pool!HandBack, General!Withdraw, Pool!Withdraw,
         General!Release, Pool!Release, General!ReleaseSlot, Pool!ReleaseSlot,
         General!GiveUp, Pool!GiveUp, General!HandOver, Pool!HandOver,
         General!RemoveAt, Pool!RemoveAt

\* The general pool keeps the inductive invariant of SlotPool.
LEMMA PoolInvariantHolds == Spec => []Pool!PoolInv
  <1>1. Init => Pool!Init
    BY DEF Init, General!Init, Pool!Init
  <1>2. [Next]_slotVars => [Pool!Next]_(Pool!poolVars)
    <2>1. UNCHANGED slotVars => UNCHANGED Pool!poolVars
      BY DEF slotVars, Pool!poolVars
    <2> QED BY <2>1, StepOfPool DEF Next, Pool!Next, Pool!poolVars
  <1>3. Spec => Pool!Spec
    BY <1>1, <1>2, PTL DEF Spec, Pool!Spec
  <1>4. Pool!Spec => []Pool!PoolInv
    BY Split, Pool!PoolInvariant DEF Pool!CapacityAssumption
  <1> QED BY <1>3, <1>4, PTL

\* The general pool behaves as a SlotPool of its own, whatever happens to the
\* reserve.
THEOREM GeneralPoolIsAPool == Spec => GeneralIsAPool
  <1>1. Init => General!Init
    BY DEF Init
  <1>2. [Next]_slotVars => [General!Next]_(General!poolVars)
    BY DEF Next, slotVars, General!Next, General!poolVars, General!Step, Step,
           AcquireGeneral, AcquireReserved, AwaitGeneral, ResumeGeneral,
           ReleaseGeneral, ReleaseReserved
  <1> QED BY <1>1, <1>2, PTL DEF Spec, General!Spec, GeneralIsAPool

-----------------------------------------------------------------------------
(* The reserve *)

\* A holder of a reserved slot is cheap and is not in the general pool.
ReserveInv ==
    /\ reservedHeld \in 0 .. ReservedCapacity
    /\ reservedBy \subseteq Requests
    /\ IsFiniteSet(reservedBy)
    /\ reservedHeld = Cardinality(reservedBy)
    /\ \A r \in reservedBy : IsCheap(r) /\ pc[r] = "idle"

LEMMA InitEstablishesReserve == Init => ReserveInv
  BY Split, FS_EmptySet DEF Init, ReserveInv

LEMMA NextKeepsReserve == Pool!PoolInv /\ ReserveInv /\ [Next]_slotVars => ReserveInv'
  <1> SUFFICES ASSUME Pool!PoolInv, ReserveInv, [Next]_slotVars PROVE ReserveInv'
    OBVIOUS
  <1> USE DEF ReserveInv
  <1>a. pc \in [Requests -> {"idle", "waiting", "expired", "holding"}]
    BY DEF Pool!PoolInv, Pool!TypeOK
  <1>1. CASE UNCHANGED slotVars
    BY <1>1 DEF slotVars, IsCheap
  <1>2. ASSUME NEW r \in Requests, AcquireReserved(r)
        PROVE  ReserveInv'
    <2>1. /\ r \notin reservedBy /\ reservedBy' = reservedBy \cup {r}
          /\ reservedHeld' = reservedHeld + 1 /\ reservedHeld < ReservedCapacity
          /\ IsCheap(r) /\ pc[r] = "idle" /\ pc' = pc
      BY <1>2 DEF AcquireReserved, MayUseReserve
    <2>2. /\ IsFiniteSet(reservedBy')
          /\ Cardinality(reservedBy') = Cardinality(reservedBy) + 1
      BY <2>1, FS_AddElement
    <2> QED BY <2>1, <2>2, Split DEF IsCheap
  <1>3. ASSUME NEW r \in Requests, ReleaseReserved(r)
        PROVE  ReserveInv'
    <2>1. /\ r \in reservedBy /\ reservedBy' = reservedBy \ {r} /\ pc' = pc
          /\ reservedHeld' = AtLeastZero(reservedHeld - 1)
      BY <1>3 DEF ReleaseReserved
    <2>2. /\ IsFiniteSet(reservedBy')
          /\ Cardinality(reservedBy') = Cardinality(reservedBy) - 1
      BY <2>1, FS_RemoveElement
    <2>3. reservedHeld # 0
      BY <2>1, FS_EmptySet
    <2>4. reservedHeld' = reservedHeld - 1
      BY <2>1, <2>3, Split DEF AtLeastZero
    <2> QED BY <2>1, <2>2, <2>3, <2>4, Split DEF IsCheap
  <1>4. ASSUME NEW r \in Requests,
               AcquireGeneral(r) \/ AwaitGeneral(r) \/ ResumeGeneral(r) \/ ReleaseGeneral(r)
        PROVE  ReserveInv'
    <2>1. UNCHANGED reservedVars
      BY <1>4 DEF AcquireGeneral, AwaitGeneral, ResumeGeneral, ReleaseGeneral
    <2>2. r \notin reservedBy
      BY <1>4 DEF AcquireGeneral, AwaitGeneral, ResumeGeneral, ReleaseGeneral,
            General!Resume, General!TimeoutFires, General!ResumeGranted,
            General!ResumeTimedOut, General!Release
    <2>3. \A q \in Requests \ {r} : pc'[q] = pc[q]
      BY <1>4, <1>a DEF AcquireGeneral, AwaitGeneral, ResumeGeneral, ReleaseGeneral,
            General!TryAcquire, General!Enqueue, General!Resume, General!TimeoutFires,
            General!ResumeGranted, General!ResumeTimedOut, General!Release
    <2> QED BY <2>1, <2>2, <2>3 DEF reservedVars, IsCheap
  <1> QED BY <1>1, <1>2, <1>3, <1>4 DEF Next, Step

LEMMA ReserveInvariant == Spec => [](Pool!PoolInv /\ ReserveInv)
  BY PoolInvariantHolds, InitEstablishesReserve, NextKeepsReserve, PTL DEF Spec

\* The owners of general slots: the instances agree on them, there are held
\* of them, and none holds a reserved slot.
LEMMA GeneralOwners ==
    ASSUME Pool!PoolInv, ReserveInv
    PROVE  /\ IsFiniteSet(General!Owners)
           /\ held = Cardinality(General!Owners)
           /\ General!Owners \cap reservedBy = {}
  <1>1. General!Owners = Pool!Owners
    BY DEF General!Owners, Pool!Owners
  <1>2. Cardinality(Pool!Owners) = Pool!Cardinality(Pool!Owners)
    BY DEF Cardinality, Pool!Cardinality
  <1>3. IsFiniteSet(Pool!Owners) <=> Pool!IsFiniteSet(Pool!Owners)
    BY DEF IsFiniteSet, Pool!IsFiniteSet
  <1>4. \A r \in reservedBy : r \notin Pool!Owners
    BY DEF ReserveInv, Pool!PoolInv, Pool!DequeIsLive, Pool!Owners
  <1> QED BY <1>1, <1>2, <1>3, <1>4 DEF Pool!PoolInv, Pool!HeldIsOwned

-----------------------------------------------------------------------------
(* The results *)

\* Types, and with them the bounds of both counters, hold throughout.
THEOREM TypeCorrect == Spec => []TypeOK
  <1>1. Pool!PoolInv /\ ReserveInv => TypeOK
    BY DEF TypeOK, ReserveInv, Pool!PoolInv, Pool!TypeOK, General!TypeOK
  <1> QED BY <1>1, ReserveInvariant, PTL

\* Slots are neither lost nor invented across the two pools.
THEOREM SlotsAreConserved == Spec => []SlotsConserved
  <1>1. Pool!PoolInv /\ ReserveInv => SlotsConserved
    BY GeneralOwners DEF SlotsConserved, ReserveInv
  <1> QED BY <1>1, ReserveInvariant, PTL

\* However much expensive traffic comes, the reserve stays out of its reach.
THEOREM ReserveIsKept == Spec => []ExpensiveLeavesReserve
  <1>1. ASSUME Pool!PoolInv, ReserveInv
        PROVE  ExpensiveLeavesReserve
    <2> DEFINE expensive == {r \in Owners : ~IsCheap(r)}
    <2>1. expensive \subseteq General!Owners
      BY <1>1 DEF Owners, ReserveInv
    <2>2. IsFiniteSet(General!Owners) /\ held = Cardinality(General!Owners)
      BY <1>1, GeneralOwners
    <2>3. Cardinality(expensive) <= held /\ Cardinality(expensive) \in Nat
      BY <2>1, <2>2, FS_Subset, FS_CardinalityType
    <2>4. held \in 0 .. GeneralCapacity
      BY <1>1 DEF Pool!PoolInv, Pool!TypeOK
    <2> QED BY <2>3, <2>4, Split, SlotsAssumption DEF ExpensiveLeavesReserve, AtLeastZero
  <1> QED BY <1>1, ReserveInvariant, PTL
=============================================================================
