-------------------------- MODULE AdmissionProofs --------------------------
(***************************************************************************)
(* Proofs about Admission, for every configuration.  The slots inside the  *)
(* controller are AdmissionSlots, so what AdmissionSlotsProofs establishes *)
(* holds of them.  StageInv ties the progress of each request to the state *)
(* of the slots; on it rest the counts (CountInv) and, with the counts of  *)
(* charged requests, the request budget (BudgetInv).  The cost budget is   *)
(* the same balance of sums, and that fair share leaves somebody is about  *)
(* sums too: not all of the clients can have more than the mean.           *)
(***************************************************************************)
EXTENDS Admission, FiniteSums, FiniteSetTheorems, TLAPS

\* The theorems of AdmissionSlotsProofs.
SlotProofs == INSTANCE AdmissionSlotsProofs

\* Where a request stands, and what the slots know of it.
StageInv ==
    /\ stage \in [Requests -> {"new", "queued", "admitted", "done"} \cup Reasons]
    /\ pc \in [Requests -> {"idle", "waiting", "expired", "holding"}]
    /\ \A r \in Requests :
          /\ stage[r] = "queued" <=> pc[r] \in {"waiting", "expired"}
          /\ HoldsSlot(r) => stage[r] = "admitted"
          /\ stage[r] = "admitted" => HoldsSlot(r)
          /\ r \in reservedBy => pc[r] = "idle"

-----------------------------------------------------------------------------
(* What each step does to the slots *)

\* A step moves one request at most, and only that one's pc and pool.
LEMMA SlotEffects ==
    ASSUME StageInv, NEW r \in Requests
    PROVE  /\ Slots!AcquireGeneral(r) =>
                 pc' = [pc EXCEPT ![r] = "holding"] /\ reservedBy' = reservedBy
           /\ Slots!AcquireReserved(r) =>
                 pc[r] = "idle" /\ pc' = pc /\ reservedBy' = reservedBy \cup {r}
           /\ Slots!AwaitGeneral(r) =>
                 /\ r \notin reservedBy /\ pc[r] = "idle"
                 /\ pc' = [pc EXCEPT ![r] = "waiting"] /\ reservedBy' = reservedBy
           /\ Slots!General!TimeoutFires(r) =>
                 pc[r] = "waiting" /\ pc' = [pc EXCEPT ![r] = "expired"]
           /\ Slots!General!ResumeGranted(r) =>
                 pc[r] = "waiting" /\ pc' = [pc EXCEPT ![r] = "holding"]
           /\ Slots!General!ResumeTimedOut(r) =>
                 pc[r] = "expired" /\ pc' = [pc EXCEPT ![r] = "idle"]
           /\ Slots!ReleaseGeneral(r) =>
                 /\ pc[r] = "holding" /\ pc' = [pc EXCEPT ![r] = "idle"]
                 /\ reservedBy' = reservedBy
           /\ Slots!ReleaseReserved(r) =>
                 r \in reservedBy /\ pc' = pc /\ reservedBy' = reservedBy \ {r}
  BY DEF Slots!AcquireGeneral, Slots!AcquireReserved, Slots!AwaitGeneral,
         Slots!ReleaseGeneral, Slots!ReleaseReserved, Slots!reservedVars,
         Slots!General!TryAcquire, Slots!General!Enqueue, Slots!General!TimeoutFires,
         Slots!General!ResumeGranted, Slots!General!ResumeTimedOut, Slots!General!Release

LEMMA InitEstablishesStage == Init => StageInv
  BY DEF Init, Slots!Init, Slots!General!Init, StageInv, HoldsSlot

LEMMA NextKeepsStage == StageInv /\ [Next]_vars => StageInv'
  <1> SUFFICES ASSUME StageInv, [Next]_vars PROVE StageInv'
    OBVIOUS
  <1> USE DEF StageInv, HoldsSlot, Reasons, LimitReasons
  <1>1. CASE UNCHANGED vars
    BY <1>1 DEF vars, slotVars
  <1>2. ASSUME NEW r \in Requests, NEW reason \in LimitReasons, RefuseLimited(r, reason)
        PROVE  StageInv'
    BY <1>2 DEF RefuseLimited, slotVars
  <1>3. ASSUME NEW r \in Requests, NEW rest, RefuseOverShare(r, rest)
        PROVE  StageInv'
    BY <1>3 DEF RefuseOverShare, slotVars
  <1>4. ASSUME NEW r \in Requests, NEW rest, AdmitAtOnce(r, rest)
        PROVE  StageInv'
    BY <1>4, SlotEffects DEF AdmitAtOnce, PassTo, CountAdmitted
  <1>5. ASSUME NEW r \in Requests, NEW rest, Queue(r, rest)
        PROVE  StageInv'
    BY <1>5, SlotEffects DEF Queue, PassTo
  <1>6. ASSUME NEW r \in Requests, QueueWaitExpires(r)
        PROVE  StageInv'
    BY <1>6, SlotEffects DEF QueueWaitExpires
  <1>7. ASSUME NEW r \in Requests, AdmitFromQueue(r)
        PROVE  StageInv'
    BY <1>7, SlotEffects DEF AdmitFromQueue, CountAdmitted
  <1>8. ASSUME NEW r \in Requests, RefuseQueued(r)
        PROVE  StageInv'
    BY <1>8, SlotEffects DEF RefuseQueued
  <1>9. ASSUME NEW r \in Requests, Release(r)
         PROVE  StageInv'
    BY <1>9, SlotEffects DEF Release, slotVars
  <1>10. CASE Tick \/ \E rest \in RestSignals : Sample(rest)
    BY <1>10 DEF Tick, Sample, slotVars
  <1> QED BY <1>1, <1>2, <1>3, <1>4, <1>5, <1>6, <1>7, <1>8, <1>9, <1>10
          DEF Next, Arrive, Resume

-----------------------------------------------------------------------------
(* The slots are AdmissionSlots *)

LEMMA StepOfSlots == [Next]_vars => [Slots!Next]_slotVars
  <1> SUFFICES ASSUME [Next]_vars PROVE [Slots!Next]_slotVars
    OBVIOUS
  <1>1. CASE UNCHANGED vars
    BY <1>1 DEF vars
  <1>2. ASSUME NEW r \in Requests, Arrive(r) \/ Resume(r) \/ Release(r)
        PROVE  Slots!Step(r) \/ UNCHANGED slotVars
    <2>1. CASE Arrive(r)
      BY <2>1 DEF Arrive, RefuseLimited, RefuseOverShare, AdmitAtOnce, Queue,
                  Slots!Step
    <2>2. CASE Resume(r)
      <3>1. Slots!General!Resume(r) /\ UNCHANGED <<reservedHeld, reservedBy>>
        BY <2>2 DEF Resume, QueueWaitExpires, AdmitFromQueue, RefuseQueued,
                    Slots!General!Resume
      <3> QED BY <3>1 DEF Slots!Step, Slots!ResumeGeneral, Slots!reservedVars
    <2>3. CASE Release(r)
      BY <2>3 DEF Release, Slots!Step
    <2> QED BY <1>2, <2>1, <2>2, <2>3
  <1>3. CASE Tick \/ \E rest \in RestSignals : Sample(rest)
    BY <1>3 DEF Tick, Sample
  <1> QED BY <1>1, <1>2, <1>3 DEF Next, Slots!Next

\* The slots inside the controller behave as AdmissionSlots: every step of the
\* pipeline acquires, waits, resumes or releases as slots.py does, or leaves
\* the slots alone.
THEOREM SlotsRefined == Spec => SlotsAreAdmissionSlots
  <1>1. Init => Slots!Init
    BY DEF Init
  <1>2. [Next]_vars => [Slots!Next]_(Slots!slotVars)
    BY StepOfSlots DEF slotVars, Slots!slotVars
  <1> QED BY <1>1, <1>2, PTL DEF Spec, Slots!Spec, SlotsAreAdmissionSlots

LEMMA StageInvariant == Spec => []StageInv
  BY InitEstablishesStage, NextKeepsStage, PTL DEF Spec

\* SlotProofs speaks of the same slots under another name.
LEMMA SameStep ==
    ASSUME NEW r \in Requests, Slots!Step(r)
    PROVE  SlotProofs!Step(r)
  BY DEF Slots!GeneralCapacity, SlotProofs!GeneralCapacity,
         Slots!ReservedCapacity, SlotProofs!ReservedCapacity,
         Slots!AtLeastZero, SlotProofs!AtLeastZero,
         Slots!IsCheap, SlotProofs!IsCheap,
         Slots!MayUseReserve, SlotProofs!MayUseReserve,
         Slots!AcquireGeneral, SlotProofs!AcquireGeneral,
         Slots!AcquireReserved, SlotProofs!AcquireReserved,
         Slots!AwaitGeneral, SlotProofs!AwaitGeneral,
         Slots!ResumeGeneral, SlotProofs!ResumeGeneral,
         Slots!ReleaseGeneral, SlotProofs!ReleaseGeneral,
         Slots!ReleaseReserved, SlotProofs!ReleaseReserved,
         Slots!reservedVars, SlotProofs!reservedVars, Slots!Step, SlotProofs!Step,
         Slots!General!FreeSlot, SlotProofs!General!FreeSlot,
         Slots!General!TryAcquire, SlotProofs!General!TryAcquire,
         Slots!General!Enqueue, SlotProofs!General!Enqueue,
         Slots!General!Enqueued, SlotProofs!General!Enqueued,
         Slots!General!TimeoutFires, SlotProofs!General!TimeoutFires,
         Slots!General!ResumeGranted, SlotProofs!General!ResumeGranted,
         Slots!General!ResumeTimedOut, SlotProofs!General!ResumeTimedOut,
         Slots!General!HandBack, SlotProofs!General!HandBack,
         Slots!General!Withdraw, SlotProofs!General!Withdraw,
         Slots!General!Release, SlotProofs!General!Release,
         Slots!General!ReleaseSlot, SlotProofs!General!ReleaseSlot,
         Slots!General!GiveUp, SlotProofs!General!GiveUp,
         Slots!General!HandOver, SlotProofs!General!HandOver,
         Slots!General!RemoveAt, SlotProofs!General!RemoveAt,
         Slots!General!Resume, SlotProofs!General!Resume

\* What AdmissionSlotsProofs knows of the slots.
SlotsInv == SlotProofs!Pool!PoolInv /\ SlotProofs!ReserveInv

LEMMA SlotsConfiguration == SlotProofs!SlotsAssumption
  BY SlotsConfigured DEF Slots!SlotsAssumption, SlotProofs!SlotsAssumption

LEMMA SlotsInvariant == Spec => []SlotsInv
  <1>1. Init => SlotProofs!Init
    BY DEF Init, Slots!Init, SlotProofs!Init, Slots!General!Init, SlotProofs!General!Init
  <1>2. [Next]_vars => [SlotProofs!Next]_(SlotProofs!slotVars)
    BY StepOfSlots, SameStep DEF Slots!Next, SlotProofs!Next, slotVars, SlotProofs!slotVars
  <1>3. SlotProofs!Spec => []SlotsInv
    BY SlotsConfiguration, SlotProofs!ReserveInvariant DEF SlotsInv
  <1> QED BY <1>1, <1>2, <1>3, PTL DEF Spec, SlotProofs!Spec

-----------------------------------------------------------------------------
(* The counts of requests in flight *)

CountInv ==
    /\ IsFiniteSet(Admitted)
    /\ inflight = Cardinality(Admitted)
    /\ pressureInflight = inflight
    /\ limiterInflight \in [Clients -> Nat]
    /\ concurrency \in [Clients -> Nat]
    /\ \A c \in Clients :
          /\ limiterInflight[c] = Cardinality(AdmittedOf(c))
          /\ concurrency[c] = Cardinality(AdmittedOf(c))

\* Admitting r adds it to the requests in flight, its client's included.
LEMMA Admitting ==
    ASSUME StageInv, CountInv, NEW r \in Requests, stage[r] # "admitted", CountAdmitted(r)
    PROVE  CountInv'
  <1>1. stage \in [Requests -> {"new", "queued", "admitted", "done"} \cup Reasons]
        /\ Client[r] \in Clients
    BY AdmissionAssumption DEF StageInv
  <1>2. /\ r \notin Admitted /\ Admitted' = Admitted \cup {r}
        /\ \A c \in Clients : r \notin AdmittedOf(c)
        /\ AdmittedOf(Client[r])' = AdmittedOf(Client[r]) \cup {r}
        /\ \A c \in Clients \ {Client[r]} : AdmittedOf(c)' = AdmittedOf(c)
    BY <1>1 DEF CountAdmitted, Admitted, AdmittedOf
  <1>3. \A c \in Clients : IsFiniteSet(AdmittedOf(c))
    BY FS_Subset DEF CountInv, AdmittedOf
  <1>4. /\ IsFiniteSet(Admitted') /\ Cardinality(Admitted') = Cardinality(Admitted) + 1
    BY <1>2, FS_AddElement DEF CountInv
  <1>5. Cardinality(AdmittedOf(Client[r])') = Cardinality(AdmittedOf(Client[r])) + 1
    BY <1>1, <1>2, <1>3, FS_AddElement
  <1>6. /\ limiterInflight' = [limiterInflight EXCEPT ![Client[r]] = @ + 1]
        /\ concurrency' = [concurrency EXCEPT ![Client[r]] = @ + 1]
        /\ inflight' = inflight + 1 /\ pressureInflight' = inflight + 1
    BY DEF CountAdmitted
  <1>7. /\ limiterInflight \in [Clients -> Nat] /\ concurrency \in [Clients -> Nat]
        /\ inflight = Cardinality(Admitted)
        /\ \A c \in Clients : /\ limiterInflight[c] = Cardinality(AdmittedOf(c))
                              /\ concurrency[c] = Cardinality(AdmittedOf(c))
    BY DEF CountInv
  <1> HIDE DEF Admitted, AdmittedOf
  <1>8. limiterInflight' \in [Clients -> Nat] /\ concurrency' \in [Clients -> Nat]
    <2>1. limiterInflight[Client[r]] + 1 \in Nat /\ concurrency[Client[r]] + 1 \in Nat
      BY <1>1, <1>7
    <2> QED BY <1>6, <1>7, <2>1
  <1>9. ASSUME NEW c \in Clients
        PROVE  /\ limiterInflight'[c] = Cardinality(AdmittedOf(c)')
               /\ concurrency'[c] = Cardinality(AdmittedOf(c)')
    <2>1. CASE c = Client[r]
      BY <1>5, <1>6, <1>7, <2>1
    <2>2. CASE c # Client[r]
      BY <1>2, <1>6, <1>7, <2>2
    <2> QED BY <2>1, <2>2
  <1> QED BY <1>4, <1>6, <1>7, <1>8, <1>9 DEF CountInv

\* Releasing r takes it out again; no count was 0 before.
LEMMA Releasing ==
    ASSUME StageInv, CountInv, NEW r \in Requests, Release(r)
    PROVE  CountInv'
  <1>1. stage \in [Requests -> {"new", "queued", "admitted", "done"} \cup Reasons]
        /\ Client[r] \in Clients
    BY AdmissionAssumption DEF StageInv
  <1>2. /\ r \in Admitted /\ Admitted' = Admitted \ {r}
        /\ r \in AdmittedOf(Client[r])
        /\ AdmittedOf(Client[r])' = AdmittedOf(Client[r]) \ {r}
        /\ \A c \in Clients \ {Client[r]} : AdmittedOf(c)' = AdmittedOf(c)
    BY <1>1 DEF Release, Admitted, AdmittedOf
  <1>3. \A c \in Clients : IsFiniteSet(AdmittedOf(c))
    BY FS_Subset DEF CountInv, AdmittedOf
  <1>4. /\ IsFiniteSet(Admitted') /\ Cardinality(Admitted') = Cardinality(Admitted) - 1
        /\ Cardinality(Admitted) \in Nat \ {0}
    BY <1>2, FS_RemoveElement, FS_EmptySet, FS_CardinalityType DEF CountInv
  <1>5. /\ Cardinality(AdmittedOf(Client[r])') = Cardinality(AdmittedOf(Client[r])) - 1
        /\ Cardinality(AdmittedOf(Client[r])) \in Nat \ {0}
    BY <1>1, <1>2, <1>3, FS_RemoveElement, FS_EmptySet, FS_CardinalityType
  <1>6. Uncount(r)
    BY DEF Release
  <1>7. /\ inflight = Cardinality(Admitted) /\ pressureInflight = inflight
        /\ limiterInflight \in [Clients -> Nat] /\ concurrency \in [Clients -> Nat]
        /\ \A c \in Clients : /\ limiterInflight[c] = Cardinality(AdmittedOf(c))
                              /\ concurrency[c] = Cardinality(AdmittedOf(c))
    BY DEF CountInv
  <1>8. /\ inflight' = Cardinality(Admitted') /\ pressureInflight' = inflight'
        /\ limiterInflight' = [limiterInflight EXCEPT ![Client[r]] = @ - 1]
        /\ concurrency' = [concurrency EXCEPT ![Client[r]] = @ - 1]
    BY <1>1, <1>4, <1>5, <1>6, <1>7 DEF Uncount, Lowered
  <1>9. limiterInflight' \in [Clients -> Nat] /\ concurrency' \in [Clients -> Nat]
    BY <1>1, <1>5, <1>7, <1>8
  <1>10. ASSUME NEW c \in Clients
         PROVE  /\ limiterInflight'[c] = Cardinality(AdmittedOf(c)')
                /\ concurrency'[c] = Cardinality(AdmittedOf(c)')
    <2>1. CASE c = Client[r]
      BY <1>5, <1>7, <1>8, <2>1
    <2>2. CASE c # Client[r]
      BY <1>1, <1>2, <1>7, <1>8, <2>2
    <2> QED BY <2>1, <2>2
  <1> QED BY <1>4, <1>8, <1>9, <1>10 DEF CountInv

\* Every other step leaves the requests in flight and their counts alone.
LEMMA NotCounting ==
    ASSUME CountInv, UNCHANGED countVars, Admitted' = Admitted,
           \A c \in Clients : AdmittedOf(c)' = AdmittedOf(c)
    PROVE  CountInv'
  BY DEF CountInv, countVars

LEMMA NextKeepsCount == StageInv /\ CountInv /\ [Next]_vars => CountInv'
  <1> SUFFICES ASSUME StageInv, CountInv, [Next]_vars PROVE CountInv'
    OBVIOUS
  <1>1. ASSUME NEW r \in Requests, NEW s, s # "admitted", stage[r] # "admitted",
               stage' = [stage EXCEPT ![r] = s], UNCHANGED countVars
        PROVE  CountInv'
    <2>1. /\ Admitted' = Admitted
          /\ \A c \in Clients : AdmittedOf(c)' = AdmittedOf(c)
      BY <1>1 DEF Admitted, AdmittedOf, StageInv
    <2> QED BY <1>1, <2>1, NotCounting
  <1>2. ASSUME UNCHANGED <<stage, countVars>>
        PROVE  CountInv'
    BY <1>2, NotCounting DEF Admitted, AdmittedOf
  <1>3. ASSUME NEW r \in Requests, NEW reason \in LimitReasons, RefuseLimited(r, reason)
        PROVE  CountInv'
    BY <1>1, <1>3 DEF RefuseLimited, LimitReasons
  <1>4. ASSUME NEW r \in Requests, NEW rest, RefuseOverShare(r, rest) \/ Queue(r, rest)
        PROVE  CountInv'
    BY <1>1, <1>4 DEF RefuseOverShare, Queue, PassTo
  <1>5. ASSUME NEW r \in Requests, NEW rest, AdmitAtOnce(r, rest)
        PROVE  CountInv'
    BY <1>5, Admitting DEF AdmitAtOnce, PassTo
  <1>6. ASSUME NEW r \in Requests, QueueWaitExpires(r)
        PROVE  CountInv'
    BY <1>2, <1>6 DEF QueueWaitExpires
  <1>7. ASSUME NEW r \in Requests, AdmitFromQueue(r)
        PROVE  CountInv'
    <2>1. stage[r] = "queued"
      BY <1>7, SlotEffects DEF AdmitFromQueue, StageInv
    <2> QED BY <1>7, <2>1, Admitting DEF AdmitFromQueue
  <1>8. ASSUME NEW r \in Requests, RefuseQueued(r)
        PROVE  CountInv'
    <2>1. stage[r] = "queued"
      BY <1>8, SlotEffects DEF RefuseQueued, StageInv
    <2> QED BY <1>1, <1>8, <2>1 DEF RefuseQueued
  <1>9. ASSUME NEW r \in Requests, Release(r)
        PROVE  CountInv'
    BY <1>9, Releasing
  <1>10. CASE Tick \/ (\E rest \in RestSignals : Sample(rest)) \/ UNCHANGED vars
    BY <1>2, <1>10 DEF Tick, Sample, vars
  <1> QED BY <1>3, <1>4, <1>5, <1>6, <1>7, <1>8, <1>9, <1>10 DEF Next, Arrive, Resume

LEMMA InitEstablishesCount == Init => CountInv
  <1> SUFFICES ASSUME Init PROVE CountInv
    OBVIOUS
  <1>1. Admitted = {} /\ \A c \in Clients : AdmittedOf(c) = {}
    BY DEF Init, Admitted, AdmittedOf
  <1> QED BY <1>1, FS_EmptySet DEF Init, CountInv

LEMMA CountInvariant == Spec => [](StageInv /\ CountInv)
  BY StageInvariant, InitEstablishesCount, NextKeepsCount, PTL DEF Spec

\* The counters of requests in flight agree.
THEOREM CountsAgree == Spec => []CountersAgree
  <1>1. CountInv => CountersAgree
    BY DEF CountInv, CountersAgree
  <1> QED BY <1>1, CountInvariant, PTL

\* A request is in flight exactly while it holds a slot.
THEOREM SlotWhileInFlight == Spec => []InflightHoldsSlot
  <1>1. StageInv => InflightHoldsSlot
    BY DEF StageInv, InflightHoldsSlot
  <1> QED BY <1>1, StageInvariant, PTL

\* The slots bound what is in flight: the requests in flight are among the
\* owners of slots, and those are counted.
THEOREM NeverMoreThanSlots == Spec => []InflightWithinSlots
  <1>1. ASSUME StageInv, CountInv, SlotsInv
        PROVE  inflight <= Slots!AtLeastZero(Total)
    <2> DEFINE owners == SlotProofs!General!Owners \cup reservedBy
    <2>1. /\ IsFiniteSet(SlotProofs!General!Owners) /\ IsFiniteSet(reservedBy)
          /\ held = Cardinality(SlotProofs!General!Owners)
          /\ reservedHeld = Cardinality(reservedBy)
          /\ SlotProofs!General!Owners \cap reservedBy = {}
      <3>1. \A S : /\ SlotProofs!Cardinality(S) = Cardinality(S)
                   /\ SlotProofs!IsFiniteSet(S) <=> IsFiniteSet(S)
        BY DEF Cardinality, SlotProofs!Cardinality, IsFiniteSet, SlotProofs!IsFiniteSet
      <3> QED BY <1>1, <3>1, SlotsConfiguration, SlotProofs!GeneralOwners
              DEF SlotsInv, SlotProofs!ReserveInv
    <2>2. /\ held \in 0 .. SlotProofs!GeneralCapacity
          /\ reservedHeld \in 0 .. SlotProofs!ReservedCapacity
      BY <1>1 DEF SlotsInv, SlotProofs!Pool!PoolInv, SlotProofs!Pool!TypeOK,
                  SlotProofs!ReserveInv
    <2>3. /\ SlotProofs!GeneralCapacity + SlotProofs!ReservedCapacity = SlotProofs!AtLeastZero(Total)
          /\ SlotProofs!GeneralCapacity \in Nat /\ SlotProofs!ReservedCapacity \in Nat
      BY SlotsConfiguration, SlotProofs!Split
    <2>4. Admitted \subseteq owners
      BY <1>1 DEF Admitted, StageInv, HoldsSlot, SlotProofs!General!Owners
    <2>5. IsFiniteSet(owners) /\ Cardinality(owners) = held + reservedHeld
      BY <2>1, <2>2, FS_Union, FS_EmptySet
    <2>6. inflight <= held + reservedHeld
      BY <1>1, <2>4, <2>5, FS_Subset DEF CountInv
    <2>7. inflight \in Nat
      BY <1>1, FS_CardinalityType DEF CountInv
    <2>8. SlotProofs!AtLeastZero(Total) = Slots!AtLeastZero(Total)
      BY DEF SlotProofs!AtLeastZero, Slots!AtLeastZero
    <2> QED BY <2>2, <2>3, <2>6, <2>7, <2>8
  <1>2. StageInv /\ CountInv /\ SlotsInv => InflightWithinSlots
    BY <1>1 DEF InflightWithinSlots
  <1> QED BY <1>2, CountInvariant, SlotsInvariant, PTL

-----------------------------------------------------------------------------
(* The request budget *)

BudgetInv ==
    /\ requests \in [Clients -> 0 .. RequestsBurst]
    /\ now \in 0 .. MaxTime
    /\ \A c \in Clients : IsFiniteSet(Charges(c))
    /\ RequestBudget

\* A step that charges nobody keeps the balance, ...
LEMMA ChargingNobody ==
    ASSUME BudgetInv, requests' = requests, now' = now,
           \A c \in Clients : Charges(c)' = Charges(c)
    PROVE  BudgetInv'
  BY DEF BudgetInv, RequestBudget

\* ... the charges may stay the same while the stages change, ...
LEMMA SameCharges ==
    ASSUME StageInv, NEW r \in Requests, NEW s, stage' = [stage EXCEPT ![r] = s],
           stage[r] \in {"queued", "admitted", "done"} <=> s \in {"queued", "admitted", "done"}
    PROVE  \A c \in Clients : Charges(c)' = Charges(c)
  BY DEF StageInv, Charges

\* ... so does a step that takes one request from the bucket for a new charge, ...
LEMMA ChargingOne ==
    ASSUME StageInv, BudgetInv, NEW r \in Requests, stage[r] = "new", WithinLimits(r),
           requests' = Charged(requests, r, 1), now' = now,
           NEW s \in {"queued", "admitted"}, stage' = [stage EXCEPT ![r] = s]
    PROVE  BudgetInv'
  <1>1. Client[r] \in Clients /\ RateLimitEnabled \in BOOLEAN /\ RequestsBurst \in Nat
    BY AdmissionAssumption
  <1>2. RateLimitEnabled => requests[Client[r]] \in 1 .. RequestsBurst
    <2>1. requests[Client[r]] \in 0 .. RequestsBurst
      BY <1>1 DEF BudgetInv
    <2>2. RateLimitEnabled => ~(requests[Client[r]] < 1)
      BY DEF WithinLimits, Fails, LimitReasons
    <2> QED BY <2>1, <2>2, <1>1
  <1>3. /\ r \notin Charges(Client[r])
        /\ Charges(Client[r])' = Charges(Client[r]) \cup {r}
        /\ \A c \in Clients \ {Client[r]} : Charges(c)' = Charges(c)
    BY <1>1 DEF StageInv, Charges
  <1>4. \A c \in Clients : IsFiniteSet(Charges(c)) /\ Cardinality(Charges(c)) \in Nat
    BY FS_CardinalityType DEF BudgetInv
  <1>5. /\ IsFiniteSet(Charges(Client[r])')
        /\ Cardinality(Charges(Client[r])') = Cardinality(Charges(Client[r])) + 1
    BY <1>1, <1>3, <1>4, FS_AddElement
  <1>6. \A c \in Clients : IsFiniteSet(Charges(c)')
    BY <1>3, <1>4, <1>5
  <1>7. requests' \in [Clients -> 0 .. RequestsBurst]
    <2>1. CASE RateLimitEnabled
      <3>1. requests[Client[r]] - 1 \in 0 .. RequestsBurst
        BY <1>1, <1>2, <2>1
      <3> QED BY <2>1, <3>1 DEF Charged, BudgetInv
    <2>2. CASE ~RateLimitEnabled
      BY <2>2 DEF Charged, BudgetInv
    <2> QED BY <2>1, <2>2
  <1>8. ASSUME RateLimitEnabled, NEW c \in Clients
        PROVE  requests'[c] + Cardinality(Charges(c)') = requests[c] + Cardinality(Charges(c))
    <2>1. requests' = [requests EXCEPT ![Client[r]] = @ - 1]
      BY <1>8 DEF Charged
    <2>2. requests[c] \in 0 .. RequestsBurst /\ requests \in [Clients -> 0 .. RequestsBurst]
      BY <1>8 DEF BudgetInv
    <2>3. CASE c = Client[r]
      <3>1. requests'[c] = requests[c] - 1
        BY <2>1, <2>2, <2>3, <1>8
      <3> HIDE DEF Charges
      <3> QED BY <3>1, <1>1, <1>4, <1>5, <2>2, <2>3, <1>8
    <2>4. CASE c # Client[r]
      BY <2>1, <2>2, <2>4, <1>3, <1>8
    <2> QED BY <2>3, <2>4
  <1>9. RequestBudget'
    BY <1>8 DEF BudgetInv, RequestBudget
  <1> QED BY <1>6, <1>7, <1>9 DEF BudgetInv

\* ... a step that returns one request, up to the burst, for a charge undone, ...
LEMMA RefundingOne ==
    ASSUME StageInv, BudgetInv, NEW r \in Requests, stage[r] = "queued",
           requests' = Refunded(requests, r, 1, RequestsBurst), now' = now,
           stage' = [stage EXCEPT ![r] = "queue_timeout"]
    PROVE  BudgetInv'
  <1>1. /\ Client[r] \in Clients /\ RateLimitEnabled \in BOOLEAN
        /\ RequestsBurst \in Nat /\ RequestsRate \in Nat
    BY AdmissionAssumption
  <1>2. /\ r \in Charges(Client[r])
        /\ Charges(Client[r])' = Charges(Client[r]) \ {r}
        /\ \A c \in Clients \ {Client[r]} : Charges(c)' = Charges(c)
    BY <1>1 DEF StageInv, Charges
  <1>3. \A c \in Clients : IsFiniteSet(Charges(c)) /\ Cardinality(Charges(c)) \in Nat
    BY FS_CardinalityType DEF BudgetInv
  <1>4. /\ IsFiniteSet(Charges(Client[r])')
        /\ Cardinality(Charges(Client[r])') = Cardinality(Charges(Client[r])) - 1
        /\ Cardinality(Charges(Client[r])') \in Nat
    BY <1>1, <1>2, <1>3, FS_RemoveElement, FS_CardinalityType
  <1>5. \A c \in Clients : IsFiniteSet(Charges(c)')
    BY <1>2, <1>3, <1>4
  <1>6. requests' \in [Clients -> 0 .. RequestsBurst]
    <2>1. CASE RateLimitEnabled
      <3>1. Smaller(RequestsBurst, requests[Client[r]] + 1) \in 0 .. RequestsBurst
        BY <1>1 DEF BudgetInv, Smaller
      <3> QED BY <2>1, <3>1 DEF Refunded, BudgetInv
    <2>2. CASE ~RateLimitEnabled
      BY <2>2 DEF Refunded, BudgetInv
    <2> QED BY <2>1, <2>2
  <1>7. ASSUME RateLimitEnabled, NEW c \in Clients
        PROVE  /\ requests'[c] + Cardinality(Charges(c)')
                      <= RequestsBurst + RequestsRate * now'
               /\ requests'[c] + Cardinality(Charges(c)') >= RequestsBurst
    <2>1. requests' = [requests EXCEPT ![Client[r]] = Smaller(RequestsBurst, @ + 1)]
      BY <1>7 DEF Refunded
    <2>2. requests[c] \in 0 .. RequestsBurst /\ requests \in [Clients -> 0 .. RequestsBurst]
      BY <1>7 DEF BudgetInv
    <2>3. /\ requests[c] + Cardinality(Charges(c)) <= RequestsBurst + RequestsRate * now
          /\ requests[c] + Cardinality(Charges(c)) >= RequestsBurst
      BY <1>7 DEF BudgetInv, RequestBudget
    <2>4. RequestsRate * now \in Nat
      BY <1>1 DEF BudgetInv
    <2>5. CASE c = Client[r]
      <3> DEFINE more == Cardinality(Charges(c))
                 less == Cardinality(Charges(c)')
                 gain == RequestsRate * now
      <3>1. requests'[c] = IF RequestsBurst < requests[c] + 1
                           THEN RequestsBurst ELSE requests[c] + 1
        BY <2>1, <2>2, <2>5, <1>7 DEF Smaller
      <3>2. less = more - 1 /\ less \in Nat /\ more \in Nat
        BY <1>3, <1>4, <1>7, <2>5
      <3>3. gain' = gain
        OBVIOUS
      <3>4. gain \in Nat /\ requests[c] + more <= RequestsBurst + gain
            /\ requests[c] + more >= RequestsBurst
        BY <2>3, <2>4
      <3> HIDE DEF more, less, gain
      <3>5. requests'[c] + less <= RequestsBurst + gain /\ requests'[c] + less >= RequestsBurst
        BY <3>1, <3>2, <3>4, <2>2, <1>1
      <3> QED BY <3>5 DEF less, gain
    <2>6. CASE c # Client[r]
      BY <2>1, <2>2, <2>3, <2>6, <1>2, <1>7
    <2> QED BY <2>5, <2>6
  <1>8. RequestBudget'
    BY <1>7 DEF RequestBudget
  <1> QED BY <1>5, <1>6, <1>8 DEF BudgetInv

\* ... and the clock, which adds its rate to every bucket, up to the burst.
LEMMA Ticking ==
    ASSUME BudgetInv, Tick
    PROVE  BudgetInv'
  <1>1. RequestsBurst \in Nat /\ RequestsRate \in Nat /\ MaxTime \in Nat
    BY AdmissionAssumption
  <1>2. now \in 0 .. MaxTime /\ now < MaxTime /\ now' = now + 1 /\ now' \in 0 .. MaxTime
    BY <1>1 DEF Tick, BudgetInv
  <1>3. \A c \in Clients : Charges(c)' = Charges(c)
    BY DEF Tick, Charges
  <1>4. requests' = [c \in Clients |-> Smaller(RequestsBurst, requests[c] + RequestsRate)]
    BY DEF Tick, Refilled
  <1>5. \A c \in Clients : requests[c] \in 0 .. RequestsBurst
    BY DEF BudgetInv
  <1>6. requests' \in [Clients -> 0 .. RequestsBurst]
    BY <1>1, <1>4, <1>5 DEF Smaller
  <1>7. RequestsRate * now' = RequestsRate * now + RequestsRate /\ RequestsRate * now \in Nat
    BY <1>1, <1>2
  <1>8. ASSUME RateLimitEnabled, NEW c \in Clients
        PROVE  /\ requests'[c] + Cardinality(Charges(c)')
                      <= RequestsBurst + RequestsRate * now'
               /\ requests'[c] + Cardinality(Charges(c)') >= RequestsBurst
    <2> DEFINE n == Cardinality(Charges(c))
               gain == RequestsRate * now
    <2>1. /\ requests[c] + n <= RequestsBurst + gain
          /\ requests[c] + n >= RequestsBurst
      BY <1>8 DEF BudgetInv, RequestBudget
    <2>2. n \in Nat /\ Cardinality(Charges(c)') = n
      BY <1>3, <1>8, FS_CardinalityType DEF BudgetInv
    <2>3. requests'[c] = IF RequestsBurst < requests[c] + RequestsRate
                         THEN RequestsBurst ELSE requests[c] + RequestsRate
      BY <1>4, <1>8 DEF Smaller
    <2>4. RequestsRate * now' = gain + RequestsRate /\ gain \in Nat
      BY <1>7
    <2>5. requests[c] \in 0 .. RequestsBurst
      BY <1>5, <1>8
    <2> HIDE DEF n, gain
    <2>6. /\ requests'[c] + n <= RequestsBurst + (gain + RequestsRate)
          /\ requests'[c] + n >= RequestsBurst
      BY <2>1, <2>2, <2>3, <2>4, <2>5, <1>1
    <2> QED BY <2>2, <2>4, <2>6
  <1>9. RequestBudget'
    BY <1>8 DEF RequestBudget
  <1>10. \A c \in Clients : IsFiniteSet(Charges(c)')
    BY <1>3 DEF BudgetInv
  <1> QED BY <1>2, <1>6, <1>9, <1>10 DEF BudgetInv

LEMMA NextKeepsBudget == StageInv /\ BudgetInv /\ [Next]_vars => BudgetInv'
  <1> SUFFICES ASSUME StageInv, BudgetInv, [Next]_vars PROVE BudgetInv'
    OBVIOUS
  <1>1. ASSUME UNCHANGED <<requests, now, stage>>
        PROVE  BudgetInv'
    BY <1>1, ChargingNobody DEF Charges
  <1>2. ASSUME NEW r \in Requests, NEW s,
               stage[r] \in {"queued", "admitted", "done"} <=> s \in {"queued", "admitted", "done"},
               stage' = [stage EXCEPT ![r] = s], requests' = requests, now' = now
        PROVE  BudgetInv'
    BY <1>2, SameCharges, ChargingNobody
  <1>3. ASSUME NEW r \in Requests, NEW reason \in LimitReasons, RefuseLimited(r, reason)
        PROVE  BudgetInv'
    BY <1>2, <1>3 DEF RefuseLimited, LimitReasons, bucketVars
  <1>4. ASSUME NEW r \in Requests, NEW rest, RefuseOverShare(r, rest)
        PROVE  BudgetInv'
    <2>1. requests' = requests
      <3>1. Client[r] \in Clients /\ RequestsBurst \in Nat
        BY AdmissionAssumption
      <3>2. requests \in [Clients -> 0 .. RequestsBurst]
        BY DEF BudgetInv
      <3>3. requests' = Refunded(Charged(requests, r, 1), r, 1, RequestsBurst)
        BY <1>4 DEF RefuseOverShare, ChargeAndRefund
      <3> QED BY <3>1, <3>2, <3>3 DEF Refunded, Charged, Smaller
    <2> QED BY <1>2, <1>4, <2>1 DEF RefuseOverShare
  <1>5. ASSUME NEW r \in Requests, NEW rest,
               AdmitAtOnce(r, rest) \/ Queue(r, rest)
        PROVE  BudgetInv'
    BY <1>5, ChargingOne DEF AdmitAtOnce, Queue, PassTo, Charge, CountAdmitted
  <1>6. ASSUME NEW r \in Requests, QueueWaitExpires(r)
        PROVE  BudgetInv'
    BY <1>1, <1>6 DEF QueueWaitExpires, bucketVars
  <1>7. ASSUME NEW r \in Requests, AdmitFromQueue(r)
        PROVE  BudgetInv'
    <2>1. stage[r] = "queued"
      BY <1>7, SlotEffects DEF AdmitFromQueue, StageInv
    <2> QED BY <1>2, <1>7, <2>1 DEF AdmitFromQueue, CountAdmitted, bucketVars
  <1>8. ASSUME NEW r \in Requests, RefuseQueued(r)
        PROVE  BudgetInv'
    <2>1. stage[r] = "queued"
      BY <1>8, SlotEffects DEF RefuseQueued, StageInv
    <2> QED BY <1>8, <2>1, RefundingOne DEF RefuseQueued, Refund
  <1>9. ASSUME NEW r \in Requests, Release(r)
        PROVE  BudgetInv'
    BY <1>2, <1>9 DEF Release, bucketVars
  <1>10. CASE Tick
    BY <1>10, Ticking
  <1>11. CASE (\E rest \in RestSignals : Sample(rest)) \/ UNCHANGED vars
    BY <1>1, <1>11 DEF Sample, vars, bucketVars
  <1> QED BY <1>3, <1>4, <1>5, <1>6, <1>7, <1>8, <1>9, <1>10, <1>11
          DEF Next, Arrive, Resume

LEMMA InitEstablishesBudget == Init => BudgetInv
  <1> SUFFICES ASSUME Init PROVE BudgetInv
    OBVIOUS
  <1>1. RequestsBurst \in Nat /\ RequestsRate \in Nat /\ MaxTime \in Nat
    BY AdmissionAssumption
  <1>2. \A c \in Clients : IsFiniteSet(Charges(c)) /\ Cardinality(Charges(c)) = 0
    <2>1. \A c \in Clients : Charges(c) = {}
      BY DEF Init, Charges
    <2> QED BY <2>1, FS_EmptySet
  <1>3. /\ requests \in [Clients -> 0 .. RequestsBurst] /\ now = 0 /\ now \in 0 .. MaxTime
        /\ \A c \in Clients : requests[c] = RequestsBurst
    BY <1>1 DEF Init
  <1>4. RequestBudget
    BY <1>1, <1>2, <1>3 DEF RequestBudget
  <1> QED BY <1>2, <1>3, <1>4 DEF BudgetInv

LEMMA BudgetInvariant == Spec => [](StageInv /\ BudgetInv)
  BY StageInvariant, InitEstablishesBudget, NextKeepsBudget, PTL DEF Spec

\* The request budget of each client balances, whatever waits, is refunded
\* or is refilled in between.
THEOREM RequestsAreBudgeted == Spec => []RequestBudget
  <1>1. BudgetInv => RequestBudget
    BY DEF BudgetInv
  <1> QED BY <1>1, BudgetInvariant, PTL

-----------------------------------------------------------------------------
(* Type correctness *)

\* What the other invariants leave out: the cost buckets, the accounts of the
\* recent cost, and the level.
DataInv ==
    /\ costTokens \in [Clients -> 0 .. TokensBurst]
    /\ recent \in [Clients -> [0 .. MaxTime -> Nat]]
    /\ level \in PressureLevel

\* Adding to one entry of a table of naturals.
LEMMA AddingToAccount ==
    ASSUME NEW C, NEW T, NEW f \in [C -> [T -> Nat]], NEW c \in C, NEW t \in T, NEW n \in Nat
    PROVE  [f EXCEPT ![c][t] = @ + n] \in [C -> [T -> Nat]]
  <1>1. f[c] \in [T -> Nat]
    OBVIOUS
  <1>2. f[c][t] \in Nat
    BY <1>1
  <1>3. f[c][t] + n \in Nat
    BY <1>2
  <1>4. [f[c] EXCEPT ![t] = f[c][t] + n] \in [T -> Nat]
    BY <1>1, <1>3
  <1> QED BY <1>4

LEMMA LevelsStay == \A rest : LevelAfter(rest) \in PressureLevel
  BY DEF LevelAfter, NextLevel, PressureLevel

\* Charging within the limits and refunding keep a cost bucket in its range.
LEMMA CostBuckets ==
    ASSUME DataInv, NEW r \in Requests
    PROVE  /\ WithinLimits(r) =>
                 Charged(costTokens, r, Cost[r]) \in [Clients -> 0 .. TokensBurst]
           /\ Refunded(costTokens, r, Cost[r], TokensBurst) \in [Clients -> 0 .. TokensBurst]
           /\ WithinLimits(r) =>
                 Refunded(Charged(costTokens, r, Cost[r]), r, Cost[r], TokensBurst)
                    \in [Clients -> 0 .. TokensBurst]
  <1>1. /\ Client[r] \in Clients /\ TokensBurst \in Nat /\ Cost[r] \in Nat
        /\ RateLimitEnabled \in BOOLEAN
    BY AdmissionAssumption, SlotsConfigured DEF Slots!SlotsAssumption
  <1>2. ASSUME NEW bucket \in [Clients -> 0 .. TokensBurst]
        PROVE  Refunded(bucket, r, Cost[r], TokensBurst) \in [Clients -> 0 .. TokensBurst]
    <2>1. Smaller(TokensBurst, bucket[Client[r]] + Cost[r]) \in 0 .. TokensBurst
      BY <1>1, <1>2 DEF Smaller
    <2> QED BY <1>2, <2>1 DEF Refunded
  <1>3. ASSUME WithinLimits(r)
        PROVE  Charged(costTokens, r, Cost[r]) \in [Clients -> 0 .. TokensBurst]
    <2>1. CASE RateLimitEnabled
      <3>1. ~(costTokens[Client[r]] < Cost[r])
        BY <1>3, <2>1 DEF WithinLimits, Fails, LimitReasons
      <3>2. costTokens[Client[r]] - Cost[r] \in 0 .. TokensBurst
        BY <1>1, <3>1 DEF DataInv
      <3> QED BY <2>1, <3>2 DEF Charged, DataInv
    <2>2. CASE ~RateLimitEnabled
      BY <2>2 DEF Charged, DataInv
    <2> QED BY <2>1, <2>2
  <1> QED BY <1>2, <1>3 DEF DataInv

LEMMA NextKeepsData == BudgetInv /\ DataInv /\ [Next]_vars => DataInv'
  <1> SUFFICES ASSUME BudgetInv, DataInv, [Next]_vars PROVE DataInv'
    OBVIOUS
  <1>1. ASSUME UNCHANGED <<costTokens, recent>>, level' \in PressureLevel
        PROVE  DataInv'
    BY <1>1 DEF DataInv
  <1>2. level \in PressureLevel
    BY DEF DataInv
  <1>3. ASSUME NEW r \in Requests, CountAdmitted(r)
        PROVE  recent' \in [Clients -> [0 .. MaxTime -> Nat]]
    <2>1. Client[r] \in Clients /\ Cost[r] \in Nat /\ now \in 0 .. MaxTime
      BY AdmissionAssumption, SlotsConfigured DEF Slots!SlotsAssumption, BudgetInv
    <2>2. recent' = [recent EXCEPT ![Client[r]][now] = @ + Cost[r]]
      BY <1>3 DEF CountAdmitted
    <2> QED BY <2>1, <2>2, AddingToAccount DEF DataInv
  <1>4. ASSUME NEW r \in Requests, NEW reason \in LimitReasons, RefuseLimited(r, reason)
        PROVE  DataInv'
    BY <1>1, <1>2, <1>4 DEF RefuseLimited, bucketVars
  <1>5. ASSUME NEW r \in Requests, NEW rest, RefuseOverShare(r, rest)
        PROVE  DataInv'
    BY <1>5, CostBuckets, LevelsStay DEF RefuseOverShare, ChargeAndRefund, DataInv
  <1>6. ASSUME NEW r \in Requests, NEW rest, AdmitAtOnce(r, rest)
        PROVE  DataInv'
    BY <1>3, <1>6, CostBuckets, LevelsStay
       DEF AdmitAtOnce, PassTo, Charge, DataInv
  <1>7. ASSUME NEW r \in Requests, NEW rest, Queue(r, rest)
        PROVE  DataInv'
    BY <1>7, CostBuckets, LevelsStay DEF Queue, PassTo, Charge, DataInv
  <1>8. ASSUME NEW r \in Requests, QueueWaitExpires(r) \/ Release(r)
        PROVE  DataInv'
    BY <1>1, <1>2, <1>8 DEF QueueWaitExpires, Release, bucketVars
  <1>9. ASSUME NEW r \in Requests, AdmitFromQueue(r)
        PROVE  DataInv'
    BY <1>3, <1>9 DEF AdmitFromQueue, bucketVars, DataInv
  <1>10. ASSUME NEW r \in Requests, RefuseQueued(r)
         PROVE  DataInv'
    BY <1>10, CostBuckets DEF RefuseQueued, Refund, DataInv
  <1>11. CASE Tick
    <2>1. TokensBurst \in Nat /\ TokensRate \in Nat
      BY AdmissionAssumption
    <2>2. costTokens' = [c \in Clients |-> Smaller(TokensBurst, costTokens[c] + TokensRate)]
      BY <1>11 DEF Tick, Refilled
    <2>3. \A c \in Clients : costTokens[c] \in 0 .. TokensBurst
      BY DEF DataInv
    <2>4. costTokens' \in [Clients -> 0 .. TokensBurst]
      BY <2>1, <2>2, <2>3 DEF Smaller
    <2> QED BY <1>11, <2>4 DEF Tick, DataInv
  <1>12. CASE (\E rest \in RestSignals : Sample(rest)) \/ UNCHANGED vars
    BY <1>1, <1>2, <1>12, LevelsStay DEF Sample, vars, bucketVars
  <1> QED BY <1>4, <1>5, <1>6, <1>7, <1>8, <1>9, <1>10, <1>11, <1>12
          DEF Next, Arrive, Resume

LEMMA DataInvariant == Spec => [](StageInv /\ BudgetInv /\ DataInv)
  <1>1. Init => DataInv
    <2>1. TokensBurst \in Nat /\ MaxTime \in Nat
      BY AdmissionAssumption
    <2> QED BY <2>1 DEF Init, DataInv, PressureLevel
  <1> QED BY <1>1, NextKeepsData, BudgetInvariant, PTL DEF Spec

\* Every variable keeps its type; for the buckets this says that no charge
\* overdraws and no refund overfills them.
THEOREM TypeCorrect == Spec => []TypeOK
  <1>1. Spec => [](StageInv /\ CountInv /\ BudgetInv /\ DataInv /\ SlotsInv)
    BY DataInvariant, CountInvariant, SlotsInvariant, PTL
  <1>2. ASSUME StageInv, CountInv, BudgetInv, DataInv, SlotsInv
        PROVE  TypeOK
    <2>1. Slots!TypeOK
      BY <1>2 DEF SlotsInv, SlotProofs!Pool!PoolInv, SlotProofs!Pool!TypeOK,
                  SlotProofs!ReserveInv, Slots!TypeOK, Slots!General!TypeOK,
                  SlotProofs!GeneralCapacity, Slots!GeneralCapacity,
                  SlotProofs!ReservedCapacity, Slots!ReservedCapacity,
                  SlotProofs!AtLeastZero, Slots!AtLeastZero
    <2>2. inflight \in Nat /\ pressureInflight \in Nat
      BY <1>2, FS_CardinalityType DEF CountInv
    <2> QED BY <1>2, <2>1, <2>2 DEF TypeOK, StageInv, CountInv, BudgetInv, DataInv
  <1> QED BY <1>1, <1>2, PTL

-----------------------------------------------------------------------------
(* The cost budget *)

LEMMA CostOfRequests == \A r \in Requests : Cost[r] \in Nat
  BY SlotsConfigured DEF Slots!SlotsAssumption

\* What a client's requests keep is a sum, before a step and after it.
LEMMA CostChargedIsSum ==
    \A c : /\ CostCharged(c) = Sum(Cost, Charges(c))
           /\ CostCharged(c)' = Sum(Cost, Charges(c)')
  BY DEF CostCharged, Sum, MapThenSumSet, MapThenFoldSet

\* The charges are requests, and finitely many: their sum is a number.
LEMMA CostChargedType ==
    ASSUME BudgetInv, NEW c \in Clients
    PROVE  Sum(Cost, Charges(c)) \in Nat
  <1>1. IsFiniteSet(Charges(c)) /\ \A r \in Charges(c) : Cost[r] \in Nat
    BY CostOfRequests DEF BudgetInv, Charges
  <1> HIDE DEF Charges
  <1> QED BY <1>1, SumType

\* A step that charges nobody keeps the balance, ...
LEMMA ChargingNobodyCost ==
    ASSUME CostBudget, costTokens' = costTokens, now' = now,
           \A c \in Clients : Charges(c)' = Charges(c)
    PROVE  CostBudget'
  BY CostChargedIsSum DEF CostBudget

\* ... so does a step that takes the cost of a request for a new charge, ...
LEMMA ChargingCost ==
    ASSUME StageInv, BudgetInv, DataInv, CostBudget,
           NEW r \in Requests, stage[r] = "new",
           costTokens' = Charged(costTokens, r, Cost[r]), now' = now,
           NEW s \in {"queued", "admitted"}, stage' = [stage EXCEPT ![r] = s]
    PROVE  CostBudget'
  <1>1. Client[r] \in Clients /\ Cost[r] \in Nat
    BY AdmissionAssumption, CostOfRequests
  <1>2. /\ r \notin Charges(Client[r])
        /\ Charges(Client[r])' = Charges(Client[r]) \cup {r}
        /\ \A c \in Clients \ {Client[r]} : Charges(c)' = Charges(c)
    BY <1>1 DEF StageInv, Charges
  <1>3. Sum(Cost, Charges(Client[r])') = Cost[r] + Sum(Cost, Charges(Client[r]))
    <2>1. /\ IsFiniteSet(Charges(Client[r]))
          /\ \A q \in Charges(Client[r]) \cup {r} : Cost[q] \in Int
      BY <1>1, CostOfRequests DEF BudgetInv, Charges
    <2> HIDE DEF Charges
    <2> QED BY <1>2, <2>1, SumWith
  <1>4. ASSUME RateLimitEnabled, NEW c \in Clients
        PROVE  costTokens'[c] + Sum(Cost, Charges(c)') = costTokens[c] + Sum(Cost, Charges(c))
    <2>1. costTokens' = [costTokens EXCEPT ![Client[r]] = @ - Cost[r]]
      BY <1>4 DEF Charged
    <2>2. costTokens[c] \in Int /\ costTokens \in [Clients -> 0 .. TokensBurst]
      BY <1>4, AdmissionAssumption DEF DataInv
    <2>3. Sum(Cost, Charges(c)) \in Nat
      BY <1>4, CostChargedType
    <2>4. CASE c = Client[r]
      <3> DEFINE charged == Sum(Cost, Charges(c))
      <3>1. costTokens'[c] = costTokens[c] - Cost[r]
        BY <2>1, <2>2, <2>4, <1>4
      <3>2. Sum(Cost, Charges(c)') = Cost[r] + charged /\ charged \in Nat
        BY <1>3, <2>3, <2>4
      <3> HIDE DEF charged
      <3>3. costTokens'[c] + (Cost[r] + charged) = costTokens[c] + charged
        BY <1>1, <2>2, <3>1, <3>2
      <3> QED BY <3>2, <3>3 DEF charged
    <2>5. CASE c # Client[r]
      BY <2>1, <2>2, <2>5, <1>2, <1>4
    <2> QED BY <2>4, <2>5
  <1> QED BY <1>4, CostChargedIsSum DEF CostBudget

\* ... a step that returns the cost, up to the burst, for a charge undone, ...
LEMMA RefundingCost ==
    ASSUME StageInv, BudgetInv, DataInv, CostBudget,
           NEW r \in Requests, stage[r] = "queued",
           costTokens' = Refunded(costTokens, r, Cost[r], TokensBurst), now' = now,
           stage' = [stage EXCEPT ![r] = "queue_timeout"]
    PROVE  CostBudget'
  <1>1. /\ Client[r] \in Clients /\ Cost[r] \in Nat
        /\ TokensBurst \in Nat /\ TokensRate * now \in Nat
    <2>1. TokensRate \in Nat /\ now \in Nat
      BY AdmissionAssumption DEF BudgetInv
    <2> QED BY <2>1, AdmissionAssumption, CostOfRequests
  <1>2. /\ r \in Charges(Client[r])
        /\ Charges(Client[r])' = Charges(Client[r]) \ {r}
        /\ \A c \in Clients \ {Client[r]} : Charges(c)' = Charges(c)
    BY <1>1 DEF StageInv, Charges
  <1>3. /\ Sum(Cost, Charges(Client[r])) = Cost[r] + Sum(Cost, Charges(Client[r])')
        /\ Sum(Cost, Charges(Client[r])') \in Nat
    <2>1. /\ IsFiniteSet(Charges(Client[r]))
          /\ \A q \in Charges(Client[r]) : Cost[q] \in Nat
      BY <1>1, CostOfRequests DEF BudgetInv, Charges
    <2> DEFINE C == Charges(Client[r])
    <2> HIDE DEF Charges, C
    <2>2. IsFiniteSet(C) /\ r \in C /\ (\A q \in C : Cost[q] \in Int)
      BY <1>2, <2>1 DEF C
    <2>3. Sum(Cost, C) = Cost[r] + Sum(Cost, C \ {r})
      BY <2>2, SumWithout
    <2>4. IsFiniteSet(C \ {r}) /\ \A q \in C \ {r} : Cost[q] \in Nat
      BY <2>1, <2>2, FS_Subset DEF C
    <2>5. Sum(Cost, C \ {r}) \in Nat
      BY <2>4, SumType
    <2> QED BY <1>2, <2>3, <2>5 DEF C
  <1>4. ASSUME RateLimitEnabled, NEW c \in Clients
        PROVE  /\ costTokens'[c] + Sum(Cost, Charges(c)') <= TokensBurst + TokensRate * now
               /\ costTokens'[c] + Sum(Cost, Charges(c)') >= TokensBurst
    <2>1. costTokens' = [costTokens EXCEPT ![Client[r]] = Smaller(TokensBurst, @ + Cost[r])]
      BY <1>4 DEF Refunded
    <2>2. costTokens[c] \in Int /\ costTokens \in [Clients -> 0 .. TokensBurst]
      BY <1>1, <1>4 DEF DataInv
    <2>3. /\ costTokens[c] + Sum(Cost, Charges(c)) <= TokensBurst + TokensRate * now
          /\ costTokens[c] + Sum(Cost, Charges(c)) >= TokensBurst
      BY <1>4, CostChargedIsSum DEF CostBudget
    <2>4. CASE c = Client[r]
      <3> DEFINE more == Sum(Cost, Charges(c))
                 less == Sum(Cost, Charges(c)')
                 gain == TokensRate * now
      <3>1. costTokens'[c] = IF TokensBurst < costTokens[c] + Cost[r]
                             THEN TokensBurst ELSE costTokens[c] + Cost[r]
        BY <2>1, <2>2, <2>4, <1>4 DEF Smaller
      <3>2. more = Cost[r] + less /\ less \in Nat
        BY <1>3, <2>4
      <3>3. gain \in Nat /\ costTokens[c] + more <= TokensBurst + gain
            /\ costTokens[c] + more >= TokensBurst
        BY <1>1, <2>3
      <3> HIDE DEF more, less, gain
      <3>4. costTokens'[c] + less <= TokensBurst + gain /\ costTokens'[c] + less >= TokensBurst
        BY <3>1, <3>2, <3>3, <2>2, <1>1
      <3> QED BY <3>4 DEF less, gain
    <2>5. CASE c # Client[r]
      BY <2>1, <2>2, <2>3, <2>5, <1>2, <1>4
    <2> QED BY <2>4, <2>5
  <1> QED BY <1>4, CostChargedIsSum DEF CostBudget

\* ... and the clock.
LEMMA TickingCost ==
    ASSUME BudgetInv, DataInv, CostBudget, Tick
    PROVE  CostBudget'
  <1>1. /\ TokensBurst \in Nat /\ TokensRate \in Nat /\ now \in Nat /\ now' = now + 1
        /\ \A c \in Clients : Charges(c)' = Charges(c)
    BY AdmissionAssumption DEF BudgetInv, Tick, Charges
  <1>2. costTokens' = [c \in Clients |-> Smaller(TokensBurst, costTokens[c] + TokensRate)]
    BY DEF Tick, Refilled
  <1>3. TokensRate * now' = TokensRate * now + TokensRate /\ TokensRate * now \in Nat
    BY <1>1
  <1>4. ASSUME RateLimitEnabled, NEW c \in Clients
        PROVE  /\ costTokens'[c] + Sum(Cost, Charges(c)') <= TokensBurst + TokensRate * now'
               /\ costTokens'[c] + Sum(Cost, Charges(c)') >= TokensBurst
    <2> DEFINE charged == Sum(Cost, Charges(c))
               gain == TokensRate * now
    <2>1. costTokens[c] + charged <= TokensBurst + gain /\ costTokens[c] + charged >= TokensBurst
      BY <1>4, CostChargedIsSum DEF CostBudget
    <2>2. charged \in Nat /\ Sum(Cost, Charges(c)') = charged
      BY <1>1, <1>4, CostChargedType
    <2>3. costTokens'[c] = IF TokensBurst < costTokens[c] + TokensRate
                           THEN TokensBurst ELSE costTokens[c] + TokensRate
      BY <1>2, <1>4 DEF Smaller
    <2>4. TokensRate * now' = gain + TokensRate /\ gain \in Nat /\ costTokens[c] \in Int
      BY <1>1, <1>3, <1>4 DEF DataInv
    <2> HIDE DEF charged, gain
    <2>5. /\ costTokens'[c] + charged <= TokensBurst + (gain + TokensRate)
          /\ costTokens'[c] + charged >= TokensBurst
      BY <2>1, <2>2, <2>3, <2>4, <1>1
    <2> QED BY <2>2, <2>4, <2>5
  <1> QED BY <1>4, CostChargedIsSum DEF CostBudget

LEMMA NextKeepsCostBudget ==
    StageInv /\ BudgetInv /\ DataInv /\ CostBudget /\ [Next]_vars => CostBudget'
  <1> SUFFICES ASSUME StageInv, BudgetInv, DataInv, CostBudget, [Next]_vars PROVE CostBudget'
    OBVIOUS
  <1>1. ASSUME UNCHANGED <<costTokens, now, stage>>
        PROVE  CostBudget'
    <2>1. \A c \in Clients : Charges(c)' = Charges(c)
      BY <1>1 DEF Charges
    <2> QED BY <1>1, <2>1, ChargingNobodyCost
  <1>2. ASSUME NEW r \in Requests, NEW s,
               stage[r] \in {"queued", "admitted", "done"} <=> s \in {"queued", "admitted", "done"},
               stage' = [stage EXCEPT ![r] = s], costTokens' = costTokens, now' = now
        PROVE  CostBudget'
    BY <1>2, SameCharges, ChargingNobodyCost
  <1>3. ASSUME NEW r \in Requests, NEW reason \in LimitReasons, RefuseLimited(r, reason)
        PROVE  CostBudget'
    BY <1>2, <1>3 DEF RefuseLimited, LimitReasons, bucketVars
  <1>4. ASSUME NEW r \in Requests, NEW rest, RefuseOverShare(r, rest)
        PROVE  CostBudget'
    <2>1. costTokens' = costTokens
      <3>1. Client[r] \in Clients /\ TokensBurst \in Nat /\ Cost[r] \in Nat
        BY AdmissionAssumption, CostOfRequests
      <3>2. costTokens \in [Clients -> 0 .. TokensBurst]
        BY DEF DataInv
      <3>3. costTokens' = Refunded(Charged(costTokens, r, Cost[r]), r, Cost[r], TokensBurst)
        BY <1>4 DEF RefuseOverShare, ChargeAndRefund
      <3> QED BY <3>1, <3>2, <3>3 DEF Refunded, Charged, Smaller
    <2> QED BY <1>2, <1>4, <2>1 DEF RefuseOverShare
  <1>5. ASSUME NEW r \in Requests, NEW rest, AdmitAtOnce(r, rest) \/ Queue(r, rest)
        PROVE  CostBudget'
    BY <1>5, ChargingCost DEF AdmitAtOnce, Queue, PassTo, Charge, CountAdmitted
  <1>6. ASSUME NEW r \in Requests, QueueWaitExpires(r)
        PROVE  CostBudget'
    BY <1>1, <1>6 DEF QueueWaitExpires, bucketVars
  <1>7. ASSUME NEW r \in Requests, AdmitFromQueue(r)
        PROVE  CostBudget'
    <2>1. stage[r] = "queued"
      BY <1>7, SlotEffects DEF AdmitFromQueue, StageInv
    <2> QED BY <1>2, <1>7, <2>1 DEF AdmitFromQueue, CountAdmitted, bucketVars
  <1>8. ASSUME NEW r \in Requests, RefuseQueued(r)
        PROVE  CostBudget'
    <2>1. stage[r] = "queued"
      BY <1>8, SlotEffects DEF RefuseQueued, StageInv
    <2> QED BY <1>8, <2>1, RefundingCost DEF RefuseQueued, Refund
  <1>9. ASSUME NEW r \in Requests, Release(r)
        PROVE  CostBudget'
    BY <1>2, <1>9 DEF Release, bucketVars
  <1>10. CASE Tick
    BY <1>10, TickingCost
  <1>11. CASE (\E rest \in RestSignals : Sample(rest)) \/ UNCHANGED vars
    BY <1>1, <1>11 DEF Sample, vars, bucketVars
  <1> QED BY <1>3, <1>4, <1>5, <1>6, <1>7, <1>8, <1>9, <1>10, <1>11
          DEF Next, Arrive, Resume

\* The cost budget of each client balances as its request budget does: the
\* cost a client gets through is bounded by its burst and its rate, and what
\* is missing from its bucket is what its own requests have taken.
THEOREM CostsAreBudgeted == Spec => []CostBudget
  <1>1. Init => CostBudget
    <2> SUFFICES ASSUME Init PROVE CostBudget
      OBVIOUS
    <2>1. TokensBurst \in Nat /\ TokensRate * 0 = 0
      BY AdmissionAssumption
    <2>2. \A c \in Clients : Charges(c) = {}
      BY DEF Init, Charges
    <2>3. \A c \in Clients : CostCharged(c) = 0
      BY <2>2, CostChargedIsSum, SumOfNone
    <2> QED BY <2>1, <2>3 DEF Init, CostBudget
  <1> QED BY <1>1, NextKeepsCostBudget, DataInvariant, PTL DEF Spec

-----------------------------------------------------------------------------
(* The fair share *)

\* The clients that may be in the accounts.  There may be any number of
\* clients; finitely many of them have had a request admitted.
Active ==
    {c \in Clients : concurrency[c] # 0 \/ \E t \in 0 .. MaxTime : recent[c][t] # 0}

LEMMA NextKeepsActive ==
    CountInv /\ BudgetInv /\ DataInv /\ IsFiniteSet(Active) /\ [Next]_vars => IsFiniteSet(Active')
  <1> SUFFICES ASSUME CountInv, BudgetInv, DataInv, IsFiniteSet(Active), [Next]_vars
               PROVE  IsFiniteSet(Active')
    OBVIOUS
  <1>1. /\ concurrency \in [Clients -> Nat]
        /\ recent \in [Clients -> [0 .. MaxTime -> Nat]]
        /\ \A r \in Requests : Client[r] \in Clients
    BY AdmissionAssumption DEF CountInv, DataInv
  <1>2. ASSUME UNCHANGED <<concurrency, recent>>
        PROVE  IsFiniteSet(Active')
    BY <1>2 DEF Active
  <1>3. ASSUME NEW r \in Requests, CountAdmitted(r)
        PROVE  IsFiniteSet(Active')
    <2>1. \A c \in Clients \ {Client[r]} :
             concurrency'[c] = concurrency[c] /\ recent'[c] = recent[c]
      BY <1>1, <1>3 DEF CountAdmitted
    <2>2. Active' \subseteq Active \cup {Client[r]}
      BY <2>1 DEF Active
    <2> QED BY <2>2, FS_AddElement, FS_Subset
  <1>4. ASSUME NEW r \in Requests, Release(r)
        PROVE  IsFiniteSet(Active')
    <2>1. /\ concurrency' = [concurrency EXCEPT ![Client[r]] = Lowered(@)]
          /\ recent' = recent
      BY <1>4 DEF Release, Uncount
    <2>2. \A c \in Clients : concurrency'[c] # 0 => concurrency[c] # 0
      BY <1>1, <1>4, <2>1 DEF Lowered
    <2>3. Active' \subseteq Active
      BY <2>1, <2>2 DEF Active
    <2> QED BY <2>3, FS_Subset
  <1>5. ASSUME NEW r \in Requests, Arrive(r)
        PROVE  IsFiniteSet(Active')
    BY <1>2, <1>3, <1>5
       DEF Arrive, RefuseLimited, RefuseOverShare, AdmitAtOnce, Queue, countVars
  <1>6. ASSUME NEW r \in Requests, Resume(r)
        PROVE  IsFiniteSet(Active')
    BY <1>2, <1>3, <1>6 DEF Resume, QueueWaitExpires, AdmitFromQueue, RefuseQueued, countVars
  <1>7. CASE Tick \/ (\E rest \in RestSignals : Sample(rest)) \/ UNCHANGED vars
    BY <1>2, <1>7 DEF Tick, Sample, vars, countVars
  <1> QED BY <1>4, <1>5, <1>6, <1>7 DEF Next

LEMMA SharesAreSums ==
    /\ \A c : RecentCost(c) = Sum(recent[c], {t \in 0 .. now : t >= now - Window})
    /\ \A costs : TotalCost(costs) = Sum(costs, DOMAIN costs)
  BY DEF RecentCost, TotalCost, Sum, MapThenSumSet, MapThenFoldSet

\* The accounts are of finitely many clients, and hold natural numbers.
LEMMA AccountsAreFinite ==
    ASSUME CountInv, BudgetInv, DataInv, IsFiniteSet(Active)
    PROVE  /\ IsFiniteSet(DOMAIN CostShares)
           /\ \A c \in DOMAIN CostShares : CostShares[c] \in Nat
  <1> DEFINE T == {t \in 0 .. now : t >= now - Window}
  <1>1. IsFiniteSet(T) /\ T \subseteq 0 .. MaxTime
    <2>1. now \in Nat /\ MaxTime \in Nat /\ now <= MaxTime /\ T \subseteq 0 .. now
      BY AdmissionAssumption DEF BudgetInv
    <2>2. IsFiniteSet(0 .. now)
      BY <2>1, FS_Interval
    <2> QED BY <2>1, <2>2, FS_Subset
  <1>2. ASSUME NEW c \in Clients
        PROVE  /\ RecentCost(c) \in Nat
               /\ (\A t \in 0 .. MaxTime : recent[c][t] = 0) => RecentCost(c) = 0
    <2>1. \A t \in T : recent[c][t] \in Nat
      BY <1>1, <1>2 DEF DataInv
    <2> HIDE DEF T
    <2>2. Sum(recent[c], T) \in Nat
      BY <1>1, <2>1, SumType
    <2>3. (\A t \in T : recent[c][t] \in {0}) => Sum(recent[c], T) \in {0}
      BY <1>1, SumType
    <2> QED BY <1>1, <2>2, <2>3, SharesAreSums DEF T
  <1>3. \A c \in Clients : RecentCost(c) > 0 \/ concurrency[c] > 0 => c \in Active
    BY <1>2 DEF Active, CountInv
  <1>4. DOMAIN CostShares \subseteq Active
    BY <1>3 DEF CostShares
  <1> QED BY <1>2, <1>4, FS_Subset DEF CostShares, Active

\* The configuration lets every client have its equal share, as the shipped
\* ones do: the multiple of an equal share is one at least, and so is the
\* ceiling as soon as shares count (config.py:95, 101: 1.25, and a half for two).
EqualShareAllowed ==
    ShareMultiplier >= 100 /\ MaxShareThreshold * MinActiveClients >= 100

LEMMA ThresholdAllowsEqualShare ==
    ASSUME EqualShareAllowed, NEW n \in Nat, n >= MinActiveClients
    PROVE  ThresholdTimesActive(n) \in Nat /\ ThresholdTimesActive(n) >= 100
  <1>1. /\ MinActiveClients \in Nat /\ ShareMultiplier \in Nat
        /\ GraceCostShare \in Nat /\ MaxShareThreshold \in Nat
    BY FairShareAssumption
  <1> DEFINE m == MaxShareThreshold * n
             g == GraceCostShare * n
  <1>2. m >= MaxShareThreshold * MinActiveClients /\ m \in Nat /\ g \in Nat
        /\ MaxShareThreshold * MinActiveClients \in Nat
    <2>1. \A a, b, k \in Nat : a <= b => k * a <= k * b /\ k * a \in Nat /\ k * b \in Nat
      OBVIOUS
    <2> QED BY <1>1, <2>1
  <1>3. m >= 100 /\ ShareMultiplier >= 100
    BY <1>1, <1>2 DEF EqualShareAllowed
  <1> HIDE DEF m, g
  <1>4. Larger(g, Smaller(m, ShareMultiplier)) \in Nat
        /\ Larger(g, Smaller(m, ShareMultiplier)) >= 100
    BY <1>1, <1>2, <1>3 DEF Larger, Smaller
  <1> QED BY <1>4 DEF ThresholdTimesActive, m, g

\* Not everybody is above its share: their costs would add up to more than
\* the total.
LEMMA NotAllOverShare ==
    ASSUME EqualShareAllowed, NEW costs, IsFiniteSet(DOMAIN costs), DOMAIN costs # {},
           \A c \in DOMAIN costs : costs[c] \in Nat
    PROVE  \E c \in DOMAIN costs : ~OverShare(costs, c)
  <1> SUFFICES ASSUME \A c \in DOMAIN costs : OverShare(costs, c)
               PROVE  FALSE
    OBVIOUS
  <1> DEFINE D == DOMAIN costs
             n == Cardinality(D)
             total == Sum(costs, D)
             threshold == ThresholdTimesActive(n)
  <1>1. n \in Nat /\ n > 0 /\ total \in Nat
    <2>1. n \in Nat /\ n # 0
      BY FS_CardinalityType, FS_EmptySet
    <2>2. total \in Nat
      BY SumType
    <2> HIDE DEF n
    <2> QED BY <2>1, <2>2
  <1>2. TotalCost(costs) = total
    BY SharesAreSums
  <1>3. /\ n >= MinActiveClients /\ total > 0
        /\ \A c \in D : costs[c] * 100 * n > total * threshold
    BY <1>2 DEF OverShare, CostOf
  <1>4. threshold \in Nat /\ threshold >= 100
    BY <1>1, <1>3, ThresholdAllowsEqualShare
  <1> HIDE DEF D, n, total, threshold
  <1>5. 100 * n \in Int /\ total * threshold \in Int
    BY <1>1, <1>4
  <1>6. \A c \in D : costs[c] \in Int /\ costs[c] * (100 * n) > total * threshold
    <2>1. \A c \in D : costs[c] \in Nat
      BY DEF D
    <2>2. \A c \in D : costs[c] * 100 * n = costs[c] * (100 * n)
      BY <1>1, <2>1
    <2> QED BY <1>3, <2>1, <2>2
  <1>7. Sum(costs, D) * (100 * n) > Cardinality(D) * (total * threshold)
    <2>1. IsFiniteSet(D) /\ D # {}
      BY DEF D
    <2> QED BY <1>5, <1>6, <2>1, SumAboveMean
  <1>8. total * (100 * n) > n * (total * threshold)
    BY <1>7 DEF total, n
  <1>9. total * threshold >= total * 100
    BY <1>1, <1>4
  <1>10. n * (total * threshold) >= n * (total * 100)
    <2>1. \A a, b \in Nat : a >= b => n * a >= n * b
      BY <1>1
    <2>2. total * threshold \in Nat /\ total * 100 \in Nat
      BY <1>1, <1>4
    <2> QED BY <1>9, <2>1, <2>2
  <1>11. total * (100 * n) = n * (total * 100)
    BY <1>1
  <1>12. n * (total * 100) \in Int /\ n * (total * threshold) \in Int
    BY <1>1, <1>4
  <1> QED BY <1>8, <1>10, <1>11, <1>12

\* Fair-share shedding always leaves a client that is not shed, for every
\* configuration that allows each client its equal share; with a lower ceiling
\* (two clients that may have less than half each) it would not.
THEOREM SomebodyKept == EqualShareAllowed => (Spec => []SomebodyIsWithinShare)
  <1> SUFFICES ASSUME EqualShareAllowed PROVE Spec => []SomebodyIsWithinShare
    OBVIOUS
  <1>1. Init => IsFiniteSet(Active)
    <2> SUFFICES ASSUME Init PROVE IsFiniteSet(Active)
      OBVIOUS
    <2>1. Active = {}
      BY DEF Init, Active
    <2> QED BY <2>1, FS_EmptySet
  <1>2. CountInv /\ BudgetInv /\ DataInv /\ IsFiniteSet(Active) => SomebodyIsWithinShare
    <2> SUFFICES ASSUME CountInv, BudgetInv, DataInv, IsFiniteSet(Active)
                 PROVE  SomebodyIsWithinShare
      OBVIOUS
    <2>1. /\ IsFiniteSet(DOMAIN CostShares)
          /\ \A c \in DOMAIN CostShares : CostShares[c] \in Nat
      BY AccountsAreFinite
    <2> HIDE DEF CostShares
    <2> QED BY <2>1, NotAllOverShare DEF SomebodyIsWithinShare
  <1>3. CountInv /\ BudgetInv /\ DataInv /\ IsFiniteSet(Active) /\ [Next]_vars
           => IsFiniteSet(Active)'
    BY NextKeepsActive
  <1> QED BY <1>1, <1>2, <1>3, CountInvariant, DataInvariant, PTL DEF Spec
=============================================================================
