--------------------------- MODULE SlotPoolProofs ---------------------------
(***************************************************************************)
(* Proofs about SlotPool, for every set of requests and every capacity:    *)
(* type correctness, exact slot accounting, no lost wake-up, and that the  *)
(* pool implements SlotLedger.                                             *)
(*                                                                         *)
(* The invariants hold one another up.  That held counts the owners        *)
(* (HeldIsOwned) needs a release to find exactly the live waiters          *)
(* (DequeIsLive); that a newcomer may take a free slot without jumping the *)
(* queue needs NoIdleSlot.  PoolInv, their conjunction, is inductive.      *)
(***************************************************************************)
EXTENDS SlotPool, FiniteSetTheorems, SequenceTheorems, TLAPS

PoolInv ==
    /\ TypeOK
    /\ DequeIsLive
    /\ IsFiniteSet(Owners)
    /\ HeldIsOwned
    /\ NoIdleSlot

-----------------------------------------------------------------------------
(* Removing one element from a sequence. *)

\* RemoveAt keeps the order of the other elements.
LEMMA RemoveAtProperties ==
    ASSUME NEW S, NEW s \in Seq(S), NEW i \in DOMAIN s
    PROVE  /\ RemoveAt(s, i) \in Seq(S)
           /\ Len(RemoveAt(s, i)) = Len(s) - 1
           /\ \A j \in 1 .. Len(s) - 1 :
                 RemoveAt(s, i)[j] = IF j < i THEN s[j] ELSE s[j + 1]
  <1> DEFINE front == SubSeq(s, 1, i - 1)
             back == SubSeq(s, i + 1, Len(s))
  <1>1. i \in 1 .. Len(s) /\ Len(s) \in Nat
    BY LenProperties
  <1>2. /\ front \in Seq(S) /\ Len(front) = i - 1
        /\ \A j \in 1 .. i - 1 : front[j] = s[j]
    BY <1>1, SubSeqProperties
  <1>3. /\ back \in Seq(S) /\ Len(back) = Len(s) - i
        /\ \A j \in 1 .. Len(s) - i : back[j] = s[j + i]
    BY <1>1, SubSeqProperties
  <1> HIDE DEF front, back
  <1>4. /\ front \o back \in Seq(S)
        /\ Len(front \o back) = Len(s) - 1
        /\ \A j \in 1 .. Len(s) - 1 :
              (front \o back)[j] = IF j <= i - 1 THEN front[j] ELSE back[j - (i - 1)]
    <2>1. Len(front) + Len(back) = Len(s) - 1
      BY <1>1, <1>2, <1>3
    <2>2. /\ front \o back \in Seq(S)
          /\ Len(front \o back) = Len(front) + Len(back)
          /\ \A j \in 1 .. Len(front) + Len(back) : (front \o back)[j] =
                IF j <= Len(front) THEN front[j] ELSE back[j - Len(front)]
      BY <1>2, <1>3, ConcatProperties
    <2> QED BY <2>1, <2>2, <1>2
  <1>5. ASSUME NEW j \in 1 .. Len(s) - 1
        PROVE  (front \o back)[j] = IF j < i THEN s[j] ELSE s[j + 1]
    <2>1. CASE j < i
      BY <2>1, <1>1, <1>2, <1>4
    <2>2. CASE ~(j < i)
      <3>1. j - (i - 1) \in 1 .. Len(s) - i /\ (j - (i - 1)) + i = j + 1
        BY <2>2, <1>1
      <3>2. (front \o back)[j] = back[j - (i - 1)]
        BY <2>2, <1>1, <1>4
      <3> QED BY <3>1, <3>2, <1>3, <2>2
    <2> QED BY <2>1, <2>2
  <1>6. RemoveAt(s, i) = front \o back
    BY DEF RemoveAt, front, back
  <1> QED BY <1>4, <1>5, <1>6

\* The elements that are left are the others, still each once.
LEMMA RemoveAtDistinct ==
    ASSUME NEW S, NEW s \in Seq(S), NEW i \in DOMAIN s,
           \A j, k \in DOMAIN s : s[j] = s[k] => j = k
    PROVE  /\ \A j, k \in DOMAIN RemoveAt(s, i) :
                 RemoveAt(s, i)[j] = RemoveAt(s, i)[k] => j = k
           /\ \A r : (\E j \in DOMAIN RemoveAt(s, i) : RemoveAt(s, i)[j] = r)
                     <=> (r # s[i] /\ \E j \in DOMAIN s : s[j] = r)
  <1> DEFINE t == RemoveAt(s, i)
  <1>1. /\ t \in Seq(S) /\ Len(t) = Len(s) - 1
        /\ \A j \in 1 .. Len(s) - 1 : t[j] = IF j < i THEN s[j] ELSE s[j + 1]
    BY RemoveAtProperties
  <1> HIDE DEF t
  <1>2. /\ DOMAIN s = 1 .. Len(s) /\ Len(s) \in Nat
        /\ DOMAIN t = 1 .. Len(s) - 1
    BY <1>1, LenProperties
  <1> DEFINE place(j) == IF j < i THEN j ELSE j + 1
  <1>a. ASSUME NEW j \in DOMAIN t
        PROVE  place(j) \in DOMAIN s /\ place(j) # i /\ t[j] = s[place(j)]
    BY <1>1, <1>2
  <1>3. ASSUME NEW j \in DOMAIN t, NEW k \in DOMAIN t, t[j] = t[k]
        PROVE  j = k
    <2>1. s[place(j)] = s[place(k)]
      BY <1>3, <1>a
    <2>2. place(j) = place(k)
      BY <2>1, <1>a
    <2> QED BY <2>2, <1>2
  <1>4. ASSUME NEW r, NEW j \in DOMAIN t, t[j] = r
        PROVE  r # s[i] /\ \E k \in DOMAIN s : s[k] = r
    BY <1>a, <1>4
  <1>5. ASSUME NEW r, r # s[i], NEW k \in DOMAIN s, s[k] = r
        PROVE  \E j \in DOMAIN t : t[j] = r
    <2>1. CASE k < i
      <3>1. k \in DOMAIN t /\ t[k] = r
        BY <2>1, <1>1, <1>2, <1>5
      <3> QED BY <3>1
    <2>2. CASE k > i
      <3>1. k - 1 \in DOMAIN t /\ t[k - 1] = r
        BY <2>2, <1>1, <1>2, <1>5
      <3> QED BY <3>1
    <2> QED BY <2>1, <2>2, <1>2, <1>5
  <1>6. \A r : (\E j \in DOMAIN t : t[j] = r)
                <=> (r # s[i] /\ \E j \in DOMAIN s : s[j] = r)
    BY <1>4, <1>5
  <1> QED BY <1>3, <1>6 DEF t

\* Serving the head: Tail is RemoveAt(_, 1).
LEMMA TailIsRemoveAt ==
    ASSUME NEW S, NEW s \in Seq(S), s # <<>>
    PROVE  /\ 1 \in DOMAIN s /\ Head(s) = s[1]
           /\ SubSeq(s, 2, Len(s)) = RemoveAt(s, 1)
           /\ Tail(s) = RemoveAt(s, 1)
  <1>1. Len(s) \in Nat /\ Len(s) # 0 /\ DOMAIN s = 1 .. Len(s)
    BY EmptySeq, LenProperties
  <1>2. /\ RemoveAt(s, 1) \in Seq(S) /\ Len(RemoveAt(s, 1)) = Len(s) - 1
        /\ \A j \in 1 .. Len(s) - 1 : RemoveAt(s, 1)[j] = s[j + 1]
    <2>1. 1 \in DOMAIN s
      BY <1>1
    <2>2. /\ RemoveAt(s, 1) \in Seq(S) /\ Len(RemoveAt(s, 1)) = Len(s) - 1
          /\ \A j \in 1 .. Len(s) - 1 :
                RemoveAt(s, 1)[j] = IF j < 1 THEN s[j] ELSE s[j + 1]
      BY <2>1, RemoveAtProperties
    <2>3. \A j \in 1 .. Len(s) - 1 : ~(j < 1)
      BY <1>1
    <2> QED BY <2>2, <2>3
  <1>3. /\ SubSeq(s, 2, Len(s)) \in Seq(S) /\ Len(SubSeq(s, 2, Len(s))) = Len(s) - 1
        /\ \A j \in 1 .. Len(s) - 1 : SubSeq(s, 2, Len(s))[j] = s[j + 1]
    BY <1>1, SubSeqProperties
  <1>4. SubSeq(s, 2, Len(s)) = RemoveAt(s, 1)
    BY <1>2, <1>3, SeqEqual
  <1>5. /\ Tail(s) \in Seq(S) /\ Len(Tail(s)) = Len(s) - 1
        /\ \A j \in 1 .. Len(s) - 1 : Tail(s)[j] = s[j + 1]
    BY <1>1, HeadTailProperties
  <1>6. Tail(s) = RemoveAt(s, 1)
    BY <1>2, <1>5, SeqEqual
  <1> QED BY <1>1, <1>4, <1>6, HeadTailProperties
-----------------------------------------------------------------------------
(* What the inductive invariant says about owners and waiters. *)

\* A queued request owns nothing; whoever is idle has no future.
LEMMA QueuedAndIdle ==
    ASSUME PoolInv
    PROVE  /\ \A i \in DOMAIN waiters :
                 /\ waiters[i] \in Requests
                 /\ fut[waiters[i]] = "pending"
                 /\ waiters[i] \notin Owners
           /\ \A r \in Requests : pc[r] \in {"idle", "holding"} => fut[r] = "none"
           /\ Owners \subseteq Requests
  <1>1. ASSUME NEW i \in DOMAIN waiters
        PROVE  waiters[i] \in Requests /\ fut[waiters[i]] = "pending"
    BY LenProperties, ElementOfSeq DEF PoolInv, TypeOK, DequeIsLive
  <1>2. \A r \in Requests : fut[r] = "pending" => r \notin Owners
    BY DEF PoolInv, DequeIsLive, Owners
  <1>3. \A r \in Requests : pc[r] \in {"idle", "holding"} => fut[r] = "none"
    BY DEF PoolInv, DequeIsLive
  <1>4. Owners \subseteq Requests
    BY DEF Owners
  <1> QED BY <1>1, <1>2, <1>3, <1>4

\* release() either passes the slot to the oldest waiter or frees it: the
\* loop over done futures never has to skip one.
LEMMA ReleaseSlotCases ==
    ASSUME PoolInv, NEW r \in Requests, ReleaseSlot(r)
    PROVE  \/ /\ waiters = <<>> /\ waiters' = <<>>
              /\ held' = IF held = 0 THEN 0 ELSE held - 1
              /\ fut' = [fut EXCEPT ![r] = "none"]
           \/ /\ waiters # <<>> /\ 1 \in DOMAIN waiters
              /\ Head(waiters) = waiters[1]
              /\ waiters' = RemoveAt(waiters, 1)
              /\ waiters' = Tail(waiters)
              /\ held' = held
              /\ fut' = [fut EXCEPT ![r] = "none", ![waiters[1]] = "set"]
  <1>1. waiters \in Seq(Requests) /\ DOMAIN waiters = 1 .. Len(waiters) /\ Len(waiters) \in Nat
    BY LenProperties DEF PoolInv, TypeOK
  <1>2. CASE GiveUp(r)
    <2>1. waiters = <<>>
      BY <1>1, <1>2, QueuedAndIdle, EmptySeq DEF GiveUp
    <2> QED BY <1>2, <2>1 DEF GiveUp
  <1>3. ASSUME NEW i \in DOMAIN waiters, HandOver(r, i)
        PROVE  /\ waiters # <<>> /\ i = 1
    <2>1. i = 1
      <3>1. i \in 1 .. Len(waiters) /\ ~(1 \in 1 .. (i - 1))
        BY <1>1, <1>3, QueuedAndIdle DEF HandOver
      <3> QED BY <3>1, <1>1
    <2> QED BY <2>1, <1>1, <1>3, EmptySeq
  <1>4. ASSUME NEW i \in DOMAIN waiters, HandOver(r, i)
        PROVE  /\ waiters # <<>> /\ 1 \in DOMAIN waiters
               /\ Head(waiters) = waiters[1]
               /\ waiters' = RemoveAt(waiters, 1)
               /\ waiters' = Tail(waiters)
               /\ held' = held
               /\ fut' = [fut EXCEPT ![r] = "none", ![waiters[1]] = "set"]
    <2>1. waiters # <<>> /\ i = 1
      BY <1>3, <1>4
    <2>2. waiters' = SubSeq(waiters, 2, Len(waiters))
      BY <2>1, <1>4 DEF HandOver
    <2> QED BY <2>1, <2>2, <1>1, <1>4, TailIsRemoveAt DEF HandOver
  <1> QED BY <1>2, <1>4 DEF ReleaseSlot

\* How each action changes the owners: the ledger's view of the step.
LEMMA OwnersAfterStep ==
    ASSUME PoolInv, NEW r \in Requests
    PROVE  /\ TryAcquire(r) => /\ waiters = <<>> /\ waiters' = <<>>
                               /\ r \notin Owners /\ Owners' = Owners \cup {r}
           /\ Enqueue(r) => /\ held = Capacity /\ r \notin Owners
                            /\ \A i \in DOMAIN waiters : waiters[i] # r
                            /\ waiters' = Append(waiters, r)
                            /\ Owners' = Owners
           /\ TimeoutFires(r) \/ ResumeGranted(r) => /\ waiters' = waiters
                                                    /\ Owners' = Owners
           /\ \A i \in DOMAIN waiters :
                 pc[r] = "expired" /\ Withdraw(r, i) /\ pc' = [pc EXCEPT ![r] = "idle"]
                 => Owners' = Owners
           /\ r \in Owners /\ ReleaseSlot(r) /\ pc' = [pc EXCEPT ![r] = "idle"]
              => \/ /\ waiters = <<>> /\ waiters' = <<>>
                    /\ held' = held - 1
                    /\ Owners' = Owners \ {r}
                 \/ /\ waiters # <<>>
                    /\ held' = held
                    /\ waiters' = Tail(waiters) /\ waiters' = RemoveAt(waiters, 1)
                    /\ Head(waiters) \notin Owners
                    /\ Owners' = (Owners \ {r}) \cup {Head(waiters)}
  <1> USE DEF PoolInv, TypeOK
  <1>1. ASSUME TryAcquire(r)
        PROVE  /\ waiters = <<>> /\ waiters' = <<>>
               /\ r \notin Owners /\ Owners' = Owners \cup {r}
    <2>1. waiters = <<>> /\ waiters' = <<>>
      BY <1>1, CapacityAssumption DEF TryAcquire, FreeSlot, NoIdleSlot
    <2>2. fut[r] = "none"
      BY <1>1, QueuedAndIdle DEF TryAcquire
    <2> QED BY <1>1, <2>1, <2>2 DEF TryAcquire, Owners
  <1>2. ASSUME Enqueue(r)
        PROVE  /\ held = Capacity /\ r \notin Owners
               /\ \A i \in DOMAIN waiters : waiters[i] # r
               /\ waiters' = Append(waiters, r)
               /\ Owners' = Owners
    <2>1. fut[r] = "none"
      BY <1>2, QueuedAndIdle DEF Enqueue
    <2>2. \A i \in DOMAIN waiters : waiters[i] # r
      BY <2>1, QueuedAndIdle
    <2>3. held = Capacity
      BY <1>2, CapacityAssumption DEF Enqueue, FreeSlot
    <2> QED BY <1>2, <2>1, <2>2, <2>3 DEF Enqueue, Enqueued, Owners
  <1>3. ASSUME TimeoutFires(r) \/ ResumeGranted(r)
        PROVE  waiters' = waiters /\ Owners' = Owners
    BY <1>3 DEF TimeoutFires, ResumeGranted, Owners
  <1>4. ASSUME NEW i \in DOMAIN waiters, pc[r] = "expired", Withdraw(r, i),
               pc' = [pc EXCEPT ![r] = "idle"]
        PROVE  Owners' = Owners
    <2>1. fut[r] = "pending"
      BY <1>4, QueuedAndIdle DEF Withdraw
    <2> QED BY <1>4, <2>1 DEF Withdraw, Owners
  <1>5. ASSUME r \in Owners, ReleaseSlot(r), pc' = [pc EXCEPT ![r] = "idle"]
        PROVE  \/ /\ waiters = <<>> /\ waiters' = <<>>
                  /\ held' = held - 1
                  /\ Owners' = Owners \ {r}
               \/ /\ waiters # <<>>
                  /\ held' = held
                  /\ waiters' = Tail(waiters) /\ waiters' = RemoveAt(waiters, 1)
                  /\ Head(waiters) \notin Owners
                  /\ Owners' = (Owners \ {r}) \cup {Head(waiters)}
    <2>1. held # 0
      BY <1>5, FS_EmptySet DEF HeldIsOwned
    <2>2. CASE waiters = <<>>
      <3>1. waiters' = <<>> /\ held' = held - 1 /\ fut' = [fut EXCEPT ![r] = "none"]
        BY <1>5, <2>1, <2>2, ReleaseSlotCases
      <3>2. Owners' = Owners \ {r}
        BY <1>5, <3>1 DEF Owners
      <3> QED BY <2>2, <3>1, <3>2
    <2>3. CASE waiters # <<>>
      <3> DEFINE w == waiters[1]
      <3>1. /\ 1 \in DOMAIN waiters /\ Head(waiters) = w
            /\ waiters' = Tail(waiters) /\ waiters' = RemoveAt(waiters, 1)
            /\ held' = held
            /\ fut' = [fut EXCEPT ![r] = "none", ![w] = "set"]
        BY <1>5, <2>3, ReleaseSlotCases
      <3>2. w \in Requests /\ w \notin Owners /\ w # r
        BY <1>5, <3>1, QueuedAndIdle
      <3> HIDE DEF w
      <3>3. Owners' = (Owners \ {r}) \cup {w}
        BY <1>5, <3>1, <3>2 DEF Owners
      <3> QED BY <2>3, <3>1, <3>2, <3>3
    <2> QED BY <2>2, <2>3
  <1> QED BY <1>1, <1>2, <1>3, <1>4, <1>5

\* An expired request that is handed a slot owns it until it hands it back.
LEMMA HandBackOwns ==
    ASSUME PoolInv, NEW r \in Requests, HandBack(r)
    PROVE  r \in Owners /\ ReleaseSlot(r)
  BY DEF HandBack, Owners

-----------------------------------------------------------------------------
(* PoolInv is inductive: one lemma per conjunct that a step can disturb.    *)

LEMMA InitEstablishesInv == Init => PoolInv
  <1> SUFFICES ASSUME Init PROVE PoolInv
    OBVIOUS
  <1>1. Owners = {}
    BY DEF Init, Owners
  <1>2. waiters \in Seq(Requests) /\ DOMAIN waiters = {}
    BY EmptySeq DEF Init
  <1>3. TypeOK
    BY <1>2, CapacityAssumption DEF Init, TypeOK
  <1>4. DequeIsLive
    BY <1>2 DEF Init, DequeIsLive
  <1>5. IsFiniteSet(Owners) /\ HeldIsOwned
    BY <1>1, FS_EmptySet DEF Init, HeldIsOwned
  <1>6. NoIdleSlot
    BY DEF Init, NoIdleSlot
  <1> QED BY <1>3, <1>4, <1>5, <1>6 DEF PoolInv

\* What is common to every way a request leaves the deque from place i: by a
\* hand-over (to = "set") or by withdrawing (to = "none").
LEMMA DequeAfterRemoval ==
    ASSUME PoolInv, NEW i \in DOMAIN waiters,
           waiters' = RemoveAt(waiters, i),
           fut' \in [Requests -> {"none", "pending", "set"}],
           fut'[waiters[i]] # "pending",
           \A q \in Requests \ {waiters[i]} : fut'[q] = "pending" <=> fut[q] = "pending"
    PROVE  /\ waiters' \in Seq(Requests)
           /\ \A j, k \in DOMAIN waiters' : waiters'[j] = waiters'[k] => j = k
           /\ \A q \in Requests :
                 (\E j \in DOMAIN waiters' : waiters'[j] = q) <=> fut'[q] = "pending"
  <1>1. waiters \in Seq(Requests)
        /\ \A j, k \in DOMAIN waiters : waiters[j] = waiters[k] => j = k
    BY DEF PoolInv, TypeOK, DequeIsLive
  <1>2. waiters' \in Seq(Requests)
    BY <1>1, RemoveAtProperties
  <1>3. /\ \A j, k \in DOMAIN waiters' : waiters'[j] = waiters'[k] => j = k
        /\ \A q : (\E j \in DOMAIN waiters' : waiters'[j] = q)
                 <=> (q # waiters[i] /\ \E j \in DOMAIN waiters : waiters[j] = q)
    BY <1>1, RemoveAtDistinct
  <1>4. \A q \in Requests :
           (\E j \in DOMAIN waiters : waiters[j] = q) <=> fut[q] = "pending"
    BY DEF PoolInv, DequeIsLive
  <1> QED BY <1>2, <1>3, <1>4

\* A slot that is given back leaves every part of the invariant intact.
LEMMA GiveBackKeepsInv ==
    ASSUME PoolInv, NEW r \in Requests, r \in Owners, ReleaseSlot(r),
           pc' = [pc EXCEPT ![r] = "idle"]
    PROVE  PoolInv'
  <1> USE DEF PoolInv, TypeOK
  <1>1. held \in 0 .. Capacity /\ held = Cardinality(Owners) /\ held # 0
    BY FS_EmptySet DEF HeldIsOwned
  <1>2. CASE waiters = <<>>
    <2>1. /\ waiters' = <<>> /\ held' = held - 1 /\ Owners' = Owners \ {r}
          /\ fut' = [fut EXCEPT ![r] = "none"]
      BY <1>2, OwnersAfterStep, ReleaseSlotCases
    <2>2. TypeOK'
      BY <1>1, <2>1, EmptySeq, CapacityAssumption
    <2>3. IsFiniteSet(Owners)' /\ HeldIsOwned'
      BY <1>1, <2>1, FS_RemoveElement DEF HeldIsOwned
    <2>4. DequeIsLive'
      <3>1. DOMAIN waiters = {} /\ waiters' = waiters
        BY <1>2, <2>1
      <3>2. \A q \in Requests : fut[q] # "pending" /\ fut'[q] # "pending"
        BY <3>1, <2>1 DEF DequeIsLive
      <3>3. \A q \in Requests : fut'[q] # "none" <=> pc'[q] \in {"waiting", "expired"}
        BY <2>1 DEF DequeIsLive
      <3> QED BY <3>1, <3>2, <3>3 DEF DequeIsLive
    <2> QED BY <2>1, <2>2, <2>3, <2>4 DEF NoIdleSlot
  <1>3. CASE waiters # <<>>
    <2> DEFINE w == waiters[1]
    <2>1. /\ 1 \in DOMAIN waiters /\ Head(waiters) = w
          /\ waiters' = RemoveAt(waiters, 1) /\ held' = held
          /\ fut' = [fut EXCEPT ![r] = "none", ![w] = "set"]
      BY <1>3, ReleaseSlotCases
    <2>2. w \notin Owners /\ Owners' = (Owners \ {r}) \cup {w}
      BY <1>3, <2>1, OwnersAfterStep
    <2>3. w \in Requests /\ fut[w] = "pending" /\ w # r
      BY <2>1, <2>2, QueuedAndIdle
    <2>a. fut[r] # "pending"
      BY DEF Owners, DequeIsLive
    <2> HIDE DEF w
    <2>4. fut' \in [Requests -> {"none", "pending", "set"}] /\ fut'[w] = "set" /\ fut'[r] = "none"
          /\ \A q \in Requests \ {w, r} : fut'[q] = fut[q]
      BY <2>1, <2>3
    <2>5. /\ waiters' \in Seq(Requests)
          /\ \A j, k \in DOMAIN waiters' : waiters'[j] = waiters'[k] => j = k
          /\ \A q \in Requests :
                (\E j \in DOMAIN waiters' : waiters'[j] = q) <=> fut'[q] = "pending"
      BY <2>1, <2>3, <2>4, <2>a, DequeAfterRemoval DEF w
    <2>6. TypeOK'
      BY <2>1, <2>4, <2>5
    <2>7. IsFiniteSet(Owners)' /\ HeldIsOwned'
      <3>1. IsFiniteSet(Owners \ {r}) /\ Cardinality(Owners \ {r}) = Cardinality(Owners) - 1
        BY FS_RemoveElement
      <3>2. IsFiniteSet(Owners') /\ Cardinality(Owners') = Cardinality(Owners \ {r}) + 1
        BY <3>1, <2>2, FS_AddElement
      <3> QED BY <3>1, <3>2, <1>1, <2>1 DEF HeldIsOwned
    <2>8. DequeIsLive'
      <3>1. \A q \in Requests : fut'[q] # "none" <=> pc'[q] \in {"waiting", "expired"}
        BY <2>3, <2>4 DEF DequeIsLive
      <3> QED BY <2>5, <3>1 DEF DequeIsLive
    <2>9. NoIdleSlot'
      BY <1>3, <2>1 DEF NoIdleSlot
    <2> QED BY <2>6, <2>7, <2>8, <2>9
  <1> QED BY <1>2, <1>3

LEMMA StepKeepsInv ==
    ASSUME PoolInv, NEW r \in Requests, Step(r)
    PROVE  PoolInv'
  <1> USE DEF PoolInv, TypeOK
  <1>1. CASE TryAcquire(r)
    <2>1. /\ waiters = <<>> /\ waiters' = <<>>
          /\ r \notin Owners /\ Owners' = Owners \cup {r}
      BY <1>1, OwnersAfterStep
    <2>2. TypeOK'
      BY <1>1, CapacityAssumption DEF TryAcquire, FreeSlot
    <2>3. IsFiniteSet(Owners)' /\ HeldIsOwned'
      BY <1>1, <2>1, FS_AddElement DEF HeldIsOwned, TryAcquire
    <2>4. DequeIsLive'
      BY <1>1 DEF DequeIsLive, TryAcquire
    <2> QED BY <2>1, <2>2, <2>3, <2>4 DEF NoIdleSlot
  <1>2. CASE Enqueue(r)
    <2>1. /\ held = Capacity /\ Owners' = Owners /\ held' = held
          /\ waiters' = Append(waiters, r)
          /\ \A i \in DOMAIN waiters : waiters[i] # r
      BY <1>2, OwnersAfterStep DEF Enqueue
    <2>2. /\ waiters' \in Seq(Requests) /\ Len(waiters') = Len(waiters) + 1
          /\ \A i \in 1 .. Len(waiters) : waiters'[i] = waiters[i]
          /\ waiters'[Len(waiters) + 1] = r
          /\ DOMAIN waiters = 1 .. Len(waiters) /\ Len(waiters) \in Nat
          /\ DOMAIN waiters' = 1 .. Len(waiters) + 1
      BY <2>1, AppendProperties, LenProperties
    <2>3. TypeOK'
      BY <1>2, <2>1, <2>2 DEF Enqueue
    <2>4. IsFiniteSet(Owners)' /\ HeldIsOwned' /\ NoIdleSlot'
      BY <1>2, <2>1 DEF HeldIsOwned, NoIdleSlot, Enqueue
    <2>5. DequeIsLive'
      <3>1. \A j, k \in DOMAIN waiters' : waiters'[j] = waiters'[k] => j = k
        BY <2>1, <2>2 DEF DequeIsLive
      <3>2. ASSUME NEW q \in Requests
            PROVE  (\E j \in DOMAIN waiters' : waiters'[j] = q) <=> fut'[q] = "pending"
        <4>1. CASE q = r
          <5>1. Len(waiters) + 1 \in DOMAIN waiters' /\ waiters'[Len(waiters) + 1] = q
            BY <2>2, <4>1
          <5> QED BY <1>2, <4>1, <5>1 DEF Enqueue
        <4>2. CASE q # r
          <5>1. fut'[q] = fut[q]
            BY <1>2, <4>2 DEF Enqueue
          <5>2. (\E j \in DOMAIN waiters' : waiters'[j] = q)
                <=> (\E j \in DOMAIN waiters : waiters[j] = q)
            <6>1. ASSUME NEW j \in DOMAIN waiters', waiters'[j] = q
                  PROVE  j \in DOMAIN waiters /\ waiters[j] = q
              BY <2>2, <4>2, <6>1
            <6>2. ASSUME NEW j \in DOMAIN waiters, waiters[j] = q
                  PROVE  j \in DOMAIN waiters' /\ waiters'[j] = q
              BY <2>2, <6>2
            <6> QED BY <6>1, <6>2
          <5> QED BY <5>1, <5>2 DEF DequeIsLive
        <4> QED BY <4>1, <4>2
      <3>3. \A q \in Requests : fut'[q] # "none" <=> pc'[q] \in {"waiting", "expired"}
        BY <1>2 DEF Enqueue, DequeIsLive
      <3> QED BY <3>1, <3>2, <3>3 DEF DequeIsLive
    <2> QED BY <2>3, <2>4, <2>5
  <1>3. CASE Release(r)
    <2>1. r \in Owners
      BY <1>3 DEF Release, Owners
    <2> QED BY <1>3, <2>1, GiveBackKeepsInv DEF Release
  <1>4. CASE TimeoutFires(r) \/ ResumeGranted(r)
    <2>1. waiters' = waiters /\ Owners' = Owners /\ held' = held
      BY <1>4, OwnersAfterStep DEF TimeoutFires, ResumeGranted
    <2>2. TypeOK'
      BY <1>4 DEF TimeoutFires, ResumeGranted
    <2>3. DequeIsLive'
      <3>1. \A q \in Requests : fut'[q] = "pending" <=> fut[q] = "pending"
        BY <1>4 DEF TimeoutFires, ResumeGranted
      <3>2. \A q \in Requests : fut'[q] # "none" <=> pc'[q] \in {"waiting", "expired"}
        BY <1>4 DEF TimeoutFires, ResumeGranted, DequeIsLive
      <3> QED BY <2>1, <3>1, <3>2 DEF DequeIsLive
    <2> QED BY <2>1, <2>2, <2>3 DEF HeldIsOwned, NoIdleSlot
  <1>5. CASE ResumeTimedOut(r)
    <2>1. CASE HandBack(r)
      BY <1>5, <2>1, HandBackOwns, GiveBackKeepsInv DEF ResumeTimedOut
    <2>2. ASSUME NEW i \in DOMAIN waiters, Withdraw(r, i)
          PROVE  PoolInv'
      <3>1. /\ waiters[i] = r /\ waiters' = RemoveAt(waiters, i)
            /\ fut' = [fut EXCEPT ![r] = "none"] /\ held' = held
            /\ pc' = [pc EXCEPT ![r] = "idle"] /\ Owners' = Owners
        BY <1>5, <2>2, OwnersAfterStep DEF Withdraw, ResumeTimedOut
      <3>2. /\ waiters' \in Seq(Requests)
            /\ \A j, k \in DOMAIN waiters' : waiters'[j] = waiters'[k] => j = k
            /\ \A q \in Requests :
                  (\E j \in DOMAIN waiters' : waiters'[j] = q) <=> fut'[q] = "pending"
        BY <3>1, DequeAfterRemoval
      <3>3. TypeOK'
        BY <3>1, <3>2
      <3>4. \A q \in Requests : fut'[q] # "none" <=> pc'[q] \in {"waiting", "expired"}
        BY <3>1 DEF DequeIsLive
      <3>5. waiters # <<>>
        OBVIOUS
      <3>6. HeldIsOwned' /\ IsFiniteSet(Owners)' /\ NoIdleSlot'
        BY <3>1, <3>5 DEF HeldIsOwned, NoIdleSlot
      <3> QED BY <3>2, <3>3, <3>4, <3>6 DEF DequeIsLive
    <2> QED BY <1>5, <2>1, <2>2 DEF ResumeTimedOut
  <1> QED BY <1>1, <1>2, <1>3, <1>4, <1>5 DEF Step, Resume

LEMMA NextKeepsInv == PoolInv /\ [Next]_poolVars => PoolInv'
  <1>1. ASSUME PoolInv, UNCHANGED poolVars
        PROVE  PoolInv'
    BY <1>1 DEF PoolInv, poolVars, TypeOK, DequeIsLive, Owners, HeldIsOwned, NoIdleSlot
  <1> QED BY <1>1, StepKeepsInv DEF Next

\* In every reachable state of every pool the strengthened invariant holds.
THEOREM PoolInvariant == Spec => []PoolInv
  BY InitEstablishesInv, NextKeepsInv, PTL DEF Spec

-----------------------------------------------------------------------------
(* The results *)

\* The variables keep their types; in particular held stays within the
\* capacity, so the max(0, ...) of release() never hides an imbalance.
THEOREM TypeCorrect == Spec => []TypeOK
  <1>1. PoolInv => TypeOK
    BY DEF PoolInv
  <1> QED BY <1>1, PoolInvariant, PTL

\* SlotPool.held counts exactly the requests that own a slot.
THEOREM SlotsAreConserved == Spec => []HeldIsOwned
  <1>1. PoolInv => HeldIsOwned
    BY DEF PoolInv
  <1> QED BY <1>1, PoolInvariant, PTL

\* Never more owners than slots.
THEOREM NeverOverCommitted == Spec => []NoOverCommit
  <1>1. PoolInv => NoOverCommit
    BY CapacityAssumption DEF PoolInv, TypeOK, HeldIsOwned, NoOverCommit
  <1> QED BY <1>1, PoolInvariant, PTL

\* Nobody queues while a slot is free.
THEOREM NoLostWakeUp == Spec => []NoIdleSlot
  <1>1. PoolInv => NoIdleSlot
    BY DEF PoolInv
  <1> QED BY <1>1, PoolInvariant, PTL

\* The deque holds exactly the requests that still wait, each once.
THEOREM DequeStaysLive == Spec => []DequeIsLive
  <1>1. PoolInv => DequeIsLive
    BY DEF PoolInv
  <1> QED BY <1>1, PoolInvariant, PTL

\* The ledger counts with the same Cardinality.
LEMMA LedgerCounts == Ledger!Cardinality(Owners) = Cardinality(Owners)
  BY DEF Ledger!Cardinality, Cardinality

\* Every step of the pool is a step of the ledger, or none at all.
LEMMA StepRefinesLedger ==
    ASSUME PoolInv, NEW r \in Requests, Step(r)
    PROVE  Ledger!Next \/ UNCHANGED Ledger!ledgerVars
  <1> USE DEF Ledger!Next, Ledger!ledgerVars
  <1>1. CASE TryAcquire(r)
    <2>1. Ledger!Take(r)
      BY <1>1, OwnersAfterStep, LedgerCounts, CapacityAssumption
         DEF Ledger!Take, PoolInv, TypeOK, HeldIsOwned, TryAcquire, FreeSlot
    <2> QED BY <2>1
  <1>2. CASE Enqueue(r)
    <2>1. Ledger!Join(r)
      BY <1>2, OwnersAfterStep, LedgerCounts DEF Ledger!Join, PoolInv, HeldIsOwned
    <2> QED BY <2>1
  <1>3. ASSUME r \in Owners, ReleaseSlot(r), pc' = [pc EXCEPT ![r] = "idle"]
        PROVE  Ledger!Next
    <2>1. Ledger!Yield(r)
      BY <1>3, OwnersAfterStep DEF Ledger!Yield
    <2> QED BY <2>1
  <1>4. CASE Release(r)
    BY <1>3, <1>4 DEF Release, Owners
  <1>5. CASE TimeoutFires(r) \/ ResumeGranted(r)
    BY <1>5, OwnersAfterStep
  <1>6. CASE ResumeTimedOut(r)
    <2>1. CASE HandBack(r)
      BY <1>3, <1>6, <2>1, HandBackOwns DEF ResumeTimedOut
    <2>2. ASSUME NEW i \in DOMAIN waiters, Withdraw(r, i)
          PROVE  Ledger!Next
      <3>1. Ledger!Quit(i)
        BY <1>6, <2>2, OwnersAfterStep DEF Ledger!Quit, Ledger!RemoveAt, RemoveAt, Withdraw, ResumeTimedOut
      <3> QED BY <3>1
    <2> QED BY <1>6, <2>1, <2>2 DEF ResumeTimedOut
  <1> QED BY <1>1, <1>2, <1>4, <1>5, <1>6 DEF Step, Resume

\* The pool of slots.py implements the first-come-first-served ledger: slots
\* are never over-committed, never left idle before a waiter, and always go
\* to the request that has waited longest.
THEOREM PoolImplementsLedger == Spec => ImplementsLedger
  <1>1. Init => Ledger!Init
    BY DEF Init, Ledger!Init, Owners
  <1>2. PoolInv /\ [Next]_poolVars => [Ledger!Next]_(Ledger!ledgerVars)
    <2>1. UNCHANGED poolVars => UNCHANGED Ledger!ledgerVars
      BY DEF poolVars, Ledger!ledgerVars, Owners
    <2> QED BY <2>1, StepRefinesLedger DEF Next
  <1> QED BY <1>1, <1>2, PoolInvariant, PTL DEF Spec, ImplementsLedger, Ledger!Spec

\* A request becomes an owner only when nobody waits or when it is the one
\* that has waited longest.
THEOREM NobodyBarges == Spec => NoBarging
  <1> DEFINE Fair == \A r \in Requests :
                        r \in Owners' \ Owners => waiters = <<>> \/ r = Head(waiters)
  <1>1. ASSUME PoolInv, [Next]_poolVars
        PROVE  [Fair]_poolVars
    <2>1. ASSUME NEW q \in Requests, Step(q)
          PROVE  Fair
      <3>1. CASE TryAcquire(q)
        BY <1>1, <3>1, OwnersAfterStep
      <3>2. CASE Enqueue(q) \/ TimeoutFires(q) \/ ResumeGranted(q)
        BY <1>1, <3>2, OwnersAfterStep
      <3>3. ASSUME q \in Owners, ReleaseSlot(q), pc' = [pc EXCEPT ![q] = "idle"]
            PROVE  Fair
        <4>1. \/ Owners' = Owners \ {q}
              \/ waiters # <<>> /\ Owners' = (Owners \ {q}) \cup {Head(waiters)}
          BY <1>1, <3>3, OwnersAfterStep
        <4> QED BY <4>1
      <3>4. CASE Release(q)
        BY <3>3, <3>4 DEF Release, Owners
      <3>5. CASE ResumeTimedOut(q)
        <4>1. CASE HandBack(q)
          BY <1>1, <3>3, <3>5, <4>1, HandBackOwns DEF ResumeTimedOut
        <4>2. ASSUME NEW i \in DOMAIN waiters, Withdraw(q, i)
              PROVE  Fair
          BY <1>1, <3>5, <4>2, OwnersAfterStep DEF ResumeTimedOut
        <4> QED BY <3>5, <4>1, <4>2 DEF ResumeTimedOut
      <3> QED BY <2>1, <3>1, <3>2, <3>4, <3>5 DEF Step, Resume
    <2> QED BY <1>1, <2>1 DEF Next
  <1> QED BY <1>1, PoolInvariant, PTL DEF Spec, NoBarging
=============================================================================
