----------------------------- MODULE Admission -----------------------------
(***************************************************************************)
(* AdmissionController of gateway/admission.py: a request passes the       *)
(* client's limiter, the fair-share test and the slots, in that order, and *)
(* is counted in four places once it is admitted.  This module composes    *)
(* AdmissionSlots, FairShare and PressureLevels with the client limiters   *)
(* and the feature windows.                                                *)
(*                                                                         *)
(* acquire() is atomic up to `await self.slots.acquire`; a request that    *)
(* has to queue there has been charged for but is not yet counted.  That   *)
(* gap is what most properties below are about.                            *)
(*                                                                         *)
(* Abstractions.  Each request arrives once: a retry of the client is      *)
(* another request.  Time advances in ticks up to MaxTime, every bucket    *)
(* gaining its rate at each tick: TokenBucket refills when it is next      *)
(* used, which for a constant rate gives the same number.  A feature       *)
(* window is the cost admitted at each time, not a deque of events; its    *)
(* limit of 512 events is not reached.  What the latency average and the   *)
(* upstream metrics say is an input of each evaluation (RestSignals).      *)
(* Backpressure is on, as in the modes "ratelimit_queue" and "full", and   *)
(* the anomaly scorer is absent, as in the first of them; the limiter      *)
(* registry evicts nobody (client_ttl_s is far above these times).  The    *)
(* module Throttle is about what this leaves out.                          *)
(***************************************************************************)
EXTENDS Integers, FiniteSets, SequencesExt, PressureLevels, FairShare

CONSTANTS Requests, Cost,                               \* as in AdmissionSlots
          Total, ReservedCheap, CheapCostThreshold,     \* as in AdmissionSlots
          Clients,              \* the client identities
          Client,               \* whose request each request is
          RateLimitEnabled,     \* rate_limit.enabled
          RequestsBurst, RequestsRate,   \* the request bucket: capacity, gain per tick
          TokensBurst, TokensRate,       \* the cost bucket: capacity, gain per tick
          ClientMaxInflight,    \* rate_limit.client_max_inflight
          OccupancyHigh, OccupancyLow,   \* backpressure.occupancy_*, in percent
          RestSignals,          \* what the other pressure signals may say
          Window,               \* fairshare.window_s, in ticks
          MaxTime               \* bound on the clock, for model checking

ASSUME AdmissionAssumption ==
    /\ Client \in [Requests -> Clients]
    /\ RateLimitEnabled \in BOOLEAN
    /\ RequestsBurst \in Nat /\ RequestsRate \in Nat
    /\ TokensBurst \in Nat /\ TokensRate \in Nat
    /\ ClientMaxInflight \in Nat
    /\ OccupancyHigh \in Nat /\ OccupancyLow \in Nat
    /\ RestSignals \subseteq {"clear", "between", "high"}
    /\ Window \in Nat /\ MaxTime \in Nat

VARIABLES held, waiters, fut, pc,       \* slots.general
          reservedHeld, reservedBy,     \* slots.reserved
          requests, costTokens,         \* _tokens of each limiter's two buckets
          limiterInflight,              \* ClientLimiter.inflight
          inflight,                     \* AdmissionController.inflight
          pressureInflight,             \* PressureController.inflight
          concurrency,                  \* ClientWindow.concurrency
          recent,                       \* cost admitted per client and time
          level,                        \* PressureController._level
          now,                          \* the clock
          stage                         \* how far each request has come

slotVars == <<held, waiters, fut, pc, reservedHeld, reservedBy>>
bucketVars == <<requests, costTokens>>
countVars == <<limiterInflight, inflight, pressureInflight, concurrency>>
vars == <<slotVars, bucketVars, countVars, recent, level, now, stage>>

Slots == INSTANCE AdmissionSlots

ASSUME SlotsConfigured == Slots!SlotsAssumption

\* The reasons a request is refused for, as in _STATUS_BY_REASON.
LimitReasons == {"cost_exceeds_budget", "client_concurrency",
                 "rate_limit_requests", "rate_limit_cost"}
Reasons == LimitReasons \cup {"queue_pressure", "queue_timeout"}

Init ==
    /\ Slots!Init
    /\ requests = [c \in Clients |-> RequestsBurst]
    /\ costTokens = [c \in Clients |-> TokensBurst]
    /\ limiterInflight = [c \in Clients |-> 0]
    /\ inflight = 0 /\ pressureInflight = 0
    /\ concurrency = [c \in Clients |-> 0]
    /\ recent = [c \in Clients |-> [t \in 0 .. MaxTime |-> 0]]
    /\ level = NORMAL
    /\ now = 0
    /\ stage = [r \in Requests |-> "new"]

-----------------------------------------------------------------------------
(* ClientLimiter.check and _refund *)

\* The test each reason stands for; they are made in this order.
Fails(r, reason) ==
    LET c == Client[r]
    IN  CASE reason = "cost_exceeds_budget" -> Cost[r] > TokensBurst
          [] reason = "client_concurrency"  -> limiterInflight[c] >= ClientMaxInflight
          [] reason = "rate_limit_requests" -> requests[c] < 1
          [] reason = "rate_limit_cost"     -> costTokens[c] < Cost[r]

CheckOrder == <<"cost_exceeds_budget", "client_concurrency",
                "rate_limit_requests", "rate_limit_cost">>

LimitedBy(r, reason) ==
    /\ RateLimitEnabled
    /\ \E i \in DOMAIN CheckOrder :
          /\ CheckOrder[i] = reason /\ Fails(r, reason)
          /\ \A j \in 1 .. (i - 1) : ~Fails(r, CheckOrder[j])

WithinLimits(r) == RateLimitEnabled => \A reason \in LimitReasons : ~Fails(r, reason)

Charged(bucket, r, amount) ==
    IF RateLimitEnabled THEN [bucket EXCEPT ![Client[r]] = @ - amount] ELSE bucket

\* A bug: a request that is shed keeps what it was charged.
RefundedMutant(bucket, r, amount, capacity) == bucket

\* A bug: what was refilled meanwhile is not taken into account.
RefundedUncappedMutant(bucket, r, amount, capacity) ==
    IF RateLimitEnabled THEN [bucket EXCEPT ![Client[r]] = @ + amount] ELSE bucket

Refunded(bucket, r, amount, capacity) ==
    IF RateLimitEnabled
    THEN [bucket EXCEPT ![Client[r]] = Smaller(capacity, @ + amount)]
    ELSE bucket

Charge(r) ==
    /\ requests' = Charged(requests, r, 1)
    /\ costTokens' = Charged(costTokens, r, Cost[r])

\* A bug: the refund is made before the wait and again after it.
RefundMutant(r) ==
    /\ requests' = Refunded(requests, r, 1, RequestsBurst)
    /\ costTokens' = Refunded(costTokens, r, 2 * Cost[r], TokensBurst)

Refund(r) ==
    /\ requests' = Refunded(requests, r, 1, RequestsBurst)
    /\ costTokens' = Refunded(costTokens, r, Cost[r], TokensBurst)

\* Charged by check and refunded at once, with nothing in between.
ChargeAndRefund(r) ==
    /\ requests' = Refunded(Charged(requests, r, 1), r, 1, RequestsBurst)
    /\ costTokens' = Refunded(Charged(costTokens, r, Cost[r]), r, Cost[r], TokensBurst)

-----------------------------------------------------------------------------
(* PressureController.evaluate and FairShareController.evaluate *)

\* The level evaluate() leaves behind, when the other signals say rest.
LevelAfter(rest) ==
    NextLevel(level,
              \/ rest = "high"
              \/ pressureInflight * 100 >= OccupancyHigh * Larger(1, Total),
              /\ rest = "clear"
              /\ pressureInflight * 100 < OccupancyLow * Larger(1, Total))

\* FeatureStore.cost_shares: the cost still in the window, of every client
\* that has some or has a request in flight.
RecentCost(c) ==
    MapThenSumSet(LAMBDA t : recent[c][t], {t \in 0 .. now : t >= now - Window})

CostShares ==
    [c \in {d \in Clients : RecentCost(d) > 0 \/ concurrency[d] > 0} |-> RecentCost(c)]

\* The request is refused because its client is above its share.
Shed(r, rest) == LevelAfter(rest) >= ELEVATED /\ OverShare(CostShares, Client[r])

-----------------------------------------------------------------------------
(* acquire *)

CountAdmitted(r) ==
    /\ limiterInflight' = [limiterInflight EXCEPT ![Client[r]] = @ + 1]
    /\ inflight' = inflight + 1
    /\ pressureInflight' = inflight + 1
    /\ concurrency' = [concurrency EXCEPT ![Client[r]] = @ + 1]
    /\ recent' = [recent EXCEPT ![Client[r]][now] = @ + Cost[r]]
    /\ stage' = [stage EXCEPT ![r] = "admitted"]

\* Refused by the limiter: whatever check took it has put back.
RefuseLimited(r, reason) ==
    /\ stage[r] = "new" /\ LimitedBy(r, reason)
    /\ stage' = [stage EXCEPT ![r] = reason]
    /\ UNCHANGED <<slotVars, bucketVars, countVars, recent, level, now>>

RefuseOverShare(r, rest) ==
    /\ stage[r] = "new" /\ WithinLimits(r)
    /\ Shed(r, rest)
    /\ ChargeAndRefund(r)
    /\ level' = LevelAfter(rest)
    /\ stage' = [stage EXCEPT ![r] = "queue_pressure"]
    /\ UNCHANGED <<slotVars, countVars, recent, now>>

\* What comes before the slots, when nothing refuses the request.
PassTo(r, rest) ==
    /\ stage[r] = "new" /\ WithinLimits(r)
    /\ ~Shed(r, rest)
    /\ Charge(r)
    /\ level' = LevelAfter(rest)
    /\ UNCHANGED now

AdmitAtOnce(r, rest) ==
    /\ PassTo(r, rest)
    /\ Slots!AcquireGeneral(r) \/ Slots!AcquireReserved(r)
    /\ CountAdmitted(r)

Queue(r, rest) ==
    /\ PassTo(r, rest)
    /\ Slots!AwaitGeneral(r)
    /\ stage' = [stage EXCEPT ![r] = "queued"]
    /\ UNCHANGED <<countVars, recent>>

\* The queue_wait_ms timer of a queued request.
QueueWaitExpires(r) ==
    /\ Slots!General!TimeoutFires(r)
    /\ UNCHANGED <<reservedHeld, reservedBy, bucketVars, countVars, recent, level, now, stage>>

AdmitFromQueue(r) ==
    /\ Slots!General!ResumeGranted(r)
    /\ CountAdmitted(r)
    /\ UNCHANGED <<reservedHeld, reservedBy, bucketVars, level, now>>

RefuseQueued(r) ==
    /\ Slots!General!ResumeTimedOut(r)
    /\ Refund(r)
    /\ stage' = [stage EXCEPT ![r] = "queue_timeout"]
    /\ UNCHANGED <<reservedHeld, reservedBy, countVars, recent, level, now>>

-----------------------------------------------------------------------------
(* release, called once for each admitted request *)

Lowered(n) == IF n = 0 THEN 0 ELSE n - 1

\* A bug: the client's own counter is forgotten.
UncountMutant(r) ==
    /\ inflight' = Lowered(inflight)
    /\ pressureInflight' = Lowered(inflight)
    /\ concurrency' = [concurrency EXCEPT ![Client[r]] = Lowered(@)]
    /\ UNCHANGED limiterInflight

Uncount(r) ==
    /\ limiterInflight' = [limiterInflight EXCEPT ![Client[r]] = Lowered(@)]
    /\ inflight' = Lowered(inflight)
    /\ pressureInflight' = Lowered(inflight)
    /\ concurrency' = [concurrency EXCEPT ![Client[r]] = Lowered(@)]

HoldsSlot(r) == pc[r] = "holding" \/ r \in reservedBy

\* A bug: release returns early and the slot is never given back.
ReleaseLeakMutant(r) ==
    /\ stage[r] = "admitted"
    /\ Uncount(r)
    /\ stage' = [stage EXCEPT ![r] = "done"]
    /\ UNCHANGED <<slotVars, bucketVars, recent, level, now>>

\* A bug: every slot is returned to the general pool.
ReleaseWrongPoolMutant(r) ==
    /\ stage[r] = "admitted"
    /\ Slots!General!ReleaseSlot(r)
    /\ reservedBy' = reservedBy \ {r}
    /\ pc' = [pc EXCEPT ![r] = "idle"]
    /\ Uncount(r)
    /\ stage' = [stage EXCEPT ![r] = "done"]
    /\ UNCHANGED <<reservedHeld, bucketVars, recent, level, now>>

Release(r) ==
    /\ stage[r] = "admitted"
    /\ \/ Slots!ReleaseGeneral(r)
       \/ Slots!ReleaseReserved(r)
    /\ Uncount(r)
    /\ stage' = [stage EXCEPT ![r] = "done"]
    /\ UNCHANGED <<bucketVars, recent, level, now>>

-----------------------------------------------------------------------------
(* The clock, and the state sampler, which also evaluates the pressure *)

Refilled(bucket, rate, capacity) == [c \in Clients |-> Smaller(capacity, bucket[c] + rate)]

Tick ==
    /\ now < MaxTime
    /\ now' = now + 1
    /\ requests' = Refilled(requests, RequestsRate, RequestsBurst)
    /\ costTokens' = Refilled(costTokens, TokensRate, TokensBurst)
    /\ UNCHANGED <<slotVars, countVars, recent, level, stage>>

Sample(rest) ==
    /\ level' = LevelAfter(rest)
    /\ UNCHANGED <<slotVars, bucketVars, countVars, recent, now, stage>>

Arrive(r) ==
    \/ \E reason \in LimitReasons : RefuseLimited(r, reason)
    \/ \E rest \in RestSignals :
          \/ RefuseOverShare(r, rest) \/ AdmitAtOnce(r, rest) \/ Queue(r, rest)

Resume(r) == QueueWaitExpires(r) \/ AdmitFromQueue(r) \/ RefuseQueued(r)

Next ==
    \/ \E r \in Requests : Arrive(r) \/ Resume(r) \/ Release(r)
    \/ Tick
    \/ \E rest \in RestSignals : Sample(rest)

Spec == Init /\ [][Next]_vars

\* Timers fire, coroutines that are ready run, and the backend answers or
\* runs into the read timeout, so that every admitted request is released.
\* The sampler evaluates the pressure again and again.
FairSpec ==
    /\ Spec
    /\ \A r \in Requests : WF_vars(Resume(r)) /\ WF_vars(Release(r))
    /\ WF_vars(\E rest \in RestSignals : Sample(rest))

-----------------------------------------------------------------------------
(* Properties *)

Admitted == {r \in Requests : stage[r] = "admitted"}
AdmittedOf(c) == {r \in Admitted : Client[r] = c}

TypeOK ==
    /\ Slots!TypeOK
    /\ requests \in [Clients -> 0 .. RequestsBurst]
    /\ costTokens \in [Clients -> 0 .. TokensBurst]
    /\ limiterInflight \in [Clients -> Nat]
    /\ inflight \in Nat /\ pressureInflight \in Nat
    /\ concurrency \in [Clients -> Nat]
    /\ recent \in [Clients -> [0 .. MaxTime -> Nat]]
    /\ level \in PressureLevel
    /\ now \in 0 .. MaxTime
    /\ stage \in [Requests -> {"new", "queued", "admitted", "done"} \cup Reasons]

\* The four counts of requests in flight, kept in four objects, agree with
\* one another and with the requests that really are in flight, per client
\* and in total; so none of the max(0, ...) in release ever hides an error.
CountersAgree ==
    /\ inflight = Cardinality(Admitted)
    /\ pressureInflight = inflight
    /\ \A c \in Clients :
          /\ limiterInflight[c] = Cardinality(AdmittedOf(c))
          /\ concurrency[c] = Cardinality(AdmittedOf(c))

\* A request is in flight exactly while it holds a slot of one pool, and waits
\* exactly while a future of its own is pending or was just resolved: no
\* request reaches the backend without a slot and none keeps a slot after its
\* release.
InflightHoldsSlot ==
    \A r \in Requests :
        /\ stage[r] = "admitted" <=> HoldsSlot(r)
        /\ stage[r] = "queued" <=> pc[r] \in {"waiting", "expired"}

\* The slots bound what the gateway has in flight (config.py:60).
InflightWithinSlots == inflight <= Slots!AtLeastZero(Total)

\* The requests of c that keep what they were charged: queued ones do so far.
Charges(c) == {r \in Requests : Client[r] = c /\ stage[r] \in {"queued", "admitted", "done"}}
CostCharged(c) == MapThenSumSet(LAMBDA r : Cost[r], Charges(c))

\* Budgets balance, over every interleaving of waiting, refunds and refills.
\* What a client gets through is bounded by its burst and its rate: a refund
\* never returns more than was taken.  And a refusal costs nothing
\* (admission.py:186 "a client shed for global pressure would also lose the
\* rate budget it never spent"): a client is only ever short of what its
\* queued and admitted requests have taken.  First for the request bucket ...
RequestBudget ==
    RateLimitEnabled => \A c \in Clients :
        /\ requests[c] + Cardinality(Charges(c)) <= RequestsBurst + RequestsRate * now
        /\ requests[c] + Cardinality(Charges(c)) >= RequestsBurst

\* ... and the same for the cost bucket.
CostBudget ==
    RateLimitEnabled => \A c \in Clients :
        /\ costTokens[c] + CostCharged(c) <= TokensBurst + TokensRate * now
        /\ costTokens[c] + CostCharged(c) >= TokensBurst

\* Fair-share shedding never refuses everybody: among the clients that count,
\* some client is not above its share.
SomebodyIsWithinShare ==
    DOMAIN CostShares # {} => \E c \in DOMAIN CostShares : ~OverShare(CostShares, c)

\* config.py:48 "Per-client in-flight cap. Bounds slot occupancy independently
\* of arrival rate": no client has more requests in flight than the cap.
ClientWithinCap ==
    RateLimitEnabled => \A c \in Clients : limiterInflight[c] <= ClientMaxInflight

\* The slots inside the controller behave as AdmissionSlots.
SlotsAreAdmissionSlots == Slots!Spec

\* When no more requests come, the gateway returns to the empty state: no
\* slot, counter or waiter is left behind, and the pressure level goes back
\* to NORMAL once the other signals are clear; as far as each request that was
\* admitted is released (of streams that are not, Gateway keeps account).
Recovers ==
    <>[](/\ inflight = 0 /\ pressureInflight = 0
         /\ held = 0 /\ reservedHeld = 0 /\ waiters = <<>>
         /\ \A c \in Clients : limiterInflight[c] = 0 /\ concurrency[c] = 0
         /\ level = NORMAL)
=============================================================================
