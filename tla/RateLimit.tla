----------------------------- MODULE RateLimit -----------------------------
(***************************************************************************)
(* gateway/ratelimit.py: the token buckets of each client, refilled when   *)
(* they are next used, retuned by the client's tier, and kept in a         *)
(* registry that forgets clients it has not seen for a while.  Admission   *)
(* takes a bucket that gains its rate at each tick and a registry that     *)
(* forgets nobody; this module is about what that leaves out.              *)
(*                                                                         *)
(* Abstractions.  Whatever passes the limiter is admitted at once, as with *)
(* backpressure off or a slot free; the wait for a slot is in Admission.   *)
(* Clock readings (_updated, last_seen) appear as their age in ticks,      *)
(* which stops growing at Horizon, where every bucket is full and every    *)
(* idle limiter is stale: the model has no bound on time.  Amounts are     *)
(* counted in 1/Unit of a token, so that a tier's multiplier is one of     *)
(* 0 .. Unit.                                                              *)
(***************************************************************************)
EXTENDS Integers

CONSTANTS Clients,
          RequestsBurst, RequestsRate,   \* rate_limit.requests_*: capacity, gain per tick
          TokensBurst, TokensRate,       \* rate_limit.tokens_*: capacity, gain per tick
          ClientMaxInflight,             \* rate_limit.client_max_inflight
          ClientTtl,                     \* rate_limit.client_ttl_s, in ticks
          SweepEvery,                    \* lookups from one sweep to the next (512)
          Unit, Multipliers,             \* tier multipliers, as numerators over Unit
          Costs,                         \* what a request may cost
          Horizon,                       \* ages are told apart up to here
          MaxLive                        \* bound on a client's requests in flight

ASSUME RateLimitAssumption ==
    /\ RequestsBurst \in Nat /\ RequestsRate \in Nat
    /\ TokensBurst \in Nat /\ TokensRate \in Nat
    /\ ClientMaxInflight \in Nat /\ ClientTtl \in Nat
    /\ SweepEvery \in Nat \ {0}
    /\ Unit \in Nat \ {0} /\ Multipliers \subseteq 0 .. Unit
    /\ Costs \subseteq Nat
    /\ Horizon \in Nat /\ MaxLive \in Nat

\* A limiter is forgotten no sooner than its buckets have had the time to
\* fill.  The defaults are far from this limit: 300 s against 2 s and 4 s.
ASSUME TtlAssumption ==
    /\ ClientTtl < Horizon
    /\ RequestsBurst <= RequestsRate * ClientTtl
    /\ TokensBurst <= TokensRate * ClientTtl

VARIABLES limiters,    \* LimiterRegistry._clients
          sinceSweep,  \* LimiterRegistry._since_sweep
          live,        \* the requests of each client that are in flight
          orphaned,    \* those of them whose limiter is not in the registry
          baseline     \* what each client might still take, see Baseline below

rateVars == <<limiters, sinceSweep, live, orphaned, baseline>>

Smaller(a, b) == IF a <= b THEN a ELSE b

-----------------------------------------------------------------------------
(* TokenBucket *)

Full(capacity) == [tokens |-> capacity, age |-> 0]

\* A bug: the time since the last refill is credited twice.
RefilledTwiceMutant(bucket, gain, capacity) ==
    [tokens |-> Smaller(capacity, bucket.tokens + 2 * bucket.age * gain), age |-> 0]

Refilled(bucket, gain, capacity) ==
    IF bucket.age > 0
    THEN [tokens |-> Smaller(capacity, bucket.tokens + bucket.age * gain), age |-> 0]
    ELSE bucket

\* set_rate: what the bucket holds is clipped, but what it gained at the old
\* rate is not added first.
Clipped(bucket, capacity) == [bucket EXCEPT !.tokens = Smaller(@, capacity)]

Aged(bucket) == [bucket EXCEPT !.age = Smaller(Horizon, @ + 1)]

-----------------------------------------------------------------------------
(* ClientLimiter *)

\* The two buckets as a limiter with the given multiplier has them.
RequestsCapacity(m) == RequestsBurst * m
TokensCapacity(m) == TokensBurst * m

\* A new limiter; idle is the age of last_seen.
NewLimiter ==
    [requests |-> Full(RequestsCapacity(Unit)), cost |-> Full(TokensCapacity(Unit)),
     multiplier |-> Unit, inflight |-> 0, idle |-> 0]

\* apply_multiplier: relative to the configured values, whatever the
\* multiplier was before.
Retuned(l, m) ==
    [l EXCEPT !.requests = Clipped(@, RequestsCapacity(m)),
              !.cost = Clipped(@, TokensCapacity(m)),
              !.multiplier = m]

RequestsNow(l) == Refilled(l.requests, RequestsRate * l.multiplier, RequestsCapacity(l.multiplier))
CostNow(l) == Refilled(l.cost, TokensRate * l.multiplier, TokensCapacity(l.multiplier))

\* A bug: the cap is compared one too late.
AtCapMutant(l) == l.inflight > ClientMaxInflight

\* The tests of check, in their order.
ExceedsBudget(l, cost) == cost * Unit > TokensCapacity(l.multiplier)
AtCap(l) == l.inflight >= ClientMaxInflight
ShortOfRequests(l) == RequestsNow(l).tokens < Unit
ShortOfTokens(l, cost) == CostNow(l).tokens < cost * Unit

Seen(l) == [l EXCEPT !.idle = 0]

\* What check leaves behind when it allows a request of this cost ...
Charged(l, cost) ==
    [Seen(l) EXCEPT !.requests = [RequestsNow(l) EXCEPT !.tokens = @ - Unit],
                    !.cost = [CostNow(l) EXCEPT !.tokens = @ - cost * Unit]]

\* ... and when it does not: a bucket it has looked at has been refilled, and
\* the request token taken before the cost was found too high is back.
Limited(l, cost) ==
    IF ExceedsBudget(l, cost) \/ AtCap(l) THEN Seen(l)
    ELSE IF ShortOfRequests(l) THEN [Seen(l) EXCEPT !.requests = RequestsNow(l)]
    ELSE [Seen(l) EXCEPT !.requests = RequestsNow(l), !.cost = CostNow(l)]

Allowed(l, cost) ==
    ~(ExceedsBudget(l, cost) \/ AtCap(l) \/ ShortOfRequests(l) \/ ShortOfTokens(l, cost))

-----------------------------------------------------------------------------
(* LimiterRegistry *)

\* A bug: limiters are forgotten while requests are counted in them.
StaleInUseMutant(l) == l.idle > ClientTtl

Stale(l) == l.inflight = 0 /\ l.idle > ClientTtl

SweepDue == sinceSweep + 1 >= SweepEvery

\* The table after get has counted the lookup, and swept when it was due.
Swept(table) ==
    IF SweepDue THEN [c \in {d \in DOMAIN table : ~Stale(table[d])} |-> table[c]] ELSE table

Counted == sinceSweep' = IF SweepDue THEN 0 ELSE sinceSweep + 1

\* The limiter get returns, whether or not it is still in the table then.
Got(c) == IF c \in DOMAIN limiters THEN limiters[c] ELSE NewLimiter

TableWith(c) == [d \in DOMAIN limiters \cup {c} |-> IF d = c THEN Got(c) ELSE limiters[d]]

\* get does not touch last_seen.  A client that comes back after more than
\* the ttl is therefore swept by its own lookup, if that is the one that
\* sweeps: its request goes on with a limiter the table no longer has.
Kept(c) == c \in DOMAIN Swept(TableWith(c))

\* The caller's limiter becomes l.
Put(c, l) ==
    limiters' = [d \in DOMAIN Swept(TableWith(c)) |-> IF d = c THEN l ELSE limiters[d]]

-----------------------------------------------------------------------------
(* acquire up to the slots, release, and the clock *)

\* The most a client may take: a bucket that always gains the configured
\* rate, kept beside the code's buckets to compare them with.  What is taken
\* from a limiter that is no longer in the table is not counted.
Baseline == [requests : 0 .. RequestsBurst * Unit, cost : 0 .. TokensBurst * Unit]

TakenFrom(b, cost) ==
    [requests |-> IF b.requests >= Unit THEN b.requests - Unit ELSE 0,
     cost |-> IF b.cost >= cost * Unit THEN b.cost - cost * Unit ELSE 0]

\* anomaly_shed: refused before check, so last_seen stays as it was.
Shed(c, m) ==
    /\ Put(c, Retuned(Got(c), m)) /\ Counted
    /\ UNCHANGED <<live, orphaned, baseline>>

Refuse(c, m, cost) ==
    LET l == Retuned(Got(c), m)
    IN  /\ ~Allowed(l, cost)
        /\ Put(c, Limited(l, cost)) /\ Counted
        /\ UNCHANGED <<live, orphaned, baseline>>

Admit(c, m, cost) ==
    LET l == Retuned(Got(c), m)
    IN  /\ live[c] < MaxLive
        /\ Allowed(l, cost)
        /\ Put(c, [Charged(l, cost) EXCEPT !.inflight = @ + 1]) /\ Counted
        /\ live' = [live EXCEPT ![c] = @ + 1]
        /\ orphaned' = IF Kept(c) THEN orphaned ELSE [orphaned EXCEPT ![c] = @ + 1]
        /\ baseline' = IF Kept(c) THEN [baseline EXCEPT ![c] = TakenFrom(@, cost)] ELSE baseline

\* A request of a client that is not among Clients: all it does to them is
\* that its lookup may sweep.
Stranger ==
    /\ limiters' = Swept(limiters) /\ Counted
    /\ UNCHANGED <<live, orphaned, baseline>>

\* release lowers the count of the limiter the request was given.
Release(c) ==
    /\ live[c] > orphaned[c]
    /\ limiters' = IF c \in DOMAIN limiters
                   THEN [limiters EXCEPT ![c].inflight = IF @ = 0 THEN 0 ELSE @ - 1]
                   ELSE limiters
    /\ live' = [live EXCEPT ![c] = @ - 1]
    /\ UNCHANGED <<sinceSweep, orphaned, baseline>>

ReleaseOrphan(c) ==
    /\ orphaned[c] > 0
    /\ live' = [live EXCEPT ![c] = @ - 1]
    /\ orphaned' = [orphaned EXCEPT ![c] = @ - 1]
    /\ UNCHANGED <<limiters, sinceSweep, baseline>>

Older(l) ==
    [l EXCEPT !.requests = Aged(@), !.cost = Aged(@), !.idle = Smaller(Horizon, @ + 1)]

Tick ==
    /\ limiters' = [c \in DOMAIN limiters |-> Older(limiters[c])]
    /\ baseline' = [c \in Clients |->
          [requests |-> Smaller(RequestsBurst * Unit, baseline[c].requests + RequestsRate * Unit),
           cost |-> Smaller(TokensBurst * Unit, baseline[c].cost + TokensRate * Unit)]]
    /\ UNCHANGED <<sinceSweep, live, orphaned>>

Init ==
    /\ limiters = [c \in {} |-> NewLimiter]
    /\ sinceSweep = 0
    /\ live = [c \in Clients |-> 0]
    /\ orphaned = [c \in Clients |-> 0]
    /\ baseline = [c \in Clients |-> [requests |-> RequestsBurst * Unit, cost |-> TokensBurst * Unit]]

\* Any multiplier at any request: what holds does not depend on the scorer.
Arrive(c, m) ==
    \/ Shed(c, m)
    \/ \E cost \in Costs : Refuse(c, m, cost) \/ Admit(c, m, cost)

Step ==
    \/ \E c \in Clients : (\E m \in Multipliers : Arrive(c, m)) \/ Release(c) \/ ReleaseOrphan(c)
    \/ Stranger
    \/ Tick

Spec == Init /\ [][Step]_rateVars

-----------------------------------------------------------------------------
(* Properties *)

Bucket(capacity) == [tokens : 0 .. capacity, age : 0 .. Horizon]

Limiter ==
    [requests : Bucket(RequestsBurst * Unit), cost : Bucket(TokensBurst * Unit),
     multiplier : 0 .. Unit, inflight : Nat, idle : 0 .. Horizon]

LimitsTypeOK ==
    /\ DOMAIN limiters \subseteq Clients
    /\ limiters \in [DOMAIN limiters -> Limiter]
    /\ sinceSweep \in 0 .. (SweepEvery - 1)
    /\ live \in [Clients -> Nat] /\ orphaned \in [Clients -> Nat]
    /\ baseline \in [Clients -> Baseline]

\* Every request in flight is counted exactly once, over all lookups, sweeps
\* and releases: in the limiter of the registry, or in one that was swept by
\* the very lookup that returned it.  A client the registry does not know has
\* none of the first kind.
LiveIsCounted ==
    \A c \in Clients :
        live[c] = orphaned[c] + (IF c \in DOMAIN limiters THEN limiters[c].inflight ELSE 0)

\* config.py:48, the per-client cap: where the limiter is consulted and
\* counted without a wait in between, no client has more requests in flight
\* than the cap, but for those counted in a limiter the registry has lost.
ClientWithinCap ==
    \A c \in Clients : live[c] <= ClientMaxInflight + orphaned[c]

\* ratelimit.py:5-6: the buckets bound arrivals and work.  However a client's
\* tier changes, however its limiter is retuned, refunded, forgotten and made
\* anew, it never has more to spend than a bucket that gains the configured
\* rate all the time, apart from what it took from a limiter that was swept
\* by the lookup that returned it.
NeverBeyondBaseline ==
    \A c \in DOMAIN limiters :
        /\ RequestsNow(limiters[c]).tokens <= baseline[c].requests
        /\ CostNow(limiters[c]).tokens <= baseline[c].cost
=============================================================================
