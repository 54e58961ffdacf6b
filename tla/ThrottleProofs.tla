--------------------------- MODULE ThrottleProofs ---------------------------
(***************************************************************************)
(* Proofs about RateLimit, for every configuration in which a limiter is   *)
(* forgotten no sooner than its buckets could fill (TtlAssumption), and    *)
(* about Throttle, for every configuration of the scorer.                  *)
(*                                                                         *)
(* NeverBeyondBaseline is not inductive: the time a bucket has not been    *)
(* refilled for is credited at the rate of the tier it has by then.  It    *)
(* follows from two facts that are: a bucket holds no more than the        *)
(* baseline even if all that time is credited at the configured rate, and  *)
(* the baseline has recovered for as long as the limiter was not used, so  *)
(* that it is full when the limiter may be forgotten.                      *)
(*                                                                         *)
(* What the steps of Throttle do to the limiters are steps of RateLimit,   *)
(* so these theorems hold of it.  HostileHolds is not inductive: a hostile *)
(* tier is kept as long as its entry has time left, so the invariant adds  *)
(* that the entry has at least the time that is owed.                      *)
(***************************************************************************)
EXTENDS Throttle, TLAPS

-----------------------------------------------------------------------------
(* Arithmetic *)

LEMMA Products ==
    ASSUME NEW a \in Nat, NEW b \in Nat, NEW k \in Nat, a <= b
    PROVE  /\ a * k \in Nat /\ k * a \in Nat /\ a * k <= b * k /\ k * a <= k * b
           /\ (a + 1) * k = a * k + k
  OBVIOUS

\* What a bucket would hold if the time since its last refill were credited
\* at this rate.
Ceiling(bucket, gain, capacity) == Smaller(capacity, bucket.tokens + bucket.age * gain)

LEMMA CeilingIsInt ==
    ASSUME NEW full \in Nat, NEW top \in Nat, NEW bucket \in Bucket(full)
    PROVE  Ceiling(bucket, top, full) \in Int
  <1>1. bucket.tokens \in 0 .. full /\ bucket.age \in Nat
    BY RateLimitAssumption DEF Bucket
  <1> DEFINE t == bucket.age * top
  <1>2. t \in Nat
    BY <1>1, Products
  <1> HIDE DEF t
  <1>3. Ceiling(bucket, top, full) = Smaller(full, bucket.tokens + t)
    BY DEF Ceiling, t
  <1> QED BY <1>1, <1>2, <1>3 DEF Smaller

\* Refilling at a lower rate, up to a lower capacity, stays below the ceiling.
LEMMA Refilling ==
    ASSUME NEW full \in Nat, NEW capacity \in 0 .. full, NEW top \in Nat, NEW gain \in 0 .. top,
           NEW bucket \in Bucket(full), bucket.tokens <= capacity
    PROVE  LET now == Refilled(bucket, gain, capacity)
           IN  /\ now \in Bucket(full) /\ now.age = 0 /\ now.tokens \in 0 .. capacity
               /\ now.tokens <= Ceiling(bucket, top, full)
  <1>1. bucket.tokens \in 0 .. full /\ bucket.age \in 0 .. Horizon /\ Horizon \in Nat
    BY RateLimitAssumption DEF Bucket
  <1>2. bucket.age * gain \in Nat /\ bucket.age * gain <= bucket.age * top
        /\ bucket.age * top \in Nat
    BY <1>1, Products
  <1> DEFINE g == bucket.age * gain
             t == bucket.age * top
  <1>3. g \in Nat /\ t \in Nat /\ g <= t
    BY <1>2
  <1> HIDE DEF g, t
  <1>4. CASE bucket.age > 0
    <2>1. Refilled(bucket, gain, capacity)
             = [tokens |-> Smaller(capacity, bucket.tokens + g), age |-> 0]
      BY <1>4 DEF Refilled, g
    <2>2. Ceiling(bucket, top, full) = Smaller(full, bucket.tokens + t)
      BY DEF Ceiling, t
    <2> QED BY <1>1, <1>3, <2>1, <2>2 DEF Smaller, Bucket
  <1>5. CASE ~(bucket.age > 0)
    <2>1. Refilled(bucket, gain, capacity) = bucket /\ bucket.age = 0
      BY <1>1, <1>5 DEF Refilled
    <2>2. Ceiling(bucket, top, full) = Smaller(full, bucket.tokens + t)
      BY DEF Ceiling, t
    <2> QED BY <1>1, <1>3, <2>1, <2>2 DEF Smaller
  <1> QED BY <1>4, <1>5

\* In one tick the ceiling rises by what the baseline gains.
LEMMA Ticking ==
    ASSUME NEW full \in Nat, NEW top \in Nat, NEW bucket \in Bucket(full), NEW b \in 0 .. full,
           Ceiling(bucket, top, full) <= b
    PROVE  /\ Aged(bucket) \in Bucket(full) /\ Aged(bucket).tokens = bucket.tokens
           /\ Ceiling(Aged(bucket), top, full) <= Smaller(full, b + top)
  <1>1. bucket.tokens \in 0 .. full /\ bucket.age \in 0 .. Horizon /\ Horizon \in Nat
    BY RateLimitAssumption DEF Bucket
  <1>2. /\ Aged(bucket).tokens = bucket.tokens
        /\ Aged(bucket).age = Smaller(Horizon, bucket.age + 1)
        /\ Aged(bucket) \in Bucket(full)
    BY <1>1 DEF Aged, Bucket, Smaller
  <1>3. bucket.age * top \in Nat /\ (bucket.age + 1) * top = bucket.age * top + top
    BY <1>1, Products
  <1> DEFINE t == bucket.age * top
             n == Aged(bucket).age * top
  <1>4. t \in Nat /\ n \in {t, t + top}
    BY <1>1, <1>2, <1>3 DEF Smaller
  <1>5. Smaller(full, bucket.tokens + t) <= b
    BY DEF Ceiling
  <1>6. Ceiling(Aged(bucket), top, full) = Smaller(full, bucket.tokens + n)
    BY <1>2 DEF Ceiling
  <1> HIDE DEF t, n
  <1> QED BY <1>1, <1>2, <1>4, <1>5, <1>6 DEF Smaller

-----------------------------------------------------------------------------
(* The inductive invariant *)

FullRequests == RequestsBurst * Unit
FullCost == TokensBurst * Unit
TopRequests == RequestsRate * Unit
TopCost == TokensRate * Unit

\* A limiter's buckets are within what its multiplier leaves of them.
SoundLimiter(l) ==
    /\ l \in Limiter
    /\ l.requests.tokens <= RequestsCapacity(l.multiplier)
    /\ l.cost.tokens <= TokensCapacity(l.multiplier)
    /\ l.inflight <= ClientMaxInflight

\* What the buckets of a limiter and its idle time say about a baseline.
Covers(b, l) ==
    /\ Ceiling(l.requests, TopRequests, FullRequests) <= b.requests
    /\ Ceiling(l.cost, TopCost, FullCost) <= b.cost
    /\ Smaller(FullRequests, l.idle * TopRequests) <= b.requests
    /\ Smaller(FullCost, l.idle * TopCost) <= b.cost

FullBaseline == [requests |-> FullRequests, cost |-> FullCost]

\* What the table knows of a client c, given c's other books.
ClientInv(table, c, n, lost, b) ==
    /\ b \in Baseline
    /\ n \in Nat /\ lost \in Nat
    /\ c \in DOMAIN table =>
          SoundLimiter(table[c]) /\ Covers(b, table[c]) /\ n = lost + table[c].inflight
    /\ c \notin DOMAIN table => b = FullBaseline /\ n = lost

LimitsInv ==
    /\ DOMAIN limiters \subseteq Clients
    /\ limiters = [c \in DOMAIN limiters |-> limiters[c]]
    /\ sinceSweep \in 0 .. (SweepEvery - 1)
    /\ live \in [Clients -> Nat] /\ orphaned \in [Clients -> Nat]
    /\ baseline \in [Clients -> Baseline]
    /\ \A c \in Clients : ClientInv(limiters, c, live[c], orphaned[c], baseline[c])

LEMMA Sizes ==
    /\ FullRequests \in Nat /\ FullCost \in Nat /\ TopRequests \in Nat /\ TopCost \in Nat
    /\ \A m \in 0 .. Unit :
          /\ RequestsCapacity(m) \in 0 .. FullRequests /\ TokensCapacity(m) \in 0 .. FullCost
          /\ RequestsRate * m \in 0 .. TopRequests /\ TokensRate * m \in 0 .. TopCost
    /\ RequestsCapacity(Unit) = FullRequests /\ TokensCapacity(Unit) = FullCost
  <1> USE DEF FullRequests, FullCost, TopRequests, TopCost, RequestsCapacity, TokensCapacity
  <1>1. /\ RequestsBurst \in Nat /\ RequestsRate \in Nat /\ TokensBurst \in Nat
        /\ TokensRate \in Nat /\ Unit \in Nat
    BY RateLimitAssumption
  <1>2. ASSUME NEW m \in 0 .. Unit, NEW k \in Nat
        PROVE  k * m \in 0 .. k * Unit /\ k * Unit \in Nat
    <2>1. m \in Nat /\ m <= Unit
      BY <1>1, <1>2
    <2> QED BY <1>1, <1>2, <2>1, Products
  <1>3. Unit \in 0 .. Unit
    BY <1>1
  <1> QED BY <1>1, <1>2, <1>3

\* The buckets as the code would see them now are within the baseline.
LEMMA NowIsCovered ==
    ASSUME NEW l, SoundLimiter(l), NEW b \in Baseline, Covers(b, l)
    PROVE  /\ RequestsNow(l) \in Bucket(FullRequests) /\ RequestsNow(l).age = 0
           /\ RequestsNow(l).tokens \in 0 .. RequestsCapacity(l.multiplier)
           /\ RequestsNow(l).tokens <= b.requests
           /\ CostNow(l) \in Bucket(FullCost) /\ CostNow(l).age = 0
           /\ CostNow(l).tokens \in 0 .. TokensCapacity(l.multiplier)
           /\ CostNow(l).tokens <= b.cost
  <1>1. /\ l.multiplier \in 0 .. Unit
        /\ l.requests \in Bucket(FullRequests) /\ l.cost \in Bucket(FullCost)
    BY DEF SoundLimiter, Limiter, FullRequests, FullCost
  <1>2. /\ b.requests \in 0 .. FullRequests /\ b.cost \in 0 .. FullCost
    BY DEF Baseline, FullRequests, FullCost
  <1>3. /\ RequestsNow(l) \in Bucket(FullRequests) /\ RequestsNow(l).age = 0
        /\ RequestsNow(l).tokens \in 0 .. RequestsCapacity(l.multiplier)
        /\ RequestsNow(l).tokens <= Ceiling(l.requests, TopRequests, FullRequests)
    BY <1>1, Sizes, Refilling DEF SoundLimiter, RequestsNow
  <1>4. /\ CostNow(l) \in Bucket(FullCost) /\ CostNow(l).age = 0
        /\ CostNow(l).tokens \in 0 .. TokensCapacity(l.multiplier)
        /\ CostNow(l).tokens <= Ceiling(l.cost, TopCost, FullCost)
    BY <1>1, Sizes, Refilling DEF SoundLimiter, CostNow
  <1>5. /\ Ceiling(l.requests, TopRequests, FullRequests) \in Int
        /\ Ceiling(l.cost, TopCost, FullCost) \in Int
    BY <1>1, Sizes, CeilingIsInt
  <1>6. /\ RequestsNow(l).tokens \in Int /\ CostNow(l).tokens \in Int
    BY <1>3, <1>4, <1>1, Sizes
  <1> QED BY <1>2, <1>3, <1>4, <1>5, <1>6 DEF Covers

LEMMA FreshCeiling ==
    ASSUME NEW full \in Nat, NEW top \in Nat, NEW bucket \in Bucket(full), bucket.age = 0
    PROVE  Ceiling(bucket, top, full) = bucket.tokens
  <1>1. bucket.tokens \in 0 .. full /\ 0 * top = 0
    BY DEF Bucket
  <1> QED BY <1>1 DEF Ceiling, Smaller

LEMMA ClippedCeiling ==
    ASSUME NEW full \in Nat, NEW top \in Nat, NEW bucket \in Bucket(full), NEW capacity \in 0 .. full
    PROVE  LET clipped == Clipped(bucket, capacity)
           IN  /\ clipped \in Bucket(full) /\ clipped.tokens <= capacity
               /\ Ceiling(clipped, top, full) <= Ceiling(bucket, top, full)
  <1>1. /\ bucket.tokens \in 0 .. full /\ bucket.age \in 0 .. Horizon /\ Horizon \in Nat
        /\ bucket = [tokens |-> bucket.tokens, age |-> bucket.age]
    BY RateLimitAssumption DEF Bucket
  <1>2. Clipped(bucket, capacity)
           = [tokens |-> Smaller(bucket.tokens, capacity), age |-> bucket.age]
    BY <1>1 DEF Clipped
  <1> DEFINE t == bucket.age * top
  <1>3. t \in Nat
    BY <1>1, Products
  <1> HIDE DEF t
  <1>4. /\ Ceiling(bucket, top, full) = Smaller(full, bucket.tokens + t)
        /\ Ceiling(Clipped(bucket, capacity), top, full)
              = Smaller(full, Smaller(bucket.tokens, capacity) + t)
    BY <1>2 DEF Ceiling, t
  <1> QED BY <1>1, <1>2, <1>3, <1>4 DEF Smaller, Bucket

LEMMA ZeroIdle ==
    ASSUME NEW b \in Baseline
    PROVE  /\ Smaller(FullRequests, 0 * TopRequests) <= b.requests
           /\ Smaller(FullCost, 0 * TopCost) <= b.cost
  BY Sizes DEF Smaller, Baseline, FullRequests, FullCost

LEMMA NewIsSound == SoundLimiter(NewLimiter) /\ Covers(FullBaseline, NewLimiter)
  <1>1. /\ FullBaseline \in Baseline /\ Unit \in 0 .. Unit /\ 0 \in 0 .. Horizon
        /\ ClientMaxInflight \in Nat
    BY RateLimitAssumption, Sizes DEF FullBaseline, Baseline, FullRequests, FullCost
  <1>2. /\ Full(FullRequests) \in Bucket(FullRequests) /\ Full(FullRequests).age = 0
        /\ Full(FullCost) \in Bucket(FullCost) /\ Full(FullCost).age = 0
    BY <1>1, Sizes DEF Full, Bucket
  <1>3. /\ Ceiling(Full(FullRequests), TopRequests, FullRequests) = FullRequests
        /\ Ceiling(Full(FullCost), TopCost, FullCost) = FullCost
    BY <1>2, Sizes, FreshCeiling DEF Full
  <1>4. NewLimiter = [requests |-> Full(FullRequests), cost |-> Full(FullCost),
                      multiplier |-> Unit, inflight |-> 0, idle |-> 0]
    BY Sizes DEF NewLimiter
  <1>5. SoundLimiter(NewLimiter)
    <2>1. NewLimiter \in Limiter
      BY <1>1, <1>2, <1>4 DEF Limiter, FullRequests, FullCost
    <2> QED BY <1>1, <1>4, <2>1, Sizes DEF SoundLimiter, Full
  <1>6. Covers(FullBaseline, NewLimiter)
    BY <1>1, <1>3, <1>4, ZeroIdle, Sizes DEF Covers, FullBaseline
  <1> QED BY <1>5, <1>6

LEMMA RetunedIsSound ==
    ASSUME NEW l, SoundLimiter(l), NEW b \in Baseline, Covers(b, l), NEW m \in 0 .. Unit
    PROVE  /\ SoundLimiter(Retuned(l, m)) /\ Covers(b, Retuned(l, m))
           /\ Retuned(l, m).inflight = l.inflight
  <1>1. /\ l \in Limiter /\ l.requests \in Bucket(FullRequests) /\ l.cost \in Bucket(FullCost)
    BY DEF SoundLimiter, Limiter, FullRequests, FullCost
  <1>2. /\ Retuned(l, m).requests = Clipped(l.requests, RequestsCapacity(m))
        /\ Retuned(l, m).cost = Clipped(l.cost, TokensCapacity(m))
        /\ Retuned(l, m).multiplier = m
        /\ Retuned(l, m).inflight = l.inflight /\ Retuned(l, m).idle = l.idle
    BY <1>1 DEF Retuned, Limiter
  <1>3. /\ Retuned(l, m).requests \in Bucket(FullRequests)
        /\ Retuned(l, m).requests.tokens <= RequestsCapacity(m)
        /\ Ceiling(Retuned(l, m).requests, TopRequests, FullRequests)
              <= Ceiling(l.requests, TopRequests, FullRequests)
    BY <1>1, <1>2, Sizes, ClippedCeiling
  <1>4. /\ Retuned(l, m).cost \in Bucket(FullCost)
        /\ Retuned(l, m).cost.tokens <= TokensCapacity(m)
        /\ Ceiling(Retuned(l, m).cost, TopCost, FullCost) <= Ceiling(l.cost, TopCost, FullCost)
    BY <1>1, <1>2, Sizes, ClippedCeiling
  <1>5. Retuned(l, m) \in Limiter
    BY <1>1, <1>2, <1>3, <1>4 DEF Retuned, Limiter, FullRequests, FullCost
  <1>6. /\ Ceiling(Retuned(l, m).requests, TopRequests, FullRequests) <= b.requests
        /\ Ceiling(Retuned(l, m).cost, TopCost, FullCost) <= b.cost
    <2>1. \A bucket, top, full :
             full \in Nat /\ top \in Nat /\ bucket \in Bucket(full)
             => Ceiling(bucket, top, full) \in Int
      <3> TAKE bucket, top, full
      <3> HAVE full \in Nat /\ top \in Nat /\ bucket \in Bucket(full)
      <3>1. bucket.tokens \in Nat /\ bucket.age \in Nat
        BY RateLimitAssumption DEF Bucket
      <3>2. bucket.age * top \in Nat
        BY <3>1, Products
      <3> QED BY <3>1, <3>2 DEF Ceiling, Smaller
    <2>2. b.requests \in Int /\ b.cost \in Int
      BY Sizes DEF Baseline, FullRequests, FullCost
    <2> QED BY <1>1, <1>3, <1>4, <2>1, <2>2, Sizes DEF Covers
  <1> QED BY <1>2, <1>3, <1>4, <1>5, <1>6 DEF SoundLimiter, Covers

LEMMA LimitedIsSound ==
    ASSUME NEW l, SoundLimiter(l), NEW b \in Baseline, Covers(b, l), NEW cost
    PROVE  /\ SoundLimiter(Limited(l, cost)) /\ Covers(b, Limited(l, cost))
           /\ Limited(l, cost).inflight = l.inflight
  <1> DEFINE k == Limited(l, cost)
  <1>1. /\ l \in Limiter /\ l.multiplier \in 0 .. Unit /\ 0 \in 0 .. Horizon
        /\ l.requests \in Bucket(FullRequests) /\ l.cost \in Bucket(FullCost)
    BY RateLimitAssumption DEF SoundLimiter, Limiter, FullRequests, FullCost
  <1>2. /\ k.requests \in {l.requests, RequestsNow(l)} /\ k.cost \in {l.cost, CostNow(l)}
        /\ k.multiplier = l.multiplier /\ k.inflight = l.inflight /\ k.idle = 0
        /\ k = [requests |-> k.requests, cost |-> k.cost, multiplier |-> k.multiplier,
                inflight |-> k.inflight, idle |-> k.idle]
    BY <1>1 DEF Limited, Seen, Limiter
  <1>3. k \in Limiter
    BY <1>1, <1>2, NowIsCovered DEF Limiter, FullRequests, FullCost
  <1>4. /\ k.requests.tokens <= RequestsCapacity(l.multiplier)
        /\ k.cost.tokens <= TokensCapacity(l.multiplier)
    BY <1>1, <1>2, NowIsCovered, Sizes DEF SoundLimiter
  <1>5. Covers(b, k)
    <2>1. Ceiling(k.requests, TopRequests, FullRequests) <= b.requests
      BY <1>2, NowIsCovered, FreshCeiling, Sizes DEF Covers
    <2>2. Ceiling(k.cost, TopCost, FullCost) <= b.cost
      BY <1>2, NowIsCovered, FreshCeiling, Sizes DEF Covers
    <2> QED BY <1>2, <2>1, <2>2, ZeroIdle DEF Covers
  <1> HIDE DEF k
  <1>6. SoundLimiter(k)
    BY <1>2, <1>3, <1>4 DEF SoundLimiter
  <1> QED BY <1>2, <1>5, <1>6 DEF k

\* What a limiter with these values allows is paid for by the baseline too.
LEMMA ChargedIsSound ==
    ASSUME NEW l, SoundLimiter(l), NEW b \in Baseline, Covers(b, l), NEW cost \in Costs,
           Allowed(l, cost)
    PROVE  LET k == [Charged(l, cost) EXCEPT !.inflight = @ + 1]
           IN  /\ SoundLimiter(k) /\ k.inflight = l.inflight + 1
               /\ TakenFrom(b, cost) \in Baseline /\ Covers(TakenFrom(b, cost), k)
  <1> DEFINE k == [Charged(l, cost) EXCEPT !.inflight = @ + 1]
             r == RequestsNow(l)
             t == CostNow(l)
             p == cost * Unit
  <1>1. /\ l \in Limiter /\ l.multiplier \in 0 .. Unit /\ 0 \in 0 .. Horizon
        /\ l.inflight \in Nat /\ Unit \in Nat \ {0} /\ ClientMaxInflight \in Nat
        /\ cost \in Nat /\ p \in Nat
    BY RateLimitAssumption, Products DEF SoundLimiter, Limiter
  <1>2. /\ r \in Bucket(FullRequests) /\ r.age = 0 /\ r.tokens \in 0 .. RequestsCapacity(l.multiplier)
        /\ r.tokens <= b.requests
        /\ t \in Bucket(FullCost) /\ t.age = 0 /\ t.tokens \in 0 .. TokensCapacity(l.multiplier)
        /\ t.tokens <= b.cost
    BY NowIsCovered
  <1>3. r.tokens >= Unit /\ t.tokens >= p /\ l.inflight < ClientMaxInflight
    BY <1>1, <1>2, Sizes DEF Allowed, ShortOfRequests, ShortOfTokens, AtCap
  <1>4. k = [requests |-> [tokens |-> r.tokens - Unit, age |-> 0],
             cost |-> [tokens |-> t.tokens - p, age |-> 0],
             multiplier |-> l.multiplier, inflight |-> l.inflight + 1, idle |-> 0]
    <2>1. /\ r = [tokens |-> r.tokens, age |-> 0] /\ t = [tokens |-> t.tokens, age |-> 0]
      BY <1>2 DEF Bucket
    <2> HIDE DEF r, t, p
    <2>2. /\ [r EXCEPT !.tokens = @ - Unit] = [tokens |-> r.tokens - Unit, age |-> 0]
          /\ [t EXCEPT !.tokens = @ - p] = [tokens |-> t.tokens - p, age |-> 0]
      BY <2>1
    <2>3. k = [l EXCEPT !.idle = 0, !.requests = [r EXCEPT !.tokens = @ - Unit],
                        !.cost = [t EXCEPT !.tokens = @ - p], !.inflight = @ + 1]
      BY <1>1 DEF Charged, Seen, Limiter, r, t, p
    <2> HIDE DEF k
    <2>4. l = [requests |-> l.requests, cost |-> l.cost, multiplier |-> l.multiplier,
               inflight |-> l.inflight, idle |-> l.idle]
      BY <1>1 DEF Limiter
    <2> QED BY <2>2, <2>3, <2>4
  <1>5. b.requests \in 0 .. FullRequests /\ b.cost \in 0 .. FullCost
    BY DEF Baseline, FullRequests, FullCost
  <1>6. TakenFrom(b, cost) = [requests |-> b.requests - Unit, cost |-> b.cost - p]
    BY <1>1, <1>2, <1>3, <1>5, Sizes DEF TakenFrom
  <1>7. /\ r.tokens - Unit \in 0 .. RequestsCapacity(l.multiplier)
        /\ t.tokens - p \in 0 .. TokensCapacity(l.multiplier)
        /\ b.requests - Unit \in 0 .. FullRequests /\ b.cost - p \in 0 .. FullCost
        /\ r.tokens - Unit <= b.requests - Unit /\ t.tokens - p <= b.cost - p
        /\ l.inflight + 1 \in Nat /\ l.inflight + 1 <= ClientMaxInflight
    BY <1>1, <1>2, <1>3, <1>5, Sizes
  <1> HIDE DEF r, t, p
  <1>8. /\ k.requests.tokens = r.tokens - Unit /\ k.requests.age = 0
        /\ k.requests \in Bucket(FullRequests)
        /\ k.cost.tokens = t.tokens - p /\ k.cost.age = 0 /\ k.cost \in Bucket(FullCost)
    BY <1>1, <1>2, <1>4, <1>7, Sizes DEF Bucket
  <1>9. TakenFrom(b, cost) \in Baseline
    BY <1>6, <1>7 DEF Baseline, FullRequests, FullCost
  <1>10. /\ Ceiling(k.requests, TopRequests, FullRequests) = r.tokens - Unit
         /\ Ceiling(k.cost, TopCost, FullCost) = t.tokens - p
    BY <1>8, Sizes, FreshCeiling
  <1>11. k.multiplier = l.multiplier /\ k.inflight = l.inflight + 1 /\ k.idle = 0
    BY <1>4
  <1>12. k \in Limiter
    BY <1>1, <1>4, <1>7, <1>8, <1>11 DEF Limiter, FullRequests, FullCost
  <1>13. SoundLimiter(k)
    BY <1>7, <1>8, <1>11, <1>12 DEF SoundLimiter
  <1>14. Covers(TakenFrom(b, cost), k)
    BY <1>6, <1>7, <1>9, <1>10, <1>11, ZeroIdle DEF Covers
  <1> QED BY <1>9, <1>11, <1>13, <1>14

\* A limiter that may be forgotten has had the time to fill.
LEMMA StaleIsFull ==
    ASSUME NEW l, SoundLimiter(l), NEW b \in Baseline, Covers(b, l), Stale(l)
    PROVE  b = FullBaseline /\ l.inflight = 0
  <1>1. /\ RequestsBurst \in Nat /\ RequestsRate \in Nat /\ TokensBurst \in Nat
        /\ TokensRate \in Nat /\ Unit \in Nat /\ ClientTtl \in Nat
        /\ l.idle \in Nat /\ l.idle >= ClientTtl
    BY RateLimitAssumption DEF SoundLimiter, Limiter, Stale
  <1>2. ASSUME NEW burst \in Nat, NEW rate \in Nat, burst <= rate * ClientTtl
        PROVE  /\ l.idle * (rate * Unit) \in Nat
               /\ burst * Unit <= l.idle * (rate * Unit)
    <2>1. /\ rate * ClientTtl \in Nat /\ rate * l.idle \in Nat
          /\ rate * ClientTtl <= rate * l.idle
      BY <1>1, Products
    <2>2. burst <= rate * l.idle
      BY <1>1, <1>2, <2>1
    <2>3. burst * Unit <= (rate * l.idle) * Unit
      BY <1>1, <2>1, <2>2, Products
    <2>4. (rate * l.idle) * Unit = l.idle * (rate * Unit)
      <3>1. \A x, y, z \in Int : (x * y) * z = y * (x * z)
        OBVIOUS
      <3> QED BY <1>1, <3>1
    <2>5. rate * Unit \in Nat
      BY <1>1, Products
    <2>6. l.idle * (rate * Unit) \in Nat
      BY <1>1, <2>5, Products
    <2> QED BY <2>3, <2>4, <2>6
  <1>3. /\ FullRequests <= l.idle * TopRequests /\ l.idle * TopRequests \in Nat
        /\ FullCost <= l.idle * TopCost /\ l.idle * TopCost \in Nat
    BY <1>1, <1>2, TtlAssumption DEF FullRequests, FullCost, TopRequests, TopCost
  <1>4. FullRequests <= b.requests /\ FullCost <= b.cost
    BY <1>3, Sizes DEF Covers, Smaller
  <1>5. b = [requests |-> b.requests, cost |-> b.cost]
        /\ b.requests \in 0 .. FullRequests /\ b.cost \in 0 .. FullCost
    BY DEF Baseline, FullRequests, FullCost
  <1>6. b.requests = FullRequests /\ b.cost = FullCost
    BY <1>4, <1>5, Sizes
  <1> QED BY <1>5, <1>6 DEF FullBaseline, Stale

-----------------------------------------------------------------------------
(* Each step keeps the invariant *)

LEMMA SweepKeepsOthers ==
    ASSUME LimitsInv, NEW c \in Clients, NEW d \in Clients \ {c},
           NEW table, DOMAIN table \subseteq DOMAIN limiters \cup {c},
           d \in DOMAIN table => table[d] = limiters[d],
           d \in DOMAIN limiters \ DOMAIN table => Stale(limiters[d])
    PROVE  ClientInv(table, d, live[d], orphaned[d], baseline[d])
  <1>1. /\ ClientInv(limiters, d, live[d], orphaned[d], baseline[d])
        /\ baseline[d] \in Baseline /\ live[d] \in Nat /\ orphaned[d] \in Nat
    BY DEF LimitsInv
  <1>2. CASE d \in DOMAIN table
    BY <1>1, <1>2 DEF ClientInv
  <1>3. CASE d \notin DOMAIN limiters
    BY <1>1, <1>3 DEF ClientInv
  <1>4. CASE d \in DOMAIN limiters \ DOMAIN table
    <2>1. SoundLimiter(limiters[d]) /\ Covers(baseline[d], limiters[d])
      BY <1>1, <1>4 DEF ClientInv
    <2> QED BY <1>1, <1>4, <2>1, StaleIsFull DEF ClientInv
  <1> QED BY <1>2, <1>3, <1>4

\* What Put does to the table, whatever the caller makes of its limiter.
LEMMA PutEffects ==
    ASSUME LimitsInv, NEW c \in Clients, NEW l, Put(c, l)
    PROVE  /\ limiters' = [d \in DOMAIN limiters' |-> limiters'[d]]
           /\ DOMAIN limiters' \subseteq DOMAIN limiters \cup {c}
           /\ \A d \in Clients \ {c} :
                 /\ d \in DOMAIN limiters' => limiters'[d] = limiters[d]
                 /\ d \in DOMAIN limiters \ DOMAIN limiters' => Stale(limiters[d])
           /\ Kept(c) <=> c \in DOMAIN limiters'
           /\ Kept(c) => limiters'[c] = l
           /\ ~Kept(c) => c \in DOMAIN limiters /\ Stale(limiters[c])
  <1> DEFINE kept == DOMAIN Swept(TableWith(c))
  <1>1. limiters' = [d \in kept |-> IF d = c THEN l ELSE limiters[d]]
    BY DEF Put
  <1>2. DOMAIN limiters' = kept
    BY <1>1
  <1>3. /\ kept \subseteq DOMAIN limiters \cup {c}
        /\ \A d \in (DOMAIN limiters \cup {c}) \ kept : Stale(TableWith(c)[d])
    BY DEF Swept, TableWith
  <1>4. \A d \in DOMAIN limiters \ {c} : TableWith(c)[d] = limiters[d]
    BY DEF TableWith
  <1>5. TableWith(c)[c] = Got(c)
    BY DEF TableWith
  <1>6. ~Stale(NewLimiter)
    BY RateLimitAssumption DEF Stale, NewLimiter
  <1>7. Kept(c) <=> c \in kept
    BY DEF Kept
  <1> HIDE DEF kept
  <1>8. limiters' = [d \in DOMAIN limiters' |-> limiters'[d]]
    BY <1>1, <1>2
  <1>9. \A d \in Clients \ {c} :
           /\ d \in DOMAIN limiters' => limiters'[d] = limiters[d]
           /\ d \in DOMAIN limiters \ DOMAIN limiters' => Stale(limiters[d])
    BY <1>1, <1>2, <1>3, <1>4
  <1>10. ~Kept(c) => c \in DOMAIN limiters /\ Stale(limiters[c])
    BY <1>3, <1>5, <1>6, <1>7 DEF Got
  <1> QED BY <1>1, <1>2, <1>3, <1>7, <1>8, <1>9, <1>10

\* The limiter get returns is sound, and covered.
LEMMA GotIsSound ==
    ASSUME LimitsInv, NEW c \in Clients
    PROVE  /\ baseline[c] \in Baseline
           /\ SoundLimiter(Got(c)) /\ Covers(baseline[c], Got(c))
           /\ live[c] = orphaned[c] + Got(c).inflight /\ Got(c).inflight \in Nat
           /\ live[c] \in Nat /\ orphaned[c] \in Nat
  <1>1. ClientInv(limiters, c, live[c], orphaned[c], baseline[c])
    BY DEF LimitsInv
  <1>2. /\ SoundLimiter(Got(c)) /\ Covers(baseline[c], Got(c))
        /\ live[c] = orphaned[c] + Got(c).inflight
    <2>1. CASE c \in DOMAIN limiters
      BY <1>1, <2>1 DEF ClientInv, Got
    <2>2. CASE c \notin DOMAIN limiters
      BY <1>1, <2>2, NewIsSound DEF ClientInv, Got, NewLimiter
    <2> QED BY <2>1, <2>2
  <1> QED BY <1>1, <1>2 DEF ClientInv, SoundLimiter, Limiter

LEMMA CountingLookups ==
    ASSUME sinceSweep \in 0 .. (SweepEvery - 1), Counted
    PROVE  sinceSweep' \in 0 .. (SweepEvery - 1)
  BY RateLimitAssumption DEF Counted, SweepDue

\* A request that is refused leaves the caller a limiter l that is still
\* sound; with the sweep nothing else changes.
LEMMA Refusing ==
    ASSUME LimitsInv, NEW c \in Clients, NEW l, Put(c, l), Counted,
           UNCHANGED <<live, orphaned, baseline>>,
           SoundLimiter(l), Covers(baseline[c], l), l.inflight = Got(c).inflight
    PROVE  LimitsInv'
  <1>1. \A d \in Clients \ {c} : ClientInv(limiters', d, live'[d], orphaned'[d], baseline'[d])
    BY PutEffects, SweepKeepsOthers
  <1>2. ClientInv(limiters', c, live'[c], orphaned'[c], baseline'[c])
    <2>1. CASE Kept(c)
      BY <2>1, PutEffects, GotIsSound DEF ClientInv
    <2>2. CASE ~Kept(c)
      <3>1. Stale(Got(c)) /\ c \notin DOMAIN limiters'
        BY <2>2, PutEffects DEF Got
      <3>2. baseline[c] = FullBaseline /\ Got(c).inflight = 0
        BY <3>1, GotIsSound, StaleIsFull
      <3> QED BY <3>1, <3>2, GotIsSound DEF ClientInv
    <2> QED BY <2>1, <2>2
  <1>3. DOMAIN limiters' \subseteq Clients
    BY PutEffects DEF LimitsInv
  <1> QED BY <1>1, <1>2, <1>3, PutEffects, CountingLookups DEF LimitsInv

LEMMA Admitting ==
    ASSUME LimitsInv, NEW c \in Clients, NEW m \in 0 .. Unit, NEW cost \in Costs,
           Admit(c, m, cost)
    PROVE  LimitsInv'
  <1> DEFINE g == Retuned(Got(c), m)
             l == [Charged(g, cost) EXCEPT !.inflight = @ + 1]
             b == TakenFrom(baseline[c], cost)
  <1>1. /\ Allowed(g, cost) /\ Put(c, l) /\ Counted
        /\ live' = [live EXCEPT ![c] = @ + 1]
        /\ orphaned' = IF Kept(c) THEN orphaned ELSE [orphaned EXCEPT ![c] = @ + 1]
        /\ baseline' = IF Kept(c) THEN [baseline EXCEPT ![c] = b] ELSE baseline
    BY DEF Admit
  <1>2. SoundLimiter(g) /\ Covers(baseline[c], g) /\ g.inflight = Got(c).inflight
    BY GotIsSound, RetunedIsSound
  <1>3. /\ SoundLimiter(l) /\ l.inflight = Got(c).inflight + 1
        /\ b \in Baseline /\ Covers(b, l)
    BY <1>1, <1>2, GotIsSound, ChargedIsSound
  <1> HIDE DEF g, l, b
  <1>4. /\ live \in [Clients -> Nat] /\ orphaned \in [Clients -> Nat]
        /\ baseline \in [Clients -> Baseline]
    BY DEF LimitsInv
  <1>5. /\ live' \in [Clients -> Nat] /\ orphaned' \in [Clients -> Nat]
        /\ baseline' \in [Clients -> Baseline]
        /\ live'[c] = live[c] + 1
        /\ orphaned'[c] = IF Kept(c) THEN orphaned[c] ELSE orphaned[c] + 1
        /\ baseline'[c] = IF Kept(c) THEN b ELSE baseline[c]
        /\ \A d \in Clients \ {c} :
              live'[d] = live[d] /\ orphaned'[d] = orphaned[d] /\ baseline'[d] = baseline[d]
    BY <1>1, <1>3, <1>4
  <1>6. \A d \in Clients \ {c} : ClientInv(limiters', d, live'[d], orphaned'[d], baseline'[d])
    BY <1>1, <1>5, PutEffects, SweepKeepsOthers
  <1>7. ClientInv(limiters', c, live'[c], orphaned'[c], baseline'[c])
    <2>1. CASE Kept(c)
      BY <1>1, <1>3, <1>5, <2>1, PutEffects, GotIsSound DEF ClientInv
    <2>2. CASE ~Kept(c)
      <3>1. Stale(Got(c)) /\ c \notin DOMAIN limiters'
        BY <1>1, <2>2, PutEffects DEF Got
      <3>2. baseline[c] = FullBaseline /\ Got(c).inflight = 0
        BY <3>1, GotIsSound, StaleIsFull
      <3> QED BY <1>5, <2>2, <3>1, <3>2, GotIsSound DEF ClientInv
    <2> QED BY <2>1, <2>2
  <1>8. DOMAIN limiters' \subseteq Clients
    BY <1>1, PutEffects DEF LimitsInv
  <1>9. sinceSweep' \in 0 .. (SweepEvery - 1)
    BY <1>1, CountingLookups DEF LimitsInv
  <1> QED BY <1>1, <1>5, <1>6, <1>7, <1>8, <1>9, PutEffects DEF LimitsInv

LEMMA Releasing ==
    ASSUME LimitsInv, NEW c \in Clients, Release(c) \/ ReleaseOrphan(c)
    PROVE  LimitsInv'
  <1>1. /\ live \in [Clients -> Nat] /\ orphaned \in [Clients -> Nat]
        /\ \A d \in Clients : ClientInv(limiters, d, live[d], orphaned[d], baseline[d])
    BY DEF LimitsInv
  <1>2. CASE Release(c)
    <2>1. /\ live[c] > orphaned[c] /\ live' = [live EXCEPT ![c] = @ - 1]
          /\ limiters' = IF c \in DOMAIN limiters
                         THEN [limiters EXCEPT ![c].inflight = IF @ = 0 THEN 0 ELSE @ - 1]
                         ELSE limiters
          /\ UNCHANGED <<sinceSweep, orphaned, baseline>>
      BY <1>2 DEF Release
    <2>2. c \in DOMAIN limiters /\ SoundLimiter(limiters[c]) /\ Covers(baseline[c], limiters[c])
          /\ live[c] = orphaned[c] + limiters[c].inflight /\ limiters[c].inflight \in Nat \ {0}
      BY <1>1, <2>1 DEF ClientInv, SoundLimiter, Limiter
    <2> DEFINE l == [limiters[c] EXCEPT !.inflight = @ - 1]
    <2>3. limiters' = [limiters EXCEPT ![c] = l]
      BY <2>1, <2>2 DEF LimitsInv
    <2>4. SoundLimiter(l) /\ Covers(baseline[c], l) /\ l.inflight = limiters[c].inflight - 1
      <3>1. /\ l.requests = limiters[c].requests /\ l.cost = limiters[c].cost
            /\ l.multiplier = limiters[c].multiplier /\ l.idle = limiters[c].idle
            /\ l.inflight = limiters[c].inflight - 1 /\ l.inflight \in Nat
            /\ l.inflight <= ClientMaxInflight /\ l \in Limiter
        BY <2>2, RateLimitAssumption DEF SoundLimiter, Limiter
      <3> QED BY <2>2, <3>1 DEF SoundLimiter, Covers
    <2> HIDE DEF l
    <2>5. /\ DOMAIN limiters' = DOMAIN limiters /\ limiters'[c] = l
          /\ limiters' = [d \in DOMAIN limiters' |-> limiters'[d]]
          /\ \A d \in DOMAIN limiters \ {c} : limiters'[d] = limiters[d]
      BY <2>2, <2>3 DEF LimitsInv
    <2>6. /\ live' \in [Clients -> Nat] /\ live'[c] = live[c] - 1
          /\ \A d \in Clients \ {c} : live'[d] = live[d]
      BY <1>1, <2>1, <2>2
    <2>7. \A d \in Clients : ClientInv(limiters', d, live'[d], orphaned[d], baseline[d])
      <3> TAKE d \in Clients
      <3>1. CASE d = c
        BY <1>1, <2>2, <2>4, <2>5, <2>6, <3>1 DEF ClientInv
      <3>2. CASE d # c
        BY <1>1, <2>5, <2>6, <3>2 DEF ClientInv
      <3> QED BY <3>1, <3>2
    <2> QED BY <2>1, <2>5, <2>6, <2>7 DEF LimitsInv
  <1>3. CASE ReleaseOrphan(c)
    <2>1. /\ orphaned[c] > 0 /\ live' = [live EXCEPT ![c] = @ - 1]
          /\ orphaned' = [orphaned EXCEPT ![c] = @ - 1]
          /\ UNCHANGED <<limiters, sinceSweep, baseline>>
      BY <1>3 DEF ReleaseOrphan
    <2>2. live[c] >= orphaned[c]
      BY <1>1 DEF ClientInv, SoundLimiter, Limiter
    <2>3. /\ live' \in [Clients -> Nat] /\ orphaned' \in [Clients -> Nat]
          /\ live'[c] = live[c] - 1 /\ orphaned'[c] = orphaned[c] - 1
          /\ \A d \in Clients \ {c} : live'[d] = live[d] /\ orphaned'[d] = orphaned[d]
      BY <1>1, <2>1, <2>2
    <2>4. \A d \in Clients : ClientInv(limiters, d, live'[d], orphaned'[d], baseline[d])
      <3> TAKE d \in Clients
      <3>1. CASE d = c
        BY <1>1, <2>3, <3>1 DEF ClientInv, SoundLimiter, Limiter
      <3>2. CASE d # c
        BY <1>1, <2>3, <3>2 DEF ClientInv
      <3> QED BY <3>1, <3>2
    <2> QED BY <2>1, <2>3, <2>4 DEF LimitsInv
  <1> QED BY <1>2, <1>3

LEMMA Sweeping ==
    ASSUME LimitsInv, Stranger
    PROVE  LimitsInv'
  <1>1. /\ limiters' = Swept(limiters) /\ Counted /\ UNCHANGED <<live, orphaned, baseline>>
    BY DEF Stranger
  <1>2. /\ DOMAIN limiters' \subseteq DOMAIN limiters
        /\ limiters' = [d \in DOMAIN limiters' |-> limiters'[d]]
        /\ \A d \in DOMAIN limiters' : limiters'[d] = limiters[d]
        /\ \A d \in DOMAIN limiters \ DOMAIN limiters' : Stale(limiters[d])
    BY <1>1 DEF Swept, LimitsInv
  <1>3. \A d \in Clients : ClientInv(limiters', d, live[d], orphaned[d], baseline[d])
    <2> TAKE d \in Clients
    <2>1. ClientInv(limiters, d, live[d], orphaned[d], baseline[d])
      BY DEF LimitsInv
    <2>2. CASE d \in DOMAIN limiters' \/ d \notin DOMAIN limiters
      BY <1>2, <2>1, <2>2 DEF ClientInv
    <2>3. CASE d \in DOMAIN limiters \ DOMAIN limiters'
      BY <1>2, <2>1, <2>3, StaleIsFull DEF ClientInv
    <2> QED BY <2>2, <2>3
  <1> QED BY <1>1, <1>2, <1>3, CountingLookups DEF LimitsInv

\* One tick: the buckets, the idle time and the baseline move on together.
LEMMA Ageing ==
    ASSUME NEW l, SoundLimiter(l), NEW b \in Baseline, Covers(b, l),
           NEW n, n = [requests |-> Smaller(FullRequests, b.requests + TopRequests),
                       cost |-> Smaller(FullCost, b.cost + TopCost)]
    PROVE  /\ n \in Baseline /\ SoundLimiter(Older(l)) /\ Covers(n, Older(l))
           /\ Older(l).inflight = l.inflight
  <1>1. /\ l \in Limiter /\ l.requests \in Bucket(FullRequests) /\ l.cost \in Bucket(FullCost)
        /\ l.idle \in 0 .. Horizon /\ Horizon \in Nat
    BY RateLimitAssumption DEF SoundLimiter, Limiter, FullRequests, FullCost
  <1>2. b.requests \in 0 .. FullRequests /\ b.cost \in 0 .. FullCost
    BY DEF Baseline, FullRequests, FullCost
  <1>3. /\ n \in Baseline /\ n.requests = Smaller(FullRequests, b.requests + TopRequests)
        /\ n.cost = Smaller(FullCost, b.cost + TopCost)
    BY <1>2, Sizes DEF Smaller, Baseline, FullRequests, FullCost
  <1>4. /\ Older(l).requests = Aged(l.requests) /\ Older(l).cost = Aged(l.cost)
        /\ Older(l).multiplier = l.multiplier /\ Older(l).inflight = l.inflight
        /\ Older(l).idle = Smaller(Horizon, l.idle + 1)
        /\ Older(l) = [requests |-> Older(l).requests, cost |-> Older(l).cost,
                       multiplier |-> Older(l).multiplier, inflight |-> Older(l).inflight,
                       idle |-> Older(l).idle]
    <2>1. l = [requests |-> l.requests, cost |-> l.cost, multiplier |-> l.multiplier,
               inflight |-> l.inflight, idle |-> l.idle]
      BY <1>1 DEF Limiter
    <2> DEFINE i == Smaller(Horizon, l.idle + 1)
               ar == Aged(l.requests)
               ac == Aged(l.cost)
    <2>2. Older(l) = [l EXCEPT !.requests = ar, !.cost = ac, !.idle = i]
      BY DEF Older
    <2> HIDE DEF i, ar, ac
    <2>3. Older(l) = [requests |-> ar, cost |-> ac, multiplier |-> l.multiplier,
                      inflight |-> l.inflight, idle |-> i]
      BY <2>1, <2>2
    <2> QED BY <2>3 DEF i, ar, ac
  <1>5. /\ Aged(l.requests) \in Bucket(FullRequests)
        /\ Aged(l.requests).tokens = l.requests.tokens
        /\ Ceiling(Aged(l.requests), TopRequests, FullRequests) <= n.requests
    BY <1>1, <1>2, <1>3, Sizes, Ticking DEF Covers
  <1>6. /\ Aged(l.cost) \in Bucket(FullCost) /\ Aged(l.cost).tokens = l.cost.tokens
        /\ Ceiling(Aged(l.cost), TopCost, FullCost) <= n.cost
    BY <1>1, <1>2, <1>3, Sizes, Ticking DEF Covers
  <1>7. ASSUME NEW full \in Nat, NEW top \in Nat, NEW x \in 0 .. full,
               Smaller(full, l.idle * top) <= x
        PROVE  Smaller(full, Older(l).idle * top) <= Smaller(full, x + top)
    <2> DEFINE t == l.idle * top
               s == Older(l).idle * top
    <2>1. t \in Nat /\ s \in {t, t + top}
      <3>1. l.idle * top \in Nat /\ (l.idle + 1) * top = l.idle * top + top
        BY <1>1, Products
      <3>2. Older(l).idle \in {l.idle, l.idle + 1}
        BY <1>1, <1>4 DEF Smaller
      <3> QED BY <3>1, <3>2
    <2>2. Smaller(full, t) <= x
      BY <1>7
    <2> HIDE DEF t, s
    <2>3. Smaller(full, s) <= Smaller(full, x + top)
      BY <2>1, <2>2 DEF Smaller
    <2> QED BY <2>3 DEF s
  <1>8. /\ Smaller(FullRequests, Older(l).idle * TopRequests) <= n.requests
        /\ Smaller(FullCost, Older(l).idle * TopCost) <= n.cost
    BY <1>2, <1>3, <1>7, Sizes DEF Covers
  <1>9. Older(l) \in Limiter
    <2>1. Smaller(Horizon, l.idle + 1) \in 0 .. Horizon
      BY <1>1 DEF Smaller
    <2> QED BY <1>1, <1>4, <1>5, <1>6, <2>1 DEF Limiter, FullRequests, FullCost
  <1>10. SoundLimiter(Older(l))
    BY <1>4, <1>5, <1>6, <1>9 DEF SoundLimiter
  <1>11. Covers(n, Older(l))
    BY <1>4, <1>5, <1>6, <1>8 DEF Covers
  <1> QED BY <1>3, <1>4, <1>10, <1>11

LEMMA PassingTime ==
    ASSUME LimitsInv, Tick
    PROVE  LimitsInv'
  <1> DEFINE gained(c) == [requests |-> Smaller(FullRequests, baseline[c].requests + TopRequests),
                           cost |-> Smaller(FullCost, baseline[c].cost + TopCost)]
  <1>1. /\ limiters' = [c \in DOMAIN limiters |-> Older(limiters[c])]
        /\ baseline' = [c \in Clients |-> gained(c)]
        /\ UNCHANGED <<sinceSweep, live, orphaned>>
    BY DEF Tick, FullRequests, FullCost, TopRequests, TopCost
  <1> HIDE DEF gained
  <1>2. ASSUME NEW c \in Clients
        PROVE  /\ ClientInv(limiters', c, live[c], orphaned[c], baseline'[c])
               /\ gained(c) \in Baseline
    <2>1. /\ ClientInv(limiters, c, live[c], orphaned[c], baseline[c])
          /\ baseline[c] \in Baseline /\ baseline'[c] = gained(c)
      BY <1>1 DEF LimitsInv
    <2>2. CASE c \in DOMAIN limiters
      <3>1. SoundLimiter(limiters[c]) /\ Covers(baseline[c], limiters[c])
        BY <2>1, <2>2 DEF ClientInv
      <3>2. /\ gained(c) \in Baseline /\ SoundLimiter(Older(limiters[c]))
            /\ Covers(gained(c), Older(limiters[c]))
            /\ Older(limiters[c]).inflight = limiters[c].inflight
        BY <2>1, <3>1, Ageing DEF gained
      <3>3. c \in DOMAIN limiters' /\ limiters'[c] = Older(limiters[c])
        BY <1>1, <2>2
      <3> QED BY <2>1, <2>2, <3>2, <3>3 DEF ClientInv
    <2>3. CASE c \notin DOMAIN limiters
      <3>1. baseline[c] = FullBaseline /\ c \notin DOMAIN limiters'
        BY <1>1, <2>1, <2>3 DEF ClientInv
      <3>2. gained(c) = FullBaseline
        BY <3>1, Sizes DEF gained, FullBaseline, Smaller
      <3> QED BY <2>1, <2>3, <3>1, <3>2 DEF ClientInv
    <2> QED BY <2>2, <2>3
  <1>3. baseline' \in [Clients -> Baseline]
    BY <1>1, <1>2
  <1>4. DOMAIN limiters' \subseteq Clients /\ limiters' = [c \in DOMAIN limiters' |-> limiters'[c]]
    BY <1>1 DEF LimitsInv
  <1> QED BY <1>1, <1>2, <1>3, <1>4 DEF LimitsInv

LEMMA InitEstablishesLimits == Init => LimitsInv
  <1> SUFFICES ASSUME Init PROVE LimitsInv
    OBVIOUS
  <1>1. FullBaseline \in Baseline /\ 0 \in 0 .. (SweepEvery - 1)
    BY RateLimitAssumption, Sizes DEF FullBaseline, Baseline, FullRequests, FullCost
  <1>2. /\ limiters = [c \in {} |-> NewLimiter] /\ DOMAIN limiters = {} /\ sinceSweep = 0
        /\ live = [c \in Clients |-> 0] /\ orphaned = [c \in Clients |-> 0]
        /\ baseline = [c \in Clients |-> FullBaseline]
    BY DEF Init, FullBaseline, FullRequests, FullCost
  <1> QED BY <1>1, <1>2 DEF LimitsInv, ClientInv

LEMMA StepKeepsLimits == LimitsInv /\ [Step]_rateVars => LimitsInv'
  <1> SUFFICES ASSUME LimitsInv, [Step]_rateVars PROVE LimitsInv'
    OBVIOUS
  <1>1. \A m \in Multipliers : m \in 0 .. Unit
    BY RateLimitAssumption
  <1>2. ASSUME NEW c \in Clients, NEW m \in Multipliers, Shed(c, m)
        PROVE  LimitsInv'
    BY <1>1, <1>2, GotIsSound, RetunedIsSound, Refusing DEF Shed
  <1>3. ASSUME NEW c \in Clients, NEW m \in Multipliers, NEW cost \in Costs, Refuse(c, m, cost)
        PROVE  LimitsInv'
    <2> DEFINE l == Limited(Retuned(Got(c), m), cost)
    <2>1. Put(c, l) /\ Counted /\ UNCHANGED <<live, orphaned, baseline>>
      BY <1>3 DEF Refuse
    <2>2. SoundLimiter(l) /\ Covers(baseline[c], l) /\ l.inflight = Got(c).inflight
      BY <1>1, GotIsSound, RetunedIsSound, LimitedIsSound
    <2> HIDE DEF l
    <2> QED BY <2>1, <2>2, Refusing
  <1>4. ASSUME NEW c \in Clients, NEW m \in Multipliers, NEW cost \in Costs, Admit(c, m, cost)
        PROVE  LimitsInv'
    BY <1>1, <1>4, Admitting
  <1>5. ASSUME NEW c \in Clients, Release(c) \/ ReleaseOrphan(c)
        PROVE  LimitsInv'
    BY <1>5, Releasing
  <1>6. CASE Stranger
    BY <1>6, Sweeping
  <1>7. CASE Tick
    BY <1>7, PassingTime
  <1>8. CASE UNCHANGED rateVars
    <2>1. \A c \in Clients : ClientInv(limiters', c, live[c], orphaned[c], baseline[c])
      BY <1>8 DEF rateVars, LimitsInv
    <2> QED BY <1>8, <2>1 DEF rateVars, LimitsInv
  <1> QED BY <1>2, <1>3, <1>4, <1>5, <1>6, <1>7, <1>8 DEF Step, Arrive

LEMMA LimitsInvariant == Spec => []LimitsInv
  BY InitEstablishesLimits, StepKeepsLimits, PTL DEF Spec

-----------------------------------------------------------------------------
(* What follows from it *)

\* Every variable keeps its type: in particular no charge overdraws a bucket
\* and no refill, refund or retuning overfills it.
THEOREM LimitsTypeCorrect == Spec => []LimitsTypeOK
  <1>1. LimitsInv => LimitsTypeOK
    BY DEF LimitsInv, LimitsTypeOK, ClientInv, SoundLimiter
  <1> QED BY <1>1, LimitsInvariant, PTL

\* No request in flight escapes the counts, over any sequence of lookups,
\* sweeps and releases.
THEOREM EveryRequestIsCounted == Spec => []LiveIsCounted
  <1>1. LimitsInv => LiveIsCounted
    <2> SUFFICES ASSUME LimitsInv, NEW c \in Clients
                 PROVE  live[c] = orphaned[c]
                            + (IF c \in DOMAIN limiters THEN limiters[c].inflight ELSE 0)
      BY DEF LiveIsCounted
    <2> QED BY DEF LimitsInv, ClientInv
  <1> QED BY <1>1, LimitsInvariant, PTL

\* The cap on each client's requests in flight.
THEOREM CapIsKept == Spec => []ClientWithinCap
  <1>1. LimitsInv => ClientWithinCap
    <2> SUFFICES ASSUME LimitsInv, NEW c \in Clients
                 PROVE  live[c] <= ClientMaxInflight + orphaned[c]
      BY DEF ClientWithinCap
    <2>1. ClientMaxInflight \in Nat
      BY RateLimitAssumption
    <2> QED BY <2>1 DEF LimitsInv, ClientInv, SoundLimiter, Limiter
  <1> QED BY <1>1, LimitsInvariant, PTL

\* No sequence of tiers, refusals and evictions gives a client more to spend
\* than its configured burst and rate.
THEOREM LimitsAreUpperBounds == Spec => []NeverBeyondBaseline
  <1>1. LimitsInv => NeverBeyondBaseline
    <2> SUFFICES ASSUME LimitsInv, NEW c \in DOMAIN limiters
                 PROVE  /\ RequestsNow(limiters[c]).tokens <= baseline[c].requests
                        /\ CostNow(limiters[c]).tokens <= baseline[c].cost
      BY DEF NeverBeyondBaseline
    <2> QED BY NowIsCovered DEF LimitsInv, ClientInv
  <1> QED BY <1>1, LimitsInvariant, PTL

-----------------------------------------------------------------------------
(* The limiters under the tiers of the scorer *)

\* The limiter path of Throttle is RateLimit, with the multipliers the tiers
\* stand for.
LEMMA StepOfLimits == [ThrottleNext]_vars => [Step]_rateVars
  <1> SUFFICES ASSUME [ThrottleNext]_vars PROVE [Step]_rateVars
    OBVIOUS
  <1>1. \A tier : Multiplier(tier) \in Multipliers
    BY ScorerConfigured DEF Multiplier
  <1>2. ASSUME NEW c \in Clients,
               \/ ShedHostile(c) \/ Finish(c)
               \/ \E cost \in Costs : RefuseLimited(c, cost) \/ AdmitRequest(c, cost)
        PROVE  Step
    BY <1>1, <1>2 DEF ShedHostile, Finish, RefuseLimited, AdmitRequest, MultiplierOf, Step, Arrive
  <1>3. CASE OthersArrive \/ TimePasses
    BY <1>3 DEF OthersArrive, TimePasses, Step
  <1>4. CASE ScoreTick \/ \E obs \in Scorer!Observations, before \in SUBSET Clients :
                             ScoreSome(obs, before)
    BY <1>4 DEF ScoreTick, ScoreAll, ScoreSome, rateVars
  <1>5. CASE UNCHANGED vars
    BY <1>5 DEF vars
  <1> QED BY <1>2, <1>3, <1>4, <1>5 DEF ThrottleNext

THEOREM ThrottleLimits == ThrottleSpec => Spec
  <1>1. ThrottleInit => Init
    BY DEF ThrottleInit
  <1> QED BY <1>1, StepOfLimits, PTL DEF ThrottleSpec, Spec

-----------------------------------------------------------------------------
(* The tiers *)

TierInv ==
    /\ Scorer!TiersTypeOK
    /\ \A c \in Clients : owed[c] > 0 =>
          c \in DOMAIN cache /\ cache[c].tier = "hostile" /\ cache[c].left >= owed[c]

\* Scoring some clients keeps the table in order, and the hostile where they
\* are.
LEMMA ScoringKeepsHostile ==
    ASSUME TierInv, NEW obs \in Scorer!Observations, NEW clients \in SUBSET Clients,
           Scorer!Observe(clients, obs)
    PROVE  LET table == Scorer!Scored(clients, obs)
           IN  /\ DOMAIN table \subseteq Clients
               /\ \A c \in DOMAIN table : table[c] \in Scorer!TierEntry
               /\ observed' \in [Clients -> Scorer!Tiers] /\ owed' \in [Clients -> 0 .. Decay]
               /\ \A c \in Clients : owed'[c] > 0 =>
                     c \in DOMAIN table /\ table[c].tier = "hostile" /\ table[c].left >= owed'[c]
  <1> DEFINE table == Scorer!Scored(clients, obs)
  <1>1. Decay \in Nat
    BY ScorerConfigured DEF Scorer!TiersAssumption
  <1>2. /\ DOMAIN table = DOMAIN cache \cup clients
        /\ \A c \in DOMAIN table :
              table[c] = IF c \in clients THEN Scorer!Rescored(c, obs[c]) ELSE cache[c]
    BY DEF Scorer!Scored
  <1> HIDE DEF table
  <1>3. /\ DOMAIN cache \subseteq Clients /\ \A c \in DOMAIN cache : cache[c] \in Scorer!TierEntry
        /\ observed \in [Clients -> Scorer!Tiers] /\ owed \in [Clients -> 0 .. Decay]
    BY DEF TierInv, Scorer!TiersTypeOK
  <1>4. /\ observed' = [c \in Clients |-> IF c \in clients THEN obs[c] ELSE observed[c]]
        /\ owed' = [c \in Clients |-> IF c \in clients /\ obs[c] = "hostile" THEN Decay ELSE owed[c]]
    BY DEF Scorer!Observe
  <1>5. \A c \in Clients : obs[c] \in Scorer!Tiers
    BY DEF Scorer!Observations
  <1>6. ASSUME NEW c \in DOMAIN table PROVE table[c] \in Scorer!TierEntry
    <2>1. CASE c \in clients
      <3>1. obs[c] \in Scorer!Tiers /\ Scorer!Rescored(c, obs[c]) = table[c]
        BY <1>2, <1>5, <1>6, <2>1
      <3>2. c \in DOMAIN cache => cache[c] \in Scorer!TierEntry
        BY <1>3
      <3>3. [tier |-> obs[c], left |-> IF obs[c] = "normal" THEN 0 ELSE Decay] \in Scorer!TierEntry
        BY <1>1, <3>1 DEF Scorer!TierEntry
      <3> QED BY <3>1, <3>2, <3>3 DEF Scorer!Rescored
    <2>2. CASE c \notin clients
      BY <1>2, <1>3, <1>6, <2>2
    <2> QED BY <2>1, <2>2
  <1>7. ASSUME NEW c \in Clients, owed'[c] > 0
        PROVE  c \in DOMAIN table /\ table[c].tier = "hostile" /\ table[c].left >= owed'[c]
    <2>1. CASE c \in clients /\ obs[c] = "hostile"
      <3>1. owed'[c] = Decay
        BY <1>4, <2>1
      <3>2. c \in DOMAIN cache => ~Scorer!Lower("hostile", cache[c].tier)
        BY <1>3 DEF Scorer!TierEntry, Scorer!Tiers, Scorer!Lower, Scorer!Rank
      <3>3. table[c] = [tier |-> "hostile", left |-> Decay]
        BY <1>2, <2>1, <3>2 DEF Scorer!Rescored
      <3> QED BY <1>1, <1>2, <2>1, <3>1, <3>3
    <2>2. CASE ~(c \in clients /\ obs[c] = "hostile")
      <3>1. owed'[c] = owed[c] /\ owed[c] \in 0 .. Decay
        BY <1>3, <1>4, <2>2
      <3>2. c \in DOMAIN cache /\ cache[c].tier = "hostile" /\ cache[c].left >= owed[c]
            /\ cache[c].left \in Nat
        BY <1>1, <1>3, <1>7, <3>1 DEF TierInv, Scorer!TierEntry
      <3>3. c \in clients => Scorer!Lower(obs[c], "hostile")
        BY <1>5, <2>2 DEF Scorer!Tiers, Scorer!Lower, Scorer!Rank
      <3>4. table[c] = cache[c]
        <4>1. cache[c].left > 0
          BY <1>7, <3>1, <3>2
        <4>2. c \in clients => Scorer!Rescored(c, obs[c]) = cache[c]
          BY <3>2, <3>3, <4>1 DEF Scorer!Rescored
        <4> QED BY <1>2, <3>2, <4>2
      <3> QED BY <1>2, <3>1, <3>2, <3>4
    <2> QED BY <2>1, <2>2
  <1>8. DOMAIN table \subseteq Clients
    BY <1>2, <1>3
  <1>9. observed' \in [Clients -> Scorer!Tiers] /\ owed' \in [Clients -> 0 .. Decay]
    BY <1>1, <1>3, <1>4, <1>5
  <1> QED BY <1>6, <1>7, <1>8, <1>9 DEF table

LEMMA NextKeepsTiers == TierInv /\ LimitsInv /\ LimitsInv' /\ [ThrottleNext]_vars => TierInv'
  <1> SUFFICES ASSUME TierInv, LimitsInv, LimitsInv', [ThrottleNext]_vars PROVE TierInv'
    OBVIOUS
  <1>1. /\ Decay \in Nat /\ Window \in Nat
        /\ live \in [Clients -> Nat] /\ live' \in [Clients -> Nat]
    BY ScorerConfigured DEF Scorer!TiersAssumption, LimitsInv
  <1>2. /\ DOMAIN cache \subseteq Clients /\ cache \in [DOMAIN cache -> Scorer!TierEntry]
        /\ quiet \in [Clients -> 0 .. Window + 1]
        /\ observed \in [Clients -> Scorer!Tiers] /\ owed \in [Clients -> 0 .. Decay]
    BY DEF TierInv, Scorer!TiersTypeOK
  <1>3. ASSUME UNCHANGED <<cache, observed, owed>>, quiet' \in [Clients -> 0 .. Window + 1]
        PROVE  TierInv'
    BY <1>1, <1>2, <1>3 DEF TierInv, Scorer!TiersTypeOK, Scorer!TierEntry, Scorer!Tiers
  <1>4. ASSUME NEW c \in Clients, ShedHostile(c) \/ Finish(c)
        PROVE  TierInv'
    BY <1>2, <1>3, <1>4 DEF ShedHostile, Finish, scorerVars, Scorer!CountOut
  <1>5. ASSUME NEW c \in Clients, NEW cost \in Costs, RefuseLimited(c, cost)
        PROVE  TierInv'
    BY <1>2, <1>3, <1>5 DEF RefuseLimited, scorerVars
  <1>6. ASSUME NEW c \in Clients, NEW cost \in Costs, AdmitRequest(c, cost)
        PROVE  TierInv'
    BY <1>1, <1>2, <1>3, <1>6 DEF AdmitRequest, Scorer!CountIn
  <1>7. CASE OthersArrive \/ UNCHANGED vars
    BY <1>2, <1>3, <1>7 DEF OthersArrive, vars, scorerVars
  <1>8. CASE TimePasses
    <2>1. /\ cache' = [c \in DOMAIN cache |-> [cache[c] EXCEPT !.left = Scorer!AtLeastZero(@ - 1)]]
          /\ quiet' = [c \in Clients |-> IF quiet[c] > Window THEN quiet[c] ELSE quiet[c] + 1]
          /\ owed' = [c \in Clients |-> Scorer!AtLeastZero(owed[c] - 1)]
          /\ observed' = observed
      BY <1>8 DEF TimePasses, Scorer!TierTick
    <2>2. \A c \in DOMAIN cache :
             /\ cache[c].tier \in Scorer!Tiers /\ cache[c].left \in 0 .. Decay
             /\ cache'[c] = [tier |-> cache[c].tier, left |-> Scorer!AtLeastZero(cache[c].left - 1)]
      <3> TAKE c \in DOMAIN cache
      <3>1. cache[c] = [tier |-> cache[c].tier, left |-> cache[c].left]
            /\ cache[c].tier \in Scorer!Tiers /\ cache[c].left \in 0 .. Decay
        BY <1>2 DEF Scorer!TierEntry
      <3>2. cache'[c] = [cache[c] EXCEPT !.left = Scorer!AtLeastZero(@ - 1)]
        BY <2>1
      <3> QED BY <3>1, <3>2
    <2>3. DOMAIN cache' = DOMAIN cache /\ cache' \in [DOMAIN cache' -> Scorer!TierEntry]
      <3>1. ASSUME NEW c \in DOMAIN cache PROVE cache'[c] \in Scorer!TierEntry
        <4> DEFINE left == Scorer!AtLeastZero(cache[c].left - 1)
        <4>1. left \in 0 .. Decay
          <5>1. cache[c].left \in 0 .. Decay
            BY <2>2
          <5>2. \A n \in 0 .. Decay : Scorer!AtLeastZero(n - 1) \in 0 .. Decay
            BY <1>1 DEF Scorer!AtLeastZero
          <5> QED BY <5>1, <5>2
        <4>2. cache'[c] = [tier |-> cache[c].tier, left |-> left] /\ cache[c].tier \in Scorer!Tiers
          BY <2>2
        <4> HIDE DEF left
        <4> QED BY <4>1, <4>2 DEF Scorer!TierEntry
      <3> QED BY <2>1, <3>1
    <2>4. quiet' \in [Clients -> 0 .. Window + 1] /\ owed' \in [Clients -> 0 .. Decay]
      BY <1>1, <1>2, <2>1 DEF Scorer!AtLeastZero
    <2>5. ASSUME NEW c \in Clients, owed'[c] > 0
          PROVE  c \in DOMAIN cache' /\ cache'[c].tier = "hostile" /\ cache'[c].left >= owed'[c]
      <3>1. owed[c] \in 0 .. Decay /\ owed[c] > 0 /\ owed'[c] = owed[c] - 1
        BY <1>1, <1>2, <2>1, <2>5 DEF Scorer!AtLeastZero
      <3>2. c \in DOMAIN cache /\ cache[c].tier = "hostile" /\ cache[c].left >= owed[c]
        BY <3>1 DEF TierInv
      <3> QED BY <1>1, <2>2, <2>3, <3>1, <3>2 DEF Scorer!AtLeastZero
    <2> QED BY <1>1, <1>2, <2>1, <2>3, <2>4, <2>5
            DEF TierInv, Scorer!TiersTypeOK, Scorer!TierEntry, Scorer!Tiers
  <1>9. ASSUME NEW obs \in Scorer!Observations, NEW clients \in SUBSET Clients,
               Scorer!Observe(clients, obs), UNCHANGED quiet,
               \/ cache' = Scorer!Scored(clients, obs)
               \/ cache' = Scorer!Evicted(Scorer!Scored(clients, obs))
        PROVE  TierInv'
    <2> DEFINE table == Scorer!Scored(clients, obs)
    <2>1. /\ DOMAIN table \subseteq Clients
          /\ \A c \in DOMAIN table : table[c] \in Scorer!TierEntry
          /\ observed' \in [Clients -> Scorer!Tiers] /\ owed' \in [Clients -> 0 .. Decay]
          /\ \A c \in Clients : owed'[c] > 0 =>
                c \in DOMAIN table /\ table[c].tier = "hostile" /\ table[c].left >= owed'[c]
      BY <1>9, ScoringKeepsHostile
    <2>2. /\ cache' = [c \in DOMAIN cache' |-> table[c]] /\ DOMAIN cache' \subseteq DOMAIN table
          /\ \A c \in DOMAIN table : table[c].left > 0 => c \in DOMAIN cache'
      <3>1. table = [c \in DOMAIN table |-> table[c]]
        BY DEF Scorer!Scored
      <3> QED BY <1>9, <3>1 DEF Scorer!Evicted
    <2> HIDE DEF table
    <2>3. \A c \in Clients : owed'[c] > 0 =>
             c \in DOMAIN cache' /\ cache'[c].tier = "hostile" /\ cache'[c].left >= owed'[c]
      <3> TAKE c \in Clients
      <3> HAVE owed'[c] > 0
      <3>1. /\ c \in DOMAIN table /\ table[c].tier = "hostile" /\ table[c].left >= owed'[c]
            /\ table[c].left \in Int /\ owed'[c] \in Int
        BY <1>1, <2>1 DEF Scorer!TierEntry
      <3>2. table[c].left > 0
        BY <3>1
      <3> QED BY <2>2, <3>1, <3>2
    <2>4. DOMAIN cache' \subseteq Clients /\ cache' \in [DOMAIN cache' -> Scorer!TierEntry]
      BY <2>1, <2>2
    <2> QED BY <1>1, <1>2, <1>9, <2>1, <2>3, <2>4
            DEF TierInv, Scorer!TiersTypeOK, Scorer!TierEntry, Scorer!Tiers
  <1>10. CASE ScoreTick
    <2>1. Scorer!Active \in SUBSET Clients
      BY DEF Scorer!Active
    <2> QED BY <1>9, <1>10, <2>1 DEF ScoreTick, ScoreAll, Scorer!ScoreOnce
  <1>11. CASE \E obs \in Scorer!Observations, before \in SUBSET Clients : ScoreSome(obs, before)
    BY <1>9, <1>11 DEF ScoreSome, Scorer!ScoreFails
  <1> QED BY <1>4, <1>5, <1>6, <1>7, <1>8, <1>10, <1>11 DEF ThrottleNext

LEMMA InitEstablishesTiers == ThrottleInit => TierInv
  BY ScorerConfigured
     DEF ThrottleInit, Scorer!Init, TierInv, Scorer!TiersTypeOK, Scorer!TierEntry,
         Scorer!Tiers, Scorer!TiersAssumption

LEMMA TiersInvariant == ThrottleSpec => []TierInv
  <1>1. ThrottleSpec => []LimitsInv
    BY ThrottleLimits, LimitsInvariant, PTL
  <1> QED BY <1>1, InitEstablishesTiers, NextKeepsTiers, PTL DEF ThrottleSpec

\* A client found hostile is hostile for tier_decay_s, through quiet, failed
\* ticks and evictions.
THEOREM HostilityHolds == ThrottleSpec => []HostileHolds
  <1>1. TierInv => HostileHolds
    BY DEF TierInv, HostileHolds, Scorer!HostileHolds, Scorer!Tier
  <1> QED BY <1>1, TiersInvariant, PTL

\* Every variable of limiters and tiers keeps its type.
THEOREM TypeCorrect == ThrottleSpec => []TypeOK
  <1>1. ThrottleInit => scoring \in BOOLEAN
    BY ScorerConfigured DEF ThrottleInit, BuildScorer
  <1>2. scoring \in BOOLEAN /\ [ThrottleNext]_vars => (scoring \in BOOLEAN)'
    BY DEF ThrottleNext, ShedHostile, Finish, RefuseLimited, AdmitRequest, OthersArrive,
           TimePasses, ScoreTick, ScoreAll, ScoreSome, vars
  <1>3. ThrottleSpec => [](scoring \in BOOLEAN)
    BY <1>1, <1>2, PTL DEF ThrottleSpec
  <1>4. ThrottleSpec => []LimitsTypeOK
    BY ThrottleLimits, LimitsTypeCorrect, PTL
  <1>5. TierInv /\ LimitsTypeOK /\ scoring \in BOOLEAN => TypeOK
    BY DEF TierInv, TypeOK
  <1> QED BY <1>3, <1>4, <1>5, TiersInvariant, PTL

\* What holds of RateLimit holds whatever tiers the scorer assigns.
THEOREM LimitsHoldUnderTiers == ThrottleSpec => [](LiveIsCounted /\ ClientWithinCap /\ NeverBeyondBaseline)
  BY ThrottleLimits, EveryRequestIsCounted, CapIsKept, LimitsAreUpperBounds, PTL
=============================================================================
