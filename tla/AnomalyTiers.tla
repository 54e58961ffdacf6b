---------------------------- MODULE AnomalyTiers ----------------------------
(***************************************************************************)
(* VAEScorer of gateway/anomaly/scorer.py: a background task scores every  *)
(* client that is active and caches a tier for it, which admission reads;  *)
(* a tier is held for tier_decay_s before a lower one replaces it.         *)
(*                                                                         *)
(* Abstractions.  Which tier a score falls in is an input of each tick:    *)
(* the VAE and its thresholds are left out.  The expiry of a tier is the   *)
(* number of ticks left until it, the last event of a client's window its  *)
(* age, which stops growing beyond the window; time has no bound.          *)
(***************************************************************************)
EXTENDS Integers

CONSTANTS Clients,
          Decay,      \* anomaly.tier_decay_s, in ticks
          Window      \* fairshare.window_s, in ticks

TiersAssumption == Decay \in Nat /\ Window \in Nat

VARIABLES cache,      \* VAEScorer._cache: tier and time left, of the clients in it
          live,       \* ClientWindow.concurrency
          quiet,      \* the age of the newest event in each client's window
          observed,   \* history: the tier each client was last observed in
          owed        \* history: how long each client is still to be hostile

tierVars == <<cache, live, quiet, observed, owed>>

Tiers == {"normal", "suspect", "hostile"}
Rank == [normal |-> 0, suspect |-> 1, hostile |-> 2]

Lower(a, b) == Rank[a] < Rank[b]

\* tier(): admission reads the cache, and takes a client that is not in it
\* for normal.  Expiry plays no part: only score_once ends a tier.
Tier(c) == IF c \in DOMAIN cache THEN cache[c].tier ELSE "normal"

\* FeatureStore.active_clients.
Active == {c \in Clients : live[c] > 0 \/ quiet[c] <= Window}

\* A bug: every score of a client that is held renews its tier.
RescoredRenewMutant(c, tier) ==
    IF c \in DOMAIN cache /\ Lower(tier, cache[c].tier) /\ cache[c].left > 0
    THEN [cache[c] EXCEPT !.left = Decay]
    ELSE [tier |-> tier, left |-> IF tier = "normal" THEN 0 ELSE Decay]

\* The entry of a client after it was observed in this tier.
Rescored(c, tier) ==
    IF c \in DOMAIN cache /\ Lower(tier, cache[c].tier) /\ cache[c].left > 0
    THEN cache[c]
    ELSE [tier |-> tier, left |-> IF tier = "normal" THEN 0 ELSE Decay]

\* The cache after these clients were scored, and what is recorded of it.
Scored(clients, obs) ==
    [c \in DOMAIN cache \cup clients |-> IF c \in clients THEN Rescored(c, obs[c]) ELSE cache[c]]

Observe(clients, obs) ==
    /\ observed' = [c \in Clients |-> IF c \in clients THEN obs[c] ELSE observed[c]]
    /\ owed' = [c \in Clients |->
                   IF c \in clients /\ obs[c] = "hostile" THEN Decay ELSE owed[c]]

\* A bug: clients that are gone are evicted before their tier has expired.
EvictedMutant(table) == [c \in DOMAIN table \cap Active |-> table[c]]

\* _evict.
Evicted(table) ==
    [c \in {d \in DOMAIN table : d \in Active \/ table[d].left > 0} |-> table[c]]

-----------------------------------------------------------------------------

Init ==
    /\ cache = [c \in {} |-> [tier |-> "normal", left |-> 0]]
    /\ live = [c \in Clients |-> 0]
    /\ quiet = [c \in Clients |-> Window + 1]
    /\ observed = [c \in Clients |-> "normal"]
    /\ owed = [c \in Clients |-> 0]

\* score_once, which runs between two awaits: nothing comes in between.
ScoreOnce(obs) ==
    /\ cache' = Evicted(Scored(Active, obs))
    /\ Observe(Active, obs)
    /\ UNCHANGED <<live, quiet>>

\* Scoring a client raises, perhaps one that is not among Clients: those
\* before it have been scored, nobody is evicted, and the loop goes on at its
\* next tick.
ScoreFails(obs, before) ==
    /\ before \subseteq Active
    /\ cache' = Scored(before, obs)
    /\ Observe(before, obs)
    /\ UNCHANGED <<live, quiet>>

\* Admission counts a request of c and adds it to the window, and later
\* counts it out again.
CountIn(c) ==
    /\ quiet' = [quiet EXCEPT ![c] = 0]
    /\ UNCHANGED <<cache, observed, owed>>

CountOut(c) == UNCHANGED <<cache, quiet, observed, owed>>

AtLeastZero(n) == IF n < 0 THEN 0 ELSE n

TierTick ==
    /\ cache' = [c \in DOMAIN cache |-> [cache[c] EXCEPT !.left = AtLeastZero(@ - 1)]]
    /\ quiet' = [c \in Clients |-> IF quiet[c] > Window THEN quiet[c] ELSE quiet[c] + 1]
    /\ owed' = [c \in Clients |-> AtLeastZero(owed[c] - 1)]
    /\ UNCHANGED <<live, observed>>

Observations == [Clients -> Tiers]

Score == \E obs \in Observations : ScoreOnce(obs)

Next ==
    \/ Score
    \/ \E obs \in Observations, before \in SUBSET Clients : ScoreFails(obs, before)
    \/ \E c \in Clients : CountIn(c) /\ live' = [live EXCEPT ![c] = @ + 1]
    \/ \E c \in Clients : live[c] > 0 /\ CountOut(c) /\ live' = [live EXCEPT ![c] = @ - 1]
    \/ TierTick

Spec == Init /\ [][Next]_tierVars

-----------------------------------------------------------------------------
(* Properties *)

TierEntry == [tier : Tiers, left : 0 .. Decay]

TiersTypeOK ==
    /\ DOMAIN cache \subseteq Clients
    /\ cache \in [DOMAIN cache -> TierEntry]
    /\ live \in [Clients -> Nat] /\ quiet \in [Clients -> 0 .. Window + 1]
    /\ observed \in [Clients -> Tiers]
    /\ owed \in [Clients -> 0 .. Decay]

\* scorer.py:89-91: a client found hostile is treated as hostile for
\* tier_decay_s, whatever it does then: it may go quiet, be scored normal,
\* be missed by ticks that fail, or leave the window altogether.
HostileHolds == \A c \in Clients : owed[c] > 0 => Tier(c) = "hostile"

\* config.py:117 "Tiers decay rather than latch, so a client that bursts once
\* recovers": when a client is no longer observed above normal, or no longer
\* active, its tier is normal in the end.
PenaltyEnds ==
    \A c \in Clients :
        <>[](observed[c] = "normal" \/ c \notin Active) => <>[](Tier(c) = "normal")
=============================================================================
