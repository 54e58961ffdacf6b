------------------------------ MODULE Throttle ------------------------------
(***************************************************************************)
(* The request path that clients meet in front of the slots: the limiter   *)
(* of RateLimit, retuned at each request by the tier AnomalyTiers keeps.   *)
(* The scorer reads the windows that admission fills, and tightens the     *)
(* limits by which admission fills them.                                   *)
(*                                                                         *)
(* Whether the pressure is up when a hostile client's request arrives is   *)
(* an input here; Backpressure is about that.                              *)
(***************************************************************************)
EXTENDS RateLimit

CONSTANTS Decay, Window,                          \* as in AnomalyTiers
          AnomalyEnabled,                         \* anomaly.enabled
          SuspectMultiplier, HostileMultiplier    \* anomaly.*_rate_multiplier, over Unit

VARIABLES cache, quiet, observed, owed,           \* as in AnomalyTiers
          scoring                                 \* app.state.scorer.available

Scorer == INSTANCE AnomalyTiers

ASSUME ScorerConfigured ==
    /\ Scorer!TiersAssumption
    /\ AnomalyEnabled \in BOOLEAN
    /\ {SuspectMultiplier, HostileMultiplier, Unit} \subseteq Multipliers

scorerVars == <<cache, quiet, observed, owed>>
vars == <<rateVars, scorerVars, scoring>>

\* build_scorer: without a model file that can be read and that was trained
\* on these features there is a NullScorer, and every tier is normal.
ModelFiles == {"usable", "missing", "unreadable", "other_features"}

BuildScorer(file) == scoring = (AnomalyEnabled /\ file = "usable")

ThrottleInit ==
    /\ Init /\ Scorer!Init
    /\ \E file \in ModelFiles : BuildScorer(file)

Multiplier(tier) ==
    CASE tier = "hostile" -> HostileMultiplier
      [] tier = "suspect" -> SuspectMultiplier
      [] OTHER -> Unit

MultiplierOf(c) == Multiplier(Scorer!Tier(c))

ShedHostile(c) ==
    /\ Scorer!Tier(c) = "hostile"
    /\ Shed(c, MultiplierOf(c))
    /\ UNCHANGED <<scorerVars, scoring>>

RefuseLimited(c, cost) ==
    /\ Refuse(c, MultiplierOf(c), cost)
    /\ UNCHANGED <<scorerVars, scoring>>

AdmitRequest(c, cost) ==
    /\ Admit(c, MultiplierOf(c), cost)
    /\ Scorer!CountIn(c)
    /\ UNCHANGED scoring

Finish(c) ==
    /\ Release(c) \/ ReleaseOrphan(c)
    /\ Scorer!CountOut(c)
    /\ UNCHANGED scoring

OthersArrive == Stranger /\ UNCHANGED <<scorerVars, scoring>>

TimePasses == Tick /\ Scorer!TierTick /\ UNCHANGED scoring

ScoreAll(obs) ==
    /\ scoring
    /\ Scorer!ScoreOnce(obs)
    /\ UNCHANGED <<rateVars, scoring>>

ScoreSome(obs, before) ==
    /\ scoring
    /\ Scorer!ScoreFails(obs, before)
    /\ UNCHANGED <<rateVars, scoring>>

ScoreTick == \E obs \in Scorer!Observations : ScoreAll(obs)

ThrottleNext ==
    \/ \E c \in Clients :
          \/ ShedHostile(c) \/ Finish(c)
          \/ \E cost \in Costs : RefuseLimited(c, cost) \/ AdmitRequest(c, cost)
    \/ OthersArrive
    \/ TimePasses
    \/ ScoreTick
    \/ \E obs \in Scorer!Observations, before \in SUBSET Clients : ScoreSome(obs, before)

ThrottleSpec == ThrottleInit /\ [][ThrottleNext]_vars

\* Time passes, and the loop gets through all clients again and again: it
\* runs for ever and catches what scoring one of them may raise.
FairThrottleSpec == ThrottleSpec /\ WF_vars(TimePasses) /\ WF_vars(ScoreTick)

-----------------------------------------------------------------------------
(* Properties *)

TypeOK == LimitsTypeOK /\ Scorer!TiersTypeOK /\ scoring \in BOOLEAN

\* scorer.py:89-91, see AnomalyTiers.
HostileHolds == Scorer!HostileHolds

\* config.py:117, see AnomalyTiers.
PenaltyEnds == Scorer!PenaltyEnds
=============================================================================
