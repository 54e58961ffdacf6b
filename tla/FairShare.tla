----------------------------- MODULE FairShare -----------------------------
(***************************************************************************)
(* FairShareController.evaluate of gateway/fairshare.py, in integers: the  *)
(* configured fractions are percentages, and share > threshold is compared *)
(* after multiplying both sides by the total and the number of clients.    *)
(***************************************************************************)
EXTENDS Integers, FiniteSetsExt

CONSTANTS FairShareEnabled,     \* fairshare.enabled
          MinActiveClients,     \* fairshare.min_active_clients
          ShareMultiplier,      \* fairshare.share_multiplier, in percent
          GraceCostShare,       \* fairshare.grace_cost_share, in percent
          MaxShareThreshold     \* fairshare.max_share_threshold, in percent

ASSUME FairShareAssumption ==
    /\ FairShareEnabled \in BOOLEAN
    /\ MinActiveClients \in Nat
    /\ ShareMultiplier \in Nat /\ GraceCostShare \in Nat /\ MaxShareThreshold \in Nat

Larger(a, b) == IF a > b THEN a ELSE b
Smaller(a, b) == IF a < b THEN a ELSE b

\* The threshold, in percent, times the number of active clients.
ThresholdTimesActive(active) ==
    Larger(GraceCostShare * active, Smaller(MaxShareThreshold * active, ShareMultiplier))

\* costs maps the clients in the window's accounts to their recent cost; a
\* client that is not in it has none.
TotalCost(costs) == MapThenSumSet(LAMBDA c : costs[c], DOMAIN costs)

CostOf(costs, c) == IF c \in DOMAIN costs THEN costs[c] ELSE 0

\* A bug: an equal share already counts as too much.
OverShareMutant(costs, c) ==
    LET active == Cardinality(DOMAIN costs)
    IN  /\ FairShareEnabled
        /\ active >= MinActiveClients
        /\ TotalCost(costs) > 0
        /\ CostOf(costs, c) * 100 * active >= TotalCost(costs) * ThresholdTimesActive(active)

OverShare(costs, c) ==
    LET active == Cardinality(DOMAIN costs)
    IN  /\ FairShareEnabled
        /\ active >= MinActiveClients
        /\ TotalCost(costs) > 0
        /\ CostOf(costs, c) * 100 * active > TotalCost(costs) * ThresholdTimesActive(active)
=============================================================================
