--------------------------- MODULE PressureLevels ---------------------------
(***************************************************************************)
(* PressureLevel of gateway/backpressure.py and the rule by which          *)
(* PressureController.evaluate moves between the levels, once the signals  *)
(* have been reduced to two questions: has some signal reached its high    *)
(* mark, and are all signals below their low marks.                        *)
(***************************************************************************)
EXTENDS Integers

NORMAL == 0
ELEVATED == 1
CRITICAL == 2

PressureLevel == {NORMAL, ELEVATED, CRITICAL}

\* A bug: CRITICAL is left as soon as no signal is at its high mark.
NextLevelMutant(level, triggered, allClear) ==
    CASE triggered -> CRITICAL
      [] ~triggered /\ allClear -> NORMAL
      [] OTHER -> ELEVATED

NextLevel(level, triggered, allClear) ==
    CASE triggered -> CRITICAL
      [] ~triggered /\ allClear -> NORMAL
      [] OTHER -> IF level = CRITICAL THEN CRITICAL ELSE ELEVATED
=============================================================================
