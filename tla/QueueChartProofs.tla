-------------------------- MODULE QueueChartProofs --------------------------
(***************************************************************************)
(* Proofs about Backpressure and about the chart, for every staleness      *)
(* limit, every interval, every set of bands and however long the file.    *)
(* NewsInv follows a reading of the engine from the reply that carries it  *)
(* to the snapshot: whatever says that the engine is loud, or that it is   *)
(* calm, was true no longer ago than the reply has travelled and the       *)
(* snapshot has aged.                                                      *)
(* WayInv does so for each band of the queue, and FileInv follows the      *)
(* reading from there into a line of the file, where it stays.             *)
(***************************************************************************)
EXTENDS QueueChart, TLAPS

-----------------------------------------------------------------------------
(* Poller and controller *)

Loud(bands) == \E s \in Signals : bands[s] \in {"between", "high"}

NewsInv ==
    /\ ~Quiet(engine) => engineLoud = 0
    /\ poll # NoReply /\ Loud(poll) => engineLoud <= pollAge
    /\ Loud(snapshot) => engineLoud <= age + PollLimit

\* The same for calm.
CalmInv ==
    /\ Quiet(engine) => engineCalm = 0
    /\ poll # NoReply /\ Quiet(poll) => engineCalm <= pollAge
    /\ Quiet(snapshot) => engineCalm <= age + PollLimit

Inv == TypeOK /\ NewsInv /\ CalmInv

\* An evaluation gives one of the levels, and ends CRITICAL only if all the
\* signals it looks at are clear.
LEMMA Levels ==
    ASSUME level \in PressureLevel
    PROVE  /\ LevelNow \in PressureLevel
           /\ level = CRITICAL /\ LevelNow # CRITICAL => Checks = {"clear"}
  <1>1. CASE "high" \in Checks
    BY <1>1 DEF LevelNow, NextLevel, PressureLevel, NORMAL, ELEVATED, CRITICAL
  <1>2. CASE "high" \notin Checks /\ Checks = {"clear"}
    BY <1>2 DEF LevelNow, NextLevel, PressureLevel, NORMAL, ELEVATED, CRITICAL
  <1>3. CASE "high" \notin Checks /\ Checks # {"clear"}
    BY <1>3 DEF LevelNow, NextLevel, PressureLevel, NORMAL, ELEVATED, CRITICAL
  <1> QED BY <1>1, <1>2, <1>3

LEMMA OlderIsCapped ==
    ASSUME NEW n \in 0 .. LongAgo
    PROVE  /\ Older(n) \in 0 .. LongAgo
           /\ Older(n) = IF n < LongAgo THEN n + 1 ELSE n
           /\ LongAgo \in Nat
  BY BackpressureAssumption DEF Older, LongAgo

LEMMA InitEstablishesInv == Init => Inv
  <1> SUFFICES ASSUME Init PROVE Inv
    OBVIOUS
  <1>1. LongAgo \in Nat
    BY BackpressureAssumption DEF LongAgo
  <1>2. TypeOK
    BY <1>1 DEF Init, TypeOK, Bands, Replies, Signals, Absent, PressureLevel
  <1>3. NewsInv
    BY <1>1, BackpressureAssumption DEF Init, NewsInv, Quiet, Loud, Signals, Absent
  <1>4. CalmInv
    BY <1>1, BackpressureAssumption DEF Init, CalmInv, Quiet, Signals, Absent
  <1> QED BY <1>2, <1>3, <1>4 DEF Inv

\* A reply says what was so when it was given: a signal of the engine, or
\* nothing.
LEMMA AnswersAreTrue ==
    ASSUME Inv, NEW missing \in SUBSET Signals, PollAnswered(missing)
    PROVE  /\ poll' \in Replies
           /\ Loud(poll') => engineLoud = 0
           /\ Quiet(poll') => engineCalm = 0
  <1>1. poll' = [s \in Signals |-> IF s \in missing THEN Absent ELSE engine[s]]
    BY DEF PollAnswered
  <1>2. poll' \in Replies
    BY <1>1 DEF Inv, TypeOK, Replies
  <1>3. Loud(poll') => ~Quiet(engine)
    BY <1>1 DEF Loud, Quiet, Absent
  <1>4. Quiet(poll') => Quiet(engine)
    BY <1>1 DEF Quiet, Absent
  <1> QED BY <1>2, <1>3, <1>4 DEF Inv, NewsInv, CalmInv

LEMMA NextKeepsInv == Inv /\ [Next]_pressureVars => Inv'
  <1> SUFFICES ASSUME Inv, [Next]_pressureVars PROVE Inv'
    OBVIOUS
  <1> USE DEF Inv
  <1>0. /\ StaleAfter \in Nat /\ PollLimit \in Nat /\ LongAgo \in Nat
        /\ LoadBands \subseteq Bands /\ EngineBands \subseteq Bands
    BY BackpressureAssumption DEF LongAgo
  <1>1. ASSUME UNCHANGED <<engine, poll, pollAge, snapshot, age, engineLoud, engineCalm>>
        PROVE  NewsInv' /\ CalmInv'
    BY <1>1 DEF NewsInv, CalmInv, Quiet, Loud
  <1>2. CASE UNCHANGED pressureVars
    BY <1>1, <1>2 DEF pressureVars, TypeOK
  <1>3. ASSUME NEW band \in LoadBands, Load(band)
        PROVE  Inv'
    BY <1>0, <1>1, <1>3 DEF Load, TypeOK
  <1>4. ASSUME NEW band \in LoadBands, NEW average \in LoadBands, ObserveLatency(band, average)
        PROVE  Inv'
    BY <1>0, <1>1, <1>4 DEF ObserveLatency, TypeOK
  <1>5. ASSUME NEW s \in Signals, NEW band \in EngineBands, EngineChanges(s, band)
        PROVE  Inv'
    <2>1. /\ engine' \in [Signals -> Bands]
          /\ UNCHANGED <<occupancy, latency, poll, pollAge, snapshot, age, level, sampleAge>>
      BY <1>0, <1>5 DEF EngineChanges, TypeOK
    <2>2. /\ engineLoud' = IF Quiet(engine') /\ Quiet(engine) THEN engineLoud ELSE 0
          /\ engineCalm' = IF Quiet(engine') \/ Quiet(engine) THEN 0 ELSE engineCalm
      BY <1>5 DEF EngineChanges
    <2>3. /\ engineLoud' \in 0 .. LongAgo /\ engineLoud' <= engineLoud
          /\ engineCalm' \in 0 .. LongAgo /\ engineCalm' <= engineCalm
      BY <1>0, <2>2 DEF TypeOK
    <2>4. TypeOK'
      BY <2>1, <2>3 DEF TypeOK
    <2>5. Loud(poll') = Loud(poll) /\ Loud(snapshot') = Loud(snapshot)
      BY <2>1
    <2>6. Quiet(poll') = Quiet(poll) /\ Quiet(snapshot') = Quiet(snapshot)
      BY <2>1
    <2>7. age \in Nat /\ pollAge \in Nat
      BY <1>0 DEF TypeOK
    <2>8. NewsInv'
      BY <1>0, <2>1, <2>2, <2>3, <2>5, <2>7 DEF NewsInv, TypeOK
    <2>9. CalmInv'
      BY <1>0, <2>1, <2>2, <2>3, <2>6, <2>7 DEF CalmInv, TypeOK
    <2> QED BY <2>4, <2>8, <2>9
  <1>6. ASSUME NEW missing \in SUBSET Signals, PollAnswered(missing)
        PROVE  Inv'
    <2>1. /\ pollAge' = 0
          /\ UNCHANGED <<occupancy, latency, engine, snapshot, age, level, sampleAge,
                         engineLoud, engineCalm>>
      BY <1>6 DEF PollAnswered
    <2>2. TypeOK'
      BY <1>0, <1>6, <2>1, AnswersAreTrue DEF TypeOK
    <2>3. NewsInv' /\ CalmInv'
      BY <1>6, <2>1, AnswersAreTrue DEF NewsInv, CalmInv, Quiet, Loud
    <2> QED BY <2>2, <2>3
  <1>7. CASE PollSucceeds
    <2>1. /\ snapshot' = poll /\ age' = 0 /\ poll' = NoReply /\ pollAge' = 0
          /\ UNCHANGED <<occupancy, latency, engine, level, sampleAge, engineLoud, engineCalm>>
          /\ poll # NoReply
      BY <1>7 DEF PollSucceeds
    <2>2. poll \in Replies /\ pollAge \in 0 .. PollLimit
      BY <1>0, <2>1 DEF TypeOK
    <2>3. TypeOK'
      BY <1>0, <2>1, <2>2 DEF TypeOK
    <2>4. NewsInv'
      BY <1>0, <2>1, <2>2 DEF NewsInv, TypeOK, Quiet, Loud
    <2>5. CalmInv'
      BY <1>0, <2>1, <2>2 DEF CalmInv, TypeOK, Quiet
    <2> QED BY <2>3, <2>4, <2>5
  <1>8. CASE PollFails
    <2>1. NewsInv' /\ CalmInv'
      BY <1>8 DEF PollFails, NewsInv, CalmInv, Quiet, Loud
    <2> QED BY <1>8, <2>1 DEF PollFails, TypeOK
  <1>9. CASE Evaluate \/ Sample
    BY <1>1, <1>9, Levels DEF Evaluate, Sample, TypeOK
  <1>10. CASE Tick
    <2>1. /\ age' = Older(age) /\ pollAge' = pollAge + 1
          /\ engineLoud' = IF Quiet(engine) THEN Older(engineLoud) ELSE 0
          /\ engineCalm' = IF Quiet(engine) THEN 0 ELSE Older(engineCalm)
          /\ UNCHANGED <<engine, poll, snapshot>>
      BY <1>10 DEF Tick
    <2>2. age \in 0 .. LongAgo /\ engineLoud \in 0 .. LongAgo /\ engineCalm \in 0 .. LongAgo
          /\ pollAge \in Nat
      BY DEF TypeOK
    <2>3. /\ age' \in 0 .. LongAgo
          /\ age' = IF age < LongAgo THEN age + 1 ELSE age
      BY <2>1, <2>2, OlderIsCapped
    <2>4. /\ engineLoud' \in 0 .. LongAgo /\ engineLoud' <= engineLoud + 1
          /\ engineCalm' \in 0 .. LongAgo /\ engineCalm' <= engineCalm + 1
      BY <1>0, <2>1, <2>2, OlderIsCapped
    <2>5. TypeOK'
      BY <1>0, <1>10, <2>3, <2>4 DEF Tick, TypeOK
    <2>6. /\ Quiet(engine') = Quiet(engine) /\ Quiet(poll') = Quiet(poll)
          /\ Quiet(snapshot') = Quiet(snapshot)
          /\ Loud(poll') = Loud(poll) /\ Loud(snapshot') = Loud(snapshot)
      BY <2>1
    <2>7. NewsInv'
      BY <1>0, <2>1, <2>2, <2>3, <2>4, <2>6 DEF NewsInv, LongAgo
    <2>8. CalmInv'
      BY <1>0, <2>1, <2>2, <2>3, <2>4, <2>6 DEF CalmInv, LongAgo
    <2> QED BY <2>5, <2>7, <2>8
  <1> QED BY <1>2, <1>3, <1>4, <1>5, <1>6, <1>7, <1>8, <1>9, <1>10 DEF Next, Poll

LEMMA Invariant == Spec => []Inv
  BY InitEstablishesInv, NextKeepsInv, PTL DEF Spec

-----------------------------------------------------------------------------
\* Every variable keeps its type; no reply travels longer than the limit.
THEOREM TypeCorrect == Spec => []TypeOK
  <1>1. Inv => TypeOK
    BY DEF Inv
  <1> QED BY <1>1, Invariant, PTL

\* No alarm ends before its cause: what ends it is a snapshot that says the
\* engine is calm, and it is young enough for that to have been so.
THEOREM AlarmsEndForCause == Spec => AlarmEndsForCause
  <1> DEFINE Ends == level = CRITICAL /\ level' # CRITICAL /\ Fresh /\ Complete(snapshot)
             Cause == /\ occupancy = "clear" /\ latency \in {"clear", "unset"}
                      /\ engineCalm <= StaleAfter + PollLimit
  <1>1. ASSUME Inv, [Next]_pressureVars, Ends
        PROVE  Cause
    <2>1. /\ StaleAfter \in Nat /\ PollLimit \in Nat /\ LongAgo \in Nat
          /\ age \in Nat /\ engineCalm \in Nat /\ snapshot \in Replies
      BY <1>1, BackpressureAssumption DEF Inv, TypeOK, LongAgo
    <2>2. level' = level \/ level' = LevelNow
      BY <1>1 DEF Next, Load, ObserveLatency, EngineChanges, Poll, PollSucceeds, PollFails,
             PollAnswered, Evaluate, Sample, Tick, pressureVars
    <2>3. Checks = {"clear"}
      BY <1>1, <2>2, Levels DEF Inv, TypeOK
    <2>4. /\ occupancy \in Checks
          /\ (IF latency = "unset" THEN "clear" ELSE latency) \in Checks
          /\ \A s \in Signals : OrZero(snapshot[s]) \in Checks
      BY <1>1 DEF Checks
    <2>5. occupancy = "clear" /\ latency \in {"clear", "unset"}
      BY <2>3, <2>4
    <2>6. Quiet(snapshot)
      BY <1>1, <2>3, <2>4 DEF Quiet, OrZero, Complete
    <2>7. engineCalm <= age + PollLimit /\ age <= StaleAfter
      BY <1>1, <2>6 DEF Inv, CalmInv, Fresh
    <2> QED BY <2>1, <2>5, <2>7
  <1>2. Inv /\ [Next]_pressureVars => [Ends => Cause]_pressureVars
    BY <1>1
  <1> QED BY <1>2, Invariant, PTL DEF Spec, AlarmEndsForCause

\* No alarm outlives its cause, whatever becomes of the polls.
THEOREM AlarmsDieOut == Spec => []AlarmDiesOut
  <1>1. ASSUME Inv, occupancy = "clear", latency \in {"clear", "unset"},
               engineLoud > StaleAfter + PollLimit
        PROVE  LevelNow = NORMAL
    <2>1. ASSUME Fresh, NEW s \in Signals
          PROVE  OrZero(snapshot[s]) = "clear"
      <3>1. age <= StaleAfter /\ age \in Nat /\ engineLoud \in Nat
            /\ StaleAfter \in Nat /\ PollLimit \in Nat
        BY <1>1, <2>1, BackpressureAssumption DEF Fresh, Inv, TypeOK, LongAgo
      <3>2. ~(engineLoud <= age + PollLimit)
        BY <1>1, <3>1
      <3>3. snapshot[s] \notin {"between", "high"}
        BY <1>1, <2>1, <3>2 DEF Inv, NewsInv, Loud
      <3>4. snapshot[s] \in {"clear", Absent}
        BY <1>1, <2>1, <3>3 DEF Inv, TypeOK, Replies, Bands
      <3> QED BY <3>4 DEF OrZero
    <2>2. Checks = {"clear"}
      <3>1. {occupancy, IF latency = "unset" THEN "clear" ELSE latency} = {"clear"}
        BY <1>1
      <3>2. CASE Fresh
        BY <2>1, <3>1, <3>2 DEF Checks
      <3>3. CASE ~Fresh
        BY <3>1, <3>3 DEF Checks
      <3> QED BY <3>2, <3>3
    <2> QED BY <2>2 DEF LevelNow, NextLevel
  <1>2. Inv => AlarmDiesOut
    BY <1>1 DEF AlarmDiesOut
  <1> QED BY <1>2, Invariant, PTL

-----------------------------------------------------------------------------
(* The chart *)

WasTypeOK ==
    /\ engine["waiting"] \in EngineBands
    /\ waitingWas \in [EngineBands -> 0 .. LongAgo]
    /\ waitingWas[engine["waiting"]] = 0

\* A reading was true no longer ago than its reply or snapshot is old.
WayInv ==
    /\ poll["waiting"] \in EngineBands \cup {Absent, "none"}
    /\ poll["waiting"] \in EngineBands => waitingWas[poll["waiting"]] <= pollAge
    /\ snapshot["waiting"] \in EngineBands \cup {Absent}
    /\ snapshot["waiting"] \in EngineBands => waitingWas[snapshot["waiting"]] <= age + PollLimit

Lines == [waiting : EngineBands \cup {Absent}, stale : BOOLEAN, inLoad : BOOLEAN,
          torn : BOOLEAN, possible : SUBSET EngineBands]

TrueLine(sample) == ~sample.stale /\ sample.waiting # Absent => sample.waiting \in sample.possible

FileInv == file \in Seq(Lines) /\ \A i \in DOMAIN file : TrueLine(file[i])

ChartInv == Inv /\ WasTypeOK /\ loadStarted \in BOOLEAN /\ WayInv /\ FileInv

\* Names of signals and readings that have to be told apart.
LEMMA Bounds ==
    /\ StaleAfter \in Nat /\ PollLimit \in Nat /\ LongAgo = StaleAfter + PollLimit + 1
    /\ EngineBands \subseteq Bands /\ "clear" \in EngineBands /\ MaxSamples \in Nat \ {0}
    /\ Absent \notin EngineBands /\ "none" \notin EngineBands
    /\ "waiting" \in Signals
  BY BackpressureAssumption, ChartAssumption DEF LongAgo, Bands, Absent, Signals

LEMMA ChartInitGivesInv == ChartInit => ChartInv
  <1> SUFFICES ASSUME ChartInit PROVE ChartInv
    OBVIOUS
  <1>1. Inv
    BY InitEstablishesInv DEF ChartInit
  <1>2. WasTypeOK
    BY Bounds DEF ChartInit, Init, WasTypeOK
  <1>3. WayInv
    BY Bounds DEF ChartInit, Init, WayInv, NoReply
  <1>4. FileInv /\ loadStarted \in BOOLEAN
    <2>1. file = <<>> /\ loadStarted \in BOOLEAN
      BY DEF ChartInit
    <2>2. file \in Seq(Lines) /\ \A i \in DOMAIN file : FALSE
      BY <2>1
    <2> QED BY <2>1, <2>2 DEF FileInv
  <1> QED BY <1>1, <1>2, <1>3, <1>4 DEF ChartInv

\* Every step of the chart is one of Backpressure or leaves it alone.
LEMMA ChartSteps == ChartNext => [Next]_pressureVars
  <1> SUFFICES ASSUME ChartNext PROVE [Next]_pressureVars
    OBVIOUS
  <1>1. ASSUME NEW band \in EngineBands, QueueChanges(band) PROVE Next
    BY <1>1, Bounds DEF QueueChanges, Next
  <1>2. CASE ChartPoll
    BY <1>2 DEF ChartPoll, Next
  <1>3. CASE WriteSample
    BY <1>3 DEF WriteSample, Next
  <1>4. CASE StartLoad
    BY <1>4 DEF StartLoad
  <1>5. CASE ChartTick
    BY <1>5 DEF ChartTick, Next
  <1> QED BY <1>1, <1>2, <1>3, <1>4, <1>5 DEF ChartNext

\* What the chart adds changes nothing for poller and controller.
THEOREM ChartIsBackpressure == ChartSpec => Spec
  <1>1. ChartInit => Init
    BY DEF ChartInit
  <1>2. [ChartNext]_chartVars => [Next]_pressureVars
    BY ChartSteps DEF chartVars
  <1> QED BY <1>1, <1>2, PTL DEF ChartSpec, Spec

\* So no alarm outlives its cause, and none ends before it, beside the chart.
THEOREM PressureHoldsBesideTheChart == ChartSpec => AlarmEndsForCause /\ []AlarmDiesOut
  BY ChartIsBackpressure, AlarmsEndForCause, AlarmsDieOut

\* What is written of a snapshot is true, because a fresh one is young enough.
LEMMA LinesAreTrue ==
    ASSUME ChartInv
    PROVE  SampleLine \in Lines /\ TrueLine(SampleLine)
  <1>1. age \in Nat /\ waitingWas \in [EngineBands -> Nat]
    BY Bounds DEF ChartInv, Inv, TypeOK, WasTypeOK
  <1>2. Possible \in SUBSET EngineBands
    BY DEF Possible
  <1>3. SampleLine \in Lines
    BY <1>2 DEF SampleLine, Lines, ChartInv, WayInv, Fresh, Valid
  <1>4. Fresh /\ snapshot["waiting"] # Absent => snapshot["waiting"] \in Possible
    BY <1>1, Bounds DEF ChartInv, WayInv, Fresh, Possible
  <1>5. TrueLine(SampleLine)
    BY <1>4 DEF TrueLine, SampleLine
  <1> QED BY <1>3, <1>5

LEMMA FileKeeps ==
    ASSUME ChartInv
    PROVE  LET next == LastOf(Append(file, SampleLine))
           IN  next \in Seq(Lines) /\ \A i \in DOMAIN next : TrueLine(next[i])
  <1> DEFINE longer == Append(file, SampleLine)
  <1>1. file \in Seq(Lines) /\ Len(file) \in Nat /\ \A i \in 1 .. Len(file) : TrueLine(file[i])
    BY DEF ChartInv, FileInv
  <1>2. SampleLine \in Lines /\ TrueLine(SampleLine)
    BY LinesAreTrue
  <1>3. /\ longer \in Seq(Lines) /\ Len(longer) = Len(file) + 1
        /\ \A i \in 1 .. Len(longer) : longer[i] = IF i <= Len(file) THEN file[i] ELSE SampleLine
    BY <1>1, <1>2
  <1>4. \A i \in 1 .. Len(longer) : TrueLine(longer[i])
    BY <1>1, <1>2, <1>3
  <1> HIDE DEF longer
  <1>5. /\ Tail(longer) \in Seq(Lines) /\ Len(Tail(longer)) = Len(longer) - 1
        /\ \A i \in 1 .. Len(longer) - 1 : Tail(longer)[i] = longer[i + 1]
    BY <1>1, <1>3
  <1>6. \A i \in 1 .. Len(Tail(longer)) : TrueLine(Tail(longer)[i])
    BY <1>1, <1>3, <1>4, <1>5
  <1>7. \/ LastOf(longer) = longer
        \/ LastOf(longer) = Tail(longer)
    BY DEF LastOf
  <1>8. /\ LastOf(longer) \in Seq(Lines)
        /\ \A i \in 1 .. Len(LastOf(longer)) : TrueLine(LastOf(longer)[i])
    BY <1>3, <1>4, <1>5, <1>6, <1>7
  <1> QED BY <1>8 DEF longer

LEMMA ChartNextKeeps == ChartInv /\ [ChartNext]_chartVars => ChartInv'
  <1> SUFFICES ASSUME ChartInv, [ChartNext]_chartVars PROVE ChartInv'
    OBVIOUS
  <1> USE DEF ChartInv
  <1>1. Inv'
    <2>1. [Next]_pressureVars
      BY ChartSteps DEF chartVars
    <2> QED BY <2>1, NextKeepsInv
  <1>2. /\ pollAge \in Nat /\ age \in 0 .. LongAgo /\ LongAgo \in Nat
        /\ waitingWas \in [EngineBands -> 0 .. LongAgo]
        /\ DOMAIN engine = Signals
    BY Bounds DEF Inv, TypeOK, WasTypeOK
  <1>3. CASE UNCHANGED chartVars
    BY <1>1, <1>3 DEF chartVars, pressureVars, WasTypeOK, WayInv, FileInv
  <1>4. ASSUME NEW band \in EngineBands, QueueChanges(band) PROVE ChartInv'
    <2>1. /\ engine' = [engine EXCEPT !["waiting"] = band]
          /\ UNCHANGED <<poll, pollAge, snapshot, age, file, loadStarted>>
          /\ waitingWas' = [waitingWas EXCEPT ![engine["waiting"]] = 0, ![band] = 0]
      BY <1>4 DEF QueueChanges, EngineChanges
    <2>2. engine'["waiting"] = band
      BY <1>2, <2>1, Bounds
    <2>3. /\ waitingWas' \in [EngineBands -> 0 .. LongAgo] /\ waitingWas'[band] = 0
          /\ \A b \in EngineBands : waitingWas'[b] <= waitingWas[b]
      BY <1>2, <2>1 DEF WasTypeOK
    <2>4. WasTypeOK'
      BY <2>2, <2>3 DEF WasTypeOK
    <2>5. \A b \in EngineBands : waitingWas[b] \in Nat /\ waitingWas'[b] \in Nat
      BY <1>2, <2>3
    <2>6. WayInv'
      BY <1>2, <2>1, <2>3, <2>5, Bounds DEF WayInv
    <2> QED BY <1>1, <2>1, <2>4, <2>6 DEF FileInv
  <1>5. CASE ChartPoll
    <2>1. UNCHANGED <<engine, file, loadStarted, waitingWas>>
      BY <1>5 DEF ChartPoll, Poll, PollSucceeds, PollFails, PollAnswered
    <2>2. ASSUME NEW missing \in SUBSET Signals, PollAnswered(missing) PROVE WayInv'
      <3>1. /\ poll'["waiting"] = (IF "waiting" \in missing THEN Absent ELSE engine["waiting"])
            /\ pollAge' = 0 /\ UNCHANGED <<snapshot, age>>
        BY <2>2, Bounds DEF PollAnswered
      <3> QED BY <1>2, <2>1, <3>1, Bounds DEF WayInv, WasTypeOK
    <2>3. ASSUME PollSucceeds PROVE WayInv'
      <3>1. poll \in Replies /\ pollAge <= PollLimit /\ snapshot' = poll /\ age' = 0
        BY <2>3 DEF PollSucceeds, Inv, TypeOK
      <3>2. poll["waiting"] # "none"
        BY <3>1, Bounds DEF Replies, Bands, Absent
      <3>3. poll'["waiting"] = "none"
        BY <2>3, Bounds DEF PollSucceeds, NoReply
      <3>4. \A b \in EngineBands : waitingWas[b] \in Nat
        BY <1>2
      <3> QED BY <1>2, <2>1, <3>1, <3>2, <3>3, <3>4, Bounds DEF WayInv
    <2>4. ASSUME PollFails PROVE WayInv'
      <3>1. poll'["waiting"] = "none" /\ UNCHANGED <<snapshot, age>>
        BY <2>4, Bounds DEF PollFails, NoReply
      <3> QED BY <2>1, <3>1, Bounds DEF WayInv
    <2> QED BY <1>1, <1>5, <2>1, <2>2, <2>3, <2>4 DEF ChartPoll, Poll, WasTypeOK, FileInv
  <1>6. CASE WriteSample
    <2>1. UNCHANGED <<engine, poll, pollAge, snapshot, age, loadStarted, waitingWas>>
      BY <1>6 DEF WriteSample, Sample
    <2>2. FileInv'
      BY <1>6, FileKeeps DEF WriteSample, FileInv
    <2> QED BY <1>1, <2>1, <2>2 DEF WasTypeOK, WayInv
  <1>7. CASE StartLoad
    BY <1>1, <1>7 DEF StartLoad, pressureVars, WasTypeOK, WayInv, FileInv
  <1>8. CASE ChartTick
    <2>1. /\ UNCHANGED <<engine, poll, snapshot, file, loadStarted>>
          /\ pollAge' = pollAge + 1 /\ age' = Older(age)
          /\ waitingWas' = [b \in EngineBands |->
                               IF engine["waiting"] = b THEN 0 ELSE Older(waitingWas[b])]
      BY <1>8 DEF ChartTick, Tick
    <2>2. age' = IF age < LongAgo THEN age + 1 ELSE age
      BY <1>2, <2>1, OlderIsCapped
    <2>3. \A b \in EngineBands : /\ waitingWas'[b] \in 0 .. LongAgo
                                 /\ waitingWas'[b] <= waitingWas[b] + 1
      <3> TAKE b \in EngineBands
      <3>1. waitingWas[b] \in 0 .. LongAgo
        BY <1>2
      <3>2. /\ Older(waitingWas[b]) \in 0 .. LongAgo
            /\ Older(waitingWas[b]) <= waitingWas[b] + 1
        BY <3>1, OlderIsCapped
      <3> QED BY <1>2, <2>1, <3>1, <3>2
    <2>4. WasTypeOK'
      BY <2>1, <2>3 DEF WasTypeOK
    <2>5. \A b \in EngineBands : waitingWas[b] \in 0 .. LongAgo
      BY <1>2
    <2>6. WayInv'
      BY <1>2, <2>1, <2>2, <2>3, <2>5, Bounds DEF WayInv
    <2> QED BY <1>1, <2>1, <2>4, <2>6 DEF FileInv
  <1> QED BY <1>3, <1>4, <1>5, <1>6, <1>7, <1>8 DEF ChartNext

\* The invariant gives the property: the points are the lines that are fresh,
\* and the torn line is none of them.
LEMMA InvGivesTruth == ChartInv => PointsAreTrue
  <1> SUFFICES ASSUME ChartInv, NEW lines \in Readings, NEW i \in PlotQueueDepth(lines)
               PROVE  Point(lines[i]) \in lines[i].possible
    BY DEF PointsAreTrue
  <1>1. /\ file \in Seq(Lines) /\ \A j \in DOMAIN file : TrueLine(file[j])
    BY DEF ChartInv, FileInv
  <1>2. i \in DOMAIN lines /\ ~lines[i].torn /\ Point(lines[i]) # Gap
    BY DEF PlotQueueDepth, FreshPoints, AfterStart, Records
  <1>3. i \in DOMAIN file /\ lines[i] = file[i]
    <2>1. CASE lines = file
      BY <1>2, <2>1
    <2>2. CASE file # <<>> /\ lines = [file EXCEPT ![Len(file)] = [@ EXCEPT !.torn = TRUE]]
      <3>1. DOMAIN lines = DOMAIN file /\ Len(file) \in DOMAIN file
        BY <1>1, <2>2
      <3>2. lines[Len(file)].torn
        <4>1. file[Len(file)] \in Lines
          BY <1>1, <3>1
        <4>2. lines[Len(file)] = [file[Len(file)] EXCEPT !.torn = TRUE]
          BY <2>2, <3>1
        <4> QED BY <4>1, <4>2 DEF Lines
      <3>3. i # Len(file)
        BY <1>2, <3>2
      <3> QED BY <1>2, <2>2, <3>1, <3>3
    <2> QED BY <2>1, <2>2 DEF Readings
  <1>4. ~file[i].stale /\ file[i].waiting # Absent /\ Point(file[i]) = file[i].waiting
    BY <1>2, <1>3 DEF Point
  <1> QED BY <1>1, <1>3, <1>4 DEF TrueLine

\* Every point of the chart is a length that the queue had, no longer before
\* the sample than a snapshot may age and a reply may travel.
THEOREM ReadingsAreTrue == ChartSpec => []PointsAreTrue
  <1>1. ChartInit => ChartInv
    BY ChartInitGivesInv
  <1>2. ChartInv /\ [ChartNext]_chartVars => ChartInv'
    BY ChartNextKeeps
  <1>3. ChartInv => PointsAreTrue
    BY InvGivesTruth
  <1> QED BY <1>1, <1>2, <1>3, PTL DEF ChartSpec
=============================================================================
