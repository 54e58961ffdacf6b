---------------------------- MODULE Backpressure ----------------------------
(***************************************************************************)
(* UpstreamMetricsPoller and PressureController of gateway/backpressure.py *)
(* beside the engine whose /metrics the poller reads.  A poll is answered  *)
(* at one time and arrives at a later one; the engine, the local load and  *)
(* the clock move on meanwhile; evaluate() runs for every request and for  *)
(* every sample of the state sampler.                                      *)
(*                                                                         *)
(* Abstractions.  A signal is where it stands to its two marks: "clear"    *)
(* below the low one, "high" from the high one on, "between" otherwise     *)
(* (which takes low <= high, as in every configuration of configs/).  The  *)
(* clock is the time that passed since the last snapshot, sample and poll. *)
(* The poll and failure counters, which nothing reads but the log, and the *)
(* start and stop of the loop are left out.                                *)
(***************************************************************************)
EXTENDS PressureLevels, FiniteSets

CONSTANTS LoadBands,        \* the bands local occupancy and latency take
          EngineBands,      \* the bands the signals of the engine take
          StaleAfter,       \* metrics_stale_after_ms, in ticks
          PollLimit,        \* longest time a poll takes to arrive, in ticks
          PollEvery,        \* longest time from one poll to the next reply, in ticks
          SampleEvery       \* logging.sample_interval_ms, in ticks

Bands == {"clear", "between", "high"}
Absent == "absent"          \* None: the metric is not in the text

ASSUME BackpressureAssumption ==
    /\ LoadBands \subseteq Bands /\ EngineBands \subseteq Bands
    /\ StaleAfter \in Nat /\ PollLimit \in Nat
    /\ PollEvery \in Nat /\ SampleEvery \in Nat

VARIABLES occupancy,        \* inflight against global_max_inflight
          latency,          \* _latency_ewma_ms, "unset" while it is 0.0
          engine,           \* what the engine is like, by signal
          poll,             \* the reply under way, or NoReply
          pollAge,          \* ticks since the poll started or ended
          snapshot,         \* _snapshot
          age,              \* ticks since snapshot.ts
          level,            \* PressureController._level
          sampleAge,        \* ticks since the last sample
          engineLoud,       \* history: ticks since some signal of the engine was not clear
          engineCalm        \* history: ticks since all its signals were clear

pressureVars == <<occupancy, latency, engine, poll, pollAge, snapshot, age, level,
                  sampleAge, engineLoud, engineCalm>>

Signals == {"running", "waiting"}
Replies == [Signals -> Bands \cup {Absent}]
NoReply == [s \in Signals |-> "none"]

\* Ages count up to here, where they have no more to tell.
LongAgo == StaleAfter + PollLimit + 1
Older(n) == IF n < LongAgo THEN n + 1 ELSE n

Init ==
    /\ occupancy = "clear" /\ latency = "unset"
    /\ engine = [s \in Signals |-> "clear"]
    /\ poll = NoReply /\ pollAge = 0
    /\ snapshot = [s \in Signals |-> Absent] /\ age = LongAgo
    /\ level = NORMAL
    /\ sampleAge = 0
    /\ engineLoud = LongAgo /\ engineCalm = 0

-----------------------------------------------------------------------------
(* The load: requests come and go, and the engine works them off. *)

Load(band) ==
    /\ occupancy' = band
    /\ UNCHANGED <<latency, engine, poll, pollAge, snapshot, age, level, sampleAge, engineLoud, engineCalm>>

Rank == [clear |-> 0, between |-> 1, high |-> 2]

\* observe_latency: an average lies between the old average and the new value.
ObserveLatency(sample, average) ==
    /\ IF latency = "unset" THEN average = sample
       ELSE \/ Rank[latency] <= Rank[average] /\ Rank[average] <= Rank[sample]
            \/ Rank[sample] <= Rank[average] /\ Rank[average] <= Rank[latency]
    /\ latency' = average
    /\ UNCHANGED <<occupancy, engine, poll, pollAge, snapshot, age, level, sampleAge, engineLoud, engineCalm>>

Quiet(bands) == \A s \in Signals : bands[s] = "clear"

EngineChanges(s, band) ==
    /\ engine' = [engine EXCEPT ![s] = band]
    /\ engineLoud' = IF Quiet(engine') /\ Quiet(engine) THEN engineLoud ELSE 0
    /\ engineCalm' = IF Quiet(engine') \/ Quiet(engine) THEN 0 ELSE engineCalm
    /\ UNCHANGED <<occupancy, latency, poll, pollAge, snapshot, age, level, sampleAge>>

-----------------------------------------------------------------------------
(* poll_once, in the loop *)

\* The engine answers a poll; some metrics may be missing from the text.
PollAnswered(missing) ==
    /\ poll = NoReply
    /\ poll' = [s \in Signals |-> IF s \in missing THEN Absent ELSE engine[s]]
    /\ pollAge' = 0
    /\ UNCHANGED <<occupancy, latency, engine, snapshot, age, level, sampleAge, engineLoud, engineCalm>>

Readable(reply) == \E s \in Signals : reply[s] # Absent

\* The reply arrives: it is the new snapshot, unless neither metric is there.
PollSucceeds ==
    /\ poll # NoReply /\ Readable(poll)
    /\ snapshot' = poll /\ age' = 0
    /\ poll' = NoReply /\ pollAge' = 0
    /\ UNCHANGED <<occupancy, latency, engine, level, sampleAge, engineLoud, engineCalm>>

\* A bug: the failed poll makes the old snapshot look new.
PollFailsMutant ==
    /\ poll = NoReply \/ ~Readable(poll)
    /\ poll' = NoReply /\ pollAge' = 0
    /\ age' = IF age = LongAgo THEN age ELSE 0
    /\ UNCHANGED <<occupancy, latency, engine, snapshot, level, sampleAge, engineLoud, engineCalm>>

\* A timeout, a refused connection, or a text without the metrics: the old
\* snapshot stays, and so does its time.
PollFails ==
    /\ pollAge' = 0 /\ poll' = NoReply
    /\ UNCHANGED <<occupancy, latency, engine, snapshot, age, level, sampleAge, engineLoud, engineCalm>>

-----------------------------------------------------------------------------
(* evaluate *)

\* UpstreamSnapshot.valid: there is a running metric.
Valid == snapshot["running"] # Absent

\* A bug: the age of the snapshot is not looked at.
FreshMutant == Valid

Fresh == Valid /\ age <= StaleAfter

\* snapshot.waiting or 0.0
OrZero(band) == IF band = Absent THEN "clear" ELSE band

\* The signals the level is decided on, local ones first.
Checks ==
    {occupancy, IF latency = "unset" THEN "clear" ELSE latency}
    \cup (IF Fresh THEN {OrZero(snapshot[s]) : s \in Signals} ELSE {})

LevelNow == NextLevel(level, "high" \in Checks, Checks = {"clear"})

Evaluate ==
    /\ level' = LevelNow
    /\ UNCHANGED <<occupancy, latency, engine, poll, pollAge, snapshot, age, sampleAge, engineLoud, engineCalm>>

\* A bug: the sampler records the level without evaluating it.
SampleMutant ==
    /\ sampleAge' = 0
    /\ UNCHANGED <<occupancy, latency, engine, poll, pollAge, snapshot, age, level, engineLoud, engineCalm>>

\* The sampler's own evaluation.
Sample ==
    /\ level' = LevelNow
    /\ sampleAge' = 0
    /\ UNCHANGED <<occupancy, latency, engine, poll, pollAge, snapshot, age, engineLoud, engineCalm>>

-----------------------------------------------------------------------------
\* Time passes, but not past the time of a sample, of the next poll or of the
\* timeout of the one under way: the loop runs timers when they are due.
Tick ==
    /\ sampleAge < SampleEvery
    /\ pollAge < (IF poll = NoReply THEN PollEvery ELSE PollLimit)
    /\ age' = Older(age) /\ pollAge' = pollAge + 1 /\ sampleAge' = sampleAge + 1
    /\ engineLoud' = IF Quiet(engine) THEN Older(engineLoud) ELSE 0
    /\ engineCalm' = IF Quiet(engine) THEN 0 ELSE Older(engineCalm)
    /\ UNCHANGED <<occupancy, latency, engine, poll, snapshot, level>>

Poll == PollSucceeds \/ PollFails \/ \E missing \in SUBSET Signals : PollAnswered(missing)

Next ==
    \/ \E band \in LoadBands :
          \/ Load(band)
          \/ \E average \in LoadBands : ObserveLatency(band, average)
    \/ \E s \in Signals, band \in EngineBands : EngineChanges(s, band)
    \/ Poll \/ Evaluate \/ Sample \/ Tick

Spec == Init /\ [][Next]_pressureVars

\* The clock runs, and with it the two loops, which are never late.
FairSpec == Spec /\ WF_pressureVars(Tick) /\ WF_pressureVars(Poll) /\ WF_pressureVars(Sample)

-----------------------------------------------------------------------------
(* Properties *)

TypeOK ==
    /\ occupancy \in Bands /\ latency \in Bands \cup {"unset"}
    /\ engine \in [Signals -> Bands]
    /\ poll \in Replies \cup {NoReply} /\ snapshot \in Replies
    /\ pollAge \in Nat /\ sampleAge \in Nat
    /\ poll # NoReply => pollAge <= PollLimit
    /\ age \in 0 .. LongAgo /\ engineLoud \in 0 .. LongAgo /\ engineCalm \in 0 .. LongAgo
    /\ level \in PressureLevel

\* No alarm outlives its cause: once the local signals are clear, and the
\* engine really has been below all marks for as long as a reply may travel
\* and a snapshot may age, every evaluation gives NORMAL; however polls fail,
\* arrive late or lack a metric.
AlarmDiesOut ==
    occupancy = "clear" /\ latency \in {"clear", "unset"} /\ engineLoud > StaleAfter + PollLimit
    => LevelNow = NORMAL

Complete(reply) == \A s \in Signals : reply[s] # Absent

\* No alarm ends before its cause (config.py:71-72 "High/low pairs give
\* hysteresis so the controller does not flap"): whoever evaluates, and on
\* whichever reply, CRITICAL is left on news of the engine only if the local
\* signals are clear and the engine really was below all its low marks at one
\* time, no longer ago than a reply may travel and a snapshot may age.  (Not so
\* when there is no such news, and the local signals decide, config.py:83; or
\* when a metric is missing.)
AlarmEndsForCause ==
    [][level = CRITICAL /\ level' # CRITICAL /\ Fresh /\ Complete(snapshot)
       => /\ occupancy = "clear" /\ latency \in {"clear", "unset"}
          /\ engineCalm <= StaleAfter + PollLimit]_pressureVars

\* Pressure subsides: once the gateway and the engine stay calm the level
\* returns to NORMAL, also when /metrics never answers again and the last
\* snapshot that arrived was a bad one.
Subsides ==
    <>[](occupancy = "clear" /\ latency \in {"clear", "unset"} /\ Quiet(engine))
    => <>[](level = NORMAL)

\* Pressure is noticed: when the engine's queue stays above the high mark and
\* replies keep arriving, in the end complete ones only, the level is CRITICAL
\* again and again, whatever the local signals say and however many polls
\* fail in between.  A reply that lacks one metric replaces a complete one,
\* and with it the alarm; such replies must be over.
OverloadIsNoticed ==
    /\ <>[](engine["waiting"] = "high" /\ (Complete(poll) \/ ~Readable(poll)))
    /\ []<><<PollSucceeds>>_pressureVars
    => []<>(level = CRITICAL)

\* backpressure.py:11-12 "Treating absent metrics as "queue empty" would switch
\* off shedding at the precise moment it is needed", and
\* tests/test_backpressure.py:33-36 "None must stay distinct from 0.0": while the
\* engine's queue is over its high mark, no fresh snapshot without the waiting
\* metric takes the level from CRITICAL to NORMAL.
AbsentIsNotEmpty ==
    [][level = CRITICAL /\ level' = NORMAL /\ Fresh /\ engine["waiting"] = "high"
       => snapshot["waiting"] # Absent]_pressureVars
=============================================================================
