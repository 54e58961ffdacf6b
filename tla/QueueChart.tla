----------------------------- MODULE QueueChart -----------------------------
(***************************************************************************)
(* The way of a reading of the engine's queue into the chart: the poller's *)
(* snapshot (Backpressure), the line that the StateSampler of              *)
(* gateway/obs/decision_log.py writes of it, and plot_queue_depth, which   *)
(* is in demo/queue_chart.py, scripts/queue_depth_chart.py and the         *)
(* notebook's cell A3 with the same text.  The chart may be asked for at   *)
(* any time, while the sampler writes.                                     *)
(*                                                                         *)
(* Abstractions.  A reading is a band, as in Backpressure, and the other   *)
(* signals stay clear.  The file is its last MaxSamples lines, and a       *)
(* sample the three fields the chart is made from.  Of the two series of   *)
(* the chart there is one: a chart needs both.                             *)
(***************************************************************************)
EXTENDS Backpressure, SequencesExt

CONSTANT MaxSamples         \* bound: the lines of the file that are looked at

ASSUME ChartAssumption == MaxSamples \in Nat \ {0} /\ "clear" \in EngineBands

VARIABLES file,             \* gateway_samples.jsonl, the latest lines
          loadStarted,      \* load_profile.json is there, with its start_ts
          waitingWas        \* history: ticks since the engine's queue was in a band

chartVars == <<pressureVars, file, loadStarted, waitingWas>>

ChartInit ==
    /\ Init
    /\ file = <<>> /\ loadStarted = FALSE
    /\ waitingWas = [band \in EngineBands |-> IF band = "clear" THEN 0 ELSE LongAgo]

-----------------------------------------------------------------------------
(* The samples *)

\* The bands the queue may have been read in: a history of the sample.
Possible == {band \in EngineBands : waitingWas[band] <= StaleAfter + PollLimit}

\* A bug: a snapshot is stale at the mark already.
SampleLineMutant ==
    [waiting |-> snapshot["waiting"], stale |-> ~Valid \/ age >= StaleAfter,
     inLoad |-> loadStarted, torn |-> FALSE, possible |-> Possible]

\* StateSampler.snapshot, of the snapshot as it is, stale or not.
SampleLine ==
    [waiting |-> snapshot["waiting"], stale |-> ~Fresh,
     inLoad |-> loadStarted, torn |-> FALSE, possible |-> Possible]

LastOf(lines) == IF Len(lines) > MaxSamples THEN Tail(lines) ELSE lines

WriteSample ==
    /\ Sample
    /\ file' = LastOf(Append(file, SampleLine))
    /\ UNCHANGED <<loadStarted, waitingWas>>

\* start_logging of loadgen/locustfile.py.
StartLoad ==
    /\ loadStarted' = TRUE
    /\ UNCHANGED <<pressureVars, file, waitingWas>>

-----------------------------------------------------------------------------
(* plot_queue_depth *)

\* The lines as the chart finds them: the last may be there in part only.  (What
\* the sampler has not flushed yet makes the file that of an earlier state.)
Readings ==
    {file} \cup (IF file = <<>> THEN {}
                ELSE {[file EXCEPT ![Len(file)] = [@ EXCEPT !.torn = TRUE]]})

\* The lines with the records: one that is incomplete is left out if it is the
\* last, and an error otherwise.
Malformed(lines) == \E i \in 1 .. Len(lines) - 1 : lines[i].torn
Records(lines) == {i \in DOMAIN lines : ~lines[i].torn}

\* If there is a start, only what was sampled after it.
AfterStart(lines) == {i \in Records(lines) : loadStarted => lines[i].inLoad}

Gap == "gap"

\* A bug: a reading that is missing is drawn as if the queue were empty.
PointMutant(sample) == IF sample.stale THEN Gap ELSE OrZero(sample.waiting)

\* A reading that is missing or stale is a gap of the line.
Point(sample) == IF sample.stale \/ sample.waiting = Absent THEN Gap ELSE sample.waiting

\* The lines whose points are drawn, with gaps between them; no chart, if there
\* is an error, no sample, none after the start, or nothing but gaps.
FreshPoints(lines) == {i \in AfterStart(lines) : Point(lines[i]) # Gap}
PlotQueueDepth(lines) == IF Malformed(lines) THEN {} ELSE FreshPoints(lines)

-----------------------------------------------------------------------------

\* The gauge of the queue moves, and time passes.
QueueChanges(band) ==
    /\ EngineChanges("waiting", band)
    /\ waitingWas' = [waitingWas EXCEPT ![engine["waiting"]] = 0, ![band] = 0]
    /\ UNCHANGED <<file, loadStarted>>

ChartTick ==
    /\ Tick
    /\ waitingWas' = [band \in EngineBands |->
                         IF engine["waiting"] = band THEN 0 ELSE Older(waitingWas[band])]
    /\ UNCHANGED <<file, loadStarted>>

ChartPoll == Poll /\ UNCHANGED <<file, loadStarted, waitingWas>>

ChartNext ==
    \/ \E band \in EngineBands : QueueChanges(band)
    \/ ChartPoll \/ WriteSample \/ StartLoad \/ ChartTick

ChartSpec ==
    /\ ChartInit /\ [][ChartNext]_chartVars
    /\ WF_chartVars(ChartTick) /\ WF_chartVars(ChartPoll) /\ WF_chartVars(WriteSample)

-----------------------------------------------------------------------------
(* Properties *)

\* queue_chart.py:1 "Missing or stale readings never become zero": whatever
\* polls fail, arrive late or lack the metric, and in the middle of whichever
\* line the file is read, every point that is drawn is a length the queue
\* really had, no longer before the sample than a snapshot may age and a reply
\* may travel.
PointsAreTrue ==
    \A lines \in Readings :
        \A i \in PlotQueueDepth(lines) : Point(lines[i]) \in lines[i].possible

DrawnHigh == \E i \in PlotQueueDepth(file) : Point(file[i]) = "high"

\* decision_log.py:109-110 "a run where ``/metrics`` went dark under load is
\* visible in the data rather than indistinguishable from an idle backend", and
\* where it did not, the overload is: when the queue stays long during a load
\* and replies keep arriving, in the end complete ones only, the long queue is
\* drawn again and again, however many polls fail in between; by a sampler
\* that is no slower than snapshots age.
OverloadIsDrawn ==
    /\ <>[](engine["waiting"] = "high" /\ (Complete(poll) \/ ~Readable(poll)))
    /\ []<><<PollSucceeds>>_pressureVars
    => []<>DrawnHigh
=============================================================================
