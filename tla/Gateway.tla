------------------------------ MODULE Gateway ------------------------------
(***************************************************************************)
(* gateway/app.py: what becomes of a request between its arrival and its   *)
(* line in the log, and what becomes of the gateway between its start and  *)
(* its end.  Composes Tokens, DecisionLog, Engine and MetricsText.         *)
(*                                                                         *)
(* The handler has many exits, and each has to give back the slot and to   *)
(* write one line.  A buffered answer is awaited inside one try statement; *)
(* a streamed one is finished by the generator of its body, which others   *)
(* drive: the server, and whoever closes a generator that was left.        *)
(*                                                                         *)
(* Abstractions.  Admission is whether there is a slot (the modules        *)
(* Admission and Throttle are about how it decides); a request that is     *)
(* refused for its size and one that admission refuses are not told apart. *)
(* The start of the gateway, before it listens, and the routes that only   *)
(* read are left out.  A second signal, which makes the server leave       *)
(* without the lifespan's end, counts as Kill.                             *)
(***************************************************************************)
EXTENDS Tokens, DecisionLog, Engine, MetricsText

CONSTANTS Requests, Slots      \* what admission lets through, with a slot each

ASSUME GatewayAssumption == Slots \in Nat /\ IsFiniteSet(Requests)

VARIABLES stage,       \* how far each request has come
          body,        \* its body
          inflight,    \* AdmissionController.inflight
          released,    \* history: the calls of controller.release for it
          recorded,    \* history: the calls of _record for it
          phase,       \* of the gateway's process
          dead         \* the background tasks that an exception has ended

requestVars == <<stage, body, inflight, released, recorded>>
processVars == <<phase, dead>>
vars == <<requestVars, processVars, logVars, engineVars>>

\* A request that was admitted, until its slot is given back.
Working == {"forwarding", "opening", "opened", "streaming", "closing", "finalizing"}
\* Where the server waits for the handler.
Handling == {"arrived", "forwarding", "opening", "opened", "streaming", "closing"}

Stages == Working \cup {"new", "arrived", "turned_away", "malformed", "ended", "lost"}

\* The tasks that may die.  The loop of the scorer catches what is raised; the
\* sampler writes lines, and the poller converts what it has read to a float.
Mortal == {"sampler", "poller"}

Up == phase \in {"serving", "draining"}

Init ==
    /\ stage = [r \in Requests |-> "new"]
    /\ body \in [Requests -> Bodies]
    /\ inflight = 0
    /\ released = [r \in Requests |-> 0] /\ recorded = [r \in Requests |-> 0]
    /\ phase = "serving" /\ dead = {}
    /\ LogInit /\ EngineInit

At(r, s) == Up /\ stage[r] = s

Goes(r, s) == stage' = [stage EXCEPT ![r] = s]

\* _record.
Record(r) ==
    /\ recorded' = [recorded EXCEPT ![r] = @ + 1]
    /\ Write(r)

\* controller.release, of a request that was admitted.
Release(r) ==
    /\ inflight' = inflight - 1
    /\ released' = [released EXCEPT ![r] = @ + 1]

-----------------------------------------------------------------------------
(* _handle, up to the decision *)

Arrive(r) ==
    /\ phase = "serving" /\ stage[r] = "new"
    /\ Goes(r, "arrived")
    /\ UNCHANGED <<body, inflight, released, recorded, processVars, logVars, engineVars>>

\* Not JSON, or no object: answered with 400, and not recorded.
Malformed(r) ==
    /\ At(r, "arrived") /\ Goes(r, "malformed")
    /\ UNCHANGED <<body, inflight, released, recorded, processVars, logVars, engineVars>>

\* _reject_response; the release of a decision that is not allowed changes
\* nothing here.
TurnAway(r) ==
    /\ At(r, "arrived") /\ Goes(r, "turned_away")
    /\ Record(r)
    /\ UNCHANGED <<body, inflight, released, processVars, engineVars>>

\* A bug: one more than there are slots.
AdmitMutant(r, route) ==
    /\ At(r, "arrived") /\ inflight <= Slots
    /\ Goes(r, route)
    /\ inflight' = inflight + 1
    /\ Submit(r)
    /\ UNCHANGED <<body, released, recorded, processVars, logVars>>

\* acquire, and the request that is sent upstream.
Admit(r, route) ==
    /\ At(r, "arrived") /\ inflight < Slots
    /\ Goes(r, route)
    /\ inflight' = inflight + 1
    /\ Submit(r)
    /\ UNCHANGED <<body, released, recorded, processVars, logVars>>

Decide(r) ==
    \/ Malformed(r) \/ TurnAway(r)
    \/ \E route \in {"forwarding", "opening"} : Admit(r, route)

-----------------------------------------------------------------------------
(* The answer *)

\* The finally clause of _handle, of a stream that does not open, and of a
\* body: release and record, with nothing in between.
End(r) ==
    /\ Goes(r, "ended")
    /\ Release(r) /\ Record(r)
    /\ UNCHANGED <<body, processVars>>

Answered(r) == At(r, "forwarding") /\ Receive(r) /\ End(r)

\* The timeout, or any other exception: 504 or 502.
GiveUp(r) == At(r, "forwarding") /\ Abandon(r) /\ End(r)

\* The head of a streamed answer; of a real engine it comes with the first
\* token, of the stand-in with the last.
StreamOpens(r) ==
    /\ At(r, "opening") /\ r \in running \cup replies
    /\ Goes(r, "opened")
    /\ UNCHANGED <<body, inflight, released, recorded, processVars, logVars, engineVars>>

\* A bug: the stream that does not open keeps its slot.
StreamFailsMutant(r) ==
    /\ At(r, "opening") /\ Abandon(r)
    /\ Goes(r, "ended") /\ Record(r)
    /\ UNCHANGED <<body, inflight, released, processVars>>

StreamFails(r) == At(r, "opening") /\ Abandon(r) /\ End(r)

\* The server starts on the body ...
BodyStarts(r) ==
    /\ At(r, "opened") /\ Goes(r, "streaming")
    /\ UNCHANGED <<body, inflight, released, recorded, processVars, logVars, engineVars>>

\* ... or never does, because the client is gone: a generator that was not
\* started has no finally to run.
BodyNeverStarts(r) ==
    /\ At(r, "opened") /\ Goes(r, "lost")
    /\ Abandon(r)
    /\ UNCHANGED <<body, inflight, released, recorded, processVars, logVars>>

\* The body ends or fails, or the server stops reading it in the middle of a
\* chunk: its finally begins, and awaits the closing of the response.
BodyEnds(r) ==
    /\ At(r, "streaming") /\ Goes(r, "closing")
    /\ UNCHANGED <<body, inflight, released, recorded, processVars, logVars, engineVars>>

\* The client leaves while a chunk is sent: the server is done with the
\* request, and the finally begins when the generator is finalized.
HangsUp(r) ==
    /\ At(r, "streaming") /\ Goes(r, "finalizing")
    /\ UNCHANGED <<body, inflight, released, recorded, processVars, logVars, engineVars>>

Closing(r) == At(r, "closing") \/ At(r, "finalizing")

Closed(r) == Closing(r) /\ Abandon(r) /\ End(r)

\* The closing raises, or is cancelled: the rest of the finally is skipped.
ClosingFails(r) ==
    /\ Closing(r) /\ Goes(r, "lost")
    /\ Abandon(r)
    /\ UNCHANGED <<body, inflight, released, recorded, processVars, logVars>>

-----------------------------------------------------------------------------
(* The engine, the tasks in the background, and the lifespan *)

EngineWorks(r) == EngineStep(r) /\ UNCHANGED <<requestVars, processVars, logVars>>

FlusherRuns == Up /\ FlushOnTimer /\ UNCHANGED <<requestVars, processVars, engineVars>>

TaskDies(t) ==
    /\ Up /\ dead' = dead \cup {t}
    /\ UNCHANGED <<phase, requestVars, logVars, engineVars>>

\* A signal: nothing more is accepted, what there is runs to its end.
Terminate ==
    /\ phase = "serving" /\ phase' = "draining"
    /\ UNCHANGED <<dead, requestVars, logVars, engineVars>>

\* A bug: the server waits for the slots instead of the handlers.
QuietMutant == inflight = 0

\* The server has no request left to wait for.
Quiet == \A r \in Requests : stage[r] \notin Handling

\* Bodies nobody waits for are not finished any more.
LeaveBodies ==
    stage' = [r \in Requests |-> IF stage[r] = "finalizing" THEN "lost" ELSE stage[r]]

\* The end of the lifespan stops the tasks, one after the other, and last
\* the log.
Stop ==
    /\ phase = "draining" /\ Quiet /\ dead = {}
    /\ StopLog /\ LeaveBodies
    /\ phase' = "stopped"
    /\ UNCHANGED <<dead, body, inflight, released, recorded, engineVars>>

\* To stop a task that has died raises what it died of, and what would be
\* stopped after it, the log in any case, is not.
StopFails ==
    /\ phase = "draining" /\ Quiet
    /\ IF dead # {} THEN LogLost
       ELSE StopLogFails
    /\ LeaveBodies
    /\ phase' = "failed"
    /\ UNCHANGED <<dead, body, inflight, released, recorded, engineVars>>

Kill ==
    /\ Up /\ phase' = "killed"
    /\ LogLost
    /\ UNCHANGED <<dead, requestVars, engineVars>>

Proceed(r) ==
    \/ Answered(r) \/ GiveUp(r)
    \/ StreamOpens(r) \/ StreamFails(r)
    \/ BodyStarts(r) \/ BodyNeverStarts(r)
    \/ BodyEnds(r) \/ HangsUp(r)
    \/ Closed(r) \/ ClosingFails(r)

Next ==
    \/ \E r \in Requests : Arrive(r) \/ Decide(r) \/ Proceed(r) \/ EngineWorks(r)
    \/ FlusherRuns
    \/ \E t \in Mortal : TaskDies(t)
    \/ Terminate \/ Stop \/ StopFails \/ Kill

Spec == Init /\ [][Next]_vars

\* Admission decides within queue_wait_ms.  The read timeout ends every wait
\* for the engine, which itself need not make progress.  The server drives
\* bodies and finalizes generators; and no client stops reading for ever
\* without closing its connection, against which the gateway has no timeout.
FairSpec ==
    /\ Spec
    /\ \A r \in Requests :
          /\ WF_vars(Decide(r))
          /\ WF_vars(GiveUp(r)) /\ WF_vars(StreamFails(r))
          /\ WF_vars(BodyStarts(r)) /\ WF_vars(BodyEnds(r)) /\ WF_vars(Closed(r))
    /\ WF_vars(Stop \/ StopFails)

-----------------------------------------------------------------------------
(* Properties *)

TypeOK ==
    /\ stage \in [Requests -> Stages]
    /\ body \in [Requests -> Bodies]
    /\ inflight \in 0 .. Slots
    /\ released \in [Requests -> Nat] /\ recorded \in [Requests -> Nat]
    /\ phase \in {"serving", "draining", "stopped", "failed", "killed"}
    /\ dead \subseteq Mortal
    /\ LogTypeOK(Requests) /\ EngineTypeOK(Requests)

In(stages) == {r \in Requests : stage[r] \in stages}

\* app.py:229-231 "an unexpected error must still reach the release below, or
\* the admission slot leaks": over all exits of the handler, each request that
\* was admitted and has ended was released once and recorded once, and no
\* other was released.  What admission still counts is the requests at work
\* and those that were lost: a body that never started, a closing that failed.
SlotsAccountedFor ==
    /\ inflight = Cardinality(In(Working \cup {"lost"}))
    /\ \A r \in Requests :
          /\ released[r] = (IF stage[r] = "ended" THEN 1 ELSE 0)
          /\ recorded[r] = (IF stage[r] \in {"ended", "turned_away"} THEN 1 ELSE 0)

Recorded == {r \in Requests : recorded[r] > 0}

\* decision_log.py:6 "one line per request, decision and outcome": while the
\* gateway runs, no line is lost, whichever writes fail; a gateway that has
\* stopped without an error has every line in the file; and if no write
\* failed, none is there twice.
RecordsAreKept ==
    /\ Up => Recorded \subseteq Kept
    /\ phase = "stopped" => Recorded \subseteq ToSet(file)
    /\ faults = 0 => IsInjective(file \o unwritten \o buffer)

\* configs/ratelimit_queue.yaml: "Keep this at or near the backend's
\* --max-num-seqs. Setting it much higher moves the queue inside vLLM": with
\* no more slots than the engine has, a request waits in the engine's line
\* only if the engine has work to do for a request that has ended already.
QueueOnlyBehindAbandoned ==
    Slots <= MaxNumSeqs /\ line # <<>> => \E j \in Work : stage[j] = "ended"

\* app.py:191-192 "the backend cannot be asked for more work than the limiter
\* accounted": true of the work in the engine whose body spells its limit as
\* a positive integer max_tokens.  A max_completion_tokens above the ceiling
\* is charged the ceiling and forwarded as it is.
ChargeCoversWork ==
    \A j \in Work :
        RateLimitEnabled /\ Positive(body[j].max) => Asked(Forwarded(body[j])) <= Charge(body[j])

\* The texts of /metrics a poll may meet: of one engine, with or without the
\* labels, or of two, of which one runs the requests and one has the line.
Texts(missing) ==
    LET run == Cardinality(running)
        of(n) == Label("engine", n)
    IN  {RenderMetrics(run, Len(line), labels, missing) :
            labels \in {<<>>, of("0") \o Label("model_name", "qwen")}}
        \cup {RenderMetrics(0, Len(line), of("0"), missing)
               \o RenderMetrics(run, 0, of("1"), missing)}

\* backpressure.py:61-63 "does not also match
\* ``vllm:num_requests_waiting_by_reason``, and tolerant of unlabelled lines so
\* a missing ``model_name`` label does not read as zero", and "Sum a Prometheus
\* metric across its label sets": however the text labels its lines, the
\* poller reads for each gauge what the engine runs and what its line holds;
\* and where the waiting gauge is missing, None, though its name begins that
\* of another metric.
PollReadsTheEngine ==
    \A missing \in {{}, {WaitingGauge}} :
        \A text \in Texts(missing) :
            LET Expect(name, n) == IF name \in missing THEN {} ELSE {n}
            IN  /\ ParseMetric(text, RunningGauge) = Expect(RunningGauge, Cardinality(running))
                /\ ParseMetric(text, WaitingGauge) = Expect(WaitingGauge, Len(line))
                /\ ParseLabelledMetric(text, WaitingByReason, "reason", "capacity")
                      = Expect(WaitingByReason, Len(line))

\* Whatever the engine does, a request that waits for its answer is let go in
\* the end; and so is the process, once it was told to terminate, whatever
\* slots were lost and tasks have died before.
EverythingEnds ==
    /\ \A r \in Requests : stage[r] = "forwarding" ~> (stage[r] = "ended" \/ ~Up)
    /\ phase = "draining" ~> ~Up
=============================================================================
