# Formal models of the admission gateway

TLA+ modules, TLC configurations and TLAPS proofs for the gateway of this
repository (`gateway/`), a FastAPI process in front of a vLLM server that
decides for every inference request whether to forward it, let it wait, or
refuse it; and for the demo around it (`demo/`, `loadgen/`,
`final_demo.ipynb`), whose results are only worth as much as the runs they come
from. The gateway is one asyncio event loop: code between two `await`s is
atomic, and every hazard comes from what other coroutines do across an `await`,
from timers, and from what the upstream server does or fails to do. The demo is
a set of processes, of which one, the notebook's kernel, may be restarted while
the others run on.

## 1. Inventory

| Part | State | Operations | Talks to |
|---|---|---|---|
| `SlotPool` (slots.py) | `held`, deque of futures | `try_acquire`, `acquire(timeout)`, `release` | the event loop (futures, `wait_for`) |
| `AdmissionSlots` (slots.py) | a general and a reserved pool | `acquire(cost)`, `release(pool)` | two `SlotPool`s |
| `AdmissionController` (admission.py) | `inflight`, the decision of each request | `acquire`, `release`, `_refund`, `_reject` | limiters, pressure, fair share, slots, features, scorer |
| `ClientLimiter`, `LimiterRegistry` (ratelimit.py) | two token buckets and `inflight` per client; the map of clients | `check`, `apply_multiplier`, `get`, `_sweep` | called by `acquire`; the refund writes into the buckets |
| `FairShareController` (fairshare.py) | none | `evaluate` | reads the feature store |
| `FeatureStore` (features.py) | event window and `concurrency` per client | `record_admitted`, `complete`, `cost_shares`, `vector`, `active_clients` | written by the controller, read by fair share and scorer |
| `PressureController`, `UpstreamMetricsPoller` (backpressure.py) | level, latency average, in-flight copy; last snapshot | `evaluate`, `observe_latency`; `poll_once` in a loop | upstream `/metrics`; evaluated by requests, sampler and `/gateway/state` |
| `StateSampler`, `DecisionLog` (obs/decision_log.py) | line buffers, two loops | `write`, `flush`, `close`; `snapshot` | evaluates the pressure |
| `VAEScorer` (anomaly/scorer.py) | tier cache with expiry | `score_once`, `tier`, `_evict` | feature store; tier read by `acquire` |
| Application (app.py, upstream.py) | lifespan, one handler per request | `_handle`, `_forward_streaming`, `_record` | everything |
| `TokenCounter` (tokens.py) | none after start | `estimate`; the clamp is in `_handle` | the cost charged everywhere |
| `GatewayConfig` (config.py, `__main__.py`) | none after start | `load_config`, `__post_init__` | file, environment, command line |
| `Engine` (fake_vllm.py) | semaphore, `running`, `waiting` | `generate`, `render_metrics` | stands in for vLLM |
| Demo runtime (demo/runtime.py, notebook) | `_gateway`, `LIVE_RUNS`, processes, run folders | `run_locust_profile`, `stop_gateway`, `wait_idle`; cells B3, B5, B7, C | gateway, locust and model server as processes |
| Load generator, charts (loadgen/, demo/queue_chart.py, scripts/) | logs, files | `send_inference`, `plot_queue_depth` | the gateway; the files of a run |
| Prometheus metrics, VAE and its training | | | outside the models, see section 5 |

What is hard here, and what correctness means:

* **Slots.** A grant and a timeout can happen to the same waiter before its
  coroutine runs. Slots must be neither lost nor doubled, a free slot must not
  idle while somebody waits, and nobody may overtake the queue.
* **Admission.** A request is charged before it waits and counted after it.
  Counters in four objects must agree with one another over that gap, refunds
  must balance, caps must hold.
* **Limits under tiers.** Buckets are refilled when next used, retuned without
  being refilled first, forgotten and made anew. None of it may give a client
  more than the configured rate; a penalty must hold and must end.
* **Pressure.** The level is decided on snapshots that travel, age, fail and
  may be incomplete. An alarm must not outlive its cause, nor end before it.
* **Application.** Each admitted request must be released and recorded exactly
  once, on every exit, streaming included; the engine goes on working for
  requests the gateway has given up; lines must survive failing writes; the
  process must end.
* **Demo.** What a run claims to have measured must be what it measured, and
  the chart must show what was.

`PROJECT.json` lists every component with its status, and under `hazards` each
of these at its line with the properties that would catch it.

## 2. Modules

| Module | Models | State and actions |
|---|---|---|
| `SlotLedger` | nothing of its own: what a pool promises | owners and a FIFO queue; take, join, quit, yield |
| `SlotPool` | `SlotPool` of slots.py | `held`, `waiters` (the deque), `fut` (each request's future), `pc` (where its coroutine is); `TryAcquire`, `Enqueue`, `Release`, `TimeoutFires`, `ResumeGranted`, `ResumeTimedOut` |
| `AdmissionSlots` | `AdmissionSlots` of slots.py | a `SlotPool` instance plus the reserve; one action per exit of `acquire` and per pool of `release` |
| `PressureLevels`, `FairShare` | the rule that moves between levels; `FairShareController.evaluate` | operators; fractions are integers after cross-multiplication |
| `Admission` | `AdmissionController` with limiters, windows and slots | one action per way `acquire` ends, suspends or resumes; `Release`, `Sample`, `Tick` |
| `RateLimit` | ratelimit.py | `limiters` (the registry), `sinceSweep`; `Shed`, `Refuse`, `Admit`, `Release`, `ReleaseOrphan`, `Stranger`, `Tick` |
| `AnomalyTiers` | the tier cache of scorer.py | `cache`, `quiet`; `ScoreOnce`, `ScoreFails`, `CountIn`, `CountOut`, `TierTick` |
| `Throttle` | the two together: `acquire` in mode full, up to the slots | the actions of both, joined |
| `Backpressure` | poller and pressure controller beside an engine | a poll is two actions (`PollAnswered`, then `PollSucceeds` or `PollFails`); `Sample`, `ObserveLatency`, `Load`, `EngineChanges`, `Tick` |
| `Tokens` | `estimate` and the clamp | operators on the size fields of a body |
| `Engine` | fake_vllm.py, and the upstream client's side of it | `wire`, `line`, `running`, `replies`; start, reject, finish; submit, abandon, receive |
| `MetricsText` | the text of `/metrics` and what is parsed from it | operators on sequences of lines; a line is its tokens and the number that ends it |
| `DecisionLog` | `JsonlWriter`, flusher, stop | `buffer`, `unwritten`, `file`, `flusher`; `Write`, `FlushOnTimer`, `StopLog`, and their failures |
| `Gateway` | app.py: handler, streaming, lifespan; composes the four above | `stage` of each request, `inflight`, `phase` of the process, `dead` tasks; one action per exit |
| `GatewayConfig` | config.py and what `__main__.py` passes it | operators: file, environment and arguments to the settings a gateway runs with |
| `DemoRuntime` | demo/runtime.py and the cells around it | `step` of `run_locust_profile`, processes, port, logs, model server; one action per stage, per way it raises, and per event of a process |
| `QueueChart` | sampler's lines and `plot_queue_depth`; extends `Backpressure` | `file`, `loadStarted`; `WriteSample`, `StartLoad`, `QueueChanges`, `ChartPoll`, `ChartTick` |
| `SlotPoolProofs`, `AdmissionSlotsProofs`, `AdmissionProofs`, `GatewayProofs`, `DemoProofs` | | theorems about the module of the same name |
| `ThrottleProofs`, `QueueChartProofs` | | theorems about `RateLimit` and `Throttle`, and about `Backpressure` and `QueueChart` |
| `FiniteSums` | | lemmas about sums over finite sets, for `AdmissionProofs` |
| `MC*` | | instances for TLC; `Throttle` and `QueueChart` need none |

```
SlotLedger <- SlotPool <- AdmissionSlots <- Admission -> FairShare, PressureLevels
RateLimit  <- Throttle -> AnomalyTiers          PressureLevels <- Backpressure <- QueueChart
Tokens, Engine, DecisionLog, MetricsText <- Gateway      GatewayConfig <- DemoRuntime
```

**`SlotPool`.** `await asyncio.wait_for(asyncio.shield(waiter), timeout)` is two
events and a resumption: the future is set by a `release` (`HandOver`), or the
timer fires (`TimeoutFires`), and then the coroutine runs with one outcome.
When both happened, Python up to 3.11 and Python from 3.12 decide differently;
`pyproject.toml` allows both, so the model lets either outcome happen. A waiter
that timed out removes itself, or finds itself gone and hands the slot back
(`Withdraw`, `HandBack`).

**`Admission`.** `acquire` is atomic until `await self.slots.acquire`. Each way it
can end or suspend is an action: `RefuseLimited`, `RefuseOverShare`,
`AdmitAtOnce`, `Queue`; after the await `QueueWaitExpires`, `AdmitFromQueue`,
`RefuseQueued`. The slots inside are an instance of `AdmissionSlots` on the same
variables. Each request is one-shot; a retry of a client is another request.
Backpressure is on and the scorer absent, as in mode `ratelimit_queue`. The
latency average and the upstream metrics appear as one input, `RestSignals`, of
each evaluation: anything they may say is allowed, so what holds does not depend
on them.

**`RateLimit`, `AnomalyTiers`, `Throttle`.** What `Admission` takes for granted of
its limiters: `Refilled` is the lazy refill, `Clipped` is `set_rate`, which does
not settle the refill first, `Swept` is the registry's sweep. `get` does not
touch `last_seen`, so a client that comes back after the ttl can be swept by its
own lookup; its request is then counted in a limiter nobody finds again, which
is `orphaned`. Clock readings appear as ages that stop growing where they have no
more to tell, so the model has no bound on time. `baseline` is a history
variable, the bucket each client would have without tiers, sweeps and laziness.
In `Throttle` the tier of a client is what `AnomalyTiers` keeps for it, and what
`Throttle` admits is what makes a client active for the scorer. Which tier a
score falls in is an input.

**`Backpressure`.** Each signal is where it stands to its two marks (`clear`,
`between`, `high`), which is all `evaluate` asks of it. An exponential average
lies between its old value and the new sample. Ages are counted in ticks and
saturate. `engineLoud` and `engineCalm` are history: how long ago the engine was
last not calm, and last calm, whatever the replies said.

**`Gateway`.** A buffered request is awaited in one `try`; it is `Answered`, or
`GiveUp` stands for the timeout and every other exception. A streamed one is
handed to a generator, which the server drives: it may never be started
(`BodyNeverStarts`), end, be left by the client (`HangsUp`), be finalized later,
and the awaits in its `finally` may raise before the release (`ClosingFails`).
Requests that end so are `lost`, and stay counted: the model shows the leak as
it is, and `SlotsAccountedFor` says that these are the only ones. Admission
itself is one test here, `inflight < Slots`. The end of the lifespan stops the
tasks in order; a dead one raises, and what comes after it is skipped
(`StopFails`). `Kill` may come at any time.

**`DemoRuntime`.** Server, gateways and loads are processes in sessions of their
own, and `Restart` makes the kernel forget them; `cut` records the run it cut
off. A gateway is asked for on a port that was found free (`Check`) and binds it
later (`Bind`), when it may be taken; `WaitReady` believes whoever answers.
Assumed of its surroundings: a gateway of a forgotten run is ended by the user,
who is told to, only between runs; of two gateways that start, the older binds
first; a load lasts 30 s at least, so that by its end a gateway has bound the
port or failed and the loop, which looks every second, knows; locust's stop
timeout exceeds the client's own, so a load that ends has all results; a server
that is started is ready. A server found running is used if its model id is the
expected one (cell B3 says "matching"): that its `max_num_seqs` is `MAX_SEQS` is
not verified by the code, and assumed here. After an exception the cell B7 draws
the runs there are.

**`QueueChart`.** `plot_queue_depth` exists three times with the same text
(demo/queue_chart.py, scripts/queue_depth_chart.py, cell A3 of the notebook, which
is the one that runs). Each sample carries, as history, the bands the queue was
in within the staleness limit and the poll timeout before it.

## 3. Runs

| Run | Instance | States | Shows |
|---|---|---|---|
| `slot_pool` | 4 requests, 2 slots, `FairSpec` | 715 | conservation, no over-commit, no idle slot, live deque, no barging, refinement of `SlotLedger`, every wait ends |
| `admission_slots` | 2 cheap and 3 expensive requests, 2 general and 1 reserved slots | 3,164 | accounting across pools; expensive requests stay out of the reserve; the general pool is a `SlotPool` |
| `admission` | 3 expensive requests of a flooder, 2 cheap ones of a quiet client; 1 general and 1 reserved slot; bursts of 2 requests and 4 cost; clock to 2 | 48,918 | counters agree, slot exactly while in flight, slots bound what is in flight, both budgets balance, somebody is always within its share, slots behave as `AdmissionSlots` |
| `admission_fair` | calm other signals, clock to 1, `FairSpec` | 58,602 | after the arrivals everything returns to empty and `NORMAL` |
| `throttle` | 1 client, bursts of 3, ttl 3, a sweep every second lookup, decay 2, window 1, fair | 224,930 | `LiveIsCounted`, `ClientWithinCap`, `NeverBeyondBaseline`, `HostileHolds`, `PenaltyEnds` |
| `backpressure` | all bands locally, two bands upstream, staleness of 1 tick, replies of up to 1 tick, `FairSpec` | 541,440 | `AlarmDiesOut`, `AlarmEndsForCause`, `Subsides`, `OverloadIsNoticed` |
| `gateway` | 2 requests, 1 slot, an engine of 1, a buffer of 2 lines, 1 failing write, `FairSpec` | 58,056 | `SlotsAccountedFor`, `RecordsAreKept`, `QueueOnlyBehindAbandoned`, `ChargeCoversWork`, `PollReadsTheEngine`, `EverythingEnds` |
| `demo` | 3 runs of 1 request, 1 restart, 2 model servers, an environment that asks for mode full, `FairSpec` | 298,674 | `FinishedRunsAreEvidence`, `EveryRunCleansUp` |
| `queue_chart` | two bands of the queue, the last 2 lines of the file, fair | 518,554 | `PointsAreTrue`, `OverloadIsDrawn` |

Runs in which TLC finds what a line of the repository claims to be false; each
is a finding in `PROJECT.json`:

| Run | Claim | What the code does |
|---|---|---|
| `cheap_queued` | slots.py:8-10: cheap requests may use either pool and always have somewhere to go | the reserve is looked at once, before waiting; a reserved slot that is released wakes nobody in the general queue |
| `client_cap` | config.py:48: the per-client cap bounds slot occupancy | tested before the await (ratelimit.py:109), counted after it (admission.py:152): requests that queue together exceed it |
| `missing_metric` | tests/test_backpressure.py:33-36: None must stay distinct from 0.0; backpressure.py:11-12: treating absent metrics as an empty queue would switch off shedding | a reply with the running metric alone replaces the snapshot, and its missing waiting metric is read as `snapshot.waiting or 0.0` (backpressure.py:230): CRITICAL becomes NORMAL with the queue as long as before |

That signals which are too old are left out, and local ones then decide, is
intended (config.py:83, tests/test_backpressure.py:90-112): a CRITICAL that the
engine raised may end that way, and `AlarmEndsForCause` is about fresh, complete
news only.

`ClientWithinCap` holds in `throttle`, where nothing waits between the test and
the count, and fails in `client_cap`, where a request queues in between.

Where code and text differ in a way that reading the line shows, or that the
models state as it is, there is no run:

* backpressure.py:32 calls CRITICAL "fair-share shedding plus global fast
  rejection"; admission.py:132 only asks for ELEVATED, and the reason
  `global_capacity` is never given.
* backpressure.py:78-84 takes the first line of a labelled metric where
  `parse_metric` sums over all: of several engines behind one `/metrics` it reads
  one. Nothing but the log reads it.
* tests/test_ratelimit.py:94 says the registry keeps clients with requests in
  flight. It does, except that the lookup which admits a request may itself have
  swept the limiter (ratelimit.py:140-150): `orphaned` in `RateLimit`.
* scorer.py:89-91 and config.py:117: tiers decay. A tier is ended only by a
  tick that gets to its client; if scoring another client raised at every tick,
  those after it would keep their tiers (hypothesis of `PenaltyEnds`).
* app.py:5-6 "every outcome is written to gateway.jsonl": a body that is not JSON
  is answered with 400 and not recorded (`Malformed`); nor is a lost stream.
* decision_log.py:6 "one line per request": after a failed flush lines may be
  there twice, which is why `RecordsAreKept` asks for single lines only where no
  write failed.
* app.py:191-192: the clamp covers `max_tokens`; a `max_completion_tokens` above the
  ceiling is charged the ceiling and forwarded as it is (`ChargeCoversWork` excludes
  it).
* config.py:169-170: sub-flags follow from the mode; but `fairshare.enabled: false`
  in a file stays false in the modes that have fair share (`Settled`).

**Bounds.** Two slots and four requests are enough for the pool: two owners,
two waiters, hence a queue with an order, a grant that races a timeout, and a
second waiter who must not lose from it. In `admission` the flooder has more
requests than any burst, cap or pool admits, so every refusal occurs; the clock
passes the window once and refills each bucket past its burst. Requests of the
same client and cost are interchangeable (`SYMMETRY`), used for safety only. In
`throttle` clients do not interact but through the sweep's lookup count, to which
`Stranger` contributes; one client with a cap of 1 and two requests meets every
refusal, both kinds of sweep and all tiers, and decay outlasts the window, so that
eviction meets penalties. In `backpressure` a reply can be older than a sample and
a snapshot can be fresh, on the limit and stale. `PollReadsTheEngine` looks at texts
without labels, with two labels, of two engines, and with the waiting gauge
missing while the metric whose name it begins is there. In `gateway` the second request
can be admitted while the engine still works for the first, and two records fill
the buffer, so that a write fails inside a handler, in the flusher or at the
end. In `demo` three runs are a pair that fails or is cut off and one of the next
pair, or a pair and one more. In `queue_chart` two lines are one that may be torn
and one that may not.

**Fairness.** `SlotPool` and `Admission` assume weak fairness of timers and of
coroutines that are ready (the event loop runs both in order), and of `Release`:
the handler releases in its `finally`, and an upstream that does not answer runs
into the read timeout. So much is so for buffered requests; a stream may never
be released, as `Gateway` shows, and `Recovers` says nothing of such. Arrivals are never assumed.
`Throttle` assumes that time
passes and that the scoring loop, which catches what is raised, gets through all
clients again and again. `Backpressure` and `QueueChart` assume that the clock and
the two loops go on; that they are not late is the guard of `Tick`. They do not
assume that any poll succeeds; `OverloadIsNoticed` and `OverloadIsDrawn` have that
as their hypothesis, and also that replies with just one of the two metrics
have ceased, because such a reply replaces a complete snapshot. `Gateway` assumes
nothing of the engine: the timeouts end every wait for it (`GiveUp`, `StreamFails`).
It assumes that the server drives and finalizes bodies, and that no client stops
reading for ever with its connection open, against which the gateway has no
timeout. `DemoRuntime` assumes only that `run_locust_profile` goes on: every wait in
it has a deadline, after which it raises. The deadlines are assumed, by an action
`Raise` that is always enabled; `EveryRunCleansUp` would not miss one.

## 4. Proofs

Every safety invariant and every action property that a passing run checks, but
`PollReadsTheEngine`, is stated by a theorem, for every value of the constants
that satisfies the named assumptions (`CapacityAssumption`, `SlotsAssumption`, `FairShareAssumption`,
`AdmissionAssumption`, `RateLimitAssumption`, `TtlAssumption`, `ScorerConfigured`,
`BackpressureAssumption`, `ChartAssumption`, `TokensAssumption`, `EngineAssumption`,
`LogAssumption`, `GatewayAssumption`, `DemoAssumption`; sets of requests and clients
need not be finite except in `Gateway`, configuration values need not be sensible
except where `TtlAssumption` and `EqualShareAllowed` say so).

* **`SlotPoolProofs`.** The inductive invariant `PoolInv` joins type, deque,
  conservation and no-idle-slot. None is inductive alone: that `held` counts the
  owners needs the deque to hold exactly the live waiters, or `release` could
  resolve a dead future; that a newcomer overtakes nobody needs that no slot is
  free while somebody waits. From it follow the four invariants, `NoBarging`,
  and the refinement `PoolImplementsLedger`, where each action maps to one
  ledger step or to a stutter.
* **`AdmissionSlotsProofs`.** The general pool is shown to be a `SlotPool`
  (`GeneralPoolIsAPool`), so its theorems apply; `ReserveInv` adds that the
  reserve counts its owners, all cheap and none of them in the general pool.
  `ReserveIsKept` then is arithmetic over `Split`.
* **`AdmissionProofs`.** `StepOfSlots` shows that each step of the pipeline is a
  step of the slots or leaves them alone (`SlotsRefined`), which brings in all of
  the above. `StageInv` ties the progress of a request to the state of its
  coroutine and pool; without it a queued request could be counted twice.
  `CountInv` says that each counter is the cardinality of the set of requests it
  counts, so none of the `max(0, ...)` in `release` is ever needed. `BudgetInv`
  balances the request bucket against the requests charged: a step charges
  nobody, charges one, refunds one, or is a tick, and each keeps the balance
  (`ChargingNobody`, `ChargingOne`, `RefundingOne`, `Ticking`).
  `NeverMoreThanSlots` combines the counts with the owners of slots.
  `CostsAreBudgeted` is the same balance with costs in place of counts, a sum over
  the set of charged requests. `SomebodyKept` says that fair share never refuses
  everybody: the shares add up to the whole, so not every client has more than
  the mean (`SumAboveMean`), and whoever has no more is within both thresholds
  if they allow each client an equal share. That is its hypothesis
  `EqualShareAllowed`: the multiplier is at least one and the ceiling, times the
  fewest clients that fair share acts on, at least the whole. The shipped
  configuration meets it (1.25, and 0.5 with two clients), `AdmissionAssumption`
  does not demand it, and without it the property is false: two clients with the
  same share and a ceiling below a half are both refused.
* **`FiniteSums`.** A sum is a recursive function over subsets. The library's
  induction takes a predicate as an operator, which the provers cannot instantiate;
  `Induction` is about a set of numbers instead, and is enough to show that the
  function exists (`IterateExists`), that it does not depend on the set it is
  defined over (`IteratesAgree`), and that any element may be taken out first
  (`SumWithout`).
* **`ThrottleProofs`.** First the limiter alone. `NeverBeyondBaseline` is not
  inductive, since unsettled time is credited at the rate of the tier a client has
  by then. `LimitsInv` says instead, per client (`ClientInv`), that a bucket is
  covered by the baseline even if all that time is credited at the configured
  rate, and that the baseline has recovered for as long as the limiter was idle;
  so it is full when the limiter may be forgotten (`StaleIsFull`), and a new, full
  one is covered. That is where `TtlAssumption` is needed. The same invariant gives
  `EveryRequestIsCounted` and `CapIsKept`. Then the composition: each step of it is
  a step of `RateLimit` or leaves it alone (`ThrottleLimits`), which brings in its
  theorems (`LimitsHoldUnderTiers`). `TierInv` adds that a client to whom hostility
  is owed is in the cache as hostile with at least that time left, which expiry,
  failing ticks and eviction keep.
* **`QueueChartProofs`.** First poller and controller. `NewsInv` follows a reading
  from the reply to the snapshot: what says that the engine is loud was true no
  longer ago than the reply has travelled and the snapshot has aged. `AlarmsDieOut`
  rests on it. `CalmInv` is its counterpart: a reading in which all signals are clear
  was true of an engine that was calm no longer ago than that. A step that leaves
  CRITICAL is an evaluation which found all its signals clear (`Levels`), so
  `AlarmsEndForCause` follows. Then the chart, each step of which is one of `Backpressure`
  (`ChartIsBackpressure`), whose invariant is used: `WayInv` follows a band of the
  queue from reply to snapshot, `FileInv` from snapshot to line, where the history
  of the line no longer changes.
* **`GatewayProofs`.** Three invariants, each on top of the last. `BooksInv`: the
  counter is the number of requests at work or lost (the lemmas `...KeepsBooks` say
  how one request's move changes that set). `JobsInv`: every job of the engine is of
  a request that is forwarded or over, and no job is in two places; with the
  counter bounded by the slots, a pigeonhole argument gives
  `SlotsKeepEngineQueueShort`. `LinesInv`: every recorded request has a line in
  buffer, file object or file, and as long as no write failed nothing is held
  back and each line is there once; from it `NoLineIsLost`.
* **`DemoProofs`.** `FinishedRunsAreEvidence` says nothing of a run that is under
  way, so the invariant `Inv` has to: what each step has established (`OrderInv`),
  what a run that has not come to a step has left alone (`UntouchedInv`), and that
  only loads which a restart has cut off run beside the current one (`LoadInv`).
  That no other gateway serves a finished run does not follow from the check of the
  port, which another may take afterwards. `PortInv` has the argument: gateways bind
  in the order they were started, so once that of the current run has the port
  nobody starting is left; and if another had it by the time the run was found
  ready, it keeps it as long as the run lasts, the run's own gateway fails to
  bind, and its load does not end in order. `WorkInv` has it for the work: the
  model server was idle when the load began. `ServerInv` has it for the model
  server: while a pair runs none is started, so one that is still there at the
  end was there all the time. `DemoConfig` follows the settings through file,
  environment and arguments. `NothingIsLeft` is the safety half of
  `EveryRunCleansUp`: between two runs nothing is left but what a restart cut off.

Only model-checked: liveness (`EveryWaitEnds`, `Recovers`, `PenaltyEnds`, `Subsides`,
`OverloadIsNoticed`, `EverythingEnds`, `EveryRunCleansUp`, `OverloadIsDrawn`), which is
beyond the prover; `PollReadsTheEngine`, which sums by a fold over a text; and of
course the three violated claims.

## 5. Not modelled

* **VAE and training** (anomaly/vae.py, train.py): floating-point linear algebra.
  The tier a score falls in is an input of every tick, so what is shown of the
  scorer holds for any model.
* **Prometheus metrics** (obs/metrics.py): counters that are written and never
  read by a decision.
* **Prompt tokens, `retry_after`, headers and bodies of answers, `/gateway/state`**:
  reported or charged, but no property here tells them apart.
* **Feature vectors** (features.py): `complete` and `vector` feed the VAE only. The
  limit of 512 events is above what the default rate lets a client put into a
  window. `evict` is never called, so windows of clients that are gone stay in
  memory.
* **The start of the gateway** before it listens, and a second signal, which counts
  as `Kill`.
* **A client that stops reading a stream** without closing it holds its slot and the
  end of the process for ever; the code has no bound that could be stated.
* **integration.ipynb, testing.ipynb, smoke_load.py, recorded results**: cells run
  one by one by a person with an earlier form of the demo runtime, a straight-line
  client, and data.
* A second interrupt while a demo run cleans up after the first.

Nothing here says anything about throughput or latency.
