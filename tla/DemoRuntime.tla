---------------------------- MODULE DemoRuntime ----------------------------
(***************************************************************************)
(* demo/runtime.py, the cells of final_demo.ipynb that call it, and        *)
(* loadgen/locustfile.py: pairs of experiments, without and with the       *)
(* mitigation, run one after the other against one model server, each with *)
(* a gateway and a load generator of its own.                              *)
(*                                                                         *)
(* Server, gateway and load are processes in sessions of their own.  They  *)
(* outlive the notebook's kernel, which forgets them when it is restarted; *)
(* and a port that was found free may be taken before the new gateway      *)
(* binds it.                                                               *)
(*                                                                         *)
(* Abstractions.  A run is a number; the profiles differ in how long they  *)
(* last and whom they send, and there is one.  A model server that is      *)
(* started is ready, and has the capacity of the notebook.  Work at it is  *)
(* whose load it comes from.  A process that was told to end and does not  *)
(* is killed within seconds: told and ended is one step.  A second         *)
(* interrupt, while the first is cleaned up after, is left out.            *)
(***************************************************************************)
EXTENDS GatewayConfig, Integers, FiniteSets, Sequences

CONSTANTS MaxSeqs,         \* MAX_SEQS of the notebook
          KernelEnv,       \* what its environment says to a gateway
          Folders,         \* the names of run folders: pair, profile and mode
          MaxRuns, MaxRequests, MaxRestarts, MaxServers   \* bounds

ASSUME DemoAssumption ==
    /\ MaxSeqs \in Nat \ {0} /\ MaxRuns \in Nat \ {0} /\ MaxRequests \in Nat \ {0}
    /\ MaxRestarts \in Nat /\ MaxServers \in Nat \ {0}
    /\ DOMAIN KernelEnv \subseteq {"mode", "base_url", "run_id"}

Runs == 1 .. MaxRuns

VARIABLES todo,        \* the modes that the cell B5 has still to run
          liveRuns,    \* LIVE_RUNS: the run of each mode, or 0
          charted,     \* QUEUE_PATHS: the runs whose samples were drawn
          server,      \* the model server that runs, by its number, or 0
          servers,     \* how many there were
          step,        \* where run_locust_profile is, or "idle"
          run,         \* the current run, or the last
          handle,      \* _gateway: the run whose gateway it is, or 0
          asked,       \* the mode each run was asked to have, "off" or "on"
          folder,      \* the folder it writes to
          gateway,     \* its gateway process
          conf,        \* what that was configured with
          load,        \* its load generator
          attempts,    \* how many requests it has logged before sending them
          results,     \* how many it has logged the result of
          work,        \* the runs whose requests the model server works on
          seen,        \* history: the model servers its requests met
          served,      \* history: the gateways that its requests were sent to
          met,         \* history: the runs whose work was there during its load
          finished,    \* the runs that returned their folder
          restarts, cut    \* history: restarts of the kernel, and the runs they cut off

notebook == <<todo, liveRuns, charted>>
modelServer == <<server, servers>>
control == <<step, run, handle, asked, folder>>
processes == <<gateway, conf, load>>
traffic == <<attempts, results, work, seen, served, met>>
outcome == <<finished, restarts, cut>>
vars == <<notebook, modelServer, control, processes, traffic, outcome>>

Steps == {"idle", "stopping", "checking", "launching", "waiting", "warming", "settling",
          "loading", "finishing", "closing"}

Conditions == {"off", "on"}
NoRuns == [mode \in Conditions |-> 0]

Init ==
    /\ todo = <<>> /\ liveRuns = NoRuns /\ charted = {}
    /\ server = 0 /\ servers = 0
    /\ step = "idle" /\ run = 0 /\ handle = 0
    /\ asked = [n \in Runs |-> "off"] /\ folder = [n \in Runs |-> "none"]
    /\ gateway = [n \in Runs |-> "none"] /\ conf = [n \in Runs |-> Defaults]
    /\ load = [n \in Runs |-> "none"]
    /\ attempts = [n \in Runs |-> 0] /\ results = [n \in Runs |-> 0]
    /\ work = {} /\ seen = [n \in Runs |-> {}]
    /\ served = [n \in Runs |-> {}] /\ met = [n \in Runs |-> {}]
    /\ finished = {} /\ restarts = 0 /\ cut = {}

Alive(n) == gateway[n] \in {"starting", "listening"}

\* Who answers on the port.
Owners == {n \in Runs : gateway[n] = "listening"}

Expected(mode) == IF mode = "off" THEN "off" ELSE "ratelimit_queue"

\* stop_gateway.
StopGateway ==
    /\ gateway' = [n \in Runs |-> IF n = handle /\ Alive(n) THEN "gone" ELSE gateway[n]]
    /\ handle' = 0

-----------------------------------------------------------------------------
(* The cells, one at a time *)

Free == step = "idle" /\ todo = <<>>

\* B3: a model server, unless there is one already.
StartServer ==
    /\ Free /\ server = 0 /\ servers < MaxServers
    /\ servers' = servers + 1 /\ server' = servers + 1
    /\ UNCHANGED <<notebook, control, processes, traffic, outcome>>

\* B5: a new pair, and the runs of the last one are forgotten.
StartPair ==
    /\ Free /\ run + 2 <= MaxRuns
    /\ todo' = <<"off", "on">> /\ liveRuns' = NoRuns
    /\ UNCHANGED <<charted, modelServer, control, processes, traffic, outcome>>

LiveRuns == {liveRuns[mode] : mode \in Conditions} \ {0}

\* B7, of whichever runs of the last pair there are, if any.
DrawChart ==
    /\ Free
    /\ charted' = LiveRuns
    /\ UNCHANGED <<todo, liveRuns, modelServer, control, processes, traffic, outcome>>

\* C: the runs whose folders are saved.
Bundle == charted \cup LiveRuns

-----------------------------------------------------------------------------
(* run_locust_profile *)

\* The next run of the cell.
Begin ==
    /\ step = "idle" /\ todo # <<>>
    /\ run' = run + 1 /\ step' = "stopping"
    /\ asked' = [asked EXCEPT ![run + 1] = Head(todo)] /\ todo' = Tail(todo)
    /\ UNCHANGED <<liveRuns, charted, modelServer, handle, folder, processes, traffic, outcome>>

StopOlder ==
    /\ step = "stopping" /\ step' = "checking"
    /\ StopGateway
    /\ UNCHANGED <<notebook, modelServer, run, asked, folder, conf, load, traffic, outcome>>

\* A bug: some work is taken for none.
IdleBackendMutant == server # 0 /\ Cardinality(work) < 2

\* wait_idle: the model server answers, and its gauges read zero.
IdleBackend == server # 0 /\ work = {}

\* verify_real_backend, wait_idle, nobody on the port, and a new folder; which
\* name it has makes no difference.
NewFolder(f) == \A n \in Runs : folder[n] # f

Check ==
    /\ step = "checking" /\ step' = "launching"
    /\ IdleBackend /\ Owners = {}
    /\ \E f \in Folders : NewFolder(f)
    /\ folder' = [folder EXCEPT ![run] = CHOOSE f \in Folders : NewFolder(f)]
    /\ UNCHANGED <<notebook, modelServer, run, handle, asked, processes, traffic, outcome>>

\* prepare_configs: the shipped file, with the capacity of the model server.
DemoFile(mode) ==
    [mode |-> Expected(mode), base_url |-> "backend", global_max_inflight |-> MaxSeqs,
     reserved_cheap_slots |-> 2]

\* The environment without the three variables, and the command line.
GatewayEnv == [key \in DOMAIN KernelEnv \ {"mode", "base_url", "run_id"} |-> KernelEnv[key]]
Arguments(f) == [base_url |-> "backend", run_id |-> f]

\* The gateway is started; it ends at once if its configuration does not load.
Launch ==
    /\ step = "launching" /\ step' = "waiting"
    /\ LET file == DemoFile(asked[run])
           args == Arguments(folder[run])
       IN IF Loads(file, GatewayEnv, args)
          THEN /\ conf' = [conf EXCEPT ![run] = LoadConfig(file, GatewayEnv, args)]
               /\ gateway' = [gateway EXCEPT ![run] = "starting"]
          ELSE gateway' = [gateway EXCEPT ![run] = "failed"] /\ UNCHANGED conf
    /\ handle' = run
    /\ UNCHANGED <<notebook, modelServer, run, asked, folder, load, traffic, outcome>>

\* /health of a gateway.
Health(n) == conf[n].mode

\* wait_ready: its own process has not ended, and whatever answers on the port
\* says that it runs in the mode.
WaitReady ==
    /\ step = "waiting" /\ step' = "warming"
    /\ Alive(run)
    /\ \E n \in Owners : Health(n) = Expected(asked[run])
    /\ UNCHANGED <<notebook, modelServer, run, handle, asked, folder, processes, traffic, outcome>>

\* A completion is requested through the gateway, and comes.
WarmUp ==
    /\ step = "warming" /\ step' = "settling"
    /\ Owners # {} /\ server # 0
    /\ UNCHANGED <<notebook, modelServer, run, handle, asked, folder, processes, traffic, outcome>>

\* wait_idle once more, and the load is started.
StartLoad ==
    /\ step = "settling" /\ step' = "loading"
    /\ IdleBackend
    /\ load' = [load EXCEPT ![run] = "running"]
    /\ UNCHANGED <<notebook, modelServer, run, handle, asked, folder, gateway, conf, traffic, outcome>>

\* The loop looks at the load first, and then at the gateway.
LoadOver ==
    /\ step = "loading" /\ load[run] = "ended" /\ step' = "finishing"
    /\ UNCHANGED <<notebook, modelServer, run, handle, asked, folder, processes, traffic, outcome>>

\* verify_real_backend and wait_idle; the folder is returned.
Finish ==
    /\ step = "finishing" /\ IdleBackend
    /\ step' = "closing" /\ finished' = finished \cup {run}
    /\ UNCHANGED <<notebook, modelServer, run, handle, asked, folder, processes, traffic, restarts, cut>>

\* An exception before there is a gateway: a check that failed, a deadline,
\* the user's interrupt.
RaiseEarly ==
    /\ step \in {"stopping", "checking", "launching"} /\ step' = "idle"
    /\ todo' = <<>>
    /\ UNCHANGED <<liveRuns, charted, modelServer, run, handle, asked, folder, processes, traffic, outcome>>

\* A bug: the load is left to end by itself.
RaiseMutant ==
    /\ step \in {"waiting", "warming", "settling", "loading", "finishing"}
    /\ step' = "closing"
    /\ UNCHANGED <<notebook, modelServer, run, handle, asked, folder, processes, traffic, outcome>>

\* An exception after that: the load is ended, if it runs, by the inner finally.
Raise ==
    /\ step \in {"waiting", "warming", "settling", "loading", "finishing"}
    /\ step' = "closing"
    /\ load' = [load EXCEPT ![run] = IF @ = "running" THEN "killed" ELSE @]
    /\ UNCHANGED <<notebook, modelServer, run, handle, asked, folder, gateway, conf, traffic, outcome>>

\* The outer finally; the cell has its run, or ends with the exception.
Close ==
    /\ step = "closing" /\ step' = "idle"
    /\ StopGateway
    /\ IF run \in finished THEN liveRuns' = [liveRuns EXCEPT ![asked[run]] = run] /\ UNCHANGED todo
       ELSE todo' = <<>> /\ UNCHANGED liveRuns
    /\ UNCHANGED <<charted, modelServer, run, asked, folder, conf, load, traffic, outcome>>

Proceed ==
    \/ StopOlder \/ Check \/ Launch \/ WaitReady \/ WarmUp
    \/ StartLoad \/ LoadOver \/ Finish
    \/ RaiseEarly \/ Raise \/ Close

\* The kernel is restarted: the processes live on, and what it knew is lost.
Restart ==
    /\ restarts < MaxRestarts /\ restarts' = restarts + 1
    /\ cut' = IF step = "idle" THEN cut ELSE cut \cup {run}
    /\ step' = "idle" /\ handle' = 0
    /\ todo' = <<>> /\ liveRuns' = NoRuns /\ charted' = {}
    /\ UNCHANGED <<modelServer, run, asked, folder, processes, traffic, finished>>

-----------------------------------------------------------------------------
(* The processes *)

\* A gateway binds the port, or fails to.  All take about as long to start, so
\* that an older one is first.
Bind(n) ==
    /\ gateway[n] = "starting" /\ \A m \in 1 .. n - 1 : gateway[m] # "starting"
    /\ gateway' = [gateway EXCEPT ![n] = IF Owners = {} THEN "listening" ELSE "failed"]
    /\ UNCHANGED <<notebook, modelServer, control, conf, load, traffic, outcome>>

\* It ends by itself; and one that a restart has cut off is ended by the user,
\* who is told to, between two runs.
GatewayEnds(n) ==
    /\ Alive(n) /\ (n = handle \/ step = "idle")
    /\ gateway' = [gateway EXCEPT ![n] = IF @ = "starting" THEN "failed" ELSE "gone"]
    /\ UNCHANGED <<notebook, modelServer, control, conf, load, traffic, outcome>>

\* What is at the model server while loads run.
Meets(there) == met' = [n \in Runs |-> IF load[n] = "running" THEN met[n] \cup there ELSE met[n]]

\* send_inference: the attempt is logged, then the request is sent; where
\* nobody listens, or the gateway has no server, it fails and that is its result.
Send(n) ==
    /\ load[n] = "running" /\ attempts[n] < MaxRequests
    /\ attempts' = [attempts EXCEPT ![n] = @ + 1]
    /\ served' = [served EXCEPT ![n] = @ \cup Owners]
    /\ seen' = [seen EXCEPT ![n] = @ \cup {server}]
    /\ IF Owners = {} \/ server = 0
       THEN results' = [results EXCEPT ![n] = @ + 1] /\ UNCHANGED <<work, met>>
       ELSE work' = work \cup {n} /\ Meets(work') /\ UNCHANGED results
    /\ UNCHANGED <<notebook, modelServer, control, processes, outcome>>

\* A bug: the result of a request is logged again.
AnsweredMutant(n) ==
    /\ load[n] = "running" /\ attempts[n] > 0
    /\ results' = [results EXCEPT ![n] = @ + 1]
    /\ UNCHANGED <<notebook, modelServer, control, processes, attempts, work, seen, served, met, outcome>>

\* record_request: an answer of any status, or the client's timeout.
Answered(n) ==
    /\ load[n] = "running" /\ results[n] < attempts[n]
    /\ results' = [results EXCEPT ![n] = @ + 1]
    /\ UNCHANGED <<notebook, modelServer, control, processes, attempts, work, seen, served, met, outcome>>

\* The model server is done with the requests of a load.
WorkDone(n) ==
    /\ n \in work /\ work' = work \ {n}
    /\ UNCHANGED <<notebook, modelServer, control, processes, attempts, results, seen, served, met, outcome>>

\* The model server ends, and the work with it.
ServerDies ==
    /\ server # 0 /\ server' = 0
    /\ work' = {}
    /\ UNCHANGED <<notebook, servers, control, processes, attempts, results, seen, served, met, outcome>>

\* The shape is over; locust waits for its users, longer than a request may
\* take.  That is after half a minute at least: by then a gateway has started or
\* failed to, and in the latter case the loop, which looks every second, knows.
LoadEnds(n) ==
    /\ load[n] = "running" /\ results[n] = attempts[n]
    /\ gateway[n] \notin {"starting", "failed"}
    /\ load' = [load EXCEPT ![n] = "ended"]
    /\ UNCHANGED <<notebook, modelServer, control, gateway, conf, traffic, outcome>>

\* Locust ends with another return code.
LoadFails(n) ==
    /\ load[n] = "running" /\ load' = [load EXCEPT ![n] = "failed"]
    /\ UNCHANGED <<notebook, modelServer, control, gateway, conf, traffic, outcome>>

Next ==
    \/ StartServer \/ StartPair \/ DrawChart
    \/ Begin \/ Proceed \/ Restart \/ ServerDies
    \/ \E n \in Runs :
          \/ Bind(n) \/ GatewayEnds(n)
          \/ Send(n) \/ Answered(n) \/ WorkDone(n) \/ LoadEnds(n) \/ LoadFails(n)

Spec == Init /\ [][Next]_vars

\* Every wait has a deadline, after which it raises.
FairSpec == Spec /\ WF_vars(Proceed)

-----------------------------------------------------------------------------
(* Properties *)

\* Types; and no load has more results in its log than attempts, which is what
\* summarize_client_run asks of the two logs before it joins them.
TypeOK ==
    /\ todo \in {<<>>, <<"on">>, <<"off", "on">>} /\ Bundle \subseteq Runs
    /\ server \in {0, servers} /\ servers \in 0 .. MaxServers
    /\ step \in Steps /\ run \in 0 .. MaxRuns /\ handle \in 0 .. MaxRuns
    /\ asked \in [Runs -> {"off", "on"}] /\ folder \in [Runs -> Folders \cup {"none"}]
    /\ gateway \in [Runs -> {"none", "starting", "listening", "failed", "gone"}]
    /\ load \in [Runs -> {"none", "running", "ended", "failed", "killed"}]
    /\ \A n \in Runs : DOMAIN conf[n] = Settings /\ conf[n].mode \in Modes
    /\ attempts \in [Runs -> 0 .. MaxRequests] /\ results \in [Runs -> 0 .. MaxRequests]
    /\ \A n \in Runs : results[n] <= attempts[n]
    /\ work \subseteq Runs /\ finished \subseteq Runs /\ cut \subseteq Runs

\* summarize_client_run: the attempts without a result.
Unfinished(n) == attempts[n] - results[n]

\* A run that has measured what it was to measure: its own gateway, in the mode
\* it was asked for and with the capacity of the model server, at work for
\* nobody else, and every request with its result.
Evidence(n) ==
    /\ served[n] \subseteq {n}
    /\ met[n] \subseteq {n} \cup cut
    /\ Unfinished(n) = 0
    /\ conf[n].global_max_inflight = MaxSeqs /\ conf[n].run_id = folder[n]
    /\ Enabled(conf[n]) =
          (IF asked[n] = "off" THEN {} ELSE {"rate_limit", "backpressure", "fairshare"})
    /\ \A m \in Runs \ {n} : folder[m] # folder[n]

\* runtime.py:114 "rather than silently talking to an unrelated process", and
\* the notebook, "a new run does not start while the backend is still serving
\* the previous run": every finished run is evidence; unless the kernel was
\* restarted and forgot a load that runs on, which nothing here can see once
\* its gateway is stopped.  "Both modes use the same backend": all requests
\* of the pair that is summarized met one model server, without a break.  And
\* what is saved in the end is finished runs.
FinishedRunsAreEvidence ==
    /\ \A n \in finished : Evidence(n)
    /\ \E s \in 1 .. MaxServers : \A n \in LiveRuns : seen[n] \subseteq {s}
    /\ \A mode \in Conditions : liveRuns[mode] # 0 => asked[liveRuns[mode]] = mode
    /\ Bundle \subseteq finished

\* Neither a gateway nor a load, except of runs that a restart has cut off.
NothingLeft == \A n \in Runs \ cut : ~Alive(n) /\ load[n] # "running"

\* The finally clauses: given that each wait in it is over by its deadline, every
\* run ends, from whichever step it fails, and leaves nothing behind for the next
\* to meet.
EveryRunCleansUp == step # "idle" ~> step = "idle" /\ NothingLeft
=============================================================================
