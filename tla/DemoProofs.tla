----------------------------- MODULE DemoProofs -----------------------------
(***************************************************************************)
(* Proof that a finished run of the demo is evidence of what it claims,    *)
(* for every number of runs, requests, restarts and model servers, every   *)
(* capacity and whatever the notebook's environment says.                  *)
(*                                                                         *)
(* FinishedRunsAreEvidence is far from inductive: it says nothing of a run *)
(* that is under way.  The invariant says what each step of a run has      *)
(* established (OrderInv), what a run that has not come to a step has left *)
(* alone (UntouchedInv), and who else may be there meanwhile: the loads    *)
(* that a restart has cut off (LoadInv, WorkInv) and the gateways that     *)
(* started before and may take the port first (PortInv).                   *)
(***************************************************************************)
EXTENDS DemoRuntime, TLAPS

-----------------------------------------------------------------------------
(* The inductive invariant *)

\* The steps at which the current run has a gateway, or had one.
WithGateway == {"waiting", "warming", "settling", "loading", "finishing", "closing"}

TablesInv == DOMAIN conf = Runs /\ DOMAIN seen = Runs /\ DOMAIN served = Runs /\ DOMAIN met = Runs

ControlInv ==
    /\ liveRuns \in [Conditions -> 0 .. MaxRuns]
    /\ run + Len(todo) <= MaxRuns
    /\ step # "idle" => run # 0
    /\ handle = IF step \in WithGateway THEN run ELSE 0

\* What a run has not come to yet is as it was.
Ahead(n, steps) == n > run \/ (n = run /\ step \in steps)

UntouchedInv ==
    \A n \in Runs :
        /\ Ahead(n, {"stopping", "checking"}) => folder[n] = "none"
        /\ Ahead(n, {"stopping", "checking", "launching"}) => gateway[n] = "none"
        /\ Ahead(n, {"stopping", "checking", "launching", "waiting", "warming", "settling"}) =>
              load[n] = "none"
        /\ load[n] = "none" => attempts[n] = 0 /\ results[n] = 0
                               /\ served[n] = {} /\ met[n] = {} /\ seen[n] = {}

\* Nothing comes before what it needs.
OrderInv ==
    /\ step = "launching" => folder[run] # "none"
    /\ step \in WithGateway => gateway[run] # "none"
    /\ step = "finishing" => load[run] = "ended"
    /\ \A n \in Runs :
          /\ gateway[n] # "none" => folder[n] # "none"
          /\ load[n] # "none" => gateway[n] # "none"
          /\ load[n] = "ended" => gateway[n] \in {"listening", "gone"}

\* Only a load that a restart has cut off runs beside the current one.
LoadInv ==
    \A n \in Runs :
        /\ load[n] = "running" => n \in cut \/ (n = run /\ step = "loading")
        /\ results[n] <= attempts[n]
        /\ load[n] = "ended" => results[n] = attempts[n]

\* What a gateway runs with.
ConfInv ==
    /\ \A n \in Runs : gateway[n] \in {"starting", "listening", "gone"} =>
          /\ conf[n].global_max_inflight = MaxSeqs /\ conf[n].run_id = folder[n]
          /\ Enabled(conf[n]) =
                (IF asked[n] = "off" THEN {} ELSE {"rate_limit", "backpressure", "fairshare"})
    /\ \A m, n \in Runs : m # n /\ folder[n] # "none" => folder[m] # folder[n]

\* Once the gateway of the current run has had the port nobody else gets it; and
\* if another has it by the time the run goes on, its own gateway never does.
PortInv ==
    /\ step \in WithGateway /\ gateway[run] \in {"listening", "gone"} =>
          Owners \subseteq {run} /\ \A n \in Runs : gateway[n] # "starting"
    /\ step \in {"warming", "settling", "loading"} /\ gateway[run] = "starting" => Owners # {}
    /\ step \in {"loading", "finishing"} =>
          served[run] \subseteq {run} \/ gateway[run] \in {"starting", "failed"}

WorkInv ==
    /\ step = "loading" => work \subseteq {run} \cup cut
    /\ step \in {"loading", "finishing"} => met[run] \subseteq {run} \cup cut

\* Between two runs of a pair no model server is started.
ServerInv ==
    /\ step \in {"loading", "finishing"} =>
          seen[run] \subseteq {0, servers} /\ (0 \in seen[run] => server = 0)
    /\ step = "closing" /\ run \in finished => servers # 0 /\ seen[run] \subseteq {servers}
    /\ ~Free => \A n \in LiveRuns : seen[n] \subseteq {servers}

FinishedInv ==
    /\ \A n \in finished :
          load[n] = "ended" /\ served[n] \subseteq {n} /\ met[n] \subseteq {n} \cup cut
    /\ step \notin {"idle", "closing"} => run \notin finished
    /\ \E s \in 1 .. MaxServers : \A n \in LiveRuns : seen[n] \subseteq {s}
    /\ \A mode \in Conditions : liveRuns[mode] # 0 => asked[liveRuns[mode]] = mode
    /\ Bundle \subseteq finished

Inv ==
    /\ TypeOK /\ TablesInv /\ ControlInv /\ UntouchedInv /\ OrderInv /\ LoadInv /\ ConfInv
    /\ PortInv /\ WorkInv /\ ServerInv /\ FinishedInv

-----------------------------------------------------------------------------
(* The configuration of a gateway *)

\* What a gateway of the demo is started with, whatever the kernel's
\* environment says.
LEMMA DemoMerged ==
    ASSUME NEW mode \in Conditions, NEW f
    PROVE  LET config == Merged(DemoFile(mode), GatewayEnv, Arguments(f))
           IN  /\ config = [key \in Settings |-> config[key]]
               /\ config.mode = Expected(mode) /\ config.run_id = f
               /\ config.global_max_inflight = MaxSeqs /\ config.fairshare = TRUE
  <1> DEFINE file == DemoFile(mode)
             base == ReadFile(file)
             inEnv == Over(GatewayEnv, base)
             config == Over(Arguments(f), inEnv)
  <1>1. /\ DOMAIN file = {"mode", "base_url", "global_max_inflight", "reserved_cheap_slots"}
        /\ file.mode = Expected(mode) /\ file.global_max_inflight = MaxSeqs
    BY DEF DemoFile
  <1>2. file.mode # Unquoted
    BY <1>1 DEF Expected, Unquoted
  <1>3. base = Over(file, Defaults)
    BY <1>2 DEF ReadFile
  <1>4. DOMAIN Defaults = Settings /\ Defaults.fairshare = TRUE
    BY DEF Defaults, Settings
  <1> HIDE DEF file
  <1>5. /\ DOMAIN base = Settings /\ base.mode = Expected(mode)
        /\ base.global_max_inflight = MaxSeqs /\ base.fairshare = TRUE
    <2>1. DOMAIN base = Settings
      BY <1>1, <1>3, <1>4 DEF Over, Settings
    <2>2. base["mode"] = file["mode"] /\ base["global_max_inflight"] = file["global_max_inflight"]
      BY <1>1, <1>3 DEF Over
    <2>3. base["fairshare"] = Defaults["fairshare"]
      <3>1. "fairshare" \in DOMAIN Defaults \ DOMAIN file
        BY <1>1, <1>4 DEF Settings
      <3> QED BY <1>3, <3>1 DEF Over
    <2> QED BY <1>1, <1>4, <2>1, <2>2, <2>3
  <1> HIDE DEF base
  <1>6. DOMAIN GatewayEnv = {}
    BY DemoAssumption DEF GatewayEnv
  <1>7. /\ DOMAIN inEnv = Settings /\ inEnv.mode = Expected(mode)
        /\ inEnv.global_max_inflight = MaxSeqs /\ inEnv.fairshare = TRUE
    BY <1>5, <1>6 DEF Over, Settings
  <1> HIDE DEF inEnv
  <1>8. DOMAIN Arguments(f) = {"base_url", "run_id"} /\ Arguments(f).run_id = f
    BY DEF Arguments
  <1>9. /\ DOMAIN config = Settings /\ config.mode = Expected(mode)
        /\ config.global_max_inflight = MaxSeqs /\ config.fairshare = TRUE /\ config.run_id = f
    <2>1. DOMAIN config = Settings
      BY <1>7, <1>8 DEF Over, Settings
    <2>2. config["run_id"] = Arguments(f)["run_id"]
      BY <1>8 DEF Over
    <2>3. \A key \in {"mode", "global_max_inflight", "fairshare"} : config[key] = inEnv[key]
      <3> SUFFICES ASSUME NEW key \in {"mode", "global_max_inflight", "fairshare"}
                   PROVE  config[key] = inEnv[key]
        OBVIOUS
      <3>1. key \in DOMAIN inEnv \ DOMAIN Arguments(f)
        BY <1>7, <1>8 DEF Settings
      <3> QED BY <3>1 DEF Over
    <2> QED BY <1>7, <1>8, <2>1, <2>2, <2>3
  <1>10. config = [key \in Settings |-> config[key]]
    BY <1>7, <1>8 DEF Over, Settings
  <1>11. config = Merged(DemoFile(mode), GatewayEnv, Arguments(f))
    BY DEF Merged, inEnv, base, file
  <1> QED BY <1>9, <1>10, <1>11

\* It has the mode of the run and what goes with it, the capacity of the model
\* server and the run's folder.
LEMMA DemoConfig ==
    ASSUME NEW mode \in Conditions, NEW f
    PROVE  LET config == LoadConfig(DemoFile(mode), GatewayEnv, Arguments(f))
           IN  /\ DOMAIN config = Settings /\ config.mode \in Modes
               /\ config.global_max_inflight = MaxSeqs /\ config.run_id = f
               /\ Enabled(config) =
                     (IF mode = "off" THEN {} ELSE {"rate_limit", "backpressure", "fairshare"})
               /\ Loads(DemoFile(mode), GatewayEnv, Arguments(f))
  <1> DEFINE merged == Merged(DemoFile(mode), GatewayEnv, Arguments(f))
             config == Settled(merged)
  <1>1. /\ merged = [key \in Settings |-> merged[key]]
        /\ merged.mode = Expected(mode) /\ merged.run_id = f
        /\ merged.global_max_inflight = MaxSeqs /\ merged.fairshare = TRUE
    BY DemoMerged
  <1>2. DOMAIN DemoFile(mode) \subseteq Settings /\ Expected(mode) \in Modes
    BY DEF DemoFile, Settings, Expected, Modes
  <1>3. Loads(DemoFile(mode), GatewayEnv, Arguments(f))
    BY <1>2, <1>1 DEF Loads, merged
  <1> HIDE DEF merged
  <1>4. /\ DOMAIN config = Settings /\ config.mode = Expected(mode)
        /\ config.global_max_inflight = MaxSeqs /\ config.run_id = f
    BY <1>1 DEF Settled, Settings
  <1>5. /\ config.rate_limit = (Expected(mode) # "off")
        /\ config.backpressure = (Expected(mode) \in {"ratelimit_queue", "full"})
        /\ config.fairshare = (Expected(mode) \in {"ratelimit_queue", "full"})
        /\ config.anomaly = (Expected(mode) = "full")
    BY <1>1 DEF Settled, Settings
  <1> HIDE DEF config
  <1>6. /\ config.mode \in Modes
        /\ Enabled(config) =
              (IF mode = "off" THEN {} ELSE {"rate_limit", "backpressure", "fairshare"})
    <2>1. CASE mode = "off"
      <3>1. Expected(mode) = "off"
        BY <2>1 DEF Expected
      <3>2. ~config["rate_limit"] /\ ~config["backpressure"] /\ ~config["fairshare"]
            /\ ~config["anomaly"]
        BY <1>5, <3>1
      <3> QED BY <1>4, <2>1, <3>1, <3>2 DEF Enabled, Modes
    <2>2. CASE mode = "on"
      <3>1. Expected(mode) = "ratelimit_queue"
        BY <2>2 DEF Expected
      <3>2. config["rate_limit"] /\ config["backpressure"] /\ config["fairshare"]
            /\ ~config["anomaly"]
        BY <1>5, <3>1
      <3> QED BY <1>4, <2>2, <3>1, <3>2 DEF Enabled, Modes
    <2> QED BY <2>1, <2>2 DEF Conditions
  <1>7. LoadConfig(DemoFile(mode), GatewayEnv, Arguments(f)) = config
    BY DEF LoadConfig, config, merged
  <1> QED BY <1>3, <1>4, <1>6, <1>7

-----------------------------------------------------------------------------
(* Where a run stands *)

\* Runs are numbered from 1; 0 is none.
LEMMA Bounds ==
    /\ MaxRuns \in Nat \ {0} /\ MaxRequests \in Nat \ {0} /\ MaxServers \in Nat \ {0}
    /\ Runs \subseteq Nat /\ 0 \notin Runs /\ \A n : n \in Runs <=> n \in 1 .. MaxRuns
  BY DemoAssumption DEF Runs

\* The runs that the cell has still to start.
LEMMA ToDo ==
    ASSUME todo \in {<<>>, <<"on">>, <<"off", "on">>}
    PROVE  /\ Len(todo) \in Nat
           /\ todo # <<>> => /\ Head(todo) \in Conditions /\ Len(Tail(todo)) = Len(todo) - 1
                             /\ Len(todo) > 0 /\ Tail(todo) \in {<<>>, <<"on">>}
  <1>1. CASE todo = <<>>
    BY <1>1
  <1>2. CASE todo = <<"on">>
    BY <1>2 DEF Conditions
  <1>3. CASE todo = <<"off", "on">>
    BY <1>3 DEF Conditions
  <1> QED BY <1>1, <1>2, <1>3

\* While a run is under way it is one of the runs, and it is the only one whose
\* gateway the notebook has.
LEMMA Current ==
    ASSUME TypeOK, ControlInv
    PROVE  /\ step # "idle" => run \in Runs /\ run \in Nat
           /\ handle # 0 => handle = run /\ step \in WithGateway
           /\ step \in WithGateway => handle = run /\ step # "idle"
           /\ run \in Nat
  <1>1. run \in 0 .. MaxRuns /\ run \in Nat
    BY Bounds DEF TypeOK
  <1>2. step # "idle" => run \in 1 .. MaxRuns
    BY <1>1, Bounds DEF ControlInv
  <1>3. step \in WithGateway => step # "idle"
    BY DEF WithGateway
  <1> QED BY <1>1, <1>2, <1>3, Bounds DEF ControlInv

\* stop_gateway ends the gateway of the current run, if it has one.
LEMMA Stopped ==
    ASSUME TypeOK, ControlInv, StopGateway
    PROVE  /\ handle' = 0
           /\ gateway' \in [Runs -> {"none", "starting", "listening", "failed", "gone"}]
           /\ \A n \in Runs : gateway'[n] # gateway[n] =>
                 n = run /\ step \in WithGateway /\ Alive(n) /\ gateway'[n] = "gone"
           /\ step \notin WithGateway => gateway' = gateway
           /\ step \in WithGateway => gateway'[run] \notin {"starting", "listening"}
  <1>1. gateway \in [Runs -> {"none", "starting", "listening", "failed", "gone"}]
    BY DEF TypeOK
  <1>2. gateway' = [n \in Runs |-> IF n = handle /\ Alive(n) THEN "gone" ELSE gateway[n]]
    BY DEF StopGateway
  <1>3. CASE step \in WithGateway
    <2>1. run \in Runs /\ handle = run
      BY <1>3, Current
    <2> QED BY <1>1, <1>2, <1>3, <2>1 DEF StopGateway, Alive
  <1>4. CASE step \notin WithGateway
    <2>1. \A n \in Runs : n # handle
      BY <1>4, Bounds DEF ControlInv
    <2> QED BY <1>1, <1>2, <1>4, <2>1 DEF StopGateway
  <1> QED BY <1>3, <1>4

\* Nothing has begun.
LEMMA InitGivesInv == Init => Inv
  <1> SUFFICES ASSUME Init PROVE Inv
    OBVIOUS
  <1>1. LiveRuns = {} /\ Bundle = {}
    BY DEF Init, LiveRuns, Bundle, NoRuns
  <1>2. DOMAIN Defaults = Settings /\ Defaults.mode \in Modes
    BY DEF Defaults, Settings, Modes
  <1>3. TypeOK
    BY <1>1, <1>2, Bounds DEF Init, TypeOK, Steps
  <1>4. ControlInv /\ TablesInv
    BY Bounds DEF Init, ControlInv, TablesInv, WithGateway, NoRuns
  <1>5. UntouchedInv /\ OrderInv /\ LoadInv
    BY Bounds DEF Init, UntouchedInv, OrderInv, LoadInv, WithGateway
  <1>6. ConfInv /\ PortInv /\ WorkInv
    BY Bounds DEF Init, ConfInv, PortInv, WorkInv, WithGateway
  <1>7. ServerInv /\ FinishedInv
    <2>1. 1 \in 1 .. MaxServers
      BY Bounds
    <2> QED BY <1>1, <2>1 DEF Init, ServerInv, FinishedInv, NoRuns, Free
  <1> QED BY <1>3, <1>4, <1>5, <1>6, <1>7 DEF Inv

-----------------------------------------------------------------------------
(* Each part of the invariant is kept *)

\* Where the notebook is.
LEMMA NextKeepsControl ==
    ASSUME TypeOK, ControlInv, Next
    PROVE  /\ ControlInv' /\ run' \in 0 .. MaxRuns /\ handle' \in 0 .. MaxRuns
           /\ todo' \in {<<>>, <<"on">>, <<"off", "on">>} /\ step' \in Steps
           /\ run' # run => step' = "stopping" /\ run' = run + 1 /\ run' \in Runs
  <1>1. /\ run \in 0 .. MaxRuns /\ run \in Nat /\ handle \in 0 .. MaxRuns /\ MaxRuns \in Nat
        /\ todo \in {<<>>, <<"on">>, <<"off", "on">>} /\ step \in Steps
    BY Bounds DEF TypeOK
  <1>2. Len(<<>>) = 0 /\ Len(<<"off", "on">>) = 2
    OBVIOUS
  <1>3. CASE StartServer \/ DrawChart
    BY <1>1, <1>3 DEF StartServer, DrawChart, ControlInv, control, notebook
  <1>4. CASE StartPair
    BY <1>1, <1>2, <1>4 DEF StartPair, Free, ControlInv, control, NoRuns
  <1>5. CASE Begin
    <2>1. /\ run' = run + 1 /\ step' = "stopping" /\ todo' = Tail(todo) /\ handle' = handle
          /\ step = "idle" /\ todo # <<>> /\ liveRuns' = liveRuns
      BY <1>5 DEF Begin
    <2>2. /\ Len(todo') = Len(todo) - 1 /\ Len(todo) > 0 /\ Len(todo) \in Nat
          /\ todo' \in {<<>>, <<"on">>}
      BY <1>1, <2>1, ToDo
    <2>3. run' \in 1 .. MaxRuns
      BY <1>1, <2>1, <2>2 DEF ControlInv
    <2>4. run' + Len(todo') <= MaxRuns
      BY <1>1, <2>1, <2>2 DEF ControlInv
    <2>5. handle' = 0 /\ step' \notin WithGateway
      BY <2>1 DEF ControlInv, WithGateway
    <2>6. run' \in Runs /\ run' \in 0 .. MaxRuns /\ run' # 0
      BY <1>1, <2>3, Bounds
    <2>7. ControlInv'
      BY <2>1, <2>4, <2>5, <2>6 DEF ControlInv
    <2> QED BY <1>1, <2>1, <2>2, <2>5, <2>6, <2>7 DEF Steps
  <1>6. CASE StopOlder \/ Check \/ Launch \/ WaitReady \/ WarmUp \/ StartLoad \/ LoadOver
             \/ Finish \/ Raise
    BY <1>1, <1>6, Stopped DEF StopOlder, Check, Launch, WaitReady, WarmUp, StartLoad, LoadOver,
       Finish, Raise, ControlInv, control, notebook, WithGateway, Steps
  <1>7. CASE RaiseEarly
    BY <1>1, <1>2, <1>7 DEF RaiseEarly, ControlInv, WithGateway, Steps
  <1>8. CASE Close
    <2>1. liveRuns' \in [Conditions -> 0 .. MaxRuns]
      BY <1>1, <1>8 DEF Close, ControlInv
    <2> QED BY <1>1, <1>2, <1>8, <2>1, Stopped DEF Close, ControlInv, WithGateway, Steps
  <1>9. CASE Restart
    <2>1. liveRuns' \in [Conditions -> 0 .. MaxRuns]
      BY <1>1, <1>9 DEF Restart, NoRuns
    <2> QED BY <1>1, <1>2, <1>9, <2>1 DEF Restart, ControlInv, WithGateway, Steps
  <1>10. CASE \/ ServerDies
              \/ \E n \in Runs : Bind(n) \/ GatewayEnds(n) \/ Send(n) \/ Answered(n) \/ WorkDone(n)
                                 \/ LoadEnds(n) \/ LoadFails(n)
    BY <1>1, <1>10 DEF ServerDies, Bind, GatewayEnds, Send, Answered, WorkDone, LoadEnds, LoadFails,
       ControlInv, control, notebook
  <1> QED BY <1>3, <1>4, <1>5, <1>6, <1>7, <1>8, <1>9, <1>10 DEF Next, Proceed

\* What the variables are, except for Bundle, which has no more than finished runs.
Typed ==
    /\ server \in {0, servers} /\ servers \in 0 .. MaxServers
    /\ asked \in [Runs -> {"off", "on"}] /\ folder \in [Runs -> Folders \cup {"none"}]
    /\ gateway \in [Runs -> {"none", "starting", "listening", "failed", "gone"}]
    /\ load \in [Runs -> {"none", "running", "ended", "failed", "killed"}]
    /\ \A n \in Runs : DOMAIN conf[n] = Settings /\ conf[n].mode \in Modes
    /\ attempts \in [Runs -> 0 .. MaxRequests] /\ results \in [Runs -> 0 .. MaxRequests]
    /\ work \subseteq Runs /\ finished \subseteq Runs /\ cut \subseteq Runs

\* The new folder of a run is the folder of no other.
LEMMA Chosen ==
    ASSUME TypeOK, ControlInv, UntouchedInv, Check
    PROVE  /\ folder'[run] \in Folders /\ folder'[run] # "none"
           /\ \A n \in Runs \ {run} : folder'[n] = folder[n] /\ folder[n] # folder'[run]
  <1> DEFINE new == CHOOSE f \in Folders : NewFolder(f)
  <1>1. new \in Folders /\ NewFolder(new)
    BY DEF Check
  <1> HIDE DEF new
  <1>2. folder' = [folder EXCEPT ![run] = new] /\ step = "checking"
    BY DEF Check, new
  <1>3. run \in Runs /\ folder \in [Runs -> Folders \cup {"none"}]
    BY <1>2, Current DEF TypeOK
  <1>4. folder[run] = "none"
    BY <1>2, <1>3 DEF UntouchedInv, Ahead
  <1> QED BY <1>1, <1>2, <1>3, <1>4 DEF NewFolder

\* A gateway of the demo always gets a configuration.
LEMMA Launched ==
    ASSUME TypeOK, ControlInv, Launch
    PROVE  LET config == LoadConfig(DemoFile(asked[run]), GatewayEnv, Arguments(folder[run]))
           IN  /\ run \in Runs /\ step = "launching" /\ asked[run] \in Conditions
               /\ conf' = [conf EXCEPT ![run] = config]
               /\ gateway' = [gateway EXCEPT ![run] = "starting"]
  <1>1. step = "launching"
    BY DEF Launch
  <1>2. run \in Runs
    BY <1>1, Current
  <1>3. asked[run] \in Conditions
    BY <1>2 DEF TypeOK, Conditions
  <1>4. Loads(DemoFile(asked[run]), GatewayEnv, Arguments(folder[run]))
    BY <1>3, DemoConfig
  <1> QED BY <1>1, <1>2, <1>3, <1>4 DEF Launch

\* Each table has a place for each run.
LEMMA NextKeepsTables == TablesInv /\ Next => TablesInv'
  <1> SUFFICES ASSUME TablesInv, Next PROVE TablesInv'
    OBVIOUS
  <1>1. CASE \/ StartServer \/ StartPair \/ DrawChart \/ Begin \/ Proceed \/ Restart \/ ServerDies
             \/ \E n \in Runs : \/ Bind(n) \/ GatewayEnds(n) \/ Answered(n) \/ WorkDone(n)
                               \/ LoadEnds(n) \/ LoadFails(n)
    BY <1>1 DEF TablesInv, StartServer, StartPair, DrawChart, Begin, Proceed, StopOlder, Check, Launch,
       WaitReady, WarmUp, StartLoad, LoadOver, Finish, RaiseEarly, Raise, Close, Restart, ServerDies,
       Bind, GatewayEnds, Answered, WorkDone, LoadEnds, LoadFails, processes, traffic
  <1>2. CASE \E n \in Runs : Send(n)
    BY <1>2 DEF TablesInv, Send, Meets, processes
  <1> QED BY <1>1, <1>2 DEF Next

\* Servers, folders, processes and traffic keep their types.
LEMMA NextKeepsTypes ==
    ASSUME TypeOK, TablesInv, ControlInv, UntouchedInv, LoadInv, Next
    PROVE  Typed'
  <1>1. Typed /\ MaxRequests \in Nat /\ MaxServers \in Nat /\ run \in Nat
    BY Bounds, Current DEF TypeOK, Typed
  <1>2. CASE StartServer
    BY <1>1, <1>2 DEF StartServer, Typed, control, processes, traffic, outcome
  <1>3. CASE StartPair \/ DrawChart \/ WaitReady \/ WarmUp \/ LoadOver \/ RaiseEarly
    BY <1>1, <1>3 DEF StartPair, DrawChart, WaitReady, WarmUp, LoadOver, RaiseEarly, Typed,
       modelServer, control, processes, traffic, outcome
  <1>4. CASE Begin
    <2>1. Head(todo) \in {"off", "on"}
      BY <1>4, ToDo DEF Begin, TypeOK, Conditions
    <2> QED BY <1>1, <1>4, <2>1 DEF Begin, Typed, modelServer, processes, traffic, outcome
  <1>5. CASE StopOlder \/ Close
    BY <1>1, <1>5, Stopped DEF StopOlder, Close, Typed, modelServer, traffic, outcome
  <1>6. CASE Check
    <2>1. folder' \in [Runs -> Folders \cup {"none"}]
      BY <1>1, <1>6, Chosen DEF Check, Typed
    <2> QED BY <1>1, <1>6, <2>1 DEF Check, Typed, modelServer, processes, traffic, outcome
  <1>7. CASE Launch
    <2> DEFINE config == LoadConfig(DemoFile(asked[run]), GatewayEnv, Arguments(folder[run]))
    <2>1. /\ run \in Runs /\ asked[run] \in Conditions /\ conf' = [conf EXCEPT ![run] = config]
          /\ gateway' = [gateway EXCEPT ![run] = "starting"]
      BY <1>7, Launched
    <2>2. DOMAIN config = Settings /\ config.mode \in Modes
      BY <2>1, DemoConfig
    <2> HIDE DEF config
    <2>3. \A n \in Runs : DOMAIN conf'[n] = Settings /\ conf'[n].mode \in Modes
      BY <1>1, <2>1, <2>2 DEF Typed, TablesInv
    <2>4. gateway' \in [Runs -> {"none", "starting", "listening", "failed", "gone"}]
      BY <1>1, <2>1 DEF Typed
    <2> QED BY <1>1, <1>7, <2>3, <2>4 DEF Launch, Typed, modelServer, traffic, outcome
  <1>8. CASE StartLoad \/ Raise
    BY <1>1, <1>8 DEF StartLoad, Raise, Typed, modelServer, traffic, outcome
  <1>9. CASE Finish
    <2>1. run \in Runs
      BY <1>9, Current DEF Finish
    <2> QED BY <1>1, <1>9, <2>1 DEF Finish, Typed, modelServer, processes, traffic
  <1>10. CASE Restart
    <2>1. cut' \subseteq Runs
      BY <1>1, <1>10, Current DEF Restart, Typed
    <2> QED BY <1>1, <1>10, <2>1 DEF Restart, Typed, modelServer, processes, traffic
  <1>11. CASE ServerDies
    BY <1>1, <1>11 DEF ServerDies, Typed, control, processes, outcome
  <1>12. ASSUME NEW n \in Runs, Bind(n) \/ GatewayEnds(n)
         PROVE  Typed'
    BY <1>1, <1>12 DEF Bind, GatewayEnds, Typed, modelServer, control, traffic, outcome
  <1>13. ASSUME NEW n \in Runs, Send(n)
         PROVE  Typed'
    <2>1. attempts' \in [Runs -> 0 .. MaxRequests]
      BY <1>1, <1>13 DEF Send, Typed
    <2>2. results' \in [Runs -> 0 .. MaxRequests] /\ work' \subseteq Runs
      BY <1>1, <1>13 DEF Send, Typed, LoadInv
    <2> QED BY <1>1, <1>13, <2>1, <2>2 DEF Send, Typed, modelServer, control, processes, outcome
  <1>14. ASSUME NEW n \in Runs, Answered(n)
         PROVE  Typed'
    BY <1>1, <1>14 DEF Answered, Typed, modelServer, control, processes, outcome
  <1>15. ASSUME NEW n \in Runs, WorkDone(n)
         PROVE  Typed'
    BY <1>1, <1>15 DEF WorkDone, Typed, modelServer, control, processes, outcome
  <1>16. ASSUME NEW n \in Runs, LoadEnds(n) \/ LoadFails(n)
         PROVE  Typed'
    BY <1>1, <1>16 DEF LoadEnds, LoadFails, Typed, modelServer, control, traffic, outcome
  <1> QED BY <1>2, <1>3, <1>4, <1>5, <1>6, <1>7, <1>8, <1>9, <1>10, <1>11, <1>12, <1>13, <1>14,
             <1>15, <1>16 DEF Next, Proceed

\* A step touches only the current run, or what has begun already.
LEMMA NextKeepsUntouched ==
    ASSUME Inv, Next
    PROVE  UntouchedInv'
  <1>1. /\ TypeOK /\ TablesInv /\ ControlInv /\ UntouchedInv /\ OrderInv /\ LoadInv
        /\ run \in Nat /\ Runs \subseteq Nat
    BY Bounds, Current DEF Inv
  <1>2. CASE StartServer \/ StartPair \/ DrawChart \/ ServerDies
    BY <1>1, <1>2 DEF StartServer, StartPair, DrawChart, ServerDies, UntouchedInv, Ahead, control,
       processes, traffic
  <1>3. CASE Begin
    <2>1. run' = run + 1 /\ step' = "stopping"
      BY <1>3 DEF Begin
    <2>2. ASSUME NEW n \in Runs, NEW steps, Ahead(n, steps)'
          PROVE  Ahead(n, steps)
      BY <1>1, <2>1, <2>2 DEF Ahead
    <2> QED BY <1>1, <1>3, <2>2 DEF Begin, UntouchedInv, processes, traffic
  <1>4. CASE WaitReady \/ WarmUp \/ LoadOver \/ Finish \/ RaiseEarly \/ Restart
    BY <1>1, <1>4 DEF WaitReady, WarmUp, LoadOver, Finish, RaiseEarly, Restart, UntouchedInv, Ahead,
       processes, traffic
  <1>5. CASE StopOlder \/ Close
    BY <1>1, <1>5, Stopped DEF StopOlder, Close, UntouchedInv, Ahead, traffic, WithGateway
  <1>6. CASE Check
    BY <1>1, <1>6, Chosen DEF Check, UntouchedInv, Ahead, processes, traffic
  <1>7. CASE Launch
    <2>1. run \in Runs /\ step = "launching" /\ gateway' = [gateway EXCEPT ![run] = "starting"]
      BY <1>1, <1>7, Launched
    <2> QED BY <1>1, <1>7, <2>1 DEF Launch, UntouchedInv, Ahead, traffic, TypeOK
  <1>8. CASE StartLoad \/ Raise
    BY <1>1, <1>8 DEF StartLoad, Raise, UntouchedInv, Ahead, traffic, TypeOK
  <1>9. ASSUME NEW n \in Runs, Bind(n) \/ GatewayEnds(n)
        PROVE  UntouchedInv'
    BY <1>1, <1>9 DEF Bind, GatewayEnds, Alive, UntouchedInv, Ahead, control, traffic, TypeOK
  <1>10. ASSUME NEW n \in Runs, Send(n) \/ Answered(n) \/ LoadEnds(n) \/ LoadFails(n)
         PROVE  UntouchedInv'
    <2>1. load[n] = "running" /\ load'[n] # "none" /\ UNCHANGED <<run, step, folder, gateway>>
      BY <1>1, <1>10 DEF Send, Answered, LoadEnds, LoadFails, control, processes, TypeOK
    <2>2. \A k \in Runs \ {n} : /\ load'[k] = load[k] /\ attempts'[k] = attempts[k]
                               /\ results'[k] = results[k] /\ served'[k] = served[k]
                               /\ seen'[k] = seen[k]
      BY <1>1, <1>10 DEF Send, Answered, LoadEnds, LoadFails, processes, traffic, TypeOK, TablesInv
    <2>3. \A k \in Runs \ {n} : load[k] # "running" => met'[k] = met[k]
      BY <1>1, <1>10 DEF Send, Answered, LoadEnds, LoadFails, traffic, Meets
    <2> QED BY <1>1, <2>1, <2>2, <2>3 DEF UntouchedInv, Ahead
  <1>11. ASSUME NEW n \in Runs, WorkDone(n)
         PROVE  UntouchedInv'
    BY <1>1, <1>11 DEF WorkDone, UntouchedInv, Ahead, control, processes
  <1> QED BY <1>2, <1>3, <1>4, <1>5, <1>6, <1>7, <1>8, <1>9, <1>10, <1>11 DEF Next, Proceed

\* No step of a run comes before what it needs.
LEMMA NextKeepsOrder ==
    ASSUME Inv, Next
    PROVE  OrderInv'
  <1>1. /\ TypeOK /\ TablesInv /\ ControlInv /\ UntouchedInv /\ OrderInv /\ LoadInv
        /\ run \in Nat /\ Runs \subseteq Nat
    BY Bounds, Current DEF Inv
  <1>2. CASE StartServer \/ StartPair \/ DrawChart \/ ServerDies
    BY <1>1, <1>2 DEF StartServer, StartPair, DrawChart, ServerDies, OrderInv, control, processes
  <1>3. CASE Begin \/ RaiseEarly \/ Restart
    BY <1>1, <1>3 DEF Begin, RaiseEarly, Restart, OrderInv, WithGateway, processes
  <1>4. CASE WaitReady \/ WarmUp \/ LoadOver \/ Finish
    BY <1>1, <1>4 DEF WaitReady, WarmUp, LoadOver, Finish, OrderInv, WithGateway, processes
  <1>5. CASE StopOlder \/ Close
    BY <1>1, <1>5, Stopped DEF StopOlder, Close, OrderInv, Alive, WithGateway
  <1>6. CASE Check
    BY <1>1, <1>6, Chosen DEF Check, OrderInv, WithGateway, processes
  <1>7. CASE Launch
    <2>1. run \in Runs /\ step = "launching" /\ gateway' = [gateway EXCEPT ![run] = "starting"]
      BY <1>1, <1>7, Launched
    <2> QED BY <1>1, <1>7, <2>1 DEF Launch, OrderInv, UntouchedInv, Ahead, WithGateway, TypeOK
  <1>8. CASE StartLoad \/ Raise
    BY <1>1, <1>8, Current DEF StartLoad, Raise, OrderInv, WithGateway, TypeOK
  <1>9. ASSUME NEW n \in Runs, Bind(n) \/ GatewayEnds(n)
        PROVE  OrderInv'
    <2>1. /\ \A k \in Runs \ {n} : gateway'[k] = gateway[k]
          /\ gateway[n] \in {"starting", "listening"}
          /\ gateway'[n] = "failed" => gateway[n] = "starting"
          /\ gateway'[n] \in {"listening", "failed", "gone"}
      BY <1>1, <1>9 DEF Bind, GatewayEnds, Alive, TypeOK
    <2>2. UNCHANGED <<step, run, folder, load>>
      BY <1>9 DEF Bind, GatewayEnds, control
    <2> QED BY <1>1, <2>1, <2>2, Current DEF OrderInv
  <1>10. ASSUME NEW n \in Runs, Send(n) \/ Answered(n) \/ WorkDone(n)
         PROVE  OrderInv'
    BY <1>1, <1>10 DEF Send, Answered, WorkDone, OrderInv, control, processes
  <1>11. ASSUME NEW n \in Runs, LoadEnds(n) \/ LoadFails(n)
         PROVE  OrderInv'
    <2>1. /\ \A k \in Runs \ {n} : load'[k] = load[k]
          /\ load[n] = "running"
          /\ load'[n] = "ended" => gateway[n] \notin {"starting", "failed"}
          /\ load'[n] \in {"ended", "failed"}
      BY <1>1, <1>11 DEF LoadEnds, LoadFails, TypeOK
    <2>2. UNCHANGED <<step, run, folder, gateway>>
      BY <1>11 DEF LoadEnds, LoadFails, control
    <2>3. gateway[n] # "none" /\ gateway[n] \in {"none", "starting", "listening", "failed", "gone"}
      BY <1>1, <2>1 DEF OrderInv, TypeOK
    <2> QED BY <1>1, <2>1, <2>2, <2>3, Current DEF OrderInv
  <1> QED BY <1>2, <1>3, <1>4, <1>5, <1>6, <1>7, <1>8, <1>9, <1>10, <1>11 DEF Next, Proceed

\* A load that is not the current one was cut off, and none logs a result twice.
LEMMA NextKeepsLoad ==
    ASSUME Inv, Next
    PROVE  LoadInv'
  <1>1. /\ TypeOK /\ TablesInv /\ ControlInv /\ UntouchedInv /\ OrderInv /\ LoadInv
        /\ \A n \in Runs : attempts[n] \in Nat /\ results[n] \in Nat
    <2>1. TypeOK /\ TablesInv /\ ControlInv /\ UntouchedInv /\ OrderInv /\ LoadInv
      BY DEF Inv
    <2>2. attempts \in [Runs -> 0 .. MaxRequests] /\ results \in [Runs -> 0 .. MaxRequests]
      BY <2>1 DEF TypeOK
    <2> QED BY <2>1, <2>2, Bounds
  <1>2. CASE StartServer \/ StartPair \/ DrawChart \/ ServerDies
    BY <1>1, <1>2 DEF StartServer, StartPair, DrawChart, ServerDies, LoadInv, control, processes,
       traffic, outcome
  <1>3. CASE Begin \/ RaiseEarly \/ StopOlder \/ Check \/ Launch \/ WaitReady \/ WarmUp \/ Finish \/ Close
    BY <1>1, <1>3 DEF Begin, RaiseEarly, StopOlder, Check, Launch, WaitReady, WarmUp, Finish, Close,
       LoadInv, processes, traffic, outcome
  <1>4. CASE LoadOver
    BY <1>1, <1>4 DEF LoadOver, LoadInv, processes, traffic, outcome
  <1>5. CASE StartLoad \/ Raise
    BY <1>1, <1>5, Current DEF StartLoad, Raise, LoadInv, traffic, outcome, TypeOK
  <1>6. CASE Restart
    BY <1>1, <1>6 DEF Restart, LoadInv, processes, traffic
  <1>7. ASSUME NEW n \in Runs, Bind(n) \/ GatewayEnds(n) \/ WorkDone(n)
        PROVE  LoadInv'
    BY <1>1, <1>7 DEF Bind, GatewayEnds, WorkDone, LoadInv, control, processes, traffic, outcome
  <1>8. ASSUME NEW n \in Runs, Send(n)
        PROVE  LoadInv'
    BY <1>1, <1>8 DEF Send, LoadInv, control, processes, outcome, TypeOK
  <1>9. ASSUME NEW n \in Runs, Answered(n)
        PROVE  LoadInv'
    BY <1>1, <1>9 DEF Answered, LoadInv, control, processes, outcome, TypeOK
  <1>10. ASSUME NEW n \in Runs, LoadEnds(n) \/ LoadFails(n)
         PROVE  LoadInv'
    BY <1>1, <1>10 DEF LoadEnds, LoadFails, LoadInv, control, traffic, outcome, TypeOK
  <1> QED BY <1>2, <1>3, <1>4, <1>5, <1>6, <1>7, <1>8, <1>9, <1>10 DEF Next, Proceed

\* The configuration of a gateway and the name of its folder are never changed.
LEMMA NextKeepsConf ==
    ASSUME Inv, Next
    PROVE  ConfInv'
  <1>1. /\ TypeOK /\ TablesInv /\ ControlInv /\ UntouchedInv /\ OrderInv /\ ConfInv
        /\ run \in Nat /\ Runs \subseteq Nat
    BY Bounds, Current DEF Inv
  <1>2. CASE \/ StartServer \/ StartPair \/ DrawChart \/ ServerDies \/ RaiseEarly \/ Restart
             \/ WaitReady \/ WarmUp \/ LoadOver \/ Finish
    BY <1>1, <1>2 DEF StartServer, StartPair, DrawChart, ServerDies, RaiseEarly, Restart, WaitReady,
       WarmUp, LoadOver, Finish, ConfInv, control, processes
  <1>3. CASE Begin
    <2>1. run' = run + 1 /\ run' \in Runs
      BY <1>1, <1>3, NextKeepsControl DEF Begin
    <2>2. gateway[run + 1] = "none" /\ \A n \in Runs \ {run + 1} : asked'[n] = asked[n]
      BY <1>1, <1>3, <2>1 DEF Begin, UntouchedInv, Ahead, TypeOK
    <2>3. UNCHANGED <<gateway, conf, folder>>
      BY <1>3 DEF Begin, processes
    <2> QED BY <1>1, <2>1, <2>2, <2>3 DEF ConfInv
  <1>4. CASE StopOlder \/ Close
    <2>1. \A n \in Runs : gateway'[n] # gateway[n] => gateway[n] \in {"starting", "listening"}
      BY <1>1, <1>4, Stopped DEF StopOlder, Close, Alive
    <2>2. UNCHANGED <<conf, folder, asked>>
      BY <1>4 DEF StopOlder, Close
    <2> QED BY <1>1, <2>1, <2>2 DEF ConfInv
  <1>5. CASE Check
    <2>1. run \in Runs /\ gateway[run] = "none"
      BY <1>1, <1>5, Current DEF Check, UntouchedInv, Ahead
    <2>2. UNCHANGED <<gateway, conf, asked>>
      BY <1>5 DEF Check, processes
    <2>3. /\ folder'[run] # "none"
          /\ \A n \in Runs \ {run} : folder'[n] = folder[n] /\ folder[n] # folder'[run]
      BY <1>1, <1>5, Chosen
    <2> QED BY <1>1, <2>1, <2>2, <2>3 DEF ConfInv
  <1>6. CASE Launch
    <2> DEFINE config == LoadConfig(DemoFile(asked[run]), GatewayEnv, Arguments(folder[run]))
    <2>1. /\ run \in Runs /\ asked[run] \in Conditions /\ conf' = [conf EXCEPT ![run] = config]
          /\ gateway' = [gateway EXCEPT ![run] = "starting"]
      BY <1>1, <1>6, Launched
    <2>2. /\ config.global_max_inflight = MaxSeqs /\ config.run_id = folder[run]
          /\ Enabled(config) =
                (IF asked[run] = "off" THEN {} ELSE {"rate_limit", "backpressure", "fairshare"})
      BY <2>1, DemoConfig
    <2> HIDE DEF config
    <2>3. conf'[run] = config /\ \A n \in Runs \ {run} : conf'[n] = conf[n] /\ gateway'[n] = gateway[n]
      BY <1>1, <2>1 DEF TypeOK, TablesInv
    <2>4. UNCHANGED <<folder, asked>>
      BY <1>6 DEF Launch
    <2>5. ASSUME NEW n \in Runs, gateway'[n] \in {"starting", "listening", "gone"}
          PROVE  /\ conf'[n].global_max_inflight = MaxSeqs /\ conf'[n].run_id = folder[n]
                 /\ Enabled(conf'[n]) =
                       (IF asked[n] = "off" THEN {} ELSE {"rate_limit", "backpressure", "fairshare"})
      <3>1. CASE n = run
        BY <2>2, <2>3, <3>1
      <3>2. CASE n # run
        BY <1>1, <2>3, <2>5, <3>2 DEF ConfInv
      <3> QED BY <3>1, <3>2
    <2> QED BY <1>1, <2>4, <2>5 DEF ConfInv
  <1>7. CASE StartLoad \/ Raise
    BY <1>1, <1>7 DEF StartLoad, Raise, ConfInv
  <1>8. ASSUME NEW n \in Runs, Bind(n) \/ GatewayEnds(n)
        PROVE  ConfInv'
    <2>1. /\ \A k \in Runs \ {n} : gateway'[k] = gateway[k]
          /\ gateway[n] \in {"starting", "listening"}
      BY <1>1, <1>8 DEF Bind, GatewayEnds, Alive, TypeOK
    <2>2. UNCHANGED <<conf, folder, asked>>
      BY <1>8 DEF Bind, GatewayEnds, control
    <2> QED BY <1>1, <2>1, <2>2 DEF ConfInv
  <1>9. ASSUME NEW n \in Runs, \/ Send(n) \/ Answered(n) \/ WorkDone(n) \/ LoadEnds(n) \/ LoadFails(n)
        PROVE  ConfInv'
    BY <1>1, <1>9 DEF Send, Answered, WorkDone, LoadEnds, LoadFails, ConfInv, control, processes
  <1> QED BY <1>2, <1>3, <1>4, <1>5, <1>6, <1>7, <1>8, <1>9 DEF Next, Proceed

\* Gateways start in their order: the current one is the last to take the port.
LEMMA NextKeepsPort ==
    ASSUME Inv, Next
    PROVE  PortInv'
  <1>1. /\ TypeOK /\ TablesInv /\ ControlInv /\ UntouchedInv /\ OrderInv /\ LoadInv /\ PortInv
        /\ run \in Nat /\ Runs \subseteq Nat
        /\ gateway \in [Runs -> {"none", "starting", "listening", "failed", "gone"}]
    BY Bounds, Current DEF Inv, TypeOK
  <1>2. CASE StartServer \/ StartPair \/ DrawChart \/ ServerDies
    BY <1>1, <1>2 DEF StartServer, StartPair, DrawChart, ServerDies, PortInv, Owners, control,
       processes, traffic
  <1>3. CASE Begin \/ StopOlder \/ Check \/ RaiseEarly \/ Close \/ Restart
    BY <1>3 DEF Begin, StopOlder, Check, RaiseEarly, Close, Restart, PortInv, WithGateway
  <1>4. CASE Launch
    <2>1. gateway'[run] = "starting" /\ step' = "waiting" /\ run' = run
      BY <1>1, <1>4, Launched DEF Launch
    <2> QED BY <2>1 DEF PortInv
  <1>5. CASE WaitReady \/ WarmUp
    BY <1>1, <1>5 DEF WaitReady, WarmUp, PortInv, Owners, WithGateway, processes
  <1>6. CASE StartLoad
    <2>1. served[run] = {}
      BY <1>1, <1>6, Current DEF StartLoad, UntouchedInv, Ahead
    <2> QED BY <1>1, <1>6, <2>1 DEF StartLoad, PortInv, Owners, WithGateway, traffic
  <1>7. CASE LoadOver \/ Finish \/ Raise
    BY <1>1, <1>7 DEF LoadOver, Finish, Raise, PortInv, Owners, WithGateway, processes, traffic
  <1>8. ASSUME NEW n \in Runs, Bind(n), step \in WithGateway
        PROVE  PortInv'
    <2>1. UNCHANGED <<step, run, served>> /\ run \in Runs
      BY <1>1, <1>8, Current DEF Bind, control, traffic
    <2>2. \A m \in Runs : m > run => gateway[m] = "none"
      BY <1>1 DEF UntouchedInv, Ahead
    <2>3. gateway[n] = "starting" /\ \A m \in Runs : m < n => gateway[m] # "starting"
      BY <1>1, <1>8, Bounds DEF Bind, Runs
    <2>4. n <= run
      BY <1>1, <2>1, <2>2, <2>3
    <2>5. CASE Owners = {}
      <3>1. gateway' = [gateway EXCEPT ![n] = "listening"] /\ Owners' = {n}
        BY <1>1, <1>8, <2>5 DEF Bind, Owners
      <3>2. gateway[run] \notin {"listening", "gone"}
        BY <1>1, <1>8, <2>3 DEF PortInv
      <3>3. CASE n = run
        <4>1. \A m \in Runs : gateway'[m] # "starting"
          BY <1>1, <2>1, <2>2, <2>3, <3>1, <3>3
        <4>2. step \notin {"warming", "settling", "loading", "finishing"}
          BY <1>1, <2>1, <2>3, <2>5, <3>3 DEF PortInv, OrderInv
        <4> QED BY <2>1, <3>1, <3>3, <4>1, <4>2 DEF PortInv
      <3>4. CASE n # run
        BY <1>1, <2>1, <3>1, <3>2, <3>4 DEF PortInv
      <3> QED BY <3>3, <3>4
    <2>6. CASE Owners # {}
      <3>1. gateway' = [gateway EXCEPT ![n] = "failed"] /\ Owners' = Owners
        BY <1>1, <1>8, <2>3, <2>6 DEF Bind, Owners
      <3> QED BY <1>1, <2>1, <2>3, <2>6, <3>1 DEF PortInv
    <2> QED BY <2>5, <2>6
  <1>9. ASSUME NEW n \in Runs, GatewayEnds(n), step \in WithGateway
        PROVE  PortInv'
    <2>1. UNCHANGED <<step, run, served>> /\ run \in Runs /\ n = run
      BY <1>1, <1>9, Current DEF GatewayEnds, control, traffic, WithGateway
    <2>2. /\ \/ gateway[run] = "starting" /\ gateway'[run] = "failed"
             \/ gateway[run] = "listening" /\ gateway'[run] = "gone"
          /\ \A m \in Runs \ {run} : gateway'[m] = gateway[m]
      BY <1>1, <1>9, <2>1 DEF GatewayEnds, Alive
    <2>3. Owners' = Owners \ {run}
      BY <2>1, <2>2 DEF Owners
    <2> QED BY <1>1, <1>9, <2>1, <2>2, <2>3 DEF PortInv
  <1>10. ASSUME NEW n \in Runs, Bind(n) \/ GatewayEnds(n), step \notin WithGateway
         PROVE  PortInv'
    BY <1>10 DEF Bind, GatewayEnds, control, PortInv, WithGateway
  <1>11. ASSUME NEW n \in Runs, Send(n)
         PROVE  PortInv'
    <2>1. UNCHANGED <<step, run, gateway>> /\ Owners' = Owners
      BY <1>11 DEF Send, control, processes, Owners
    <2>2. ASSUME step \in {"loading", "finishing"}
          PROVE  served'[run] \subseteq {run} \/ gateway[run] \in {"starting", "failed"}
      <3>1. run \in Runs /\ gateway[run] # "none" /\ step \in WithGateway
        BY <1>1, <2>2, Current DEF OrderInv, WithGateway
      <3>2. served'[run] \subseteq served[run] \cup Owners
        BY <1>1, <1>11, <3>1 DEF Send, TablesInv
      <3> QED BY <1>1, <2>2, <3>1, <3>2 DEF PortInv
    <2> QED BY <1>1, <2>1, <2>2 DEF PortInv
  <1>12. ASSUME NEW n \in Runs, Answered(n) \/ WorkDone(n) \/ LoadEnds(n) \/ LoadFails(n)
         PROVE  PortInv'
    BY <1>1, <1>12 DEF Answered, WorkDone, LoadEnds, LoadFails, PortInv, Owners, control, processes,
       traffic
  <1> QED BY <1>2, <1>3, <1>4, <1>5, <1>6, <1>7, <1>8, <1>9, <1>10, <1>11, <1>12 DEF Next, Proceed

\* The model server had nothing to do when the load began.
LEMMA NextKeepsWork ==
    ASSUME Inv, Next
    PROVE  WorkInv'
  <1>1. TypeOK /\ TablesInv /\ ControlInv /\ UntouchedInv /\ OrderInv /\ LoadInv /\ WorkInv
    BY DEF Inv
  <1>2. CASE StartServer \/ StartPair \/ DrawChart
    BY <1>1, <1>2 DEF StartServer, StartPair, DrawChart, WorkInv, control, traffic, outcome
  <1>3. CASE \/ Begin \/ StopOlder \/ Check \/ Launch \/ WaitReady \/ WarmUp \/ Finish \/ RaiseEarly
             \/ Raise \/ Close \/ Restart
    BY <1>3 DEF Begin, StopOlder, Check, Launch, WaitReady, WarmUp, Finish, RaiseEarly, Raise, Close,
       Restart, WorkInv
  <1>4. CASE StartLoad
    <2>1. met[run] = {} /\ work = {}
      BY <1>1, <1>4, Current DEF StartLoad, UntouchedInv, Ahead, IdleBackend
    <2> QED BY <1>4, <2>1 DEF StartLoad, WorkInv, traffic
  <1>5. CASE LoadOver
    BY <1>1, <1>5 DEF LoadOver, WorkInv, traffic, outcome
  <1>6. CASE ServerDies
    BY <1>1, <1>6 DEF ServerDies, WorkInv, control, outcome
  <1>7. ASSUME NEW n \in Runs, Bind(n) \/ GatewayEnds(n) \/ Answered(n) \/ LoadEnds(n) \/ LoadFails(n)
        PROVE  WorkInv'
    BY <1>1, <1>7 DEF Bind, GatewayEnds, Answered, LoadEnds, LoadFails, WorkInv, control, traffic, outcome
  <1>8. ASSUME NEW n \in Runs, WorkDone(n)
        PROVE  WorkInv'
    BY <1>1, <1>8 DEF WorkDone, WorkInv, control, outcome
  <1>9. ASSUME NEW n \in Runs, Send(n)
        PROVE  WorkInv'
    <2>1. UNCHANGED <<step, run, cut>>
      BY <1>9 DEF Send, control, outcome
    <2>2. CASE UNCHANGED <<work, met>>
      BY <1>1, <2>1, <2>2 DEF WorkInv
    <2>3. CASE work' = work \cup {n} /\ Meets(work')
      <3>1. CASE step = "loading"
        <4>1. n \in {run} \cup cut
          BY <1>1, <1>9 DEF Send, LoadInv
        <4>2. work' \subseteq {run} \cup cut /\ run \in Runs
          BY <1>1, <2>3, <3>1, <4>1, Current DEF WorkInv
        <4>3. met'[run] \subseteq met[run] \cup work'
          BY <2>3, <4>2 DEF Meets
        <4> QED BY <1>1, <2>1, <3>1, <4>2, <4>3 DEF WorkInv
      <3>2. CASE step = "finishing"
        <4>1. run \in Runs /\ load[run] # "running"
          BY <1>1, <3>2, Current DEF OrderInv
        <4>2. met'[run] = met[run]
          BY <2>3, <4>1 DEF Meets
        <4> QED BY <1>1, <2>1, <3>2, <4>2 DEF WorkInv
      <3> QED BY <2>1, <3>1, <3>2 DEF WorkInv
    <2> QED BY <1>9, <2>2, <2>3 DEF Send
  <1> QED BY <1>2, <1>3, <1>4, <1>5, <1>6, <1>7, <1>8, <1>9 DEF Next, Proceed

\* All requests of a run, and of a pair, met the model server there is.
LEMMA NextKeepsServer ==
    ASSUME Inv, Next
    PROVE  ServerInv'
  <1>1. /\ TypeOK /\ TablesInv /\ ControlInv /\ UntouchedInv /\ OrderInv /\ LoadInv /\ ServerInv
        /\ FinishedInv /\ servers \in Nat /\ (server = 0 \/ server = servers)
    BY Bounds DEF Inv, TypeOK
  <1>2. LiveRuns \subseteq finished /\ \A n \in finished : load[n] = "ended"
    BY <1>1 DEF FinishedInv, Bundle
  <1>3. CASE StartServer
    BY <1>3 DEF StartServer, Free, ServerInv, control, notebook
  <1>4. CASE StartPair
    <2>1. LiveRuns' = {}
      BY <1>4 DEF StartPair, LiveRuns, NoRuns
    <2> QED BY <1>4, <2>1 DEF StartPair, Free, ServerInv, control
  <1>5. CASE DrawChart
    BY <1>5 DEF DrawChart, Free, ServerInv, control
  <1>6. CASE Restart
    BY <1>6 DEF Restart, Free, ServerInv
  <1>7. CASE Begin
    <2>1. ~Free /\ LiveRuns' = LiveRuns /\ step' = "stopping" /\ UNCHANGED <<seen, servers>>
      BY <1>7 DEF Begin, Free, LiveRuns, modelServer, traffic
    <2> QED BY <1>1, <2>1 DEF ServerInv
  <1>8. CASE StopOlder \/ Check \/ Launch \/ WaitReady \/ WarmUp
    <2>1. /\ ~Free /\ step' \in {"checking", "launching", "waiting", "warming", "settling"}
          /\ UNCHANGED <<liveRuns, seen, servers>>
      BY <1>8 DEF StopOlder, Check, Launch, WaitReady, WarmUp, Free, modelServer, traffic, notebook
    <2>2. LiveRuns' = LiveRuns
      BY <2>1 DEF LiveRuns
    <2> QED BY <1>1, <2>1, <2>2 DEF ServerInv
  <1>9. CASE StartLoad \/ LoadOver
    <2>1. /\ ~Free /\ step' \in {"loading", "finishing"}
          /\ UNCHANGED <<liveRuns, seen, server, servers, run>>
      BY <1>9 DEF StartLoad, LoadOver, Free, modelServer, traffic, notebook
    <2>2. LiveRuns' = LiveRuns
      BY <2>1 DEF LiveRuns
    <2>3. step = "settling" => seen[run] = {}
      BY <1>1, Current DEF UntouchedInv, Ahead
    <2>4. step \in {"settling", "loading"}
      BY <1>9 DEF StartLoad, LoadOver
    <2> QED BY <1>1, <2>1, <2>2, <2>3, <2>4 DEF ServerInv
  <1>10. CASE Finish
    <2>1. /\ step = "finishing" /\ step' = "closing" /\ server # 0
          /\ UNCHANGED <<liveRuns, seen, server, servers, run>>
      BY <1>10 DEF Finish, IdleBackend, modelServer, traffic, notebook
    <2>2. LiveRuns' = LiveRuns
      BY <2>1 DEF LiveRuns
    <2> QED BY <1>1, <2>1, <2>2 DEF ServerInv, Free
  <1>11. CASE RaiseEarly
    BY <1>11 DEF RaiseEarly, Free, ServerInv
  <1>12. CASE Raise
    <2>1. /\ ~Free /\ step \in {"waiting", "warming", "settling", "loading", "finishing"}
          /\ step' = "closing" /\ UNCHANGED <<liveRuns, seen, server, servers, run, finished>>
      BY <1>12 DEF Raise, Free, modelServer, traffic, notebook, outcome
    <2>2. LiveRuns' = LiveRuns
      BY <2>1 DEF LiveRuns
    <2>3. run \notin finished
      BY <1>1, <2>1 DEF FinishedInv
    <2> QED BY <1>1, <2>1, <2>2, <2>3 DEF ServerInv
  <1>13. CASE Close
    <2>1. ~Free /\ step = "closing" /\ step' = "idle" /\ UNCHANGED <<seen, servers, finished>>
      BY <1>13 DEF Close, Free, modelServer, traffic, outcome
    <2>2. CASE run \in finished
      <3>1. LiveRuns' \subseteq LiveRuns \cup {run}
        BY <1>1, <1>13, <2>2 DEF Close, LiveRuns, ControlInv
      <3> QED BY <1>1, <2>1, <2>2, <3>1 DEF ServerInv
    <2>3. CASE run \notin finished
      BY <1>13, <2>1, <2>3 DEF Close, ServerInv, Free
    <2> QED BY <2>2, <2>3
  <1>14. CASE ServerDies
    <2>1. server' = 0 /\ LiveRuns' = LiveRuns /\ UNCHANGED <<step, todo, run, seen, servers, finished>>
      BY <1>14 DEF ServerDies, LiveRuns, notebook, control, outcome
    <2> QED BY <1>1, <2>1 DEF ServerInv, Free
  <1>15. ASSUME NEW n \in Runs, \/ Bind(n) \/ GatewayEnds(n) \/ Answered(n) \/ WorkDone(n)
                                \/ LoadEnds(n) \/ LoadFails(n)
         PROVE  ServerInv'
    <2>1. LiveRuns' = LiveRuns /\ UNCHANGED <<step, todo, run, seen, server, servers, finished>>
      BY <1>15 DEF Bind, GatewayEnds, Answered, WorkDone, LoadEnds, LoadFails, LiveRuns, notebook,
         modelServer, control, traffic, outcome
    <2> QED BY <1>1, <2>1 DEF ServerInv, Free
  <1>16. ASSUME NEW n \in Runs, Send(n)
         PROVE  ServerInv'
    <2>1. LiveRuns' = LiveRuns /\ UNCHANGED <<step, todo, run, server, servers, finished>>
      BY <1>16 DEF Send, LiveRuns, notebook, modelServer, control, outcome
    <2>2. /\ \A k \in Runs \ {n} : seen'[k] = seen[k]
          /\ seen'[n] = seen[n] \cup {server}
      BY <1>1, <1>16 DEF Send, TablesInv
    <2>3. n \notin finished /\ finished \subseteq Runs
      BY <1>1, <1>2, <1>16 DEF Send, TypeOK
    <2>4. step # "idle" => run \in Runs
      BY <1>1, Current
    <2>5. \A k \in finished : seen'[k] = seen[k]
      BY <2>2, <2>3
    <2>6. step \in {"loading", "finishing"} =>
             seen'[run] \subseteq {0, servers} /\ (0 \in seen'[run] => server = 0)
      BY <1>1, <2>2, <2>4 DEF ServerInv
    <2> QED BY <1>1, <1>2, <2>1, <2>5, <2>6 DEF ServerInv, Free
  <1> QED BY <1>3, <1>4, <1>5, <1>6, <1>7, <1>8, <1>9, <1>10, <1>11, <1>12, <1>13, <1>14, <1>15,
             <1>16 DEF Next, Proceed

\* What a finished run has established stays; and a run that finishes has.
LEMMA NextKeepsFinished ==
    ASSUME Inv, Next
    PROVE  FinishedInv'
  <1>1. /\ TypeOK /\ TablesInv /\ ControlInv /\ UntouchedInv /\ OrderInv /\ LoadInv /\ PortInv
        /\ WorkInv /\ ServerInv /\ FinishedInv
    BY DEF Inv
  <1>2. /\ LiveRuns \subseteq finished /\ charted \subseteq finished /\ finished \subseteq Runs
        /\ cut \subseteq cut' /\ finished \subseteq finished'
    <2>1. LiveRuns \subseteq finished /\ charted \subseteq finished /\ finished \subseteq Runs
      BY <1>1 DEF FinishedInv, Bundle, TypeOK
    <2>2. cut \subseteq cut' /\ finished \subseteq finished'
      BY DEF Next, StartServer, StartPair, DrawChart, Begin, Proceed, StopOlder, Check, Launch, WaitReady,
         WarmUp, StartLoad, LoadOver, Finish, RaiseEarly, Raise, Close, Restart, ServerDies, Bind,
         GatewayEnds, Send, Answered, WorkDone, LoadEnds, LoadFails, outcome
    <2> QED BY <2>1, <2>2
  \* The record of a run that has finished is closed.
  <1>3. ASSUME NEW n \in finished
        PROVE  /\ load'[n] = "ended" /\ served'[n] = served[n] /\ met'[n] = met[n] /\ seen'[n] = seen[n]
               /\ asked'[n] = asked[n]
    <2>1. load[n] = "ended" /\ n \in Runs
      BY <1>1, <1>2 DEF FinishedInv
    <2>2. load'[n] = "ended"
      <3>1. step = "settling" => n # run
        BY <1>1, <2>1 DEF UntouchedInv, Ahead
      <3> QED BY <1>1, <2>1, <3>1 DEF Next, StartServer, StartPair, DrawChart, Begin, Proceed, StopOlder,
              Check, Launch, WaitReady, WarmUp, StartLoad, LoadOver, Finish, RaiseEarly, Raise, Close,
              Restart, ServerDies, Bind, GatewayEnds, Send, Answered, WorkDone, LoadEnds, LoadFails,
              processes, TypeOK
    <2>3. served'[n] = served[n] /\ met'[n] = met[n] /\ seen'[n] = seen[n]
      <3>1. CASE \E m \in Runs : Send(m)
        BY <1>1, <2>1, <3>1 DEF Send, Meets, TablesInv
      <3>2. CASE ~\E m \in Runs : Send(m)
        BY <3>2 DEF Next, StartServer, StartPair, DrawChart, Begin, Proceed, StopOlder, Check, Launch,
           WaitReady, WarmUp, StartLoad, LoadOver, Finish, RaiseEarly, Raise, Close, Restart,
           ServerDies, Bind, GatewayEnds, Answered, WorkDone, LoadEnds, LoadFails, traffic
      <3> QED BY <3>1, <3>2
    <2>4. asked'[n] = asked[n]
      <3>1. CASE Begin
        <4>1. n # run + 1
          BY <1>1, <2>1, Bounds, Current DEF UntouchedInv, Ahead
        <4> QED BY <1>1, <2>1, <3>1, <4>1 DEF Begin, TypeOK
      <3>2. CASE ~Begin
        BY <3>2 DEF Next, StartServer, StartPair, DrawChart, Proceed, StopOlder, Check, Launch,
           WaitReady, WarmUp, StartLoad, LoadOver, Finish, RaiseEarly, Raise, Close, Restart,
           ServerDies, Bind, GatewayEnds, Send, Answered, WorkDone, LoadEnds, LoadFails, control
      <3> QED BY <3>1, <3>2
    <2> QED BY <2>2, <2>3, <2>4
  <1>4. ASSUME NEW n \in finished'
        PROVE  load'[n] = "ended" /\ served'[n] \subseteq {n} /\ met'[n] \subseteq {n} \cup cut'
    <2>1. CASE n \in finished
      BY <1>1, <1>2, <1>3, <2>1 DEF FinishedInv
    <2>2. CASE n \notin finished
      <3>1. Finish /\ n = run
        BY <1>4, <2>2 DEF Next, StartServer, StartPair, DrawChart, Begin, Proceed, StopOlder, Check,
           Launch, WaitReady, WarmUp, StartLoad, LoadOver, Finish, RaiseEarly, Raise, Close, Restart,
           ServerDies, Bind, GatewayEnds, Send, Answered, WorkDone, LoadEnds, LoadFails, outcome
      <3>2. step = "finishing" /\ run \in Runs /\ UNCHANGED <<load, served, met, cut>>
        BY <1>1, <3>1, Current DEF Finish, processes, traffic
      <3>3. load[run] = "ended" /\ gateway[run] \in {"listening", "gone"}
        BY <1>1, <3>2 DEF OrderInv
      <3> QED BY <1>1, <3>1, <3>2, <3>3 DEF PortInv, WorkInv
    <2> QED BY <2>1, <2>2
  <1>5. step' \notin {"idle", "closing"} => run' \notin finished'
    <2>1. CASE Begin
      <3>1. run' = run + 1 /\ run' \in Runs /\ finished' = finished
        BY <1>1, <2>1, NextKeepsControl DEF Begin, outcome
      <3>2. load[run + 1] = "none"
        BY <1>1, <3>1, Bounds, Current DEF UntouchedInv, Ahead
      <3> QED BY <1>1, <3>1, <3>2 DEF FinishedInv
    <2>2. CASE ~Begin
      BY <1>1, <2>2 DEF FinishedInv, Next, StartServer, StartPair, DrawChart, Proceed, StopOlder, Check,
         Launch, WaitReady, WarmUp, StartLoad, LoadOver, Finish, RaiseEarly, Raise, Close, Restart,
         ServerDies, Bind, GatewayEnds, Send, Answered, WorkDone, LoadEnds, LoadFails, control, outcome
    <2> QED BY <2>1, <2>2
  \* The runs of the pair: none, those there were, or one more.
  <1>6. \/ liveRuns' = liveRuns
        \/ liveRuns' = NoRuns
        \/ /\ Close /\ run \in finished /\ asked[run] \in Conditions /\ run \in Runs
           /\ liveRuns' = [liveRuns EXCEPT ![asked[run]] = run]
    <2>1. CASE Close
      BY <1>1, <2>1, Current DEF Close, TypeOK, Conditions
    <2>2. CASE ~Close
      BY <2>2 DEF Next, StartServer, StartPair, DrawChart, Begin, Proceed, StopOlder, Check, Launch,
         WaitReady, WarmUp, StartLoad, LoadOver, Finish, RaiseEarly, Raise, Restart, ServerDies, Bind,
         GatewayEnds, Send, Answered, WorkDone, LoadEnds, LoadFails, notebook
    <2> QED BY <2>1, <2>2
  <1>7. \/ LiveRuns' \subseteq LiveRuns
        \/ Close /\ run \in finished /\ LiveRuns' \subseteq LiveRuns \cup {run}
    <2>1. CASE liveRuns' = liveRuns
      BY <2>1 DEF LiveRuns
    <2>2. CASE liveRuns' = NoRuns
      BY <2>2 DEF LiveRuns, NoRuns
    <2>3. CASE Close /\ run \in finished /\ liveRuns' = [liveRuns EXCEPT ![asked[run]] = run]
      <3>1. \A mode \in Conditions : liveRuns'[mode] \in {liveRuns[mode], run}
        BY <1>1, <2>3 DEF ControlInv
      <3> QED BY <2>3, <3>1 DEF LiveRuns
    <2> QED BY <1>6, <2>1, <2>2, <2>3
  <1>8. \E s \in 1 .. MaxServers : \A n \in LiveRuns' : seen'[n] \subseteq {s}
    <2>1. CASE LiveRuns' \subseteq LiveRuns
      BY <1>1, <1>2, <1>3, <2>1 DEF FinishedInv
    <2>2. CASE Close /\ run \in finished /\ LiveRuns' \subseteq LiveRuns \cup {run}
      <3>1. servers \in 1 .. MaxServers /\ seen[run] \subseteq {servers}
        BY <1>1, <2>2, Bounds DEF Close, ServerInv, TypeOK
      <3>2. \A n \in LiveRuns : seen[n] \subseteq {servers}
        BY <1>1, <2>2 DEF Close, ServerInv, Free
      <3> QED BY <1>2, <1>3, <2>2, <3>1, <3>2
    <2> QED BY <1>7, <2>1, <2>2
  <1>9. ASSUME NEW mode \in Conditions, liveRuns'[mode] # 0
        PROVE  asked'[liveRuns'[mode]] = mode
    <2>1. CASE liveRuns'[mode] = liveRuns[mode]
      <3>1. liveRuns[mode] \in finished
        BY <1>2, <1>9, <2>1 DEF LiveRuns
      <3> QED BY <1>1, <1>3, <1>9, <2>1, <3>1 DEF FinishedInv
    <2>2. CASE liveRuns'[mode] # liveRuns[mode]
      <3>1. run \in finished /\ asked[run] = mode /\ liveRuns'[mode] = run
        BY <1>1, <1>6, <1>9, <2>2 DEF NoRuns, ControlInv
      <3> QED BY <1>3, <3>1
    <2> QED BY <2>1, <2>2
  <1>10. (charted \cup LiveRuns)' \subseteq finished'
    <2>1. LiveRuns' \subseteq finished'
      BY <1>2, <1>7
    <2>2. charted' \subseteq charted \cup LiveRuns
      BY DEF Next, StartServer, StartPair, DrawChart, Begin, Proceed, StopOlder, Check, Launch, WaitReady,
         WarmUp, StartLoad, LoadOver, Finish, RaiseEarly, Raise, Close, Restart, ServerDies, Bind,
         GatewayEnds, Send, Answered, WorkDone, LoadEnds, LoadFails, notebook
    <2> QED BY <1>2, <2>1, <2>2
  <1> QED BY <1>4, <1>5, <1>8, <1>9, <1>10 DEF FinishedInv, Bundle

-----------------------------------------------------------------------------
(* The theorems *)

\* The parts of the invariant together are inductive.
LEMMA Invariant == Spec => []Inv
  <1>1. Inv /\ [Next]_vars => Inv'
    <2> SUFFICES ASSUME Inv, [Next]_vars PROVE Inv'
      OBVIOUS
    <2>1. CASE Next
      <3>1. TypeOK /\ TablesInv /\ ControlInv /\ UntouchedInv /\ LoadInv
        BY DEF Inv
      <3>2. TablesInv' /\ ControlInv' /\ Typed'
        BY <2>1, <3>1, NextKeepsTables, NextKeepsControl, NextKeepsTypes
      <3>3. /\ UntouchedInv' /\ OrderInv' /\ LoadInv' /\ ConfInv' /\ PortInv' /\ WorkInv'
            /\ ServerInv' /\ FinishedInv'
        BY <2>1, NextKeepsUntouched, NextKeepsOrder, NextKeepsLoad, NextKeepsConf, NextKeepsPort,
           NextKeepsWork, NextKeepsServer, NextKeepsFinished
      <3>4. Bundle' \subseteq Runs
        BY <3>2, <3>3 DEF Typed, FinishedInv
      <3>5. \A n \in Runs : results'[n] <= attempts'[n]
        BY <3>3 DEF LoadInv
      <3>6. TypeOK'
        BY <2>1, <3>1, <3>2, <3>4, <3>5, NextKeepsControl DEF Typed, TypeOK
      <3> QED BY <3>2, <3>3, <3>6 DEF Inv
    <2>2. CASE UNCHANGED vars
      <3>1. UNCHANGED <<notebook, modelServer, control, processes, traffic, outcome>>
        BY <2>2 DEF vars
      <3>2. LiveRuns' = LiveRuns /\ Bundle' = Bundle /\ Owners' = Owners /\ Free' = Free
        BY <3>1 DEF LiveRuns, Bundle, Owners, Free, notebook, control, processes
      <3>3. TypeOK' /\ TablesInv' /\ ControlInv'
        BY <3>1, <3>2 DEF Inv, TypeOK, TablesInv, ControlInv, notebook, modelServer, control,
           processes, traffic, outcome
      <3>4. UntouchedInv' /\ OrderInv' /\ LoadInv' /\ ConfInv'
        BY <3>1 DEF Inv, UntouchedInv, Ahead, OrderInv, LoadInv, ConfInv, control, processes,
           traffic, outcome
      <3>5. PortInv' /\ WorkInv' /\ ServerInv' /\ FinishedInv'
        BY <3>1, <3>2 DEF Inv, PortInv, WorkInv, ServerInv, FinishedInv, notebook, modelServer,
           control, processes, traffic, outcome
      <3> QED BY <3>3, <3>4, <3>5 DEF Inv
    <2> QED BY <2>1, <2>2
  <1> QED BY <1>1, InitGivesInv, PTL DEF Spec

\* Every variable of notebook, processes and traffic keeps its type, and no log
\* has more results than attempts.
THEOREM TypeCorrect == Spec => []TypeOK
  <1>1. Inv => TypeOK
    BY DEF Inv
  <1> QED BY <1>1, Invariant, PTL

\* Every finished run is evidence of what it claims, the runs of a pair met one
\* model server, and only finished runs are saved.
THEOREM DemoIsEvidence == Spec => []FinishedRunsAreEvidence
  <1>1. Inv => FinishedRunsAreEvidence
    <2> SUFFICES ASSUME Inv PROVE FinishedRunsAreEvidence
      OBVIOUS
    <2>1. ASSUME NEW n \in finished
          PROVE  Evidence(n)
      <3>1. n \in Runs /\ load[n] = "ended" /\ served[n] \subseteq {n} /\ met[n] \subseteq {n} \cup cut
        BY DEF Inv, TypeOK, FinishedInv
      <3>2. attempts[n] \in Nat /\ results[n] = attempts[n]
        BY <3>1, Bounds DEF Inv, TypeOK, LoadInv
      <3>3. gateway[n] \in {"listening", "gone"} /\ folder[n] # "none"
        BY <3>1 DEF Inv, OrderInv
      <3> QED BY <3>1, <3>2, <3>3 DEF Inv, ConfInv, Evidence, Unfinished
    <2> QED BY <2>1 DEF Inv, FinishedInv, FinishedRunsAreEvidence
  <1> QED BY <1>1, Invariant, PTL

-----------------------------------------------------------------------------
(* What is left behind *)

\* A gateway that lives is that of the run under way, or was cut off.
AliveInv == \A n \in Runs : Alive(n) => n \in cut \/ (n = run /\ step \in WithGateway)

\* No step forgets a gateway, other than a restart, which is remembered.
LEMMA NextKeepsAlive ==
    ASSUME Inv, AliveInv, Next
    PROVE  AliveInv'
  <1>1. TypeOK /\ TablesInv /\ ControlInv /\ UntouchedInv
    BY DEF Inv
  <1>2. CASE \/ StartServer \/ StartPair \/ DrawChart \/ ServerDies
             \/ \E n \in Runs : Send(n) \/ Answered(n) \/ WorkDone(n) \/ LoadEnds(n) \/ LoadFails(n)
    BY <1>2 DEF StartServer, StartPair, DrawChart, ServerDies, Send, Answered, WorkDone, LoadEnds,
       LoadFails, AliveInv, Alive, control, processes, outcome
  <1>3. CASE Begin \/ Check \/ RaiseEarly
    BY <1>3 DEF Begin, Check, RaiseEarly, AliveInv, Alive, WithGateway, processes, outcome
  <1>4. CASE WaitReady \/ WarmUp \/ StartLoad \/ LoadOver \/ Finish \/ Raise
    BY <1>4 DEF WaitReady, WarmUp, StartLoad, LoadOver, Finish, Raise, AliveInv, Alive, WithGateway,
       processes, outcome
  <1>5. CASE StopOlder
    BY <1>1, <1>5, Stopped DEF StopOlder, AliveInv, Alive, WithGateway, outcome
  <1>6. CASE Close
    <2>1. \A n \in Runs : Alive(n)' => Alive(n) /\ n # run
      BY <1>1, <1>6, Stopped DEF Close, Alive, WithGateway
    <2> QED BY <1>6, <2>1 DEF Close, AliveInv, outcome
  <1>7. CASE Launch
    <2>1. /\ run \in Runs /\ gateway' = [gateway EXCEPT ![run] = "starting"]
      BY <1>1, <1>7, Launched
    <2> QED BY <1>1, <1>7, <2>1 DEF Launch, AliveInv, Alive, WithGateway, outcome, TypeOK
  <1>8. CASE Restart
    BY <1>8 DEF Restart, AliveInv, Alive, WithGateway, processes
  <1>9. ASSUME NEW n \in Runs, Bind(n) \/ GatewayEnds(n)
        PROVE  AliveInv'
    <2>1. \A m \in Runs : Alive(m)' => Alive(m)
      BY <1>1, <1>9 DEF Bind, GatewayEnds, Alive, TypeOK
    <2> QED BY <1>9, <2>1 DEF Bind, GatewayEnds, AliveInv, control, outcome
  <1> QED BY <1>2, <1>3, <1>4, <1>5, <1>6, <1>7, <1>8, <1>9 DEF Next, Proceed

\* Between two runs there is neither a gateway nor a load, other than of runs
\* that a restart has cut off: the half of EveryRunCleansUp that is safety.
THEOREM NothingIsLeft == Spec => [](step = "idle" => NothingLeft)
  <1>1. Init => AliveInv
    BY DEF Init, AliveInv, Alive
  <1>2. Inv /\ AliveInv /\ [Next]_vars => AliveInv'
    <2>1. Inv /\ AliveInv /\ UNCHANGED vars => AliveInv'
      BY DEF AliveInv, Alive, vars, control, processes, outcome
    <2> QED BY <2>1, NextKeepsAlive
  <1>3. Inv /\ AliveInv => (step = "idle" => NothingLeft)
    BY DEF Inv, LoadInv, AliveInv, NothingLeft, WithGateway
  <1> QED BY <1>1, <1>2, <1>3, Invariant, PTL DEF Spec
=============================================================================
