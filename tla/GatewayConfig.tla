--------------------------- MODULE GatewayConfig ---------------------------
(***************************************************************************)
(* gateway/config.py and gateway/__main__.py: from which of its sources    *)
(* the gateway takes each of its settings.                                 *)
(*                                                                         *)
(* Abstractions.  The sections are flattened, and of the settings those    *)
(* are kept that the demo changes or that the mode decides.  A source is a *)
(* function from the settings it names to values.                          *)
(***************************************************************************)

Modes == {"off", "ratelimit", "ratelimit_queue", "full"}

Settings == {"mode", "base_url", "run_id", "rate_limit", "backpressure", "fairshare", "anomaly",
             "global_max_inflight", "reserved_cheap_slots"}

\* The defaults of the dataclasses.
Defaults == [mode |-> "ratelimit_queue", base_url |-> "local", run_id |-> "dev",
             rate_limit |-> TRUE, backpressure |-> TRUE, fairshare |-> TRUE, anomaly |-> FALSE,
             global_max_inflight |-> 48, reserved_cheap_slots |-> 4]

\* What a YAML 1.1 parser makes of an unquoted off.
Unquoted == "the boolean false"

\* What a source names replaces what those before it say.
Over(source, before) ==
    [key \in DOMAIN source \cup DOMAIN before |->
        IF key \in DOMAIN source THEN source[key] ELSE before[key]]

\* load_config on the file: the settings it names replace the defaults.
\* The boolean false in place of a mode means "off".
ReadFile(file) ==
    IF "mode" \in DOMAIN file /\ file.mode = Unquoted
    THEN Over([file EXCEPT !.mode = "off"], Defaults)
    ELSE Over(file, Defaults)

\* The file, then GATEWAY_MODE, GATEWAY_UPSTREAM and GATEWAY_RUN_ID, then the
\* command line.
Merged(file, env, args) == Over(args, Over(env, ReadFile(file)))

\* A key that is not known, or a mode that is not, raises.
Loads(file, env, args) ==
    DOMAIN file \subseteq Settings /\ Merged(file, env, args).mode \in Modes

\* __post_init__: the flags follow from the mode; but where it wants the fair
\* share, it leaves that flag as it is.
Settled(config) ==
    [config EXCEPT !.rate_limit = config.mode # "off",
                   !.backpressure = config.mode \in {"ratelimit_queue", "full"},
                   !.fairshare = config.mode \in {"ratelimit_queue", "full"} /\ config.fairshare,
                   !.anomaly = config.mode = "full"]

\* load_config.
LoadConfig(file, env, args) == Settled(Merged(file, env, args))

\* The mechanisms a gateway runs with.
Enabled(config) ==
    {m \in {"rate_limit", "backpressure", "fairshare", "anomaly"} : config[m]}
=============================================================================
