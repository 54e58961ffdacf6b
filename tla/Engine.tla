------------------------------- MODULE Engine -------------------------------
(***************************************************************************)
(* The Engine of gateway/fake_vllm.py: a semaphore of max_num_seqs, in     *)
(* front of which requests queue in the order of their arrival, and whose  *)
(* two gauges are what the poller of Backpressure reads.  Nothing cancels  *)
(* work: the handler of a request runs to its end whether or not somebody  *)
(* still waits for the answer.                                             *)
(*                                                                         *)
(* Abstractions.  A job is the request it works on.  A job counts as       *)
(* running from the moment it is given its slot.  How long the work takes, *)
(* the prefix cache, and the totals are left out.  The module MetricsText  *)
(* is about what /metrics says.                                            *)
(***************************************************************************)
EXTENDS Integers, FiniteSets, SequencesExt

CONSTANT MaxNumSeqs        \* --max-num-seqs

ASSUME EngineAssumption == MaxNumSeqs \in Nat \ {0}

VARIABLES wire,            \* requests sent to the engine that have not reached it
          line,            \* requests that wait for a slot
          running,         \* requests that have one
          replies          \* answers that have not been received

engineVars == <<wire, line, running, replies>>

EngineInit == wire = {} /\ line = <<>> /\ running = {} /\ replies = {}

\* generate, up to the slot.
EngineStarts(j) ==
    /\ j \in wire /\ wire' = wire \ {j}
    /\ IF Cardinality(running) < MaxNumSeqs
       THEN running' = running \cup {j} /\ UNCHANGED line
       ELSE line' = Append(line, j) /\ UNCHANGED running
    /\ UNCHANGED replies

\* The prompt does not fit the model: answered with 400 at once.
EngineRejects(j) ==
    /\ j \in wire /\ wire' = wire \ {j}
    /\ replies' = replies \cup {j}
    /\ UNCHANGED <<line, running>>

\* The work is done, and its slot goes to the next in line.
EngineFinishes(j) ==
    /\ j \in running
    /\ IF line = <<>>
       THEN running' = running \ {j} /\ UNCHANGED line
       ELSE running' = (running \ {j}) \cup {Head(line)} /\ line' = Tail(line)
    /\ replies' = replies \cup {j}
    /\ UNCHANGED wire

EngineStep(j) == EngineStarts(j) \/ EngineRejects(j) \/ EngineFinishes(j)

\* The gateway sends a request; and it stops waiting for one, which, if it was
\* still on its way, may or may not arrive.
Submit(j) == wire' = wire \cup {j} /\ UNCHANGED <<line, running, replies>>

Abandon(j) ==
    /\ wire' \in {wire, wire \ {j}}
    /\ replies' = replies \ {j}
    /\ UNCHANGED <<line, running>>

Receive(j) ==
    /\ j \in replies /\ replies' = replies \ {j}
    /\ UNCHANGED <<wire, line, running>>

\* The jobs the engine has to do.
Work == wire \cup running \cup ToSet(line)

EngineTypeOK(Jobs) ==
    /\ wire \subseteq Jobs /\ running \subseteq Jobs /\ replies \subseteq Jobs
    /\ line \in Seq(Jobs)
    /\ Cardinality(running) <= MaxNumSeqs
    /\ line # <<>> => Cardinality(running) = MaxNumSeqs
=============================================================================
