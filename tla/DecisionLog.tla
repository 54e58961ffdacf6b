---------------------------- MODULE DecisionLog ----------------------------
(***************************************************************************)
(* gateway/obs/decision_log.py: the lines that say what became of each     *)
(* request are collected in memory, written when there are enough of them, *)
(* on a timer, and once more when the log is closed.                       *)
(*                                                                         *)
(* A write may fail, as on a full disk.  The lines are in the buffer of    *)
(* the file object then, from where some may have reached the file, and    *)
(* also still in the writer's own buffer: the next flush writes them again.*)
(*                                                                         *)
(* Abstractions.  A line is the request it is about.  A line that reached  *)
(* the file in part counts as not there.  This is the writer of            *)
(* gateway.jsonl; that of the samples is the same class.  What is written  *)
(* at once is taken to fit the buffer of the file object: of a larger      *)
(* write that fails, the file object drops the rest, but the lines are     *)
(* still in the writer's buffer.                                           *)
(***************************************************************************)
EXTENDS Integers, SequencesExt

CONSTANTS BufferLines,    \* logging.buffer_lines
          MaxFaults       \* bound on the writes that fail

ASSUME LogAssumption == BufferLines \in Nat \ {0} /\ MaxFaults \in Nat

VARIABLES buffer,         \* JsonlWriter._buffer
          unwritten,      \* what the file object holds and the file does not
          file,           \* the file
          flusher,        \* the task of start_flusher: "running", "dead", "ended"
          faults          \* history: the writes that failed

logVars == <<buffer, unwritten, file, flusher, faults>>

\* open and start_flusher.
LogInit ==
    /\ buffer = <<>> /\ unwritten = <<>> /\ file = <<>>
    /\ flusher = "running" /\ faults = 0

\* flush, of these lines.  Nothing to write means nothing happens.
Flushed(lines) ==
    /\ IF lines = <<>> THEN UNCHANGED <<file, unwritten>>
       ELSE file' = file \o unwritten \o lines /\ unwritten' = <<>>
    /\ buffer' = <<>>
    /\ UNCHANGED faults

\* flush raises after this many lines got through.
FlushFails(lines, through) ==
    /\ lines # <<>> /\ faults < MaxFaults
    /\ LET held == unwritten \o lines IN
          /\ through < Len(held)
          /\ file' = file \o SubSeq(held, 1, through)
          /\ unwritten' = SubSeq(held, through + 1, Len(held))
    /\ buffer' = lines
    /\ faults' = faults + 1

\* As many lines as may get through before a write fails.
Portions == 0 .. (Len(unwritten) + Len(buffer))

\* A bug: the line that fills the buffer is not kept when the flush fails.
WriteMutant(line) ==
    /\ IF Len(buffer) + 1 < BufferLines
       THEN buffer' = Append(buffer, line) /\ UNCHANGED <<file, unwritten, faults>>
       ELSE \/ Flushed(Append(buffer, line))
            \/ \E through \in Portions : FlushFails(buffer, through)
    /\ UNCHANGED flusher

\* record.  The writer flushes when the buffer is full, and raises when that
\* fails; the line is in the buffer either way.
Write(line) ==
    /\ IF Len(buffer) + 1 < BufferLines
       THEN buffer' = Append(buffer, line) /\ UNCHANGED <<file, unwritten, faults>>
       ELSE \/ Flushed(Append(buffer, line))
            \/ \E through \in Portions : FlushFails(Append(buffer, line), through)
    /\ UNCHANGED flusher

\* The flusher has no try: the first flush that fails ends it for good.
FlushOnTimer ==
    /\ flusher = "running"
    /\ \/ Flushed(buffer) /\ UNCHANGED flusher
       \/ \E through \in Portions : FlushFails(buffer, through) /\ flusher' = "dead"

\* stop: the flusher is cancelled, and the file flushed and closed.
StopLog ==
    /\ flusher = "running" /\ flusher' = "ended"
    /\ Flushed(buffer)

\* stop raises: by awaiting a flusher that has died, before anything is
\* closed, or by the last flush.
StopLogFails ==
    \/ flusher = "dead" /\ UNCHANGED logVars
    \/ /\ flusher = "running" /\ flusher' = "ended"
       /\ \E through \in Portions : FlushFails(buffer, through)

\* The process is gone; only what is in the file remains.
LogLost ==
    /\ buffer' = <<>> /\ unwritten' = <<>> /\ flusher' = "ended"
    /\ UNCHANGED <<file, faults>>

-----------------------------------------------------------------------------

LogTypeOK(Lines) ==
    /\ {buffer, unwritten, file} \subseteq Seq(Lines)
    /\ flusher \in {"running", "dead", "ended"}
    /\ faults \in 0 .. MaxFaults

\* Where the lines are while the process runs.
Kept == ToSet(file) \cup ToSet(unwritten) \cup ToSet(buffer)
=============================================================================
