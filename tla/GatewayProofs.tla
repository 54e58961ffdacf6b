--------------------------- MODULE GatewayProofs ---------------------------
(***************************************************************************)
(* Proofs about Gateway, for any number of requests, slots, sequences of   *)
(* the engine, lines of the buffer and writes that fail.                   *)
(*                                                                         *)
(* Three invariants, each inductive on top of those before it: what the    *)
(* requests and the counter say of each other (BooksInv), where the jobs   *)
(* of the engine are (JobsInv), and where the lines are (LinesInv).        *)
(***************************************************************************)
EXTENDS Gateway, FiniteSetTheorems, SequenceTheorems, TLAPS

USE DEF Stages, Working, Handling

\* The stages in which admission counts a request.
Counted == Working \cup {"lost"}

BooksInv ==
    /\ stage \in [Requests -> Stages]
    /\ body \in [Requests -> Bodies]
    /\ inflight \in Nat /\ inflight <= Slots
    /\ released \in [Requests -> Nat] /\ recorded \in [Requests -> Nat]
    /\ phase \in {"serving", "draining", "stopped", "failed", "killed"}
    /\ dead \subseteq Mortal
    /\ SlotsAccountedFor

\* The set of counted requests follows the move of one request.
LEMMA CountedMoves ==
    ASSUME BooksInv, NEW r \in Requests, NEW s \in Stages, Goes(r, s)
    PROVE  /\ stage' \in [Requests -> Stages]
           /\ IsFiniteSet(In(Counted))
           /\ In(Counted)' = IF s \in Counted THEN In(Counted) \cup {r} ELSE In(Counted) \ {r}
           /\ r \in In(Counted) <=> stage[r] \in Counted
           /\ \A q \in Requests : stage'[q] = IF q = r THEN s ELSE stage[q]
  <1>1. /\ stage' \in [Requests -> Stages]
        /\ \A q \in Requests : stage'[q] = IF q = r THEN s ELSE stage[q]
    BY DEF BooksInv, Goes
  <1>2. IsFiniteSet(In(Counted))
    <2>1. In(Counted) \subseteq Requests
      BY DEF In
    <2> QED BY <2>1, GatewayAssumption, FS_Subset
  <1>3. In(Counted)' = IF s \in Counted THEN In(Counted) \cup {r} ELSE In(Counted) \ {r}
    <2>1. \A q \in Requests : q \in In(Counted)' <=> stage'[q] \in Counted
      BY DEF In, Counted
    <2>2. In(Counted)' \subseteq Requests /\ In(Counted) \subseteq Requests
      BY DEF In
    <2>3. \A q \in Requests : q \in In(Counted) <=> stage[q] \in Counted
      BY DEF In
    <2> QED BY <1>1, <2>1, <2>2, <2>3
  <1> QED BY <1>1, <1>2, <1>3 DEF In

\* A move that neither counts a request nor ceases to leaves the books alone.
LEMMA MoveKeepsBooks ==
    ASSUME BooksInv, NEW r \in Requests, NEW s \in Stages, Goes(r, s),
           stage[r] # "ended", stage[r] # "turned_away", s # "ended", s # "turned_away",
           stage[r] \in Counted <=> s \in Counted,
           UNCHANGED <<body, inflight, released, recorded, phase, dead>>
    PROVE  BooksInv'
  <1>1. In(Counted)' = In(Counted)
    BY CountedMoves
  <1>2. inflight' = Cardinality(In(Counted)')
    BY <1>1 DEF BooksInv, SlotsAccountedFor, Counted
  <1>3. \A q \in Requests :
           /\ released'[q] = (IF stage'[q] = "ended" THEN 1 ELSE 0)
           /\ recorded'[q] = (IF stage'[q] \in {"ended", "turned_away"} THEN 1 ELSE 0)
    BY CountedMoves DEF BooksInv, SlotsAccountedFor
  <1> QED BY <1>2, <1>3, CountedMoves DEF BooksInv, SlotsAccountedFor, Counted

\* The end of a request, whichever way: one release and one line.
LEMMA EndKeepsBooks ==
    ASSUME BooksInv, NEW r \in Requests, stage[r] \in Working, End(r)
    PROVE  BooksInv'
  <1>1. /\ Goes(r, "ended") /\ inflight' = inflight - 1
        /\ released' = [released EXCEPT ![r] = @ + 1]
        /\ recorded' = [recorded EXCEPT ![r] = @ + 1]
        /\ UNCHANGED <<body, phase, dead>>
    BY DEF End, Release, Record, processVars
  <1>2. /\ IsFiniteSet(In(Counted)) /\ r \in In(Counted)
        /\ In(Counted)' = In(Counted) \ {r}
        /\ stage' \in [Requests -> Stages]
        /\ \A q \in Requests : stage'[q] = IF q = r THEN "ended" ELSE stage[q]
    <2>1. stage[r] \in Counted /\ "ended" \notin Counted
      BY DEF Counted
    <2> QED BY <1>1, <2>1, CountedMoves
  <1>3. inflight = Cardinality(In(Counted)) /\ inflight \in Nat
    BY DEF BooksInv, SlotsAccountedFor, Counted
  <1>4. Cardinality(In(Counted)') = Cardinality(In(Counted)) - 1
    BY <1>2, FS_RemoveElement
  <1>5. Cardinality(In(Counted)') \in Nat
    BY <1>2, FS_RemoveElement, FS_CardinalityType
  <1>6. inflight' = Cardinality(In(Counted)') /\ inflight' \in Nat /\ inflight' <= Slots
    BY <1>1, <1>3, <1>4, <1>5, GatewayAssumption DEF BooksInv
  <1>7. \A q \in Requests :
           /\ released'[q] = (IF stage'[q] = "ended" THEN 1 ELSE 0)
           /\ recorded'[q] = (IF stage'[q] \in {"ended", "turned_away"} THEN 1 ELSE 0)
    BY <1>1, <1>2 DEF BooksInv, SlotsAccountedFor
  <1>8. released' \in [Requests -> Nat] /\ recorded' \in [Requests -> Nat]
    BY <1>1 DEF BooksInv
  <1> QED BY <1>1, <1>2, <1>6, <1>7, <1>8 DEF BooksInv, SlotsAccountedFor, Counted

LEMMA AdmitKeepsBooks ==
    ASSUME BooksInv, NEW r \in Requests, NEW route \in {"forwarding", "opening"}, Admit(r, route)
    PROVE  BooksInv'
  <1>1. /\ stage[r] = "arrived" /\ inflight < Slots
        /\ Goes(r, route) /\ inflight' = inflight + 1
        /\ UNCHANGED <<body, released, recorded, phase, dead>>
    BY DEF Admit, At, processVars
  <1>2. /\ IsFiniteSet(In(Counted)) /\ r \notin In(Counted)
        /\ In(Counted)' = In(Counted) \cup {r}
        /\ stage' \in [Requests -> Stages]
        /\ \A q \in Requests : stage'[q] = IF q = r THEN route ELSE stage[q]
    <2>1. stage[r] \notin Counted /\ route \in Counted /\ route \in Stages
      BY <1>1 DEF Counted
    <2> QED BY <1>1, <2>1, CountedMoves
  <1>3. Cardinality(In(Counted)') = Cardinality(In(Counted)) + 1
    BY <1>2, FS_AddElement
  <1>4. inflight' = Cardinality(In(Counted)') /\ inflight' \in Nat /\ inflight' <= Slots
    BY <1>1, <1>3, GatewayAssumption DEF BooksInv, SlotsAccountedFor, Counted
  <1>5. \A q \in Requests :
           /\ released'[q] = (IF stage'[q] = "ended" THEN 1 ELSE 0)
           /\ recorded'[q] = (IF stage'[q] \in {"ended", "turned_away"} THEN 1 ELSE 0)
    BY <1>1, <1>2 DEF BooksInv, SlotsAccountedFor
  <1> QED BY <1>1, <1>2, <1>4, <1>5 DEF BooksInv, SlotsAccountedFor, Counted

LEMMA TurnAwayKeepsBooks ==
    ASSUME BooksInv, NEW r \in Requests, TurnAway(r)
    PROVE  BooksInv'
  <1>1. /\ stage[r] = "arrived" /\ Goes(r, "turned_away")
        /\ recorded' = [recorded EXCEPT ![r] = @ + 1]
        /\ UNCHANGED <<body, inflight, released, phase, dead>>
    BY DEF TurnAway, At, Record, processVars
  <1>2. /\ In(Counted)' = In(Counted)
        /\ stage' \in [Requests -> Stages]
        /\ \A q \in Requests : stage'[q] = IF q = r THEN "turned_away" ELSE stage[q]
    <2>1. stage[r] \notin Counted /\ "turned_away" \notin Counted
      BY <1>1 DEF Counted
    <2> QED BY <1>1, <2>1, CountedMoves
  <1>3. inflight' = Cardinality(In(Counted)')
    BY <1>1, <1>2 DEF BooksInv, SlotsAccountedFor, Counted
  <1>4. \A q \in Requests :
           /\ released'[q] = (IF stage'[q] = "ended" THEN 1 ELSE 0)
           /\ recorded'[q] = (IF stage'[q] \in {"ended", "turned_away"} THEN 1 ELSE 0)
    BY <1>1, <1>2 DEF BooksInv, SlotsAccountedFor
  <1>5. recorded' \in [Requests -> Nat]
    BY <1>1 DEF BooksInv
  <1> QED BY <1>1, <1>2, <1>3, <1>4, <1>5 DEF BooksInv, SlotsAccountedFor, Counted

\* Bodies that are left stay counted.
LEMMA LeavingKeepsBooks ==
    ASSUME BooksInv, LeaveBodies, UNCHANGED <<body, inflight, released, recorded, dead>>,
           phase' \in {"stopped", "failed"}
    PROVE  BooksInv'
  <1>1. /\ stage' \in [Requests -> Stages]
        /\ \A q \in Requests : stage'[q] = IF stage[q] = "finalizing" THEN "lost" ELSE stage[q]
    BY DEF BooksInv, LeaveBodies
  <1>2. In(Counted)' = In(Counted)
    <2>1. \A q \in Requests : stage'[q] \in Counted <=> stage[q] \in Counted
      BY <1>1 DEF Counted
    <2>2. In(Counted)' = {q \in Requests : stage'[q] \in Counted}
      BY DEF In, Counted
    <2> QED BY <2>1, <2>2 DEF In
  <1>3. inflight' = Cardinality(In(Counted)')
    BY <1>2 DEF BooksInv, SlotsAccountedFor, Counted
  <1>4. \A q \in Requests :
           /\ released'[q] = (IF stage'[q] = "ended" THEN 1 ELSE 0)
           /\ recorded'[q] = (IF stage'[q] \in {"ended", "turned_away"} THEN 1 ELSE 0)
    BY <1>1 DEF BooksInv, SlotsAccountedFor
  <1> QED BY <1>1, <1>3, <1>4 DEF BooksInv, SlotsAccountedFor, Counted

LEMMA NextKeepsBooks == BooksInv /\ [Next]_vars => BooksInv'
  <1> SUFFICES ASSUME BooksInv, [Next]_vars PROVE BooksInv'
    OBVIOUS
  <1>1. ASSUME UNCHANGED requestVars, phase' \in {"serving", "draining", "stopped", "failed", "killed"},
               dead' \subseteq Mortal
        PROVE  BooksInv'
    BY <1>1 DEF requestVars, BooksInv, SlotsAccountedFor, In
  <1>2. ASSUME NEW r \in Requests, Arrive(r) \/ Decide(r)
        PROVE  BooksInv'
    <2>1. CASE Arrive(r)
      BY <2>1, MoveKeepsBooks DEF Arrive, Counted, processVars
    <2>2. CASE Malformed(r)
      BY <2>2, MoveKeepsBooks DEF Malformed, At, Counted, processVars
    <2>3. CASE TurnAway(r)
      BY <2>3, TurnAwayKeepsBooks
    <2>4. ASSUME NEW route \in {"forwarding", "opening"}, Admit(r, route)
          PROVE  BooksInv'
      BY <2>4, AdmitKeepsBooks
    <2> QED BY <1>2, <2>1, <2>2, <2>3, <2>4 DEF Decide
  <1>3. ASSUME NEW r \in Requests, Proceed(r)
        PROVE  BooksInv'
    <2>1. CASE Answered(r) \/ GiveUp(r) \/ StreamFails(r) \/ Closed(r)
      BY <2>1, EndKeepsBooks DEF Answered, GiveUp, StreamFails, Closed, Closing, At
    <2>2. CASE StreamOpens(r)
      BY <2>2, MoveKeepsBooks DEF StreamOpens, At, Counted, processVars
    <2>3. CASE BodyStarts(r)
      BY <2>3, MoveKeepsBooks DEF BodyStarts, At, Counted, processVars
    <2>4. CASE BodyNeverStarts(r)
      BY <2>4, MoveKeepsBooks DEF BodyNeverStarts, At, Counted, processVars
    <2>5. CASE BodyEnds(r)
      BY <2>5, MoveKeepsBooks DEF BodyEnds, At, Counted, processVars
    <2>6. CASE HangsUp(r)
      BY <2>6, MoveKeepsBooks DEF HangsUp, At, Counted, processVars
    <2>7. CASE ClosingFails(r)
      BY <2>7, MoveKeepsBooks DEF ClosingFails, Closing, At, Counted, processVars
    <2> QED BY <1>3, <2>1, <2>2, <2>3, <2>4, <2>5, <2>6, <2>7 DEF Proceed
  <1>4. CASE Stop \/ StopFails
    BY <1>4, LeavingKeepsBooks DEF Stop, StopFails
  <1>5. ASSUME NEW r \in Requests, EngineWorks(r)
        PROVE  BooksInv'
    BY <1>1, <1>5 DEF EngineWorks, processVars, BooksInv
  <1>6. CASE FlusherRuns
    BY <1>1, <1>6 DEF FlusherRuns, processVars, BooksInv
  <1>7. ASSUME NEW t \in Mortal, TaskDies(t)
        PROVE  BooksInv'
    BY <1>1, <1>7 DEF TaskDies, BooksInv
  <1>8. CASE Terminate \/ Kill
    BY <1>1, <1>8 DEF Terminate, Kill, BooksInv
  <1>9. CASE UNCHANGED vars
    BY <1>1, <1>9 DEF vars, processVars, BooksInv
  <1> QED BY <1>2, <1>3, <1>4, <1>5, <1>6, <1>7, <1>8, <1>9 DEF Next

LEMMA InitBooks == Init => BooksInv
  <1> SUFFICES ASSUME Init PROVE BooksInv
    OBVIOUS
  <1>1. In(Counted) = {}
    BY DEF Init, In, Counted
  <1>2. Cardinality(In(Counted)) = 0
    BY <1>1, FS_EmptySet
  <1> QED BY <1>2, GatewayAssumption DEF Init, BooksInv, SlotsAccountedFor, Counted, Mortal

\* SlotsAccountedFor, for any number of requests and slots: over all exits of
\* the handler (app.py), one release and one record for each request that was
\* admitted and has ended, and a counter that misses by exactly the lost ones.
THEOREM EachRequestIsReleased == Spec => []SlotsAccountedFor
  <1>1. BooksInv => SlotsAccountedFor
    BY DEF BooksInv
  <1> QED BY <1>1, InitBooks, NextKeepsBooks, PTL DEF Spec

-----------------------------------------------------------------------------
(* The work in the engine *)

\* A request is one job at most, and it is the job of one that was admitted.
JobsInv ==
    /\ wire \subseteq Requests /\ running \subseteq Requests /\ replies \subseteq Requests
    /\ line \in Seq(Requests)
    /\ \A h, i \in 1 .. Len(line) : line[h] = line[i] => h = i
    /\ \A i \in 1 .. Len(line) : line[i] \notin running /\ line[i] \notin wire
    /\ wire \cap running = {}
    /\ Cardinality(running) \in Nat /\ Cardinality(running) <= MaxNumSeqs
    /\ line # <<>> => Cardinality(running) = MaxNumSeqs
    /\ \A j \in Work : stage[j] \in Counted \cup {"ended"}

LEMMA WorkParts ==
    ASSUME line \in Seq(Requests)
    PROVE  \A j : j \in Work <=> \/ j \in wire \/ j \in running
                                 \/ \E i \in 1 .. Len(line) : j = line[i]
  BY DEF Work, ToSet

\* The jobs stay where they are while admitted requests stay admitted or end.
LEMMA StageKeepsJobs ==
    ASSUME JobsInv, wire' \subseteq wire, replies' \subseteq replies, UNCHANGED <<line, running>>,
           \A q \in Requests : stage[q] \in Counted \cup {"ended"} => stage'[q] \in Counted \cup {"ended"}
    PROVE  JobsInv'
  <1>1. line \in Seq(Requests) /\ line' = line /\ running' = running
    BY DEF JobsInv
  <1>2. ASSUME NEW j \in Work' PROVE j \in Work /\ j \in Requests
    BY <1>1, <1>2, WorkParts DEF Work, JobsInv
  <1>3. \A j \in Work' : stage'[j] \in Counted \cup {"ended"}
    BY <1>2 DEF JobsInv
  <1> QED BY <1>1, <1>3 DEF JobsInv

LEMMA StartKeepsJobs ==
    ASSUME JobsInv, NEW j \in Requests, EngineStarts(j), UNCHANGED stage
    PROVE  JobsInv'
  <1>1. /\ j \in wire /\ wire' = wire \ {j} /\ replies' = replies
        /\ wire \subseteq Requests /\ running \subseteq Requests /\ line \in Seq(Requests)
        /\ j \notin running /\ j \in Work
    BY DEF EngineStarts, JobsInv, Work
  <1>2. IsFiniteSet(running)
    BY <1>1, GatewayAssumption, FS_Subset
  <1>3. CASE Cardinality(running) < MaxNumSeqs
    <2>1. running' = running \cup {j} /\ line' = line /\ line = <<>>
      BY <1>3, EngineAssumption DEF EngineStarts, JobsInv
    <2>2. Cardinality(running') = Cardinality(running) + 1
      BY <1>1, <1>2, <2>1, FS_AddElement
    <2>3. Work' \subseteq Work
      BY <1>1, <2>1 DEF Work, ToSet
    <2>4. Len(line) = 0
      BY <2>1
    <2> QED BY <1>1, <1>3, <2>1, <2>2, <2>3, <2>4, EngineAssumption DEF JobsInv
  <1>4. CASE ~(Cardinality(running) < MaxNumSeqs)
    <2>1. running' = running /\ line' = Append(line, j)
      BY <1>4 DEF EngineStarts
    <2>2. /\ line' \in Seq(Requests) /\ Len(line) \in Nat /\ Len(line') = Len(line) + 1
          /\ line'[Len(line) + 1] = j
          /\ \A i \in 1 .. Len(line) : line'[i] = line[i]
      BY <1>1, <2>1
    <2>3. \A i \in 1 .. Len(line) : line[i] # j
      BY <1>1 DEF JobsInv
    <2>4. \A h, i \in 1 .. Len(line') : line'[h] = line'[i] => h = i
      BY <2>2, <2>3 DEF JobsInv
    <2>5. \A i \in 1 .. Len(line') : line'[i] \notin running' /\ line'[i] \notin wire'
      BY <1>1, <2>1, <2>2 DEF JobsInv
    <2>6. Cardinality(running') = MaxNumSeqs
      BY <1>4, <2>1, EngineAssumption DEF JobsInv
    <2>7. ASSUME NEW q \in Work' PROVE q \in Work
      <3>1. q \in wire' \/ q \in running' \/ \E i \in 1 .. Len(line') : q = line'[i]
        BY <2>2 DEF Work, ToSet
      <3> QED BY <1>1, <2>1, <2>2, <3>1, WorkParts
    <2> QED BY <1>1, <2>1, <2>2, <2>4, <2>5, <2>6, <2>7, EngineAssumption DEF JobsInv
  <1> QED BY <1>3, <1>4

LEMMA FinishKeepsJobs ==
    ASSUME JobsInv, NEW j \in Requests, EngineFinishes(j), UNCHANGED stage
    PROVE  JobsInv'
  <1>1. /\ j \in running /\ wire' = wire /\ replies' \subseteq Requests
        /\ running \subseteq Requests /\ line \in Seq(Requests)
    BY DEF EngineFinishes, JobsInv
  <1>2. IsFiniteSet(running)
    BY <1>1, GatewayAssumption, FS_Subset
  <1>3. /\ Cardinality(running \ {j}) = Cardinality(running) - 1
        /\ IsFiniteSet(running \ {j}) /\ Cardinality(running \ {j}) \in Nat
    BY <1>1, <1>2, FS_RemoveElement, FS_CardinalityType
  <1>4. CASE line = <<>>
    <2>1. running' = running \ {j} /\ line' = line
      BY <1>4 DEF EngineFinishes
    <2>2. Work' \subseteq Work
      BY <1>1, <2>1 DEF Work
    <2> QED BY <1>1, <1>3, <1>4, <2>1, <2>2, EngineAssumption DEF JobsInv
  <1>5. CASE line # <<>>
    <2>1. running' = (running \ {j}) \cup {Head(line)} /\ line' = Tail(line)
      BY <1>5 DEF EngineFinishes
    <2>2. /\ Len(line) \in Nat /\ Len(line) > 0 /\ Head(line) = line[1] /\ Head(line) \in Requests
          /\ line' \in Seq(Requests) /\ Len(line') = Len(line) - 1
          /\ \A i \in 1 .. Len(line') : line'[i] = line[i + 1]
      BY <1>1, <1>5, <2>1, HeadTailProperties
    <2>3. Head(line) \notin running /\ Head(line) \notin wire
      BY <2>2 DEF JobsInv
    <2>4. Cardinality(running') = Cardinality(running)
      <3>1. Head(line) \notin running \ {j}
        BY <2>3
      <3>2. Cardinality((running \ {j}) \cup {Head(line)}) = Cardinality(running \ {j}) + 1
        BY <1>3, <3>1, FS_AddElement
      <3>3. Cardinality(running) \in Nat
        BY <1>2, FS_CardinalityType
      <3> QED BY <1>3, <2>1, <3>2, <3>3
    <2>5. \A h, i \in 1 .. Len(line') : line'[h] = line'[i] => h = i
      <3> TAKE h, i \in 1 .. Len(line')
      <3> HAVE line'[h] = line'[i]
      <3>1. h + 1 \in 1 .. Len(line) /\ i + 1 \in 1 .. Len(line)
        BY <2>2
      <3>2. line[h + 1] = line[i + 1]
        BY <2>2
      <3>3. h + 1 = i + 1
        BY <3>1, <3>2 DEF JobsInv
      <3> QED BY <3>3
    <2>6. \A i \in 1 .. Len(line') : line'[i] \notin running' /\ line'[i] \notin wire'
      <3> TAKE i \in 1 .. Len(line')
      <3>1. i + 1 \in 1 .. Len(line) /\ 1 \in 1 .. Len(line) /\ i + 1 # 1
        BY <2>2
      <3>2. line'[i] = line[i + 1]
        BY <2>2
      <3>3. line[i + 1] \notin running /\ line[i + 1] \notin wire /\ line[i + 1] # line[1]
        BY <3>1 DEF JobsInv
      <3> QED BY <1>1, <2>1, <2>2, <3>2, <3>3
    <2>7. ASSUME NEW q \in Work' PROVE q \in Work
      <3>1. q \in wire' \/ q \in running' \/ \E i \in 1 .. Len(line') : q = line'[i]
        BY <2>2 DEF Work, ToSet
      <3>2. CASE q \in wire' \/ q \in running'
        <4>1. q \in wire \/ q \in running \/ q = line[1]
          BY <1>1, <2>1, <2>2, <3>2
        <4>2. 1 \in 1 .. Len(line)
          BY <2>2
        <4> QED BY <1>1, <4>1, <4>2, WorkParts
      <3>3. CASE \E i \in 1 .. Len(line') : q = line'[i]
        <4>1. PICK i \in 1 .. Len(line') : q = line'[i]
          BY <3>3
        <4>2. i + 1 \in 1 .. Len(line) /\ q = line[i + 1]
          BY <2>2, <4>1
        <4> QED BY <1>1, <4>2, WorkParts
      <3> QED BY <3>1, <3>2, <3>3
    <2>8. running' \subseteq Requests /\ wire' \cap running' = {}
      BY <1>1, <2>1, <2>2, <2>3 DEF JobsInv
    <2>9. wire' \subseteq Requests /\ line' \in Seq(Requests)
          /\ Cardinality(running') \in Nat /\ Cardinality(running') <= MaxNumSeqs
          /\ Cardinality(running') = MaxNumSeqs
          /\ \A q \in Work' : stage'[q] \in Counted \cup {"ended"}
      BY <1>1, <1>5, <2>2, <2>4, <2>7 DEF JobsInv
    <2> QED BY <1>1, <2>5, <2>6, <2>8, <2>9 DEF JobsInv
  <1> QED BY <1>4, <1>5

LEMMA AdmitKeepsJobs ==
    ASSUME BooksInv, JobsInv, NEW r \in Requests, NEW route \in {"forwarding", "opening"},
           Admit(r, route)
    PROVE  JobsInv'
  <1>1. /\ stage[r] = "arrived" /\ Goes(r, route)
        /\ wire' = wire \cup {r} /\ UNCHANGED <<line, running, replies>>
    BY DEF Admit, At, Submit
  <1>2. r \notin Work
    BY <1>1 DEF JobsInv, Counted
  <1>3. \A q \in Requests : stage'[q] = IF q = r THEN route ELSE stage[q]
    BY <1>1 DEF BooksInv, Goes
  <1>4. line \in Seq(Requests) /\ r \notin running /\ \A i \in 1 .. Len(line) : line[i] # r
    BY <1>2, WorkParts DEF JobsInv
  <1>5. Work' = Work \cup {r} /\ Work \subseteq Requests
    <2>1. Work' = Work \cup {r}
      BY <1>1 DEF Work
    <2>2. Work \subseteq Requests
      BY <1>4, WorkParts DEF JobsInv
    <2> QED BY <2>1, <2>2
  <1>6. \A j \in Work' : stage'[j] \in Counted \cup {"ended"}
    BY <1>3, <1>5 DEF JobsInv, Counted
  <1> QED BY <1>1, <1>4, <1>6 DEF JobsInv

LEMMA NextKeepsJobs == BooksInv /\ BooksInv' /\ JobsInv /\ [Next]_vars => JobsInv'
  <1> SUFFICES ASSUME BooksInv, BooksInv', JobsInv, [Next]_vars PROVE JobsInv'
    OBVIOUS
  <1> USE DEF Counted
  <1>1. ASSUME NEW r \in Requests, NEW s \in Stages, Goes(r, s),
               stage[r] \in Counted => s \in Counted \cup {"ended"}, stage[r] # "ended"
        PROVE  \A q \in Requests : stage[q] \in Counted \cup {"ended"} => stage'[q] \in Counted \cup {"ended"}
    BY <1>1 DEF BooksInv, Goes
  <1>2. ASSUME NEW r \in Requests, Arrive(r) \/ Decide(r)
        PROVE  JobsInv'
    <2>1. CASE Arrive(r) \/ Malformed(r) \/ TurnAway(r)
      <3>1. /\ \E s \in {"arrived", "malformed", "turned_away"} : Goes(r, s)
            /\ stage[r] \in {"new", "arrived"} /\ UNCHANGED <<wire, line, running, replies>>
        BY <2>1 DEF Arrive, Malformed, TurnAway, At, engineVars
      <3> QED BY <1>1, <3>1, StageKeepsJobs
    <2>2. ASSUME NEW route \in {"forwarding", "opening"}, Admit(r, route)
          PROVE  JobsInv'
      BY <2>2, AdmitKeepsJobs
    <2> QED BY <1>2, <2>1, <2>2 DEF Decide
  <1>3. ASSUME NEW r \in Requests, Proceed(r)
        PROVE  JobsInv'
    <2>1. /\ \E s \in Working \cup {"ended", "lost"} : Goes(r, s)
          /\ stage[r] \in Working
          /\ wire' \subseteq wire /\ replies' \subseteq replies /\ UNCHANGED <<line, running>>
      <3>1. CASE Answered(r) \/ GiveUp(r) \/ StreamFails(r) \/ Closed(r)
        BY <3>1 DEF Answered, GiveUp, StreamFails, Closed, Closing, At, End, Abandon, Receive
      <3>2. CASE StreamOpens(r) \/ BodyStarts(r) \/ BodyEnds(r) \/ HangsUp(r)
        BY <3>2 DEF StreamOpens, BodyStarts, BodyEnds, HangsUp, At, engineVars
      <3>3. CASE BodyNeverStarts(r) \/ ClosingFails(r)
        BY <3>3 DEF BodyNeverStarts, ClosingFails, Closing, At, Abandon
      <3> QED BY <1>3, <3>1, <3>2, <3>3 DEF Proceed
    <2> QED BY <1>1, <2>1, StageKeepsJobs
  <1>4. CASE Stop \/ StopFails
    <2>1. \A q \in Requests : stage[q] \in Counted \cup {"ended"} => stage'[q] \in Counted \cup {"ended"}
      BY <1>4 DEF Stop, StopFails, LeaveBodies
    <2> QED BY <1>4, <2>1, StageKeepsJobs DEF Stop, StopFails, engineVars
  <1>5. ASSUME NEW r \in Requests, EngineWorks(r)
        PROVE  JobsInv'
    <2>1. UNCHANGED stage
      BY <1>5 DEF EngineWorks, requestVars
    <2>2. CASE EngineStarts(r)
      BY <2>1, <2>2, StartKeepsJobs
    <2>3. CASE EngineFinishes(r)
      BY <2>1, <2>3, FinishKeepsJobs
    <2>4. CASE EngineRejects(r)
      <3>1. /\ wire' \subseteq wire /\ replies' = replies \cup {r} /\ UNCHANGED <<line, running>>
        BY <2>4 DEF EngineRejects
      <3>2. Work' \subseteq Work
        BY <3>1 DEF Work
      <3> QED BY <2>1, <3>1, <3>2 DEF JobsInv
    <2> QED BY <1>5, <2>2, <2>3, <2>4 DEF EngineWorks, EngineStep
  <1>6. ASSUME UNCHANGED <<stage, wire, line, running, replies>>
        PROVE  JobsInv'
    BY <1>6, StageKeepsJobs
  <1>7. CASE FlusherRuns \/ Terminate \/ Kill \/ UNCHANGED vars
    BY <1>6, <1>7 DEF FlusherRuns, Terminate, Kill, vars, requestVars, engineVars
  <1>8. ASSUME NEW t \in Mortal, TaskDies(t)
        PROVE  JobsInv'
    BY <1>6, <1>8 DEF TaskDies, requestVars, engineVars
  <1> QED BY <1>2, <1>3, <1>4, <1>5, <1>7, <1>8 DEF Next

LEMMA InitJobs == Init => JobsInv
  <1> SUFFICES ASSUME Init PROVE JobsInv
    OBVIOUS
  <1>1. wire = {} /\ line = <<>> /\ running = {} /\ replies = {}
    BY DEF Init, EngineInit
  <1>2. Work = {}
    BY <1>1 DEF Work, ToSet
  <1>3. Cardinality(running) = 0
    BY <1>1, FS_EmptySet
  <1> QED BY <1>1, <1>2, <1>3, EngineAssumption DEF JobsInv

LEMMA JobsAlways == Spec => [](BooksInv /\ JobsInv)
  BY InitBooks, InitJobs, NextKeepsBooks, NextKeepsJobs, PTL DEF Spec

\* QueueOnlyBehindAbandoned, for any number of slots that the engine has:
\* if every job in the engine were that of a counted request, those that run
\* and the first in line would be more requests than there are slots.
THEOREM SlotsKeepEngineQueueShort == Spec => []QueueOnlyBehindAbandoned
  <1>1. ASSUME BooksInv, JobsInv PROVE QueueOnlyBehindAbandoned
    <2> SUFFICES ASSUME Slots <= MaxNumSeqs, line # <<>>, \A j \in Work : stage[j] # "ended"
                 PROVE  FALSE
      BY DEF QueueOnlyBehindAbandoned
    <2>1. line \in Seq(Requests) /\ line[1] \in Requests /\ 1 \in 1 .. Len(line)
      BY <1>1 DEF JobsInv
    <2> DEFINE Some == running \cup {line[1]}
    <2>2. Some \subseteq Work /\ Some \subseteq Requests
      BY <1>1, <2>1, WorkParts DEF JobsInv
    <2>3. Some \subseteq In(Counted)
      BY <1>1, <2>2 DEF JobsInv, In
    <2>4. IsFiniteSet(running) /\ IsFiniteSet(In(Counted))
      <3>1. running \subseteq Requests /\ In(Counted) \subseteq Requests
        BY <1>1 DEF JobsInv, In
      <3> QED BY <3>1, GatewayAssumption, FS_Subset
    <2>5. Cardinality(Some) = MaxNumSeqs + 1
      <3>1. line[1] \notin running /\ Cardinality(running) = MaxNumSeqs
        BY <1>1, <2>1 DEF JobsInv
      <3> QED BY <2>4, <3>1, FS_AddElement
    <2>6. Cardinality(Some) <= Cardinality(In(Counted))
      BY <2>3, <2>4, FS_Subset
    <2>7. Cardinality(In(Counted)) = inflight /\ inflight \in Nat /\ inflight <= Slots
      BY <1>1 DEF BooksInv, SlotsAccountedFor, Counted
    <2> QED BY <2>5, <2>6, <2>7, EngineAssumption, GatewayAssumption
  <1> QED BY <1>1, JobsAlways, PTL

\* ChargeCoversWork, for every body: what was charged is exactly what the
\* clamped body asks for.
THEOREM WorkIsPaidFor == Spec => []ChargeCoversWork
  <1>1. ASSUME NEW b \in Body, RateLimitEnabled, Positive(b.max)
        PROVE  Asked(Forwarded(b)) <= Charge(b)
    <2>1. b.max \in Int /\ b.max > 0 /\ b.multiple \in Nat
      BY <1>1 DEF Body, Positive
    <2>2. b.max # Absent
      BY <2>1, TokensAssumption
    <2>3. Requested(b) = b.max
      BY <2>2 DEF Requested
    <2>4. Forwarded(b).multiple = b.multiple /\ Forwarded(b).max = Smaller(b.max, Ceiling)
      BY <1>1, <2>1, TokensAssumption DEF Forwarded, Smaller, Body
    <2>5. Charge(b) = Smaller(b.max, Ceiling) * b.multiple
      BY <1>1, <2>3 DEF Charge
    <2>6. Asked(Forwarded(b)) = Charge(b)
      BY <2>4, <2>5 DEF Asked
    <2>7. Smaller(b.max, Ceiling) \in Int
      BY <2>1, TokensAssumption DEF Smaller
    <2>8. Charge(b) \in Int
      BY <2>1, <2>5, <2>7
    <2> QED BY <2>6, <2>8
  <1>2. ASSUME BooksInv, JobsInv PROVE ChargeCoversWork
    <2>1. Work \subseteq Requests
      BY <1>2, WorkParts DEF JobsInv
    <2>2. \A j \in Work : body[j] \in Body
      BY <1>2, <2>1, TokensAssumption DEF BooksInv
    <2> QED BY <1>1, <2>2 DEF ChargeCoversWork
  <1> QED BY <1>2, JobsAlways, PTL

-----------------------------------------------------------------------------
(* The lines of the log *)

\* The lines of two sequences are those of the sequence of both.
LEMMA LinesOfConcat ==
    ASSUME NEW S, NEW s \in Seq(S), NEW t \in Seq(S)
    PROVE  s \o t \in Seq(S) /\ ToSet(s \o t) = ToSet(s) \cup ToSet(t)
  <1>1. s \o t \in Seq(S) /\ Len(s \o t) = Len(s) + Len(t) /\ Len(s) \in Nat /\ Len(t) \in Nat
        /\ \A i \in 1 .. Len(s) + Len(t) :
              (s \o t)[i] = IF i <= Len(s) THEN s[i] ELSE t[i - Len(s)]
    BY ConcatProperties
  <1>2. ASSUME NEW e \in ToSet(s \o t) PROVE e \in ToSet(s) \cup ToSet(t)
    <2>1. PICK i \in 1 .. Len(s) + Len(t) : e = (s \o t)[i]
      BY <1>1, <1>2 DEF ToSet
    <2>2. CASE i <= Len(s)
      <3>1. i \in DOMAIN s /\ e = s[i]
        BY <1>1, <2>1, <2>2
      <3> QED BY <3>1 DEF ToSet
    <2>3. CASE ~(i <= Len(s))
      <3>1. i - Len(s) \in DOMAIN t /\ e = t[i - Len(s)]
        BY <1>1, <2>1, <2>3
      <3> QED BY <3>1 DEF ToSet
    <2> QED BY <2>2, <2>3
  <1>3. ASSUME NEW e \in ToSet(s) PROVE e \in ToSet(s \o t)
    <2>1. PICK i \in 1 .. Len(s) : e = s[i]
      BY <1>3 DEF ToSet
    <2>2. i \in DOMAIN (s \o t) /\ (s \o t)[i] = e
      BY <1>1, <2>1
    <2> QED BY <2>2 DEF ToSet
  <1>4. ASSUME NEW e \in ToSet(t) PROVE e \in ToSet(s \o t)
    <2>1. PICK i \in 1 .. Len(t) : e = t[i]
      BY <1>4 DEF ToSet
    <2>2. Len(s) + i \in DOMAIN (s \o t) /\ (s \o t)[Len(s) + i] = e
      BY <1>1, <2>1
    <2> QED BY <2>2 DEF ToSet
  <1> QED BY <1>1, <1>2, <1>3, <1>4

LEMMA LinesOfThree ==
    ASSUME NEW S, NEW s \in Seq(S), NEW t \in Seq(S), NEW u \in Seq(S)
    PROVE  s \o t \o u \in Seq(S) /\ ToSet(s \o t \o u) = ToSet(s) \cup ToSet(t) \cup ToSet(u)
  <1>1. s \o t \in Seq(S) /\ ToSet(s \o t) = ToSet(s) \cup ToSet(t)
    BY LinesOfConcat
  <1> DEFINE v == s \o t
  <1>2. v \in Seq(S)
    BY <1>1
  <1> HIDE DEF v
  <1>3. v \o u \in Seq(S) /\ ToSet(v \o u) = ToSet(v) \cup ToSet(u)
    BY <1>2, LinesOfConcat
  <1> QED BY <1>1, <1>3 DEF v

\* One more line, and whether it is there already.
LEMMA LinesOfAppend ==
    ASSUME NEW S, NEW s \in Seq(S), NEW e \in S
    PROVE  /\ Append(s, e) \in Seq(S) /\ Append(s, e) # <<>>
           /\ ToSet(Append(s, e)) = ToSet(s) \cup {e}
           /\ IsInjective(s) /\ e \notin ToSet(s) => IsInjective(Append(s, e))
  <1> DEFINE t == Append(s, e)
  <1>1. /\ t \in Seq(S) /\ t # <<>> /\ Len(t) = Len(s) + 1 /\ Len(s) \in Nat
        /\ \A i \in 1 .. Len(s) : t[i] = s[i]
        /\ t[Len(s) + 1] = e
    BY AppendProperties
  <1>2. \A i \in DOMAIN t : i = Len(s) + 1 \/ (i \in DOMAIN s /\ t[i] = s[i])
    BY <1>1
  <1>3. DOMAIN s \subseteq DOMAIN t /\ Len(s) + 1 \in DOMAIN t
    BY <1>1
  <1>4. ToSet(t) = ToSet(s) \cup {e}
    BY <1>1, <1>2, <1>3 DEF ToSet
  <1>5. IsInjective(s) /\ e \notin ToSet(s) => IsInjective(t)
    BY <1>1, <1>2 DEF IsInjective, ToSet
  <1> HIDE DEF t
  <1> QED BY <1>1, <1>4, <1>5 DEF t

LinesTypeOK ==
    /\ file \in Seq(Requests) /\ unwritten \in Seq(Requests) /\ buffer \in Seq(Requests)
    /\ faults \in Nat
    /\ buffer = <<>> => unwritten = <<>>

\* All lines, in the order in which they are in the file or will be.
AllLines == file \o unwritten \o buffer

LEMMA KeptLines ==
    ASSUME LinesTypeOK
    PROVE  AllLines \in Seq(Requests) /\ ToSet(AllLines) = Kept
  BY LinesOfThree DEF LinesTypeOK, AllLines, Kept

\* What a flush does to the lines: nothing is lost and nothing comes twice.
LEMMA FlushedLines ==
    ASSUME LinesTypeOK, NEW lines \in Seq(Requests), Flushed(lines),
           lines = <<>> => buffer = <<>>
    PROVE  /\ LinesTypeOK' /\ faults' = faults
           /\ ToSet(file)' = ToSet(file) \cup ToSet(unwritten) \cup ToSet(lines)
           /\ Kept' = ToSet(file)'
           /\ unwritten' = <<>>
           /\ AllLines' = file \o unwritten \o lines
  <1>1. faults' = faults /\ buffer' = <<>>
    BY DEF Flushed
  <1>2. file' = file \o unwritten \o lines /\ unwritten' = <<>> /\ file' \in Seq(Requests)
    <2>1. CASE lines = <<>>
      BY <2>1, ConcatEmptySeq DEF Flushed, LinesTypeOK
    <2>2. CASE lines # <<>>
      <3>1. file' = file \o unwritten \o lines /\ unwritten' = <<>>
        BY <2>2 DEF Flushed
      <3>2. file \o unwritten \o lines \in Seq(Requests)
        BY LinesOfThree DEF LinesTypeOK
      <3> QED BY <3>1, <3>2
    <2> QED BY <2>1, <2>2
  <1>3. LinesTypeOK'
    BY <1>1, <1>2, EmptySeq DEF LinesTypeOK
  <1>4. ToSet(file)' = ToSet(file) \cup ToSet(unwritten) \cup ToSet(lines)
    BY <1>2, LinesOfThree DEF LinesTypeOK
  <1>5. ToSet(<<>>) = {}
    BY DEF ToSet
  <1>6. AllLines' = file'
    BY <1>1, <1>2, EmptySeq, ConcatEmptySeq DEF AllLines
  <1> QED BY <1>1, <1>2, <1>3, <1>4, <1>5, <1>6 DEF Kept

\* What a flush that fails does: nothing is lost.
LEMMA FailedLines ==
    ASSUME LinesTypeOK, NEW lines \in Seq(Requests), NEW through \in Nat,
           FlushFails(lines, through)
    PROVE  /\ LinesTypeOK' /\ faults' = faults + 1
           /\ Kept' = ToSet(file) \cup ToSet(unwritten) \cup ToSet(lines)
  <1> DEFINE held == unwritten \o lines
             gone == SubSeq(held, 1, through)
             left == SubSeq(held, through + 1, Len(held))
  <1>1. /\ lines # <<>> /\ through < Len(held) /\ buffer' = lines /\ faults' = faults + 1
        /\ file' = file \o gone /\ unwritten' = left
    BY DEF FlushFails
  <1>2. held \in Seq(Requests) /\ ToSet(held) = ToSet(unwritten) \cup ToSet(lines)
    BY LinesOfConcat DEF LinesTypeOK
  <1>3. /\ gone \in Seq(Requests) /\ left \in Seq(Requests) /\ gone \o left = held
    <2>1. SubSeq(held, 1, Len(held)) = held /\ Len(held) \in Nat
      BY <1>2, SubSeqFull
    <2>2. gone \o left = SubSeq(held, 1, Len(held))
      <3>1. 1 \in 1 .. Len(held) + 1 /\ through \in 1 - 1 .. Len(held) /\ Len(held) \in through .. Len(held)
        BY <1>1, <2>1
      <3> QED BY <1>2, <3>1, ConcatAdjacentSubSeq
    <2>3. gone \in Seq(Requests)
      <3>1. \A i \in 1 .. through : held[i] \in Requests
        BY <1>1, <1>2, <2>1
      <3>2. 1 \in Int /\ through \in Int
        OBVIOUS
      <3> HIDE DEF held
      <3>3. SubSeq(held, 1, through) \in Seq(Requests)
        BY ONLY <3>1, <3>2, SubSeqProperties
      <3> QED BY <3>3
    <2>4. left \in Seq(Requests)
      <3>1. \A i \in through + 1 .. Len(held) : held[i] \in Requests
        <4>1. through + 1 .. Len(held) \subseteq 1 .. Len(held)
          BY <2>1
        <4> QED BY <1>2, <4>1
      <3>2. through + 1 \in Int /\ Len(held) \in Int
        BY <2>1
      <3> HIDE DEF held
      <3>3. SubSeq(held, through + 1, Len(held)) \in Seq(Requests)
        BY ONLY <3>1, <3>2, SubSeqProperties
      <3> QED BY <3>3
    <2> QED BY <2>1, <2>2, <2>3, <2>4
  <1> HIDE DEF held, gone, left
  <1>4. ToSet(held) = ToSet(gone) \cup ToSet(left)
    BY <1>3, LinesOfConcat
  <1>5. file' \in Seq(Requests) /\ ToSet(file') = ToSet(file) \cup ToSet(gone)
    BY <1>1, <1>3, LinesOfConcat DEF LinesTypeOK
  <1>6. LinesTypeOK'
    BY <1>1, <1>3, <1>5 DEF LinesTypeOK
  <1> QED BY <1>1, <1>2, <1>4, <1>5, <1>6 DEF Kept

LinesInv ==
    /\ LinesTypeOK
    /\ Up => Recorded \subseteq Kept
    /\ phase = "stopped" => Recorded \subseteq ToSet(file)
    /\ faults = 0 => unwritten = <<>> /\ IsInjective(AllLines) /\ ToSet(AllLines) \subseteq Recorded

\* A line is added, whether or not the flush it may cause fails.
LEMMA WrittenLines ==
    ASSUME LinesTypeOK, NEW r \in Requests, Write(r)
    PROVE  /\ LinesTypeOK' /\ Kept' = Kept \cup {r} /\ faults' \in {faults, faults + 1}
           /\ faults' = faults =>
                 /\ unwritten' \in {unwritten, <<>>}
                 /\ AllLines' = Append(AllLines, r)
  <1> DEFINE lines == Append(buffer, r)
  <1>1. lines \in Seq(Requests) /\ lines # <<>> /\ ToSet(lines) = ToSet(buffer) \cup {r}
    BY LinesOfAppend DEF LinesTypeOK
  <1>2. file \o unwritten \o lines = Append(AllLines, r)
    <2>1. file \o unwritten \in Seq(Requests) /\ AllLines \in Seq(Requests)
      BY LinesOfConcat, KeptLines DEF LinesTypeOK
    <2>2. lines = buffer \o <<r>> /\ Append(AllLines, r) = AllLines \o <<r>>
      BY <2>1, AppendIsConcat DEF LinesTypeOK
    <2>3. <<r>> \in Seq(Requests) /\ buffer \in Seq(Requests)
      BY DEF LinesTypeOK
    <2>4. (file \o unwritten) \o (buffer \o <<r>>) = ((file \o unwritten) \o buffer) \o <<r>>
      BY <2>1, <2>3, ConcatAssociative
    <2> QED BY <2>2, <2>4 DEF AllLines
  <1> HIDE DEF lines
  <1>3. CASE buffer' = lines /\ UNCHANGED <<file, unwritten, faults>>
    <2>1. AllLines' = file \o unwritten \o lines
      BY <1>3 DEF AllLines
    <2> QED BY <1>1, <1>2, <1>3, <2>1 DEF LinesTypeOK, Kept
  <1>4. CASE Flushed(lines)
    BY <1>1, <1>2, <1>4, FlushedLines DEF Kept
  <1>5. ASSUME NEW through \in Portions, FlushFails(lines, through) PROVE
           LinesTypeOK' /\ Kept' = Kept \cup {r} /\ faults' = faults + 1 /\ faults' # faults
    <2>1. through \in Nat
      <3>1. Len(unwritten) \in Nat /\ Len(buffer) \in Nat
        BY DEF LinesTypeOK
      <3> QED BY <3>1 DEF Portions
    <2>2. faults \in Nat
      BY DEF LinesTypeOK
    <2> QED BY <1>1, <1>5, <2>1, <2>2, FailedLines DEF Kept
  <1>6. \/ buffer' = lines /\ UNCHANGED <<file, unwritten, faults>>
        \/ Flushed(lines)
        \/ \E through \in Portions : FlushFails(lines, through)
    BY DEF Write, lines
  <1> QED BY <1>3, <1>4, <1>5, <1>6

LEMMA RecordKeepsLines ==
    ASSUME BooksInv, LinesInv, NEW r \in Requests, stage[r] \in Working \cup {"arrived"},
           Record(r), Up, UNCHANGED phase
    PROVE  LinesInv'
  <1>1. Write(r) /\ recorded' = [recorded EXCEPT ![r] = @ + 1]
    BY DEF Record
  <1>2. r \notin Recorded
    BY DEF BooksInv, SlotsAccountedFor, Recorded
  <1>3. Recorded' = Recorded \cup {r}
    BY <1>1 DEF BooksInv, Recorded
  <1>4. /\ LinesTypeOK' /\ Kept' = Kept \cup {r} /\ faults' \in {faults, faults + 1}
        /\ faults' = faults => unwritten' \in {unwritten, <<>>} /\ AllLines' = Append(AllLines, r)
    BY <1>1, WrittenLines DEF LinesInv
  <1>5. Up' /\ phase' # "stopped"
    BY DEF Up
  <1>6. ASSUME faults' = 0 PROVE unwritten' = <<>> /\ IsInjective(AllLines') /\ ToSet(AllLines') \subseteq Recorded'
    <2>1. faults = 0 /\ faults' = faults
      BY <1>4, <1>6 DEF LinesInv, LinesTypeOK
    <2>2. AllLines \in Seq(Requests)
      BY KeptLines DEF LinesInv
    <2>3. r \notin ToSet(AllLines)
      BY <1>2, <2>1 DEF LinesInv
    <2>4. /\ ToSet(Append(AllLines, r)) = ToSet(AllLines) \cup {r}
          /\ IsInjective(Append(AllLines, r))
      BY <2>1, <2>2, <2>3, LinesOfAppend DEF LinesInv
    <2> QED BY <1>3, <1>4, <2>1, <2>4 DEF LinesInv
  <1>7. Recorded' \subseteq Kept'
    BY <1>3, <1>4 DEF LinesInv
  <1> QED BY <1>4, <1>5, <1>6, <1>7 DEF LinesInv

\* A step that writes no line and flushes nothing.
LEMMA SameLines ==
    ASSUME LinesInv, UNCHANGED <<logVars, recorded>>, Up, phase' # "stopped"
    PROVE  LinesInv'
  BY DEF LinesInv, LinesTypeOK, logVars, Recorded, Kept, AllLines, Up

LEMMA LinesStay ==
    ASSUME LinesInv, UNCHANGED <<logVars, recorded, phase>>
    PROVE  LinesInv'
  BY DEF LinesInv, LinesTypeOK, logVars, Recorded, Kept, AllLines, Up

LEMMA FlushKeepsLines ==
    ASSUME LinesInv, Up, UNCHANGED recorded,
           \/ Flushed(buffer)
           \/ /\ phase' # "stopped"
              /\ \E through \in Portions : FlushFails(buffer, through)
    PROVE  LinesInv'
  <1>1. buffer \in Seq(Requests) /\ LinesTypeOK /\ Recorded' = Recorded /\ Recorded \subseteq Kept
    BY DEF LinesInv, LinesTypeOK, Recorded
  <1>2. CASE Flushed(buffer)
    BY <1>1, <1>2, FlushedLines DEF LinesInv, AllLines, Kept
  <1>3. ASSUME NEW through \in Portions, FlushFails(buffer, through), phase' # "stopped"
        PROVE  LinesInv'
    <2>1. through \in Nat /\ faults \in Nat
      <3>1. Len(unwritten) \in Nat /\ Len(buffer) \in Nat
        BY <1>1 DEF LinesTypeOK
      <3> QED BY <1>1, <3>1 DEF Portions, LinesTypeOK
    <2>2. LinesTypeOK' /\ faults' # 0 /\ Kept' = Kept
      BY <1>1, <1>3, <2>1, FailedLines DEF Kept
    <2> QED BY <1>1, <1>3, <2>2 DEF LinesInv
  <1> QED BY <1>2, <1>3

LEMMA LossKeepsLines ==
    ASSUME LinesInv, LogLost, UNCHANGED recorded, ~Up', phase' # "stopped"
    PROVE  LinesInv'
  <1>1. buffer' = <<>> /\ unwritten' = <<>> /\ file' = file /\ faults' = faults
    BY DEF LogLost
  <1>2. LinesTypeOK' /\ Recorded' = Recorded
    BY <1>1, EmptySeq DEF LinesInv, LinesTypeOK, Recorded
  <1>3. ASSUME faults' = 0 PROVE IsInjective(AllLines') /\ ToSet(AllLines') \subseteq Recorded'
    <2>1. AllLines' = file
      BY <1>1, EmptySeq, ConcatEmptySeq DEF AllLines, LinesInv, LinesTypeOK
    <2>2. file \in Seq(Requests) /\ buffer \in Seq(Requests) /\ AllLines = file \o buffer
      BY <1>1, <1>3, ConcatEmptySeq DEF LinesInv, LinesTypeOK, AllLines
    <2>3. Len(file) \in Nat /\ Len(buffer) \in Nat /\ Len(AllLines) = Len(file) + Len(buffer)
          /\ \A i \in 1 .. Len(file) + Len(buffer) :
                AllLines[i] = IF i <= Len(file) THEN file[i] ELSE buffer[i - Len(file)]
      BY <2>2, ConcatProperties
    <2>4. \A i \in DOMAIN file : i \in DOMAIN AllLines /\ AllLines[i] = file[i]
      <3>1. DOMAIN file = 1 .. Len(file) /\ DOMAIN AllLines = 1 .. Len(AllLines)
        BY <2>2, KeptLines DEF LinesInv
      <3> QED BY <2>3, <3>1
    <2>5. IsInjective(AllLines) /\ ToSet(AllLines) \subseteq Recorded
      BY <1>1, <1>3 DEF LinesInv
    <2>6. IsInjective(file)
      BY <2>4, <2>5 DEF IsInjective
    <2>7. ToSet(file) \subseteq Recorded
      BY <2>4, <2>5 DEF ToSet
    <2> QED BY <1>2, <2>1, <2>6, <2>7
  <1> QED BY <1>1, <1>2, <1>3 DEF LinesInv

LEMMA NextKeepsLines == BooksInv /\ BooksInv' /\ LinesInv /\ [Next]_vars => LinesInv'
  <1> SUFFICES ASSUME BooksInv, BooksInv', LinesInv, [Next]_vars PROVE LinesInv'
    OBVIOUS
  <1>1. ASSUME Up, UNCHANGED <<phase, recorded, logVars>> PROVE LinesInv'
    BY <1>1, SameLines DEF Up
  <1>2. ASSUME NEW r \in Requests, Arrive(r) PROVE LinesInv'
    BY <1>1, <1>2 DEF Arrive, Up, processVars
  <1>3. ASSUME NEW r \in Requests, Decide(r) PROVE LinesInv'
    <2>1. CASE Malformed(r)
      BY <1>1, <2>1 DEF Malformed, At, processVars
    <2>2. CASE TurnAway(r)
      <3>1. stage[r] = "arrived" /\ Up /\ Record(r) /\ UNCHANGED phase
        BY <2>2 DEF TurnAway, At, processVars
      <3> QED BY <3>1, RecordKeepsLines
    <2>3. ASSUME NEW route \in {"forwarding", "opening"}, Admit(r, route) PROVE LinesInv'
      BY <1>1, <2>3 DEF Admit, At, processVars
    <2> QED BY <1>3, <2>1, <2>2, <2>3 DEF Decide
  <1>4. ASSUME NEW r \in Requests, Proceed(r) PROVE LinesInv'
    <2>1. CASE Answered(r) \/ GiveUp(r) \/ StreamFails(r) \/ Closed(r)
      <3>1. stage[r] \in Working /\ Up /\ Record(r) /\ UNCHANGED phase
        BY <2>1 DEF Answered, GiveUp, StreamFails, Closed, Closing, At, End, processVars
      <3> QED BY <3>1, RecordKeepsLines
    <2>2. CASE \/ StreamOpens(r) \/ BodyStarts(r) \/ BodyNeverStarts(r)
               \/ BodyEnds(r) \/ HangsUp(r) \/ ClosingFails(r)
      <3>1. Up /\ UNCHANGED <<phase, recorded, logVars>>
        BY <2>2 DEF StreamOpens, BodyStarts, BodyNeverStarts, BodyEnds, HangsUp, ClosingFails,
                    Closing, At, processVars
      <3> QED BY <1>1, <3>1
    <2> QED BY <1>4, <2>1, <2>2 DEF Proceed
  <1>5. CASE FlusherRuns
    <2>1. Up /\ UNCHANGED <<recorded, phase>>
          /\ (Flushed(buffer) \/ \E through \in Portions : FlushFails(buffer, through))
      BY <1>5 DEF FlusherRuns, FlushOnTimer, requestVars, processVars
    <2>2. phase' # "stopped"
      BY <2>1 DEF Up
    <2> QED BY <2>1, <2>2, FlushKeepsLines
  <1>6. CASE Stop
    <2>1. phase = "draining" /\ Up /\ Flushed(buffer) /\ UNCHANGED recorded
      BY <1>6 DEF Stop, StopLog, Up
    <2> QED BY <2>1, FlushKeepsLines
  <1>7. CASE StopFails
    <2>1. phase = "draining" /\ Up /\ phase' = "failed" /\ ~Up' /\ UNCHANGED recorded
      BY <1>7 DEF StopFails, Up
    <2>2. CASE LogLost
      BY <2>1, <2>2, LossKeepsLines
    <2>3. CASE UNCHANGED logVars
      BY <2>1, <2>3, SameLines
    <2>4. CASE \E through \in Portions : FlushFails(buffer, through)
      BY <2>1, <2>4, FlushKeepsLines
    <2> QED BY <1>7, <2>2, <2>3, <2>4 DEF StopFails, StopLogFails
  <1>8. CASE Kill
    <2>1. LogLost /\ phase' = "killed" /\ ~Up' /\ UNCHANGED recorded
      BY <1>8 DEF Kill, Up, requestVars
    <2> QED BY <2>1, LossKeepsLines
  <1>9. CASE Terminate
    BY <1>9, SameLines DEF Terminate, Up, requestVars
  <1>10. ASSUME NEW t \in Mortal, TaskDies(t) PROVE LinesInv'
    BY <1>1, <1>10 DEF TaskDies, requestVars
  <1>11. ASSUME NEW r \in Requests, EngineWorks(r) PROVE LinesInv'
    BY <1>11, LinesStay DEF EngineWorks, requestVars, processVars
  <1>12. CASE UNCHANGED vars
    BY <1>12, LinesStay DEF vars, requestVars, processVars
  <1> QED BY <1>2, <1>3, <1>4, <1>5, <1>6, <1>7, <1>8, <1>9, <1>10, <1>11, <1>12 DEF Next

LEMMA InitLines == Init => LinesInv
  <1> SUFFICES ASSUME Init PROVE LinesInv
    OBVIOUS
  <1>1. buffer = <<>> /\ unwritten = <<>> /\ file = <<>> /\ faults = 0 /\ phase = "serving"
    BY DEF Init, LogInit
  <1>2. LinesTypeOK
    BY <1>1, EmptySeq DEF LinesTypeOK
  <1>3. Recorded = {}
    BY DEF Init, Recorded
  <1>4. AllLines = <<>> /\ Len(AllLines) = 0
    BY <1>1, EmptySeq, ConcatEmptySeq DEF AllLines
  <1>5. DOMAIN AllLines = {}
    BY <1>4
  <1> QED BY <1>1, <1>2, <1>3, <1>5 DEF LinesInv, IsInjective, ToSet

\* RecordsAreKept, for any number of lines that fit the buffer and of writes
\* that fail after any part of the lines: a flush empties the buffer only
\* once its lines are in the file, and before that the buffer has them all.
THEOREM NoLineIsLost == Spec => []RecordsAreKept
  <1>1. LinesInv => RecordsAreKept
    BY DEF LinesInv, RecordsAreKept, AllLines
  <1> QED BY <1>1, InitBooks, InitLines, NextKeepsBooks, NextKeepsLines, PTL DEF Spec

-----------------------------------------------------------------------------
(* Types *)

FlusherInv == flusher \in {"running", "dead", "ended"} /\ faults \in 0 .. MaxFaults

LEMMA NextKeepsFlusher == FlusherInv /\ [Next]_vars => FlusherInv'
  <1> SUFFICES ASSUME FlusherInv, [Next]_vars PROVE FlusherInv'
    OBVIOUS
  <1> USE LogAssumption
  <1>1. ASSUME UNCHANGED <<flusher, faults>> PROVE FlusherInv'
    BY <1>1 DEF FlusherInv
  <1>2. ASSUME NEW lines, Flushed(lines) PROVE faults' = faults
    BY <1>2 DEF Flushed
  <1>3. ASSUME NEW lines, NEW through, FlushFails(lines, through) PROVE faults' \in 0 .. MaxFaults
    BY <1>3 DEF FlushFails, FlusherInv
  <1>4. ASSUME NEW r \in Requests, Write(r) PROVE FlusherInv'
    BY <1>2, <1>3, <1>4 DEF Write, FlusherInv
  <1>5. CASE \E r \in Requests : Arrive(r) \/ Decide(r)
    BY <1>1, <1>4, <1>5 DEF Arrive, Decide, Malformed, TurnAway, Record, Admit, logVars
  <1>6. ASSUME NEW r \in Requests, Proceed(r) PROVE FlusherInv'
    <2>1. Write(r) \/ UNCHANGED logVars
      BY <1>6 DEF Proceed, Answered, GiveUp, StreamOpens, StreamFails, BodyStarts, BodyNeverStarts,
                  BodyEnds, HangsUp, Closed, ClosingFails, End, Record
    <2> QED BY <1>1, <1>4, <2>1 DEF logVars
  <1>7. CASE FlusherRuns
    BY <1>2, <1>3, <1>7 DEF FlusherRuns, FlushOnTimer, FlusherInv
  <1>8. CASE Stop \/ StopFails \/ Kill
    BY <1>2, <1>3, <1>8 DEF Stop, StopFails, Kill, StopLog, StopLogFails, LogLost, FlusherInv, logVars
  <1>9. CASE \/ \E r \in Requests : EngineWorks(r)
             \/ \E t \in Mortal : TaskDies(t)
             \/ Terminate \/ UNCHANGED vars
    BY <1>1, <1>9 DEF EngineWorks, TaskDies, Terminate, vars, logVars
  <1> QED BY <1>5, <1>6, <1>7, <1>8, <1>9 DEF Next

\* Type correctness of the gateway with its log and its engine; in particular
\* no more requests are admitted than there are slots, and none of the books
\* of the handler can become negative.
THEOREM TypeCorrect == Spec => []TypeOK
  <1>1. Init => FlusherInv
    BY LogAssumption DEF Init, LogInit, FlusherInv
  <1>2. BooksInv /\ JobsInv /\ LinesInv /\ FlusherInv => TypeOK
    <2> SUFFICES ASSUME BooksInv, JobsInv, LinesInv, FlusherInv PROVE TypeOK
      OBVIOUS
    <2>1. LogTypeOK(Requests)
      BY DEF LogTypeOK, LinesInv, LinesTypeOK, FlusherInv
    <2>2. EngineTypeOK(Requests)
      BY EngineAssumption DEF EngineTypeOK, JobsInv
    <2>3. inflight \in 0 .. Slots
      BY GatewayAssumption DEF BooksInv
    <2> QED BY <2>1, <2>2, <2>3 DEF TypeOK, BooksInv
  <1> QED BY <1>1, <1>2, InitBooks, InitJobs, InitLines, NextKeepsBooks, NextKeepsJobs,
             NextKeepsLines, NextKeepsFlusher, PTL DEF Spec
=============================================================================
