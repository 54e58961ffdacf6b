----------------------------- MODULE SlotLedger -----------------------------
(***************************************************************************)
(* What a slot pool promises, with none of its machinery: a set of slot    *)
(* owners that never outgrows the capacity, and a first-come-first-served  *)
(* queue that nobody can jump.  A request takes a slot at once only when   *)
(* nobody queues, a slot that is given up goes to the head of the queue    *)
(* and to no one else, and a request may stop waiting at any time.         *)
(*                                                                         *)
(* gateway/slots.py implements this with a counter, a deque of futures and *)
(* timers; SlotPool models that, and is shown to refine this module.       *)
(***************************************************************************)
EXTENDS Integers, FiniteSets, SequencesExt

CONSTANTS Requests,     \* the requests that compete for slots
          Capacity      \* the number of slots

VARIABLES owners,       \* the requests that own a slot
          queue         \* the requests that wait for one, oldest first

ledgerVars == <<owners, queue>>

Init == owners = {} /\ queue = <<>>

\* A slot is free, so nobody may be queueing for it.
Take(r) ==
    /\ r \notin owners /\ queue = <<>>
    /\ Cardinality(owners) < Capacity
    /\ owners' = owners \cup {r}
    /\ UNCHANGED queue

\* Every slot is owned: wait behind everyone who came earlier.
Join(r) ==
    /\ r \notin owners /\ \A i \in DOMAIN queue : queue[i] # r
    /\ Cardinality(owners) = Capacity
    /\ queue' = Append(queue, r)
    /\ UNCHANGED owners

\* The bounded wait of some queued request ends.
Quit(i) ==
    /\ queue' = RemoveAt(queue, i)
    /\ UNCHANGED owners

\* The slot of r is passed to the head of the queue, or falls free.
Yield(r) ==
    /\ r \in owners
    /\ \/ /\ queue = <<>>
          /\ owners' = owners \ {r}
          /\ UNCHANGED queue
       \/ /\ queue # <<>>
          /\ owners' = (owners \ {r}) \cup {Head(queue)}
          /\ queue' = Tail(queue)

Next ==
    \/ \E r \in Requests : Take(r) \/ Join(r) \/ Yield(r)
    \/ \E i \in DOMAIN queue : Quit(i)

Spec == Init /\ [][Next]_ledgerVars
=============================================================================
