----------------------------- MODULE MCGateway -----------------------------
(* Two requests for one slot and an engine that runs one at a time. *)
EXTENDS Gateway

\* Above the ceiling, and to be generated twice; and the other spelling.
MCBodies == {[max |-> 3, completion |-> Absent, multiple |-> 2],
             [max |-> Absent, completion |-> 3, multiple |-> 1]}
=============================================================================
