------------------------------- MODULE MCDemo -------------------------------
(* Three runs, as of a pair that fails and another, and an environment that *)
(* asks for another mode.                                                   *)
EXTENDS DemoRuntime

MCEnv == [mode |-> "full"]
=============================================================================
