---------------------------- MODULE MCObservation ----------------------------
(* An instance of Observation for the model checker: two names, so that a   *)
(* search may pass a frame that has the other one, and three frames, so     *)
(* that a frame lies between the innermost and the outermost.               *)
EXTENDS Observation

TwoNames == {"x", "y"}
=============================================================================
