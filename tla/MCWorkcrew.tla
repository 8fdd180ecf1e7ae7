----------------------------- MODULE MCWorkcrew -----------------------------
(* Workcrew for TLC: the threads of a stage are interchangeable. *)
EXTENDS Workcrew, TLC

Symmetry == Permutations(Acceptors) \cup Permutations(Processors) \cup Permutations(Responders)

(* Bound of the safety run: after a failed malloc it follows the server until it
   is told to stop, with any number of further failures; the stop itself is
   explored in full without one. *)
FailureBound == failed => ctl = "run"
=============================================================================
