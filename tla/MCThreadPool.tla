---------------------------- MODULE MCThreadPool ----------------------------
(* Instances of ThreadPool for TLC.  Workers, clients and jobs are
   interchangeable, so the safety runs use symmetry. *)
EXTENDS ThreadPool, TLC

Symmetry == Permutations(Workers) \cup Permutations(Clients) \cup Permutations(Jobs)
=============================================================================
