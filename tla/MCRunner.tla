------------------------------ MODULE MCRunner ------------------------------
(* Runner on small instances: orders below, at and above the default, and   *)
(* interchangeable threads and handlers for the runs that check no liveness. *)
EXTENDS Runner, TLC

MCOrder == {-1, 0, 1}
Symmetry == Permutations(Thread) \cup Permutations(Handler)
=============================================================================
