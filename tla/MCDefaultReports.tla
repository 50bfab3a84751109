-------------------------- MODULE MCDefaultReports --------------------------
(* DefaultReports on small instances, whose tests, suites and paths are      *)
(* interchangeable.                                                          *)
EXTENDS DefaultReports

Symmetry == Permutations(Test) \cup Permutations(Suite) \cup Permutations(Path)
=============================================================================
