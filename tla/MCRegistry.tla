----------------------------- MODULE MCRegistry -----------------------------
(* Registry on a small instance whose threads, handles, objects and names    *)
(* are interchangeable.                                                      *)
EXTENDS Registry

Symmetry == Permutations(Thread) \cup Permutations(Handle)
               \cup Permutations(Object) \cup Permutations(Name)
=============================================================================
