--------------------------------- MODULE MCLog ---------------------------------
(* Threads are model values: no step tells one from another.               *)
EXTENDS Log, TLC

Symmetry == Permutations(Threads)
================================================================================
