------------------------ MODULE MCSubshellLifecycle ------------------------
(* SubshellLifecycle with the tasks interchangeable, as model values.       *)
EXTENDS SubshellLifecycle, TLC

TaskSymmetry == Permutations(Tasks)
=============================================================================
