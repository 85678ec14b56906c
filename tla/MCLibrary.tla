------------------------------ MODULE MCLibrary ------------------------------
(***************************************************************************)
(* SharedLibrary for TLC.                                                  *)
(***************************************************************************)
EXTENDS SharedLibrary, TLC

MCAttempts == -1 .. 3

MCLimits == {-1, 0, 1, 2, 5}

(* No definition tells the calls of the checks from each other.            *)
Symmetry == Permutations(Op)

=============================================================================
