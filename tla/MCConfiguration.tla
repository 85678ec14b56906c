--------------------------- MODULE MCConfiguration ---------------------------
(***************************************************************************)
(* Configuration for TLC.  Databases are interchangeable.                  *)
(***************************************************************************)
EXTENDS Configuration, TLC

Symmetry == Permutations(Database)

=============================================================================
