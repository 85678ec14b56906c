---------------------------- MODULE MCMigration -----------------------------
(***************************************************************************)
(* Migration for TLC.                                                      *)
(***************************************************************************)
EXTENDS Migration

MCArgument == {[kind |-> "name", of |-> V2], [kind |-> "version", of |-> V2]}

=============================================================================
