--------------------------- MODULE MCDeferredSave ---------------------------
(***************************************************************************)
(* DeferredSave for TLC.                                                   *)
(***************************************************************************)
EXTENDS DeferredSave

=============================================================================
