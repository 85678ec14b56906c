------------------------- MODULE MCSequencedContent -------------------------
(***************************************************************************)
(* SequencedContent for TLC.                                               *)
(***************************************************************************)
EXTENDS SequencedContent

=============================================================================
