-------------------------- MODULE MCEditorSession ---------------------------
(***************************************************************************)
(* EditorSession for TLC.                                                  *)
(***************************************************************************)
EXTENDS EditorSession, TLC

Symmetry == Permutations(Tab) \cup Permutations(Stroke) \cup Permutations(DocId)

=============================================================================
