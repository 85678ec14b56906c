------------------------- MODULE MCDocumentService --------------------------
(***************************************************************************)
(* DocumentService for TLC.  Requests and rows are interchangeable; the    *)
(* liveness run may not use the symmetry.                                  *)
(***************************************************************************)
EXTENDS DocumentService, TLC

Symmetry == Permutations(Request) \cup Permutations(DocId) \cup Permutations(User)

=============================================================================
