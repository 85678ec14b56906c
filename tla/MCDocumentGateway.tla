------------------------- MODULE MCDocumentGateway --------------------------
(***************************************************************************)
(* DocumentGateway for TLC.                                                *)
(***************************************************************************)
EXTENDS DocumentGateway, TLC

Symmetry == Permutations(Request) \cup Permutations(Socket) \cup Permutations(User)

=============================================================================
