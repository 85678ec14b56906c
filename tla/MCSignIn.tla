------------------------------ MODULE MCSignIn ------------------------------
(***************************************************************************)
(* SignIn and Accounts for TLC.  Tabs, e-mails, passwords and uuids are    *)
(* interchangeable.                                                        *)
(***************************************************************************)
EXTENDS SignIn, TLC

Symmetry ==
    Permutations(Client) \cup Permutations(Email) \cup Permutations(Password)
        \cup Permutations(UserId)

=============================================================================
