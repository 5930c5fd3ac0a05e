----------------------------- MODULE MCSessions -----------------------------
(***************************************************************************)
(* A small instance of Sessions for TLC.                                   *)
(***************************************************************************)
EXTENDS Sessions

\* No step tells accounts, ids, logins or the editor's keys apart.
MCSymmetry ==
    Permutations(Accounts) \union Permutations(Users)
        \union Permutations(Logins) \union Permutations(AdminKeys)

=============================================================================
