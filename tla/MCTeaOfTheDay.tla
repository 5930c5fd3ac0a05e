--------------------------- MODULE MCTeaOfTheDay ---------------------------
(***************************************************************************)
(* Small instances of TeaOfTheDay for TLC.                                 *)
(***************************************************************************)
EXTENDS TeaOfTheDay, TLC

\* Users, teas and requests are interchangeable.
MCSymmetry == Permutations(Users) \union Permutations(Teas) \union Permutations(Requests)

=============================================================================
