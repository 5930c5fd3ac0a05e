--------------------------- MODULE MCCollections ---------------------------
(***************************************************************************)
(* A small instance of Collections for TLC.                                *)
(***************************************************************************)
EXTENDS Collections, TLC

\* Identifiers and requests are interchangeable.
MCSymmetry ==
    Permutations(Users) \union Permutations(CollectionIds)
      \union Permutations(RecordIds) \union Permutations(TeaIds)
      \union Permutations(Requests)

=============================================================================
