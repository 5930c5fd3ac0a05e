----------------------------- MODULE MCScoring -----------------------------
(***************************************************************************)
(* Small instances of Scoring for TLC.                                     *)
(***************************************************************************)
EXTENDS Scoring, TLC

\* Teas are interchangeable: their names are among the inputs.
MCSymmetry == Permutations(TeaIds)

=============================================================================
