---------------------------- MODULE MCTagManager ----------------------------
(***************************************************************************)
(* A small instance of TagManager for TLC.                                 *)
(***************************************************************************)
EXTENDS TagManager

MCTopics == Registries

MCMessages == Events

=============================================================================
