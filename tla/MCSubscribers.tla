--------------------------- MODULE MCSubscribers ---------------------------
(***************************************************************************)
(* Small instances of Subscribers for TLC: SendAll is called at most       *)
(* MaxSent times per topic.                                                *)
(***************************************************************************)
EXTENDS Subscribers, TLC

CONSTANT MaxSent

MCDispatcherCall ==
    \E t \in Topics :
        \/ \E m \in Messages : Len(sent[t]) < MaxSent /\ SendAll(t, m)
        \/ CleanDone(t)

MCNext == ClientNext \/ DispatcherStep \/ MCDispatcherCall

MCSpec == SubInit /\ [][MCNext]_subVars

\* Subscriptions, topics and messages are interchangeable.
MCSymmetry == Permutations(Clients) \union Permutations(Topics) \union Permutations(Messages)

=============================================================================
