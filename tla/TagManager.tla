----------------------------- MODULE TagManager -----------------------------
(***************************************************************************)
(* The tag manager as a whole (internal/managers/tag): the mutations and   *)
(* events of TagCatalog, the eight registries of Subscribers, and the loop *)
(* goroutine between them.  The loop hands what it takes from a channel to *)
(* the registry that the select case of this channel names, and cleans all *)
(* eight registries after every event, the dropped ones included.  The     *)
(* subscription resolvers choose the registry a client is pushed to.       *)
(*                                                                         *)
(* Several channels carry the same Go type, and so do several registries:  *)
(* the compiler would accept most ways of connecting them.                 *)
(***************************************************************************)
EXTENDS TagCatalog, Subscribers

\* The manager's registries, by their fields.
Registries == {"createSubscribers", "updateSubscribers", "deleteSubscribers",
               "createSubscribersCategory", "updateSubscribersCategory",
               "deleteSubscribersCategory",
               "addTagToTeaSubscribers", "deleteTagToTeaSubscribers"}

ASSUME TagManagerAssumption == Topics = Registries /\ Messages = Events

VARIABLES cleaning,   \* the registries the loop still has to clean before selecting
          wanted      \* wanted[c]: the subscription field client c asked for

tagVars == <<catalogVars, subVars, cleaning, wanted>>

\* Mutant: the flag is read the wrong way round.
handleTeaTagChangeSwapped(added) ==
    IF added THEN "deleteTagToTeaSubscribers" ELSE "addTagToTeaSubscribers"

\* The registry handleTeaTagChange sends to.
handleTeaTagChange(added) ==
    IF added THEN "addTagToTeaSubscribers" ELSE "deleteTagToTeaSubscribers"

\* The cases of the loop's select: the registry that gets what channel ch held.
SendsTo(ch) ==
    CASE ch = "create" -> "createSubscribers"
      [] ch = "update" -> "updateSubscribers"
      [] ch = "delete" -> "deleteSubscribers"
      [] ch = "createCategory" -> "createSubscribersCategory"
      [] ch = "updateCategory" -> "updateSubscribersCategory"
      [] ch = "deleteCategory" -> "deleteSubscribersCategory"
      [] ch = "addTagToTea" -> handleTeaTagChange(TRUE)
      [] ch = "deleteTagFromTea" -> handleTeaTagChange(FALSE)

\* The subscriptions the schema offers on tags and categories.
Fields == {"onCreateTagCategory", "onUpdateTagCategory", "onDeleteTagCategory",
           "onCreateTag", "onUpdateTag", "onDeleteTag",
           "onAddTagToTea", "onDeleteTagFromTea"}

\* The registry the resolver of field f, through SubscribeOn..., pushes to.
SubscribeOn(f) ==
    CASE f = "onCreateTagCategory" -> "createSubscribersCategory"
      [] f = "onUpdateTagCategory" -> "updateSubscribersCategory"
      [] f = "onDeleteTagCategory" -> "deleteSubscribersCategory"
      [] f = "onCreateTag" -> "createSubscribers"
      [] f = "onUpdateTag" -> "updateSubscribers"
      [] f = "onDeleteTag" -> "deleteSubscribers"
      [] f = "onAddTagToTea" -> "addTagToTeaSubscribers"
      [] f = "onDeleteTagFromTea" -> "deleteTagToTeaSubscribers"

\* The registries in the order cleanAll cleans them.
CleanAllOrder ==
    <<"createSubscribersCategory", "updateSubscribersCategory", "deleteSubscribersCategory",
      "deleteSubscribers", "createSubscribers", "updateSubscribers",
      "addTagToTeaSubscribers", "deleteTagToTeaSubscribers">>

TagTypeOK ==
    /\ CatalogTypeOK
    /\ SubTypeOK
    /\ cleaning \in Seq(Topics)
    /\ wanted \in [Clients -> Fields \union {NoTopic}]

TagInit ==
    /\ CatalogInit
    /\ SubInit
    /\ cleaning = << >>
    /\ wanted = [c \in Clients |-> NoTopic]

\* Mutations, and the tea manager, run beside the loop.
MutationStep ==
    /\ TeaDeleted \/ \E r \in Requests : RequestStep(r)
    /\ UNCHANGED <<subVars, cleaning, wanted>>

\* The loop's select.
LoopReceive ==
    /\ pc = "idle" /\ cleaning = << >>
    /\ \E ch \in Channels : Receive(ch)
    /\ UNCHANGED <<subVars, cleaning, wanted>>

\* The select case of the event's channel, when what it reads back is there.
LoopAnnounce ==
    /\ Announce
    /\ SendAll(SendsTo(held.ch), held)
    /\ cleaning' = CleanAllOrder
    /\ UNCHANGED wanted

\* Mutant: the early return skips cleanAll.
LoopDropReturns ==
    /\ Drop
    /\ UNCHANGED <<subVars, cleaning, wanted>>

\* Their early return when it is not: cleanAll runs all the same.
LoopDrop ==
    /\ Drop
    /\ cleaning' = CleanAllOrder
    /\ UNCHANGED <<subVars, wanted>>

\* The next CleanDone call of cleanAll.
LoopClean ==
    /\ cleaning # << >>
    /\ CleanDone(Head(cleaning))
    /\ cleaning' = Tail(cleaning)
    /\ UNCHANGED <<catalogVars, wanted>>

LoopStep == DispatcherStep /\ UNCHANGED <<catalogVars, cleaning, wanted>>

\* The resolver of subscription field f.
Subscribe(c, f) ==
    /\ Push(c, SubscribeOn(f))
    /\ wanted' = [wanted EXCEPT ![c] = f]
    /\ UNCHANGED <<catalogVars, cleaning>>

\* The context and the reader of subscription c.
ReaderMoves(c) == AwaitNext(c) \/ StopReading(c)

ClientStep ==
    /\ \E c \in Clients : Cancel(c) \/ ReaderMoves(c)
    /\ UNCHANGED <<catalogVars, cleaning, wanted>>

TagNext ==
    \/ MutationStep
    \/ LoopReceive \/ LoopAnnounce \/ LoopDrop \/ LoopClean \/ LoopStep
    \/ \E c \in Clients, f \in Fields : Subscribe(c, f)
    \/ ClientStep

TagSpec == TagInit /\ [][TagNext]_tagVars

\* The loop goroutine, the requests that wait to send and the readers keep
\* running.  Which ready channel the select takes is left open: only finitely
\* many requests run, so it can pass over a channel only finitely often.
TagFairness ==
    /\ WF_tagVars(LoopReceive \/ LoopAnnounce \/ LoopDrop \/ LoopClean \/ LoopStep)
    /\ \A r \in Requests : WF_tagVars(Enqueue(r) /\ UNCHANGED <<subVars, cleaning, wanted>>)
    /\ \A c \in Clients :
         WF_tagVars(ReaderMoves(c) /\ UNCHANGED <<catalogVars, cleaning, wanted>>)

TagFairSpec == TagSpec /\ TagFairness

-----------------------------------------------------------------------------

\* The change that subscription field f promises to tell of.
ToldBy(f) ==
    CASE f = "onCreateTagCategory" -> "category created"
      [] f = "onUpdateTagCategory" -> "category changed"
      [] f = "onDeleteTagCategory" -> "category deleted"
      [] f = "onCreateTag" -> "tag created"
      [] f = "onUpdateTag" -> "tag changed"
      [] f = "onDeleteTag" -> "tag deleted"
      [] f = "onAddTagToTea" -> "tag added to tea"
      [] f = "onDeleteTagFromTea" -> "tag removed from tea"

\* From the mutation's channel over the loop's select and the registry to the
\* resolver of the subscription: a subscriber is told only of the changes it
\* asked for, and the registry it is in is handed every one that is announced.
ToldWhatWasAsked ==
    \A c \in Clients : topicOf[c] # NoTopic =>
        /\ \A i \in DOMAIN rcvd[c] : rcvd[c][i].what = ToldBy(wanted[c])
        /\ {sent[topicOf[c]][i] : i \in DOMAIN sent[topicOf[c]]} =
             {e \in announced : e.what = ToldBy(wanted[c])}

\* SendAll is about to send to a client whose reader has left.
Stalled ==
    /\ pc = "send"
    /\ pos <= Len(subs[cur])
    /\ reader[subs[cur][pos]] = "gone"

\* Every event a mutation has to send is handled by the loop, unless the loop is
\* stuck sending to a client that has left: channels that are full, categories
\* with more tags than a channel holds and failed reads delay it but stop
\* nothing.
EventuallyHandled ==
    \A r \in Requests :
        step[r] = "announce" ~> (final[r] \in announced \union dropped \union unread \/ Stalled)

\* Once the loop has received an event, and whether it announces or drops it,
\* the subscriptions of every kind whose context was done are removed and
\* their channels closed, unless the loop is stuck sending to one of them.
CleanedAfterEvent ==
    \A c \in Clients :
        (held # NoEvent /\ c \in ctxDone /\ topicOf[c] # NoTopic) ~> (c \in closed \/ Stalled)

=============================================================================
