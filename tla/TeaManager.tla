----------------------------- MODULE TeaManager -----------------------------
(***************************************************************************)
(* The tea manager (internal/managers/tea): mutations write the tea store  *)
(* and announce the result on a buffered channel; one loop goroutine takes *)
(* announcements from the three channels and broadcasts them, cleaning the *)
(* three registries after every broadcast.                                 *)
(*                                                                         *)
(* A mutation request announces at most one event, so the request itself   *)
(* names the event.                                                        *)
(***************************************************************************)
EXTENDS Subscribers, FiniteSets

CONSTANTS TeaIds,     \* identifiers the database may generate
          ChanSize,   \* capacity of the three channels (100 in NewManager)
          NoOp        \* the operation of a request that has not run

ASSUME TeaManagerAssumption ==
    /\ Topics = {"create", "update", "delete"}
    /\ ChanSize \in Nat \ {0}
    /\ NoOp \notin Topics

Requests == Messages

VARIABLES
    teas,       \* teas[id]: "unborn" (never generated), "stored" or "deleted"
    req,        \* req[r]: "new", "announce" (written, not yet on the channel),
                \*         "done" (returned to the caller) or "failed"
    op,         \* op[r]: the channel r's event belongs to
    prior,      \* history: the requests that had returned when r ran
    chan,       \* chan[t]: the buffered channel of topic t
    cleaning    \* the registries the loop still has to clean before selecting

managerVars == <<teas, req, op, prior, chan, cleaning>>
teaVars == <<subVars, managerVars>>

ManagerTypeOK ==
    /\ teas \in [TeaIds -> {"unborn", "stored", "deleted"}]
    /\ req \in [Requests -> {"new", "announce", "done", "failed"}]
    /\ op \in [Requests -> Topics \union {NoOp}]
    /\ \A r \in Requests : req[r] \in {"announce", "done"} => op[r] \in Topics
    /\ prior \in [Requests -> SUBSET Requests]
    /\ chan \in [Topics -> Seq(Requests)]
    /\ \A t \in Topics : Len(chan[t]) <= ChanSize
    /\ cleaning \in Seq(Topics)

TeaTypeOK == SubTypeOK /\ ManagerTypeOK

Init ==
    /\ SubInit
    /\ teas \in [TeaIds -> {"unborn", "stored"}]
    /\ req = [r \in Requests |-> "new"]
    /\ op = [r \in Requests |-> NoOp]
    /\ prior = [r \in Requests |-> {}]
    /\ chan = [t \in Topics |-> << >>]
    /\ cleaning = << >>

-----------------------------------------------------------------------------
(***************************************************************************)
(* Mutations.  The storage call is one SQL statement; the send on the      *)
(* manager's channel is a later step, and other requests run in between.   *)
(***************************************************************************)

\* Mutant: the caller is answered once the row is written, the event sent later.
WrittenInBackground(r, t) ==
    /\ req[r] = "new"
    /\ req' = [req EXCEPT ![r] = "announce"]
    /\ op' = [op EXCEPT ![r] = t]
    /\ prior' = [prior EXCEPT ![r] = {q \in Requests : req[q] \in {"announce", "done"}}]
    /\ UNCHANGED <<subVars, chan, cleaning>>

\* The storage call of r succeeded: its event is to be announced on topic t.
Written(r, t) ==
    /\ req[r] = "new"
    /\ req' = [req EXCEPT ![r] = "announce"]
    /\ op' = [op EXCEPT ![r] = t]
    /\ prior' = [prior EXCEPT ![r] = {q \in Requests : req[q] = "done"}]
    /\ UNCHANGED <<subVars, chan, cleaning>>

\* INSERT ... RETURNING with an identifier of the database's making.
Create(r) ==
    /\ \E id \in TeaIds :
         /\ teas[id] = "unborn"
         /\ teas' = [teas EXCEPT ![id] = "stored"]
    /\ Written(r, "create")

\* UPDATE ... RETURNING: no row means an error and no event.
Update(r) ==
    /\ \E id \in TeaIds : teas[id] = "stored"
    /\ Written(r, "update")
    /\ UNCHANGED teas

\* DELETE does not report whether there was a row: deleting a tea that is not
\* there is announced as well.
Delete(r) ==
    /\ \E id \in TeaIds :
         teas' = [teas EXCEPT ![id] = IF @ = "stored" THEN "deleted" ELSE @]
    /\ Written(r, "delete")

\* The storage call fails (no such row, or the database is unreachable): the
\* manager returns the error and announces nothing.
Fail(r) ==
    /\ req[r] = "new"
    /\ req' = [req EXCEPT ![r] = "failed"]
    /\ UNCHANGED <<subVars, teas, op, prior, chan, cleaning>>

\* The blocking send that ends Create, Update and Delete.
Enqueue(r) ==
    /\ req[r] = "announce"
    /\ Len(chan[op[r]]) < ChanSize
    /\ chan' = [chan EXCEPT ![op[r]] = Append(@, r)]
    /\ req' = [req EXCEPT ![r] = "done"]
    /\ UNCHANGED <<subVars, teas, op, prior, cleaning>>

-----------------------------------------------------------------------------
(***************************************************************************)
(* The loop goroutine.                                                     *)
(***************************************************************************)

\* Mutant: one registry is never cleaned.
CleanOrderWithoutDelete == <<"create", "update">>

\* The registries in the order the loop cleans them.
CleanOrder == <<"create", "update", "delete">>

\* Mutant: the event is read but stays on the channel.
LoopReceivePeeks(t) ==
    /\ cleaning = << >>
    /\ chan[t] # << >>
    /\ SendAll(t, Head(chan[t]))
    /\ Len(sent[t]) < 2
    /\ cleaning' = CleanOrder
    /\ UNCHANGED <<teas, req, op, prior, chan>>

\* One case of the select: receive from topic t's channel and call SendAll.
LoopReceive(t) ==
    /\ cleaning = << >>
    /\ chan[t] # << >>
    /\ SendAll(t, Head(chan[t]))
    /\ chan' = [chan EXCEPT ![t] = Tail(@)]
    /\ cleaning' = CleanOrder
    /\ UNCHANGED <<teas, req, op, prior>>

\* Mutant: the loop never leaves its cleaning phase.
LoopCleanForever ==
    /\ cleaning # << >>
    /\ CleanDone(Head(cleaning))
    /\ UNCHANGED <<teas, req, op, prior, chan, cleaning>>

\* The next of the three CleanDone calls.
LoopClean ==
    /\ cleaning # << >>
    /\ CleanDone(Head(cleaning))
    /\ cleaning' = Tail(cleaning)
    /\ UNCHANGED <<teas, req, op, prior, chan>>

LoopStep == DispatcherStep /\ UNCHANGED managerVars

ClientStep == ClientNext /\ UNCHANGED managerVars

Next ==
    \/ \E r \in Requests : Create(r) \/ Update(r) \/ Delete(r) \/ Fail(r) \/ Enqueue(r)
    \/ \E t \in Topics : LoopReceive(t)
    \/ LoopClean
    \/ LoopStep
    \/ ClientStep

Spec == Init /\ [][Next]_teaVars

-----------------------------------------------------------------------------
(***************************************************************************)
(* Safety.                                                                 *)
(***************************************************************************)

\* The events of topic t in the order they were put on its channel.
Enqueued(t) == sent[t] \o chan[t]

\* Positions of r among the events put on topic t's channel.
Places(r, t) == {i \in DOMAIN Enqueued(t) : Enqueued(t)[i] = r}

\* Every mutation that returned successfully is announced exactly once, on the
\* channel of its operation; one that failed, or whose send has not completed,
\* is announced nowhere.
AnnouncedOnce ==
    \A r \in Requests, t \in Topics :
        Cardinality(Places(r, t)) = IF req[r] = "done" /\ op[r] = t THEN 1 ELSE 0

\* A mutation that returned before another of the same kind began is announced
\* before it.  (Concurrent mutations, and mutations of different kinds, may be
\* announced in either order: the write and the send are separate steps and
\* the loop's select takes any ready channel.)
RealTimeOrder ==
    \A r \in Requests : \A q \in prior[r] :
        req[r] = "done" /\ op[q] = op[r] =>
            \A i \in Places(q, op[r]), j \in Places(r, op[r]) : i < j

-----------------------------------------------------------------------------
(***************************************************************************)
(* Liveness.  The loop goroutine, the requests waiting to send and the     *)
(* readers keep running: a reader goes back to its select once its         *)
(* response is written, and leaves it when its context is done.  Which     *)
(* ready channel the loop's select takes is left open: only finitely many  *)
(* requests run, so it can pass over a channel only finitely often.        *)
(* Nothing obliges a client to subscribe or to cancel.                     *)
(***************************************************************************)
ReaderMoves(c) == (AwaitNext(c) \/ StopReading(c)) /\ UNCHANGED managerVars

Fairness ==
    /\ WF_teaVars(LoopStep \/ LoopClean \/ \E t \in Topics : LoopReceive(t))
    /\ \A r \in Requests : WF_teaVars(Enqueue(r))
    /\ \A c \in Clients : WF_teaVars(ReaderMoves(c))

FairSpec == Spec /\ Fairness

\* SendAll is about to send to a client whose reader has left: nobody will
\* ever receive, and the registry's lock is held.
Stalled ==
    /\ pc = "send"
    /\ pos <= Len(subs[cur])
    /\ reader[subs[cur][pos]] = "gone"

\* Every event a mutation has to announce is broadcast to the end, or the loop
\* is stuck in a send to a reader that has left: nothing else stops it.
BroadcastOrStalled ==
    \A r \in Requests :
        (req[r] = "announce") ~>
            (Stalled \/ (msg # r /\ \E t \in Topics : \E i \in DOMAIN sent[t] : sent[t][i] = r))

\* After a broadcast the subscriptions whose context was done are removed and
\* their channels closed, or the loop is stuck as above.
RemovedOrStalled ==
    \A c \in Clients :
        (pc = "send" /\ c \in ctxDone /\ topicOf[c] # NoTopic) ~> (c \in closed \/ Stalled)

\* What the loop's comment on its CleanDone calls says: after a broadcast,
\* closed connections are removed.
ClosedConnectionsRemoved ==
    \A c \in Clients :
        (pc = "send" /\ c \in ctxDone /\ topicOf[c] # NoTopic) ~> c \in closed

=============================================================================
