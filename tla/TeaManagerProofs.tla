-------------------------- MODULE TeaManagerProofs --------------------------
(***************************************************************************)
(* Proofs about the tea manager, for any number of clients, requests and   *)
(* teas and any channel capacity.                                          *)
(***************************************************************************)
EXTENDS TeaManager, SubscribersProofs, FiniteSetTheorems

\* The manager starts with empty channels and no request under way.
LEMMA ManagerTypeInit == Init => ManagerTypeOK
  BY TeaManagerAssumption DEF Init, ManagerTypeOK, Requests

\* No step of a mutation or of the loop breaks the types, or overfills a channel.
LEMMA ManagerTypeStep == ManagerTypeOK /\ [Next]_teaVars => ManagerTypeOK'
<1> SUFFICES ASSUME ManagerTypeOK, [Next]_teaVars PROVE ManagerTypeOK'
  OBVIOUS
<1> USE TeaManagerAssumption DEF ManagerTypeOK
<1>1. ASSUME NEW r \in Requests, NEW t \in Topics, Written(r, t),
             teas' \in [TeaIds -> {"unborn", "stored", "deleted"}]
      PROVE  ManagerTypeOK'
  BY <1>1 DEF Written
<1>2. ASSUME NEW r \in Requests, Create(r) PROVE ManagerTypeOK'
  BY <1>1, <1>2 DEF Create
<1>3. ASSUME NEW r \in Requests, Update(r) PROVE ManagerTypeOK'
  BY <1>1, <1>3 DEF Update
<1>4. ASSUME NEW r \in Requests, Delete(r) PROVE ManagerTypeOK'
  BY <1>1, <1>4 DEF Delete
<1>5. ASSUME NEW r \in Requests, Fail(r) PROVE ManagerTypeOK'
  BY <1>5 DEF Fail
<1>6. ASSUME NEW r \in Requests, Enqueue(r) PROVE ManagerTypeOK'
  BY <1>6 DEF Enqueue
<1>7. ASSUME NEW t \in Topics, LoopReceive(t) PROVE ManagerTypeOK'
  BY <1>7 DEF LoopReceive, CleanOrder
<1>8. CASE LoopClean
  BY <1>8 DEF LoopClean
<1>9. CASE LoopStep \/ ClientStep \/ UNCHANGED teaVars
  BY <1>9 DEF LoopStep, ClientStep, teaVars, managerVars
<1> QED
  BY <1>2, <1>3, <1>4, <1>5, <1>6, <1>7, <1>8, <1>9 DEF Next

\* Seen from the registries, the manager's loop is one of the dispatchers of
\* SubSpec: it calls SendAll and CleanDone one at a time and touches the
\* registries in no other way.
THEOREM ImplementsSubscribers == Spec => SubSpec
<1>1. Init => SubInit
  BY DEF Init
<1>2. ManagerTypeOK /\ [Next]_teaVars => [SubNext]_subVars
  <2> SUFFICES ASSUME ManagerTypeOK, [Next]_teaVars PROVE [SubNext]_subVars
    OBVIOUS
  <2>1. ASSUME NEW r \in Requests,
               Create(r) \/ Update(r) \/ Delete(r) \/ Fail(r) \/ Enqueue(r)
        PROVE  UNCHANGED subVars
    BY <2>1 DEF Create, Update, Delete, Fail, Enqueue, Written
  <2>2. ASSUME NEW t \in Topics, LoopReceive(t) PROVE SubNext
    <3>1. Head(chan[t]) \in Messages
      BY <2>2 DEF LoopReceive, ManagerTypeOK, Requests
    <3> QED
      BY <2>2, <3>1 DEF LoopReceive, SubNext, DispatcherCall
  <2>3. CASE LoopClean
    <3>1. Head(cleaning) \in Topics
      BY <2>3 DEF LoopClean, ManagerTypeOK
    <3> QED
      BY <2>3, <3>1 DEF LoopClean, SubNext, DispatcherCall
  <2>4. CASE LoopStep \/ ClientStep
    BY <2>4 DEF LoopStep, ClientStep, SubNext
  <2>5. CASE UNCHANGED teaVars
    BY <2>5 DEF teaVars
  <2> QED
    BY <2>1, <2>2, <2>3, <2>4, <2>5 DEF Next
<1> QED
  BY <1>1, <1>2, ManagerTypeInit, ManagerTypeStep, PTL DEF Spec, SubSpec

\* The manager's state is always well typed; in particular no channel ever
\* holds more than its capacity.
THEOREM TeaTypeCorrect == Spec => []TeaTypeOK
<1>1. SubTypeOK /\ ManagerTypeOK => TeaTypeOK
  BY DEF TeaTypeOK
<1>2. Spec => []ManagerTypeOK
  BY ManagerTypeInit, ManagerTypeStep, PTL DEF Spec
<1> QED
  BY <1>1, <1>2, ImplementsSubscribers, SubTypeCorrect, PTL

\* The tea manager's loop never panics, its registries stay intact, and every
\* subscriber whose channel is open has what was broadcast since it joined.
THEOREM TeaManagerRegistries == Spec => [](NoPanic /\ RegistryIntact /\ DeliveredInOrder)
  BY ImplementsSubscribers, SubNoPanic, SubRegistryIntact, SubDelivered, PTL

\* With its mutations, channels and cleaning order, the tea manager implements
\* the abstract broadcast.
THEOREM TeaManagerBroadcasts == Spec => ImplementsBroadcast
  BY ImplementsSubscribers, SubImplementsBroadcast, PTL

-----------------------------------------------------------------------------
(***************************************************************************)
(* What is on the channels and what has been broadcast.  AnnouncedOnce     *)
(* counts places, which a step changes by appending; AnnInv says the same  *)
(* by elements, and adds what RealTimeOrder needs of the requests that had *)
(* returned when another ran.                                              *)
(***************************************************************************)

\* An event is on the channel of its own operation and of a request that returned.
OwnEvents ==
    \A t \in Topics : \A i \in DOMAIN Enqueued(t) :
        req[Enqueued(t)[i]] = "done" /\ op[Enqueued(t)[i]] = t

\* No two places hold the same event.
NoDuplicates ==
    \A t \in Topics : \A i, j \in DOMAIN Enqueued(t) :
        Enqueued(t)[i] = Enqueued(t)[j] => i = j

\* A request that returned has put its event on the channel.
ReturnedEnqueued ==
    \A r \in Requests : req[r] = "done" =>
        \E i \in DOMAIN Enqueued(op[r]) : Enqueued(op[r])[i] = r

\* A request that had returned when another ran has still returned.
PriorReturned == \A r \in Requests : \A q \in prior[r] : req[q] = "done"

AnnInv ==
    OwnEvents /\ NoDuplicates /\ ReturnedEnqueued /\ PriorReturned /\ RealTimeOrder

\* The sequence of a topic's events is one of requests.
LEMMA EnqueuedType ==
    ASSUME SubTypeOK, ManagerTypeOK, NEW t \in Topics
    PROVE  Enqueued(t) \in Seq(Requests)
  BY DEF SubTypeOK, ManagerTypeOK, Enqueued, Requests

\* Receiving from a channel and calling SendAll moves one event from the head of
\* the channel to the end of what was broadcast.
LEMMA EnqueuedKeptByReceive ==
    ASSUME SubTypeOK, ManagerTypeOK, NEW t \in Topics, LoopReceive(t), NEW u \in Topics
    PROVE  Enqueued(u)' = Enqueued(u)
<1>1. /\ chan \in [Topics -> Seq(Requests)]
      /\ sent \in [Topics -> Seq(Requests)]
      /\ chan[t] # << >>
      /\ chan' = [chan EXCEPT ![t] = Tail(@)]
      /\ sent' = [sent EXCEPT ![t] = Append(@, Head(chan[t]))]
  BY DEF SubTypeOK, ManagerTypeOK, LoopReceive, SendAll, Requests
<1>2. CASE u = t
  <2> DEFINE s == sent[t]
             c == chan[t]
  <2>1. /\ s \in Seq(Requests) /\ c \in Seq(Requests) /\ c # << >>
        /\ sent'[t] = Append(s, Head(c)) /\ chan'[t] = Tail(c)
    BY <1>1
  <2> HIDE DEF s, c
  <2>2. Append(s, Head(c)) \o Tail(c) = s \o c
    BY <2>1
  <2> QED
    BY <1>2, <2>1, <2>2 DEF Enqueued, s, c
<1>3. CASE u # t
  BY <1>1, <1>3 DEF Enqueued
<1> QED
  BY <1>2, <1>3

\* The send that ends a mutation appends its event to its own topic's events.
LEMMA EnqueuedGrown ==
    ASSUME SubTypeOK, ManagerTypeOK, NEW r \in Requests, Enqueue(r), NEW u \in Topics
    PROVE  Enqueued(u)' = IF u = op[r] THEN Append(Enqueued(u), r) ELSE Enqueued(u)
<1>1. /\ chan \in [Topics -> Seq(Requests)]
      /\ sent \in [Topics -> Seq(Requests)]
      /\ op[r] \in Topics
      /\ chan' = [chan EXCEPT ![op[r]] = Append(@, r)]
      /\ sent' = sent
  BY DEF SubTypeOK, ManagerTypeOK, Enqueue, subVars, Requests
<1>2. CASE u = op[r]
  <2> DEFINE s == sent[u]
             c == chan[u]
  <2>1. s \in Seq(Requests) /\ c \in Seq(Requests) /\ chan'[u] = Append(c, r)
    BY <1>1, <1>2
  <2> HIDE DEF s, c
  <2>2. s \o Append(c, r) = Append(s \o c, r)
    BY <2>1
  <2> QED
    BY <1>1, <1>2, <2>1, <2>2 DEF Enqueued, s, c
<1>3. CASE u # op[r]
  BY <1>1, <1>3 DEF Enqueued
<1> QED
  BY <1>2, <1>3

\* A step that changes neither the events nor the requests keeps the invariant.
LEMMA AnnInvKept ==
    ASSUME ManagerTypeOK, AnnInv, UNCHANGED <<req, op, prior>>,
           \A t \in Topics : Enqueued(t)' = Enqueued(t)
    PROVE  AnnInv'
  BY DEF ManagerTypeOK, AnnInv, OwnEvents, NoDuplicates, ReturnedEnqueued, PriorReturned,
         RealTimeOrder, Places

\* A mutation's storage call leaves the events alone; the request has not returned.
LEMMA AnnInvWritten ==
    ASSUME SubTypeOK, ManagerTypeOK, AnnInv, NEW r \in Requests, NEW t \in Topics,
           Written(r, t)
    PROVE  AnnInv'
<1>1. /\ req[r] = "new"
      /\ req' = [req EXCEPT ![r] = "announce"]
      /\ op' = [op EXCEPT ![r] = t]
      /\ prior' = [prior EXCEPT ![r] = {q \in Requests : req[q] = "done"}]
  BY DEF Written
<1>2. \A u \in Topics : Enqueued(u)' = Enqueued(u)
  BY DEF Written, subVars, Enqueued
<1>3. \A u \in Topics : Enqueued(u) \in Seq(Requests)
  BY EnqueuedType
<1> USE DEF AnnInv, ManagerTypeOK
<1>4. \A q \in Requests : req'[q] = "done" <=> req[q] = "done"
  BY <1>1
<1>5. \A q \in Requests : req[q] = "done" => op'[q] = op[q]
  BY <1>1
<1>6. OwnEvents'
  BY <1>2, <1>3, <1>4, <1>5 DEF OwnEvents
<1>7. NoDuplicates'
  BY <1>2 DEF NoDuplicates
<1>8. ReturnedEnqueued'
  <2> SUFFICES ASSUME NEW q \in Requests, req'[q] = "done",
                      NEW u \in Topics, u = op'[q]
               PROVE  \E i \in DOMAIN Enqueued(u)' : Enqueued(u)'[i] = q
    BY <1>4, <1>5 DEF ReturnedEnqueued
  <2>1. req[q] = "done" /\ op[q] = u
    BY <1>4, <1>5
  <2>2. \E i \in DOMAIN Enqueued(op[q]) : Enqueued(op[q])[i] = q
    BY <2>1 DEF ReturnedEnqueued
  <2> QED
    BY <1>2, <2>1, <2>2
<1>9. PriorReturned'
  BY <1>1, <1>4 DEF PriorReturned
<1>10. RealTimeOrder'
  <2> SUFFICES ASSUME NEW p \in Requests, NEW q \in prior'[p],
                      req'[p] = "done", op'[q] = op'[p], NEW u \in Topics, u = op'[p],
                      NEW i \in Places(q, u)', NEW j \in Places(p, u)'
               PROVE  i < j
    BY <1>4, <1>5 DEF RealTimeOrder
  <2>1. p # r /\ prior'[p] = prior[p] /\ req[p] = "done" /\ op[p] = u
    BY <1>1
  <2>2. req[q] = "done" /\ q \in Requests
    BY <2>1 DEF PriorReturned
  <2>3. op[q] = op[p]
    BY <1>5, <2>1, <2>2
  <2>4. i \in Places(q, op[p]) /\ j \in Places(p, op[p])
    BY <1>2, <2>1 DEF Places
  <2> QED
    BY <2>1, <2>3, <2>4 DEF RealTimeOrder
<1> QED
  BY <1>6, <1>7, <1>8, <1>9, <1>10

\* The send puts the event behind those of all requests that have returned.
LEMMA AnnInvEnqueue ==
    ASSUME SubTypeOK, ManagerTypeOK, AnnInv, NEW r \in Requests, Enqueue(r)
    PROVE  AnnInv'
<1>1. req[r] = "announce" /\ req' = [req EXCEPT ![r] = "done"] /\ op' = op /\ prior' = prior
  BY DEF Enqueue
<1>2. PICK o \in Topics : o = op[r]
  BY <1>1 DEF ManagerTypeOK
<1>3. Enqueued(o)' = Append(Enqueued(o), r)
  BY <1>2, EnqueuedGrown
<1>4. \A u \in Topics \ {o} : Enqueued(u)' = Enqueued(u)
  BY <1>2, EnqueuedGrown
<1>5. \A u \in Topics : Enqueued(u) \in Seq(Requests)
  BY EnqueuedType
<1> DEFINE E == Enqueued(o)
<1>6. /\ DOMAIN E' = 1 .. (Len(E) + 1)
      /\ DOMAIN E = 1 .. Len(E) /\ Len(E) \in Nat
      /\ E'[Len(E) + 1] = r
      /\ \A i \in DOMAIN E : E'[i] = E[i]
      /\ \A i \in DOMAIN E : E[i] \in Requests
  BY <1>2, <1>3, <1>5
<1>7. \A q \in Requests : req'[q] = "done" <=> (req[q] = "done" \/ q = r)
  BY <1>1 DEF ManagerTypeOK
<1>8. \A i \in DOMAIN E : E[i] # r
  BY <1>1, <1>2, <1>6 DEF AnnInv, OwnEvents
<1>9. OwnEvents'
  <2> SUFFICES ASSUME NEW u \in Topics, NEW i \in DOMAIN Enqueued(u)'
               PROVE  req'[Enqueued(u)'[i]] = "done" /\ op'[Enqueued(u)'[i]] = u
    BY DEF OwnEvents
  <2>1. CASE u # o
    BY <1>1, <1>4, <1>5, <1>7, <2>1 DEF AnnInv, OwnEvents
  <2>2. CASE u = o /\ i \in DOMAIN E
    BY <1>1, <1>2, <1>6, <1>7, <2>2 DEF AnnInv, OwnEvents
  <2>3. CASE u = o /\ i = Len(E) + 1
    BY <1>1, <1>2, <1>6, <1>7, <2>3
  <2> QED
    BY <1>6, <2>1, <2>2, <2>3
<1>10. NoDuplicates'
  <2> SUFFICES ASSUME NEW u \in Topics, NEW i \in DOMAIN Enqueued(u)',
                      NEW j \in DOMAIN Enqueued(u)', Enqueued(u)'[i] = Enqueued(u)'[j]
               PROVE  i = j
    BY DEF NoDuplicates
  <2>1. CASE u # o
    BY <1>4, <2>1 DEF AnnInv, NoDuplicates
  <2>2. CASE u = o
    <3>1. \A a, b \in DOMAIN E : E[a] = E[b] => a = b
      BY <1>2 DEF AnnInv, NoDuplicates
    <3>2. i \in DOMAIN E' /\ j \in DOMAIN E' /\ E'[i] = E'[j]
      BY <2>2
    <3> HIDE DEF E
    <3> QED
      BY <1>6, <1>8, <3>1, <3>2
  <2> QED
    BY <2>1, <2>2
<1>11. ReturnedEnqueued'
  <2> SUFFICES ASSUME NEW q \in Requests, req'[q] = "done", NEW u \in Topics, u = op[q]
               PROVE  \E i \in DOMAIN Enqueued(u)' : Enqueued(u)'[i] = q
    BY <1>1, <1>2, <1>7 DEF ReturnedEnqueued, ManagerTypeOK
  <2>1. CASE q = r
    <3>1. Len(E) + 1 \in DOMAIN E'
      BY <1>6
    <3> QED
      BY <1>2, <1>6, <2>1, <3>1
  <2>2. CASE q # r
    <3>1. PICK i \in DOMAIN Enqueued(u) : Enqueued(u)[i] = q
      BY <1>7, <2>2 DEF AnnInv, ReturnedEnqueued
    <3>2. CASE u = o
      <4>1. i \in DOMAIN E' /\ E'[i] = q
        BY <1>6, <3>1, <3>2
      <4> QED
        BY <3>2, <4>1
    <3>3. CASE u # o
      BY <1>4, <3>1, <3>3
    <3> QED
      BY <3>2, <3>3
  <2> QED
    BY <2>1, <2>2
<1>12. PriorReturned'
  BY <1>1, <1>7 DEF AnnInv, PriorReturned, ManagerTypeOK
<1>13. RealTimeOrder'
  <2> SUFFICES ASSUME NEW p \in Requests, NEW q \in prior[p],
                      req'[p] = "done", op[q] = op[p], NEW u \in Topics, u = op[p],
                      NEW i \in Places(q, u)', NEW j \in Places(p, u)'
               PROVE  i < j
    BY <1>1, <1>2, <1>7 DEF RealTimeOrder, ManagerTypeOK
  <2>1. q \in Requests /\ req[q] = "done" /\ q # r
    BY <1>1 DEF AnnInv, PriorReturned, ManagerTypeOK
  <2>2. /\ i \in DOMAIN Enqueued(u)' /\ Enqueued(u)'[i] = q
        /\ j \in DOMAIN Enqueued(u)' /\ Enqueued(u)'[j] = p
    BY DEF Places
  <2>3. CASE p = r
    <3>1. i \in DOMAIN E' /\ E'[i] = q /\ j \in DOMAIN E' /\ E'[j] = r
      BY <1>2, <2>2, <2>3
    <3> HIDE DEF E
    <3>2. i \in DOMAIN E
      BY <1>6, <2>1, <3>1
    <3>3. j = Len(E) + 1
      BY <1>6, <1>8, <3>1
    <3> QED
      BY <1>6, <3>2, <3>3
  <2>4. CASE p # r
    <3>1. i \in Places(q, u) /\ j \in Places(p, u)
      <4>1. CASE u # o
        BY <1>4, <2>2, <4>1 DEF Places
      <4>2. CASE u = o
        <5>1. i \in DOMAIN E' /\ E'[i] = q /\ j \in DOMAIN E' /\ E'[j] = p
          BY <2>2, <4>2
        <5> HIDE DEF E
        <5>2. i \in DOMAIN E /\ j \in DOMAIN E /\ E[i] = q /\ E[j] = p
          BY <1>6, <2>1, <2>4, <5>1
        <5> QED
          BY <4>2, <5>2 DEF Places, E
      <4> QED
        BY <4>1, <4>2
    <3>2. req[p] = "done"
      BY <1>7, <2>4
    <3> QED
      BY <3>1, <3>2 DEF AnnInv, RealTimeOrder
  <2> QED
    BY <2>3, <2>4
<1> QED
  BY <1>9, <1>10, <1>11, <1>12, <1>13 DEF AnnInv

\* Nothing is on a channel, and nobody has returned, at the start.
LEMMA AnnInvInit == Init => AnnInv
<1> SUFFICES ASSUME Init PROVE AnnInv
  OBVIOUS
<1>1. \A t \in Topics : sent[t] = << >> /\ chan[t] = << >>
  BY DEF Init, SubInit
<1>2. \A t \in Topics : DOMAIN Enqueued(t) = {}
  <2>1. DOMAIN (<< >> \o << >>) = {}
    OBVIOUS
  <2> QED
    BY <1>1, <2>1 DEF Enqueued
<1>3. \A r \in Requests : req[r] = "new" /\ prior[r] = {}
  BY DEF Init
<1> QED
  BY <1>2, <1>3 DEF AnnInv, OwnEvents, NoDuplicates, ReturnedEnqueued, PriorReturned,
                    RealTimeOrder

\* Every step of the manager keeps the invariant.
LEMMA AnnInvStep == SubTypeOK /\ ManagerTypeOK /\ AnnInv /\ [Next]_teaVars => AnnInv'
<1> SUFFICES ASSUME SubTypeOK, ManagerTypeOK, AnnInv, [Next]_teaVars PROVE AnnInv'
  OBVIOUS
<1>1. ASSUME NEW r \in Requests, Create(r) \/ Update(r) \/ Delete(r) PROVE AnnInv'
  BY <1>1, TeaManagerAssumption, AnnInvWritten DEF Create, Update, Delete
<1>2. ASSUME NEW r \in Requests, Fail(r) PROVE AnnInv'
  <2>1. \A t \in Topics : Enqueued(t)' = Enqueued(t)
    BY <1>2 DEF Fail, subVars, Enqueued
  <2>2. \A t \in Topics : Enqueued(t) \in Seq(Requests)
    BY EnqueuedType
  <2>3. \A q \in Requests : req'[q] = "done" <=> req[q] = "done"
    BY <1>2 DEF Fail, ManagerTypeOK
  <2>4. op' = op /\ prior' = prior
    BY <1>2 DEF Fail
  <2>5. \A p, t : t \in Topics => Places(p, t)' = Places(p, t)
    BY <2>1 DEF Places
  <2>6. RealTimeOrder'
    BY <2>3, <2>4, <2>5 DEF AnnInv, RealTimeOrder, ManagerTypeOK
  <2> QED
    BY <2>1, <2>2, <2>3, <2>4, <2>6
       DEF AnnInv, OwnEvents, NoDuplicates, ReturnedEnqueued, PriorReturned, ManagerTypeOK
<1>3. ASSUME NEW r \in Requests, Enqueue(r) PROVE AnnInv'
  BY <1>3, AnnInvEnqueue
<1>4. ASSUME NEW t \in Topics, LoopReceive(t) PROVE AnnInv'
  BY <1>4, EnqueuedKeptByReceive, AnnInvKept DEF LoopReceive
<1>5. CASE LoopClean \/ LoopStep \/ ClientStep \/ UNCHANGED teaVars
  <2>1. sent' = sent
    BY <1>5 DEF LoopClean, CleanDone, LoopStep, DispatcherStep, SendNext, SendReturn, ScanNext,
                ScanEnd, SwapNext, Truncate, ClientStep, ClientNext, Push, Cancel, AwaitNext,
                StopReading, teaVars, subVars
  <2>2. UNCHANGED <<req, op, prior, chan>>
    BY <1>5 DEF LoopClean, LoopStep, ClientStep, managerVars, teaVars
  <2> QED
    BY <2>1, <2>2, AnnInvKept DEF Enqueued
<1> QED
  BY <1>1, <1>2, <1>3, <1>4, <1>5 DEF Next

\* Seen as places: an event that is there has one place, and one that is not has none.
LEMMA OncePlaced == SubTypeOK /\ ManagerTypeOK /\ AnnInv => AnnouncedOnce
<1> SUFFICES ASSUME SubTypeOK, ManagerTypeOK, AnnInv, NEW r \in Requests, NEW t \in Topics
             PROVE  Cardinality(Places(r, t)) = IF req[r] = "done" /\ op[r] = t THEN 1 ELSE 0
  BY DEF AnnouncedOnce
<1>1. CASE req[r] = "done" /\ op[r] = t
  <2>1. PICK i \in DOMAIN Enqueued(t) : Enqueued(t)[i] = r
    BY <1>1 DEF AnnInv, ReturnedEnqueued
  <2>2. Places(r, t) = {i}
    BY <2>1 DEF AnnInv, NoDuplicates, Places
  <2> QED
    BY <1>1, <2>2, FS_Singleton
<1>2. CASE ~ (req[r] = "done" /\ op[r] = t)
  <2>1. Places(r, t) = {}
    BY <1>2 DEF AnnInv, OwnEvents, Places
  <2> QED
    BY <1>2, <2>1, FS_EmptySet
<1> QED
  BY <1>1, <1>2

\* Each mutation that returned successfully is announced exactly once, on the
\* channel of its operation, and no other is: for any number of mutations, any
\* capacity and whatever the subscribers do.
THEOREM EachAnnouncedOnce == Spec => []AnnouncedOnce
<1>1. Spec => []AnnInv
  BY AnnInvInit, AnnInvStep, TeaTypeCorrect, PTL DEF Spec, TeaTypeOK
<1> QED
  BY <1>1, OncePlaced, TeaTypeCorrect, PTL DEF TeaTypeOK

\* A mutation that returned before another of its kind began is announced first.
THEOREM RealTimeOrdered == Spec => []RealTimeOrder
<1>1. Spec => []AnnInv
  BY AnnInvInit, AnnInvStep, TeaTypeCorrect, PTL DEF Spec, TeaTypeOK
<1>2. AnnInv => RealTimeOrder
  BY DEF AnnInv
<1> QED
  BY <1>1, <1>2, PTL

=============================================================================
