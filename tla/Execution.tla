----------------------------- MODULE Execution -----------------------------
(***************************************************************************)
(* How the generated GraphQL server executes one operation                 *)
(* (pkg/api/v2/graphql/generated/generated.go, on gqlgen's FieldSet and    *)
(* executor): the goroutines of the fields and of the list elements, how a *)
(* failed field becomes null, how null travels up to the nearest place     *)
(* that allows it, and what the client is sent.                            *)
(*                                                                         *)
(* An operation is a selection, a prefix-closed set of paths through       *)
(* Schema, each with the type that the validation of the request found for *)
(* it.  A node is one execution of a selected field, or one element of a   *)
(* list; its path is the selection's with the indexes of the elements.     *)
(* The data of the application is abstracted to what decides nulls: which  *)
(* resolvers fail, how long lists are, what a Tag knows of its category,   *)
(* whether a QR record's expiration date is the zero time.  Scalar fields  *)
(* of a parent cannot fail except for that date, and need not be selected. *)
(* Selections marked @defer are left out.                                  *)
(***************************************************************************)
EXTENDS Schema, Naturals, SequencesExt

CONSTANTS Operations,  \* the operations a client may send
          MaxLen,      \* bound on the length of a list
          MaxEvents,   \* bound on the events of a subscription
          None         \* no answer, no data

\* The names of list indexes in a path.
Index == <<"#1", "#2", "#3">>

\* What paths are made of.
Segments == (UNION {DOMAIN FieldsOf[type] : type \in DOMAIN FieldsOf}) \union ToSet(Index)

ASSUME ExecutionAssumption ==
    /\ MaxLen \in 0 .. Len(Index) /\ MaxEvents \in Nat
    /\ \A o \in Operations :
        /\ o.on \in {"Query", "Mutation", "Subscription"}
        /\ o.root \in Seq(Segments) /\ o.sel \subseteq Seq(Segments)
        /\ {<<f>> : f \in ToSet(o.root)} = {s \in o.sel : Front(s) = <<>>}
        /\ o.type[<<>>] = o.on
        /\ \A s \in o.sel :
            /\ s # <<>> /\ Front(s) \in o.sel \union {<<>>} /\ IsObject(o.type[Front(s)])
            /\ Last(s) \in DOMAIN FieldsOf[o.type[Front(s)]]
            /\ o.type[s] = FieldsOf[o.type[Front(s)]][Last(s)].type

VARIABLES
    op,      \* the operation
    phase,   \* how far its execution is
    node,    \* node[p]: the node at path p
    errors,  \* where the errors of the current response were recorded
    answer,  \* the last response: data and errors
    events,  \* how many events a subscription has been sent
    calls    \* history: the root fields whose resolver a mutation called

execVars == <<op, phase, node, errors, answer, events, calls>>

Phases == {"start", "running", "listening", "nilStream", "answered", "ended"}
States == {"queued", "open", "done"}
Outcomes == {"none", "value", "nil", "zero", "error", "unparsed"}
Shapes == {"plain", "none", "id", "full", "dated", "undated"}

ExecTypeOK ==
    /\ op \in Operations
    /\ phase \in Phases
    /\ \A p \in DOMAIN node :
        /\ node[p].state \in States
        /\ node[p].out \in Outcomes
        /\ node[p].shape \in Shapes
        /\ node[p].res \in {"none", "ok", "null"}
        /\ node[p].invalids \in Nat
    /\ errors \subseteq DOMAIN node \union {<<>>}
    /\ answer = None \/ DOMAIN answer = {"data", "errors"}
    /\ events \in 0 .. MaxEvents
    /\ \A i \in DOMAIN calls : calls[i] \in ToSet(op.root)

-----------------------------------------------------------------------------
(* Paths and nodes. *)

Parent(p) == node[Front(p)]

Children(p) == {q \in DOMAIN node : Len(q) = Len(p) + 1 /\ IsPrefix(p, q)}

\* The fields selected below a selected field.
Selected(sel) == {Last(t) : t \in {t \in op.sel : Front(t) = sel}}

\* A field of an object that has yet to run, and an object that runs.
Queued(field, sel) ==
    [type |-> field.type, via |-> field.via, list |-> field.list, null |-> field.null,
     sel |-> sel, shape |-> "plain", state |-> "queued", out |-> "none", res |-> "none",
     invalids |-> 0]

Object(type, sel, shape) ==
    [Queued(Value(type), sel) EXCEPT !.shape = shape, !.state = "open", !.out = "value"]

\* The selected fields of the objects at the given paths, all of one type.
FieldsAt(paths, type, sel) ==
    [c \in {Append(p, f) : p \in paths, f \in Selected(sel)} |->
        Queued(FieldsOf[type][Last(c)], Append(sel, Last(c)))]

\* The tree with more nodes in it.
Grown(nodes, more) ==
    [p \in DOMAIN nodes \union DOMAIN more |-> IF p \in DOMAIN more THEN more[p] ELSE nodes[p]]

\* Mutant: the outcome is recorded as the result.
FinishedSwapped(nodes, p, out, res) ==
    [nodes EXCEPT ![p].state = "done", ![p].out = res, ![p].res = out]

(***************************************************************************)
(* p is finished with the given outcome.  The object that p is a field of  *)
(* counts the nulls it may not have; a list looks at its elements itself.  *)
(***************************************************************************)
Finished(nodes, p, out, res) ==
    LET n == [nodes EXCEPT ![p].state = "done", ![p].out = out, ![p].res = res] IN
    IF res = "null" /\ ~nodes[p].null /\ ~nodes[Front(p)].list
    THEN [n EXCEPT ![Front(p)].invalids = @ + 1]
    ELSE n

-----------------------------------------------------------------------------
(* What the resolvers return. *)

(***************************************************************************)
(* What a tag knows of its category.  The mutations return a tag without   *)
(* one.  Query.tag and Tea.tags know its id only.  TagCategory.tags lists  *)
(* the categories after the tags, and finds none for a tag whose category  *)
(* has gone meanwhile.  Events carry the category; "id" is then a category *)
(* whose name is empty.                                                    *)
(***************************************************************************)
TagShapes(type) ==
    CASE type = "Mutation"     -> {"none"}
      [] type = "TagCategory"  -> {"none", "id", "full"}
      [] type = "Subscription" -> {"id", "full"}
      [] OTHER                 -> {"id"}

\* The shapes of the objects a field of the given parent returns.
ShapesOf(parent, field) ==
    CASE field.type = "Tag"      -> TagShapes(parent)
      [] field.type = "QRRecord" -> {"dated", "undated"}
      [] OTHER                   -> {"plain"}

\* Tag.category: nil without an error, the category at hand, or looked up.
Category(shape) ==
    CASE shape = "none" -> {"nil"}
      [] shape = "full" -> {"value"}
      [] OTHER          -> {"value", "error"}

\* Subscribing to what the tea and tag managers broadcast never fails.
Broadcasts ==
    DOMAIN Subscription \ {"startGenerateDescription", "recommendTea"}

(***************************************************************************)
(* What running a field gives.  "error" is an error the resolver returns   *)
(* or a panic that the field's function recovers; "unparsed" an argument   *)
(* that does not parse, for which the resolver is not called.              *)
(***************************************************************************)
ResolverOutcomes(type, name, shape) ==
    (CASE type = "Tag"                                -> Category(shape)
       [] type = "Subscription" /\ name \in Broadcasts -> {"value"}
       [] OTHER                                        -> {"value", "error"})
    \union (IF ParsesID(type, name) THEN {"unparsed"} ELSE {})

\* The zero time is marshalled as null.
ValueOutcomes(type, shape) ==
    IF type = "Date" /\ shape = "undated" THEN {"zero"} ELSE {"value"}

OutcomesOf(p) ==
    IF node[p].via = "value" THEN ValueOutcomes(node[p].type, Parent(p).shape)
    ELSE ResolverOutcomes(Parent(p).type, Last(p), Parent(p).shape)

-----------------------------------------------------------------------------
(* The fields of one response. *)

\* Where a root field stands in the request.
Place(f) == CHOOSE i \in DOMAIN op.root : op.root[i] = f

\* Mutant: root mutations are dispatched like queries.
RootOrderConcurrent(p) == TRUE

(***************************************************************************)
(* Root mutations run one after the other, each to the end of its subtree. *)
(* Elsewhere an object first reads the fields of its value, one at a time, *)
(* and then dispatches its resolvers, all at once.                         *)
(***************************************************************************)
RootOrder(p) ==
    \A q \in Children(<<>>) : Place(Last(q)) < Place(Last(p)) => node[q].state = "done"

MayStart(p) ==
    LET siblings == Children(Front(p)) \ {p}
        values == {q \in siblings : node[q].via = "value"} IN
    /\ node[p].state = "queued"
    /\ IF op.on = "Mutation" /\ Len(p) = 1 THEN RootOrder(p)
       ELSE IF node[p].via = "value" THEN \A q \in values : node[q].state # "open"
       ELSE \A q \in values : node[q].state = "done"

\* The resolver of a root field of a mutation is called.
Called(p, out) ==
    calls' = IF op.on = "Mutation" /\ Len(p) = 1 /\ out # "unparsed"
             THEN Append(calls, Last(p)) ELSE calls

\* Mutant: nil is never an error.
ErrorsOfFailures(p, out) == IF out = "nil" THEN {} ELSE {p}

\* The errors a field without a value adds: nil is one only where null is not allowed.
ErrorsOf(p, out) == IF out = "nil" /\ node[p].null THEN {} ELSE {p}

FieldFails(p) ==
    /\ MayStart(p)
    /\ \E out \in OutcomesOf(p) \ {"value"} :
        /\ node' = Finished(node, p, out, "null")
        /\ errors' = errors \union ErrorsOf(p, out)
        /\ Called(p, out)
    /\ UNCHANGED <<op, phase, answer, events>>

FieldReturnsScalar(p) ==
    /\ MayStart(p)
    /\ "value" \in OutcomesOf(p) /\ ~IsObject(node[p].type)
    /\ node' = Finished(node, p, "value", "ok")
    /\ Called(p, "value")
    /\ UNCHANGED <<op, phase, errors, answer, events>>

FieldReturnsObject(p) ==
    /\ MayStart(p)
    /\ "value" \in OutcomesOf(p) /\ IsObject(node[p].type) /\ ~node[p].list
    /\ \E shape \in ShapesOf(Parent(p).type, node[p]) :
        node' = Grown([node EXCEPT ![p].state = "open", ![p].out = "value", ![p].shape = shape],
                      FieldsAt({p}, node[p].type, node[p].sel))
    /\ Called(p, "value")
    /\ UNCHANGED <<op, phase, errors, answer, events>>

(***************************************************************************)
(* One goroutine per element (the only element of a list of one is         *)
(* marshalled in place); the elements of a list are never nil here.        *)
(***************************************************************************)
FieldReturnsList(p) ==
    /\ MayStart(p)
    /\ "value" \in OutcomesOf(p) /\ IsObject(node[p].type) /\ node[p].list
    /\ \E len \in 0 .. MaxLen :
       \E shape \in [{Append(p, Index[i]) : i \in 1 .. len} -> ShapesOf(Parent(p).type, node[p])] :
        node' = Grown([node EXCEPT ![p].state = "open", ![p].out = "value"],
                      Grown([q \in DOMAIN shape |-> Object(node[p].type, node[p].sel, shape[q])],
                            FieldsAt(DOMAIN shape, node[p].type, node[p].sel)))
    /\ Called(p, "value")
    /\ UNCHANGED <<op, phase, errors, answer, events>>

\* wg.Wait() has returned: every goroutine below p is done.
Joined(p) == node[p].state = "open" /\ \A q \in Children(p) : node[q].state = "done"

\* Mutant: the object does not wait for the resolvers it dispatched.
ObjectDoneUnjoined(p) ==
    /\ p # <<>> /\ ~node[p].list /\ node[p].state = "open"
    /\ \A q \in Children(p) : node[q].via = "value" => node[q].state = "done"
    /\ node' = Finished(node, p, "value", IF node[p].invalids > 0 THEN "null" ELSE "ok")
    /\ UNCHANGED <<op, phase, errors, answer, events, calls>>

ObjectDone(p) ==
    /\ p # <<>> /\ ~node[p].list /\ Joined(p)
    /\ node' = Finished(node, p, "value", IF node[p].invalids > 0 THEN "null" ELSE "ok")
    /\ UNCHANGED <<op, phase, errors, answer, events, calls>>

\* Mutant: the wait group of an empty list is never released.
ListDoneNonEmpty(p) ==
    /\ node[p].list /\ Joined(p) /\ Children(p) # {}
    /\ node' = Finished(node, p, "value",
                        IF \E q \in Children(p) : node[q].res = "null" THEN "null" ELSE "ok")
    /\ UNCHANGED <<op, phase, errors, answer, events, calls>>

ListDone(p) ==
    /\ node[p].list /\ Joined(p)
    /\ node' = Finished(node, p, "value",
                        IF \E q \in Children(p) : node[q].res = "null" THEN "null" ELSE "ok")
    /\ UNCHANGED <<op, phase, errors, answer, events, calls>>

-----------------------------------------------------------------------------
(* Operations. *)

\* What is written of the tree: the nodes with no null above them.
Data(nodes) ==
    [p \in {p \in DOMAIN nodes : \A k \in 0 .. Len(p) - 1 : nodes[SubSeq(p, 1, k)].res = "ok"}
        |-> nodes[p].res]

(***************************************************************************)
(* The errors a response starts with.  The auth middleware adds one, at no *)
(* field, for a token that is neither a user's nor an admin's, and lets    *)
(* the operation run all the same.                                         *)
(***************************************************************************)
InterceptResponse == {{}, {<<>>}}

\* A query dispatches its root fields; so does a mutation, in order.
Exec ==
    /\ phase = "start" /\ op.on # "Subscription"
    /\ phase' = "running"
    /\ node' = Grown([p \in {<<>>} |-> Object(op.on, <<>>, "plain")],
                     FieldsAt({<<>>}, op.on, <<>>))
    /\ errors' \in InterceptResponse
    /\ UNCHANGED <<op, answer, events, calls>>

Respond ==
    /\ phase = "running" /\ op.on # "Subscription" /\ Joined(<<>>)
    /\ node' = [node EXCEPT ![<<>>].state = "done",
                            ![<<>>].res = IF node[<<>>].invalids > 0 THEN "null" ELSE "ok"]
    /\ answer' = [data |-> Data(node'), errors |-> errors]
    /\ phase' = "answered"
    /\ UNCHANGED <<op, errors, events, calls>>

(***************************************************************************)
(* The resolver of a subscription runs before any response is made; when   *)
(* there is not one stream, _Subscription returns nil.                     *)
(***************************************************************************)
Subscribe ==
    /\ phase = "start" /\ op.on = "Subscription"
    /\ IF Len(op.root) # 1
       THEN errors' = {<<>>} /\ phase' = "nilStream"
       ELSE \E out \in ResolverOutcomes("Subscription", op.root[1], "plain") :
                IF out = "value"
                THEN errors' = {} /\ phase' = "listening"
                ELSE errors' = {<<>>} /\ phase' = "nilStream"
    /\ UNCHANGED <<op, node, answer, events, calls>>

\* gqlgen's executor answers the errors of Exec, if there are any.
RefuseStream ==
    /\ phase = "nilStream"
    /\ phase' = "answered"
    /\ answer' = [data |-> None, errors |-> errors]
    /\ UNCHANGED <<op, node, errors, events, calls>>

\* An event arrives; its response has errors of its own.
Event ==
    LET root == <<op.root[1]>>
        field == Subscription[op.root[1]] IN
    /\ phase = "listening" /\ events < MaxEvents
    /\ phase' = "running"
    /\ events' = events + 1
    /\ errors' \in InterceptResponse
    /\ \E shape \in ShapesOf("Subscription", field) :
        node' = Grown([p \in {<<>>, root} |-> IF p = root THEN Object(field.type, root, shape)
                                              ELSE Object("Subscription", <<>>, "plain")],
                      FieldsAt({root}, field.type, root))
    /\ UNCHANGED <<op, answer, calls>>

\* The stream writes {"field": value} whatever the value is.
SendEvent ==
    /\ phase = "running" /\ op.on = "Subscription" /\ Joined(<<>>)
    /\ node' = [node EXCEPT ![<<>>].state = "done", ![<<>>].res = "ok"]
    /\ answer' = [data |-> Data(node'), errors |-> errors]
    /\ phase' = "listening"
    /\ UNCHANGED <<op, errors, events, calls>>

\* The channel is closed or the client has left.
StreamEnds ==
    /\ phase = "listening"
    /\ phase' = "ended"
    /\ UNCHANGED <<op, node, errors, answer, events, calls>>

-----------------------------------------------------------------------------
Init ==
    /\ op \in Operations
    /\ phase = "start"
    /\ node = <<>>
    /\ errors = {}
    /\ answer = None
    /\ events = 0
    /\ calls = <<>>

\* The steps of the server's goroutines.
Step ==
    \/ \E p \in DOMAIN node :
        \/ FieldFails(p)
        \/ FieldReturnsScalar(p)
        \/ FieldReturnsObject(p)
        \/ FieldReturnsList(p)
        \/ ObjectDone(p)
        \/ ListDone(p)
    \/ Exec
    \/ Respond
    \/ Subscribe
    \/ RefuseStream
    \/ SendEvent

Next == Step \/ Event \/ StreamEnds

(***************************************************************************)
(* Every goroutine is scheduled, and every resolver returns.  Nothing      *)
(* makes an event happen or a stream end.                                  *)
(***************************************************************************)
Spec == Init /\ [][Next]_execVars /\ WF_execVars(Step)

-----------------------------------------------------------------------------
(* Properties. *)

(***************************************************************************)
(* The rule of GraphQL that the counters and goroutines implement: a field *)
(* is null if it has no value, or has a null below where none is allowed.  *)
(***************************************************************************)
IsNull[p \in DOMAIN node] ==
    \/ node[p].out # "value"
    \/ \E q \in Children(p) : ~node[q].null /\ IsNull[q]

(***************************************************************************)
(* Whatever the interleaving of the goroutines, a finished node is null    *)
(* exactly if the rule says so, and a query or mutation has no data at all *)
(* exactly if the rule puts the null at the root.                          *)
(***************************************************************************)
NullsFollowTheRule ==
    /\ \A p \in DOMAIN node \ {<<>>} :
        node[p].state = "done" => (node[p].res = "null" <=> IsNull[p])
    /\ phase = "answered" /\ answer.data # None =>
        (answer.data[<<>>] = "null" <=> IsNull[<<>>])

\* The errors that fields recorded; the middleware's has the empty path.
FieldErrors(errs) == errs \ {<<>>}

(***************************************************************************)
(* A client can tell why it misses something, with the middleware's error  *)
(* in the response or without: a null in a response, where the schema      *)
(* allows none or where a field failed, has the error of a field at or     *)
(* below it, and the error of a field has a null at or above it.           *)
(***************************************************************************)
NullsExplained ==
    answer # None /\ answer.data # None =>
        LET nulls == {p \in DOMAIN answer.data : answer.data[p] = "null"} IN
        /\ \A p \in nulls : \E e \in FieldErrors(answer.errors) : IsPrefix(p, e)
        /\ \A e \in FieldErrors(answer.errors) : \E p \in nulls : IsPrefix(p, e)

(***************************************************************************)
(* The root fields of a mutation call their resolvers in the order of the  *)
(* request, each after the one before has finished with its whole subtree, *)
(* and all whose arguments parse have been called by the time of the       *)
(* answer, also when an earlier one failed.                                *)
(***************************************************************************)
MutationsInOrder ==
    op.on = "Mutation" /\ node # <<>> =>
        /\ \A i, j \in DOMAIN calls : i < j => Place(calls[i]) < Place(calls[j])
        /\ \A f \in ToSet(op.root) :
            /\ f \in ToSet(calls) <=> node[<<f>>].out \notin {"none", "unparsed"}
            /\ phase = "answered" => node[<<f>>].out # "none"
            /\ node[<<f>>].out # "none" =>
                \A g \in ToSet(op.root) : Place(g) < Place(f) => node[<<g>>].state = "done"
        /\ \A p \in DOMAIN node :
            Len(p) > 0 /\ node[p].state = "open" => p[1] = Last(calls)

(***************************************************************************)
(* Every operation is answered, and every event a subscription receives is *)
(* sent: no goroutine waits for one that has ended.                        *)
(***************************************************************************)
EventuallyAnswered ==
    phase \in {"start", "running", "nilStream"} ~> phase \in {"listening", "answered"}

=============================================================================
