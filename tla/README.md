# TeaElephantMemory: a TLA+ verification project

TeaElephantMemory is a GraphQL server (Go, PostgreSQL) for a collection of teas:
teas with tags in categories, QR records in users' collections, subscriptions to
every change, a "tea of the day", expiration alerts and recommendations by a
language model. This directory holds TLA+ models of its core, the TLC
configurations that check them on small instances, and TLAPS proofs.
Paths below are relative to `src/`.

## 1. The system

| Component | State | Operations | Interacts through |
|---|---|---|---|
| Subscriber registries `internal/managers/{tea,tag}/subscribers` | per topic a slice of {done, channel} under an RWMutex | Push, SendAll, CleanDone | unbuffered channels to the readers that gqlgen generates |
| Tea manager `internal/managers/tea` | three buffered channels (100), three registries, table teas | Create, Update, Delete, SubscribeOn..., loop | storage, channels, one loop goroutine |
| Tag manager `internal/managers/tag` | eight channels, eight registries, tables tag_categories, tags, tea_tags | Create, Update, ChangeCategory, Delete, the same for categories, AddTagToTea, DeleteTagFromTea, SubscribeOn..., loop | storage, channels, loop; reads teas through the tea manager |
| Tea of the day `pkg/api/v2/graphql` | per-user cache under an RWMutex, table consumptions | teaOfTheDay query: Get, selection, Record, Set | collections, weather, adviser, scoring, consumption |
| Scoring `internal/scoring` | none | SelectBest, SelectBestWithLogging | called by the query |
| Consumption `internal/consumption` | table consumptions, or a map under a mutex | Record, Recent | the query |
| Collections, QR records `internal/managers/{collection,qr}`, `pkg/pg` | tables collections, collection_qr_items, qr_records | Create, AddRecords, DeleteRecords, Delete; Set | resolvers, teas by foreign key |
| Devices `internal/managers/notification`, `pkg/pg` | table devices | BindDevice, RegisterDeviceToken | resolvers, APNS sender |
| Expiration alerter, APNS sender `internal/expiration`, `internal/apns` | a stop channel, a weekly ticker | Start, Stop, Run, Send | users, collections, devices, Apple's service |
| Description generator, adviser `internal/descrgen`, `internal/adviser` | a cache; none | single-shot and streamed answers on channels | the language model |
| Authentication `internal/auth`, `internal/server`, `pkg/pg` | the loaded admin key, tables users and devices, the context of each websocket | Start, Auth, Validate, ValidateAdmin, the websocket's init and the HTTP middleware, RequireAdmin, GetUser | Apple's keys, every request and websocket |
| Generated GraphQL server `pkg/api/v2/graphql/generated` | per operation: the fields under way, their nulls and the errors | execution of queries, mutations and subscriptions, one function per field | resolvers, gqlgen's executor |

What is hard here: one loop goroutine per manager sends to channels whose
readers come and go as they like; mutations write a row and announce it in
separate steps, with other mutations in between; removing a category is three
statements without a transaction; the loop reads back, later, what an event is
about; cache entries are judged by a time read long before; and the choice of a
tea is one pass with a three-level tie-break. The fields of one response are
resolved by goroutines that share counters of nulls; a login is four steps of
which each may fail; and a principal outlives the check of its token.
`PROJECT.json` lists these hazards, each at its line, with the properties aimed
at it.

What makes each component correct:

- registries: no panic, no live subscriber lost, every broadcast delivered once and in order;
- managers: every committed mutation announced exactly once, on its own topic, in order where order is defined; nothing lost but what the code drops knowingly; the loop never stops;
- tea of the day: never a tea of an earlier day, and a stable answer through the day;
- scoring: the highest total, with a tie-break that does not depend on the order of the input;
- collections: only the owner changes one, and a request that fails leaves nothing behind but what the storage's own failure left;
- alerter: a successful run covers all that stayed due, and neither a failed run nor Stop hangs the loop;
- generated server: a response has a null exactly where the schema's rule puts it, and an error that explains it; mutations run in order; every operation is answered;
- authentication: one user per Apple account whatever logins overlap; only holders of a token signed for them act as a user or as the editor; only the editor changes the catalogue;
- answers: the whole answer in order to a client that stays, no goroutine left behind by one that does not.

## 2. Modules

| Module | Models | Extends |
|---|---|---|
| `Broadcast` | abstract: what the registries promise (sets of members, one broadcast at a time) | |
| `Subscribers` | the registries and their readers, step by step | |
| `SubscribersProofs` | inductive invariant, no panic, registries intact, delivery in order, refinement of `Broadcast` | `Subscribers` |
| `TeaManager` | tea mutations, channels, loop | `Subscribers` |
| `TeaManagerProofs` | types, the manager uses the registries as `Subscribers` says, and so implements `Broadcast`, each mutation announced once and in order | `TeaManager`, `SubscribersProofs` |
| `TagCatalog` | tag and category tables, mutations, channels, the loop's read-backs | |
| `TagManager` | `TagCatalog` announced through `Subscribers` by one loop | `TagCatalog`, `Subscribers` |
| `TagManagerProofs` | the catalogue's invariant, removals announced, drops justified; the manager implements `TagCatalog`, `Subscribers` and `Broadcast` | `TagManager`, `SubscribersProofs` |
| `TeaOfTheDay` | the query, its cache, the consumption history, the clock | |
| `TeaOfTheDayProofs` | inductive invariant, no stale tea, safe eviction, replacement only in a race, retention | `TeaOfTheDay` |
| `Scoring` | gathering of candidates and selection, loop by loop | |
| `ScoringProofs` | types, one candidate per tea, highest total, tie-break, no dominated choice | `Scoring` |
| `Collections` | collections, their items, QR records and teas, statement by statement | |
| `Alerter` | the weekly run and its loop, the APNS sender, devices, beside the requests of `Collections` | `Collections` |
| `AlerterProofs` | of collections: foreign keys, owner-only changes, failed requests leave nothing; of the alerter: types, a successful run is complete | `Alerter` |
| `Answers` | channels of the description generator and the adviser's stream, with their readers | |
| `Schema` | every object type of the API and its fields: type, list, nullable, resolver or value | |
| `Execution` | execution of one operation by the generated code, goroutine by goroutine | `Schema` |
| `ResponseProofs` | of answers: types and capacities, whole answers; of execution: types, nulls by the rule, nulls and errors explain one another, mutations in order | `Answers`, `Execution` |
| `Sessions` | logins, tokens, websocket and HTTP contexts, the checks of every resolver, restarts | `Schema` |
| `SessionsProofs` | inductive invariant, one user per account, authentic principals, guarded catalogue | `Sessions` |
| `MC*` | bounds, operations and symmetry for TLC; `TeaManager`, `TagCatalog`, `Alerter` and `Answers` need none | the module they name |

Definitions named "Mutant" in the modules are deliberate errors, unused by the
specifications; each shows that a property can fail.

### How state and actions correspond to the code

**Subscribers.** `subs[t]` is the slice of topic t; a client stands for one
subscription operation: its context (`ctxDone`), its channel (`closed`) and its
reader (`reader`: between two receives, in the generated select, or gone).
`pc`, `cur`, `msg`, `pos`, `forRemove` are the dispatcher's program counter and
locals. SendAll is a call, one step per send, and a return; CleanDone is a call,
one step per entry scanned, one step per swap, and the reslice. A send is a
rendezvous with a reader in its select. Sending on, or closing, a closed channel
leads to `"panic"`. The mutex is `Locked`: Push waits while the dispatcher is in
an operation on the same topic; the dispatcher is one goroutine, and Push is one
step, so no other lock state is needed. `sent` and `base` are history. The six
registries of the code are copies that differ in the message type; one module
stands for all.

**TeaManager.** A request is "new", has written its row ("announce"), has sent
its event ("done"), or "failed". The loop is `LoopReceive` (one case of the
select, then SendAll), `LoopStep` (the steps of Subscribers) and `LoopClean`.
Which tea an event is about does not matter to any property, so events are
requests; teas are kept to say which statements succeed.

**TagCatalog, TagManager.** The tables are functions and sets constrained as by
the foreign keys (`ON DELETE RESTRICT` for categories, `CASCADE` for tea_tags).
DeleteCategory is `ListTags`, `PurgeTags`, `DropCategory`, each one statement,
then its sends one by one (`Enqueue`). An event is sent on one of the manager's
`Channels`; as history it keeps who sends it and the change it tells of. The
loop's read-back is `ReadBack`; `Announce` and `Drop` are the two ends of the
handlers, and `dropped` and `unread` tell a row that was not there from a read
that failed. TagManager adds the registries and the wiring, which is three
tables of the code: the channel of each mutation (the constructors of events),
the registry of each select case and handler (`SendsTo`, `handleTeaTagChange`)
and the registry of each subscription field (`SubscribeOn`). `LoopAnnounce`
follows them and cleans all eight registries after every event; `Subscribe` is
a resolver that pushes a client, and `wanted` remembers which field it asked for.

**TeaOfTheDay.** A request carries `now[r]` from its first step to its last.
`Get` is the read-locked lookup, `Evict` the write-locked recheck and deletion,
`Select` everything up to the choice, then the two statements of Record and
`Set`. The choice is any tea, since context scores outweigh everything else.
`DeleteTea` removes a tea with its consumptions (`ON DELETE CASCADE`,
`db/schema.sql:87`), between any two steps of a query; the cache is not told.

**Scoring.** Time in hours, the zero time as 0, names as numbers in lexical
order. The age of a consumption is negative when it lies after the query's time,
as one recorded by a query that began later does. `Gather` reads one record, `Consider` is one iteration of SelectBest.

**Collections.** `owner` is the table collections, `record` qr_records, `items`
collection_qr_items; deletions cascade as in the schema. AddRecords and
DeleteRecords are `LookUp` (the owner's check), the writes (one INSERT, or one
DELETE per record) and `Reload`; `Refuse` is the error of a first statement.
Identifiers are generated and not used again (`minted`). `Break` is a statement
that fails on its own, and leaves what the earlier ones did.

**Alerter.** Run is four nested loops; `left` is what remains of each of its
lists and `at` where it is. Each list is read when the run gets to it. `pushed`
and `due` are history: what this run handed over, and what was due when it began
and has been ever since. `loop`, `tick` and `stop` are the goroutine, the
ticker's channel and the calls of Stop. The mutation `send` calls the same Run
outside the loop; two runs share no state, so it adds nothing. A push Apple
refuses is logged and the run goes on; one that fails ends it.

**Answers.** A subscription that asked for a description has a `name`, one that
asked for a recommendation has none. `producer` is the program counter of the
goroutine that fills the channel, `made` the number of messages it has had from
the model. `CacheSet` may have no effect and `Evict` may happen at any time, as
the cache admits and drops entries as it likes. A failed generation is the text
`"empty"`. An answer without choices, which the code indexes unchecked, is left
out: the model's service does not give one.

**Schema.** The generated file repeats one template per field; a field is a
record of what differs between the copies. `FieldsOf` is
the switch that finds a field's function; `MutationsWithID` and its like are the
fields whose argument may fail to parse.

**Execution.** An operation is its selections with the type that validation
found for each. A node is one execution of a selected field, or one element of a
list, and keeps the selection it executes. `FieldFails`, `FieldReturnsScalar`,
`FieldReturnsObject` and `FieldReturnsList` are the four ways a generated field
function ends; `ObjectDone` is the end of `_Tag(...)` and its like after
`FieldSet.Dispatch`, `ListDone` the `wg.Wait` of a list marshaller. `invalids`
is the counter with which an object learns that it must be null. `RootOrder` is
what differs between a mutation, whose fields run in turn, and a query. A
subscription is `Subscribe` or `RefuseStream`, then an `Event` and a `SendEvent`
each time. Of the application's data a node keeps what decides nulls: whether a
resolver fails, list lengths, what a tag knows of its category, whether a date
is the zero time. `InterceptResponse` is the error the auth middleware adds for
an unusable token before it lets the operation run: a response may start with
it, and it has no field (`FieldErrors` leaves it out).

**Sessions.** A token is the key, issuer, expiry and admin claim its
verification reads; a token without the editor's audience is refused like one
without the admin claim (`internal/auth/auth.go:456`) and stands under the same
field. A login is the verification by Apple, the upsert of the user,
the signature, and the binding of the device; a login that stops in between
leaves its writes. `req` and `sock` hold the context the middleware or the
websocket's init made; the context of an operation on a websocket is the
connection's, whenever that was checked, and with it comes the header of the
upgrade, which is checked for every response. `since` is when the HTTP request
or the connection began. `adminKey` is loaded at `Start` from
the file (`keyFile`), which may be replaced at any time. Each resolver's first
line is a set of fields: those that ask for the editor, for a user, for neither.

## 3. Runs

| Run | Instance | Shows |
|---|---|---|
| `subscribers` | 3 subscriptions, 1 topic, 2 messages, 2 broadcasts | `NoPanic`, `RegistryIntact`, `DeliveredInOrder`, and that `Subscribers` implements `Broadcast` |
| `tea_manager` | 2 mutations, 2 teas, 1 subscription, capacity 1, with fairness | `AnnouncedOnce`, `RealTimeOrder`; events broadcast and closed subscriptions removed, unless stalled |
| `tea_stall` | the same | *violation*: the stall itself |
| `tag_catalog` | 2 categories, 2 tags, 1 tea, 2 mutations, capacity 1, failing statements and reads | `RemovalAnnouncedUnlessRaced`, `DroppedOnlyIfGone` |
| `tag_manager` | 1 subscription to any field, 1 mutation of any kind, 1 category, 2 tags, 1 tea, capacity 1, with fairness | `TagTypeOK`, `ToldWhatWasAsked`; events handled and closed subscriptions removed, unless stalled |
| `tea_of_the_day` | 3 queries of one user, 3 days of 2 units, teas deleted | `NeverYesterdaysTea`, `EvictsOnlyExpired`, `ReplacedOnlyInRace`, `HistoryKept` |
| `scoring` | up to 3 records of 3 teas, all inputs | `OneCandidatePerTea`, `BestHasMaxScore`, `UnbeatenIfDated`, `Undominated` |
| `collections` | 2 users, collections, records and teas, 3 requests, failing storage | `OwnerOnly`, `FailedOnlyIfGone` |
| `alerter` | 1 user, 1 collection, 2 records, 1 device, 1 request, 1 Stop, failing runs | `RunCovers`, `AlertedEveryWeek`, `StopReturns` |
| `answers` | 2 subscriptions, 1 name, streams of up to 3 chunks, capacity 1 | `WholeAnswer`, `EndsUnlessLeaked`, `DescriptionServed` |
| `execution` | 10 operations, lists of up to 2 elements, 2 events | `NullsFollowTheRule`, `NullsExplained`, `MutationsInOrder`, `EventuallyAnswered` |
| `sessions` | 2 accounts, 2 logins, 1 device, 1 request, 1 websocket, 2 admin keys, 2 tokens, 2 instants, restarts | `AuthenticPrincipals` (users and the editor), `OneUserPerAccount`, `OutlivedByConnectionsOnly`, `CatalogueByAdmin` |

Every invariant of these runs, type invariants included, is also proved for all
values of the constants (section 5). Deadlock checking is off everywhere:
requests and broadcasts are bounded, so every instance ends.

**Why the bounds are enough.** Swap-removal is wrong or right on three entries
(kept, removed, and removed in the part cut off), and proved for any number. Two
broadcasts show order and that later joiners miss earlier messages. A channel of
capacity 1 is full with two requests, as one of 100 is with more. DeleteCategory
races with one other mutation, on tables that start with any tags in any
categories. Three queries let one be slow while another stores and a third
evicts; three days let an entry expire, be replaced and expire again, and
consumptions outlive their retention. Three candidates are what a non-transitive
comparison would need. Three requests let a collection be deleted and a record
rewritten between two statements of a third. Two records, one expired and one
not, are what a run could stop too early at, with one request that changes the
tables under it. Three chunks on a channel of one fill it with one more waiting.
Each operation of `execution` is the smallest that meets one difficulty: lists
in lists, siblings that fail together, a resolver below a value, a mutation
whose later fields go on after an earlier one failed; two elements are what a
shared counter could lose one of. In `sessions` two logins of one account or of
two overlap, and one request and one connection each can outlive a token, a key
and the process; the theorems about it hold for any number. Two mutations of
`tea_manager` are what order needs, and a capacity of one fills; what it checks
of safety is proved for any number. In `tag_manager` one DeleteCategory with two
tags fills its channel and waits in it, and one mutation of each kind meets a
subscription to each field; with two mutations TLC does not finish checking
liveness, so races of mutations are met in `tag_catalog` and in the proofs.
Negative ages are left to the proofs of `Scoring`. Symmetry is used in safety runs only.

**Fairness.** Weak fairness of the loop goroutine as a whole, of each request
that waits to send, and of each reader once it has a response to write or a done
context. The Go scheduler runs every runnable goroutine, and a reader's step is
a local write. Which ready channel a select takes is left open. No fairness is
assumed of clients (they need not subscribe or cancel), or of mutations.
The alerter: `main` starts it, its ticker ticks for ever, its goroutine runs, and
the stop case of its select has strong fairness, since Go's select chooses at
random among the ready cases. Answers: a call for a description ends within its
timeout; `Recv` on a stream need not return until its context is done; sends,
closes and readers that can go on do. Execution: the server's goroutines go on,
which assumes that every resolver returns; a mutation whose manager has stalled
(finding 1) with its channel full does not. `Sessions` states safety only.

## 4. Findings

*Stall* (`tea_stall`). A subscriber whose reader left on its context before
CleanDone has seen it blocks SendAll for ever, under the read lock: no more
broadcasts, no more Push, and mutations block when their channel is full.
`tea_manager` shows that nothing else stops the loop. The tag manager's loop
stalls in the same way, and `tag_manager` shows that it does in no other.

More was seen while translating, and has no run:

- DeleteTagCategory is three statements without a transaction: a tag that comes
  in between the listing and the deletion is removed unannounced
  (`pkg/pg/db.go:194`); `RemovalAnnouncedUnlessRaced` says what remains true.
- A tag moved out of a category between the listing and the deletion is
  announced as removed although it stays (`pkg/pg/db.go:194`).
- A teaOfTheDay query that began before midnight and ends after it stores an
  entry that has already expired, over the new day's
  (`pkg/api/v2/graphql/schema.resolvers.go:649`).
- Between equal totals an undated tea may beat a dated one by its name, although
  the comment at `internal/scoring/scoring.go:115` speaks of equal or absent
  dates; `UnbeatenIfDated` is stated for dated records for that reason. The
  bonuses for an approaching expiration are 3 and 1 in the code, +5 and +2 in
  `docs/TEA_OF_THE_DAY_FEATURE.md:25`.
- The tag that createTag, updateTag and changeTagCategory return has no
  category. A client that selects `category`, which the schema declares
  non-null, gets `data: null` although the mutation was committed
  (`pkg/api/v2/graphql/schema.resolvers.go:803` calls null legitimate).
- A subscription writes null for its root field when a null reaches it, also
  where the schema has none; a query would drop the data.
- A websocket's token is checked when the connection starts and not again, so
  its operations go on after the token has expired (`internal/auth/auth.go:298`);
  `OutlivedByConnectionsOnly` says that the connection was opened before.
- `docs/ADMIN_AUTH.md:474` and `:801` list writeToQR among the editor's
  mutations; `pkg/api/v2/graphql/schema.resolvers.go:117` asks neither for the
  editor nor for a user, so anyone may rewrite a QR record. `MayResolve` has it
  as the code does, and `CatalogueByAdmin` speaks of teas, tags and categories
  only.
- ValidateAdmin reads the issue and expiry times of a verified token through
  pointers that are nil when the claim is missing
  (`internal/auth/auth.go:486-497`), and so panics on an editor's token without
  them. The editor sets both; a token without them is not in the model.
- A binding of a device that another user already has changes nothing and
  succeeds (`pkg/pg/db.go:436`): alerts keep following the first user.
- The cached tea of the day is served until midnight although its tea has been
  deleted.
- A failed generation is cached as an empty description
  (`internal/descrgen/service.go:97`).
- The stream's goroutine waits for ever when its client has left and the channel
  is full (`internal/adviser/service.go:152`); `EndsUnlessLeaked` says that this
  is the only way it stays.

## 5. Proofs

Assumptions are those of the modules: absent values are not values, channels
have a capacity, times, names and scores are numbers.

**SubscribersProofs.** `RegistryIntact` speaks only of unlocked registries, so
it is not inductive: it says nothing of a slice half-way through CleanDone.
`SubInv` does. While the second loop handles remembered indexes from the last to
the first, `Active(t)` is the length of the part of the slice that still counts,
shorter by one per iteration, and `Marked` the remembered indexes not handled
yet. `SliceInv`: the counting part holds distinct clients of its topic, all the
open ones, and its closed ones are exactly the marked. `RememberedInv`: the
indexes increase and each leaves room behind it for those that follow, which is
why the replacing entry is always the last that counts. Preservation is one
lemma per operation. `SubNoPanic` and `SubRegistryIntact` follow.
`DeliveredInOrder` needs besides it only that the message under way is the last
one broadcast (`OnAir`): then a client before SendAll's position has one message
more than one behind it, and no client is before and behind it at once, since
the entries are distinct. For the refinement of `Broadcast` a topic's members
are the open channels found anywhere in its slice. In the middle of CleanDone
that includes entries behind the part that counts, so `SliceTopics` adds that
these too are clients of the topic, and `MembersMapped` that the mapping yields
the members; then closing a channel is the abstract eviction, and swaps and the
reslice are stutters.

**TeaManagerProofs.** `ImplementsSubscribers`: every step of the manager is a
step of `Subscribers`, or leaves the registries alone; so the theorems about the
registries, the refinement of `Broadcast` included, hold of the manager.
`TeaTypeCorrect` includes the channels' capacity. `AnnouncedOnce` counts the
places of an event; `AnnInv` says by elements that each place holds an event of
its own topic whose request has returned, that no two hold the same, that each
returned request has one, and that a request that had returned when another ran
is still returned. The two lemmas that carry it: a receive with its SendAll
leaves the concatenation of broadcast and waiting events as it is, and a send
appends to it.

**TagManagerProofs.** `CatInv` is `RemovalAnnouncedUnlessRaced` and
`DroppedOnlyIfGone` with what makes them inductive. A tag whose row is gone has
a remover that is past its listing (`RemoverInv`), so what the remover listed no
longer changes; only generated identifiers have rows, and their categories are
stored (`RowsInv`); a request that has its last event to send knows it, and the
category it names is never unborn again (`RequestsInv`). Between the statements
of DeleteCategory any other mutation may run; `Progress` states once what no
step undoes, and the preservation lemmas rest on it. That the loop may drop an
event only when its read-back fails, and that what the read-back missed never
comes back, gives `DroppedForCause`. `ManagerImplementsCatalog` and
`TagManagerImplementsSubscribers` then split every step of the composed manager
into a catalogue step and a registry step, of which one may stutter; the
theorems of both sides hold of it. `SubscribersToldWhatTheyAsked` ties them
together: `KindTable` lists the change and channel of every event, `RoutesMeet`
says that the select case of an event's channel and the registry of a
subscription meet exactly where the subscription asked for that change, and the
invariant `Routed` that each registry was handed exactly the announced events of
the channels whose case names it; what a client received is then, by `DeliveredInOrder`, part
of what its registry was handed.

**ScoringProofs.** `Gathering` says of the records read so far what
`OneCandidatePerTea` says of all. For the selection, the invariant says of the
candidates before the loop variable what the theorems say of all: `RunningBest`
for totals, `RunningUnbeaten` for the tie-break, which needs that dates are
never lost (`AllDated`) and that among dated candidates the preference is a
strict order (`DatedPreference`). `DatedChoiceUndominated` follows with
`TotalMonotone`: clamp, penalty and bonus lean the same way at every threshold.

**SessionsProofs.** What a principal may do rests on where its token came from,
so `SessInv` follows tokens: every token of the server's own key is a secret for
Apple or was granted to an account (`SignedInv`), a login past its upsert holds
the row's user (`LoginInv`), every context of a request or connection is that of
a granted or admin token (`ReqInv`, `SockInv`), and nothing is left of a process
that has stopped (`DownInv`), which is why a restart with another key leaves no
editor of the old one. A header of an upgrade may be accepted long after the
connection was opened; that the clock has not gone back since (`SinceInv`) is
why its token had not expired then either. `OneUser`, `PrincipalsAuthentic` and
`TokensExpire` are parts or consequences of the invariant; `CatalogueGuarded` is
an action property proved from it.

**TeaOfTheDayProofs.** A query judges entries by a time it read at its start, so
the invariant ties times together: a query's time is not in the future
(`NowInv`), an entry expires at the midnight after its own date (`CacheInv`), the
requests a query knows to have returned have (`PriorInv`), and one that went past
the lookup found what such a request had stored expired (`MissInv`). With
`BeforeMidnight` (a time before the midnight after a date is on its day or
earlier) no stale tea is served; `EvictionSafe` and `ReplacementOnlyInRace` are
action properties from the same invariant. `RetentionKept` needs only that the
cutoff, computed from a query's time, is not later than one computed now, and
that nothing is inserted for a tea that was deleted.

**AlerterProofs.** Of collections: `FailedOnlyIfGone` is about the end of a request;
`OrderInv` carries the owner's check from the first statement there: since
identifiers are not used twice, the collection is still the user's or gone.
`FailedInv` says that what a failed request lost stays lost. `OnlyOwnerWrites`
follows as an action property: between the check and the write the collection
can change its owner to nobody only, and then it has no items.

Of the alerter: the run reads four lists, each from a different state.
`CoverInv`: what has been due since the run began was pushed or lies ahead
(`Ahead`) at one of the four levels, in a list already read or in one that will
be read from tables in which it is still due. `AtInv` says where the run is when
a list is not empty, which types need too. Requests keep `ColInv`, the invariant
of collections, and `DevInv`, that a token is its device's identifier or
Apple's, makes tokens distinct.

**ResponseProofs.** Of answers: `InOrder` says that what a client has received
followed by what its channel holds is the sequence of messages put so far.
`ProducerInv` counts the one its producer is about to put, and says how far it
is; `ReaderInv` that a reader ends on a closed and empty channel only.

Of execution: `NullsFollowTheRule` speaks of whole subtrees, while a step sees a
node and its parent. `ExecInv` therefore states the rule one level at a time.
`TreeInv`: the nodes are a prefix-closed set of paths of bounded length.
`BelowInv`: what has children has a value, and what is done has only children
that are done. `NullInv`: a finished node is null exactly if it has no value or a
child that is null and may not be, and the counter of a running object is
positive exactly if it has such a child; lost or late counts would break it.
`ErrorsInv`: every error lies at a null, and every null has an error at or below
it, which needs that the fields of a tag, the only ones that return nil without
an error, are not nullable; the middleware's error is set apart. The steps are summarised by what they do to the
tree (`Closes`, `Opens`, `Plants`, `ClosesRoot`), and preservation is proved of
the summaries. From levels to trees there is no induction over data to be had,
but a least counterexample will do: a set of numbers has a least element
(`LeastNumber`, from the library's theorem on well-founded relations). With it,
`RuleHasSolution` and `IsNullEquation` show that the recursive `IsNull` is well
defined on a tree of bounded depth and satisfies its equation, and
`NullsByLevels` that it is what the counters computed; `DoneBelow` and
`FirstNull` are of the same kind. `MutationsInOrder` needs the record of calls:
`OrderInv` says that a started root field has only finished ones before it, so
that a field about to start comes after every call made, and that at most one
field is open, the one called last.

**Only model-checked:** liveness, since fairness and ENABLED are out of the
prover's reach: `BroadcastOrStalled`, `RemovedOrStalled`, `EventuallyHandled`,
`CleanedAfterEvent`, `AlertedEveryWeek`, `StopReturns`, `EndsUnlessLeaked`,
`DescriptionServed` and `EventuallyAnswered`; and the violation of section 4.

## 6. What is not modelled

- Of the generated server: introspection, complexity limits, the branches for
  `@defer` (`generated.go:915-926` and, for each type, those like
  `generated.go:8534-8551` and `8563-8572`), which no client of the repository
  uses, and the parsing of arguments beyond whether it fails; of the resolvers,
  conversions between models.
- Stop of the alerter before Start, which waits for ever, and a second Stop,
  which panics: nothing in the repository calls Stop (`cmd/server/main.go:102`
  only starts it). `StopReturns` is about one Stop of a started loop.
- HTTP routes and static files; signatures are taken to be unforgeable.
- MemoryStore, which only tests construct; QR printing; the weather call; and
  packages nothing imports (`common/subscribers`, `common/key_value`).
- Process crashes beyond Sessions: channels, registries and the cache are in
  memory and start empty, and nothing is recovered.

## 7. Plan

Every component that changes state is modelled, and every safety property of the
runs is proved. What is left:

- the safety halves of the liveness properties as theorems of their own: for
  `EndsUnlessLeaked`, that a producer which waits for ever has a full channel and
  a reader that left; for `EventuallyAnswered`, that a running operation always
  has a node that may step;
- a refinement of `Answers` to one abstract queue per subscription.
