-------------------------- MODULE TagManagerProofs --------------------------
(***************************************************************************)
(* Proofs about tags, categories and their announcements, for any number   *)
(* of identifiers, racing mutations and subscriptions and any channel      *)
(* capacity.                                                               *)
(***************************************************************************)
EXTENDS TagManager, SubscribersProofs

(***************************************************************************)
(* The catalog.                                                            *)
(***************************************************************************)

\* Only identifiers that were generated have rows, and the foreign key holds:
\* the category of a tag has a row.
RowsInv ==
    \A x \in TagIds : tagCat[x] # None => x \in minted /\ cats[tagCat[x]] = "stored"

\* What a request knows at each of its steps: DeleteCategory its category, a
\* request whose statements are done its last event; the category that event
\* names was stored, and so never becomes unborn again.
RequestsInv ==
    \A r \in Requests :
        /\ step[r] \in {"purge", "drop"} => target[r] \in CatIds
        /\ step[r] \in {"announce", "done"} =>
             /\ final[r] \in Events
             /\ final[r].ch \in {"create", "update"} => cats[final[r].cat] # "unborn"

\* A tag whose row is gone was removed by a request past its first statements.
RemoverInv ==
    \A x \in TagIds : Gone(x) =>
        remover[x] \in Requests /\ step[remover[x]] \notin {"new", "purge"}

CatInv ==
    /\ CatalogTypeOK
    /\ RowsInv
    /\ RequestsInv
    /\ RemoverInv
    /\ RemovalAnnouncedUnlessRaced
    /\ DroppedOnlyIfGone

\* An event is one of eight kinds.
LEMMA EventKinds ==
    ASSUME NEW e
    PROVE  e \in Events <=> \E r \in Requests :
             \/ \E x \in TagIds, c \in CatIds : e = TagCreated(r, x, c) \/ e = TagChanged(r, x, c)
             \/ \E x \in TagIds : e = TagDeleted(r, x)
             \/ \E c \in CatIds : \/ e = CategoryCreated(r, c) \/ e = CategoryChanged(r, c)
                                 \/ e = CategoryDeleted(r, c)
             \/ \E i \in TeaIds : e = TagAdded(r, i) \/ e = TagRemoved(r, i)
  BY DEF Events

\* The events of each operation.
LEMMA EventFacts ==
    \A r \in Requests :
        /\ \A x \in TagIds : TagDeleted(r, x) \in Events
        /\ \A x \in TagIds, c \in CatIds :
             TagCreated(r, x, c) \in Events /\ TagChanged(r, x, c) \in Events
        /\ \A c \in CatIds : /\ CategoryCreated(r, c) \in Events
                             /\ CategoryChanged(r, c) \in Events
                             /\ CategoryDeleted(r, c) \in Events
        /\ \A i \in TeaIds : TagAdded(r, i) \in Events /\ TagRemoved(r, i) \in Events
  BY EventKinds

\* The channel each kind of change is sent on.
LEMMA KindTable ==
    ASSUME NEW e \in Events
    PROVE  /\ e.id \in TagIds \union CatIds \union TeaIds
           /\ \/ e.ch = "create" /\ e.what = "tag created" /\ e.cat \in CatIds
              \/ e.ch = "update" /\ e.what = "tag changed" /\ e.cat \in CatIds
              \/ e.ch = "delete" /\ e.what = "tag deleted"
              \/ e.ch = "createCategory" /\ e.what = "category created"
              \/ e.ch = "updateCategory" /\ e.what = "category changed"
              \/ e.ch = "deleteCategory" /\ e.what = "category deleted"
              \/ e.ch = "addTagToTea" /\ e.what = "tag added to tea"
              \/ e.ch = "deleteTagFromTea" /\ e.what = "tag removed from tea"
<1>1. PICK r \in Requests :
        \/ \E x \in TagIds, c \in CatIds : e = TagCreated(r, x, c) \/ e = TagChanged(r, x, c)
        \/ \E x \in TagIds : e = TagDeleted(r, x)
        \/ \E c \in CatIds : \/ e = CategoryCreated(r, c) \/ e = CategoryChanged(r, c)
                            \/ e = CategoryDeleted(r, c)
        \/ \E i \in TeaIds : e = TagAdded(r, i) \/ e = TagRemoved(r, i)
  BY EventKinds
<1>2. ASSUME NEW x, NEW c, e = TagCreated(r, x, c)
      PROVE  e.id = x /\ e.cat = c /\ e.ch = "create" /\ e.what = "tag created"
  BY <1>2 DEF TagCreated, Event
<1>3. ASSUME NEW x, NEW c, e = TagChanged(r, x, c)
      PROVE  e.id = x /\ e.cat = c /\ e.ch = "update" /\ e.what = "tag changed"
  BY <1>3 DEF TagChanged, Event
<1>4. ASSUME NEW x, e = TagDeleted(r, x)
      PROVE  e.id = x /\ e.ch = "delete" /\ e.what = "tag deleted"
  BY <1>4 DEF TagDeleted, Event
<1>5. ASSUME NEW c, e = CategoryCreated(r, c)
      PROVE  e.id = c /\ e.ch = "createCategory" /\ e.what = "category created"
  BY <1>5 DEF CategoryCreated, Event
<1>6. ASSUME NEW c, e = CategoryChanged(r, c)
      PROVE  e.id = c /\ e.ch = "updateCategory" /\ e.what = "category changed"
  BY <1>6 DEF CategoryChanged, Event
<1>7. ASSUME NEW c, e = CategoryDeleted(r, c)
      PROVE  e.id = c /\ e.ch = "deleteCategory" /\ e.what = "category deleted"
  BY <1>7 DEF CategoryDeleted, Event
<1>8. ASSUME NEW i, e = TagAdded(r, i)
      PROVE  e.id = i /\ e.ch = "addTagToTea" /\ e.what = "tag added to tea"
  BY <1>8 DEF TagAdded, Event
<1>9. ASSUME NEW i, e = TagRemoved(r, i)
      PROVE  e.id = i /\ e.ch = "deleteTagFromTea" /\ e.what = "tag removed from tea"
  BY <1>9 DEF TagRemoved, Event
<1> QED
  BY <1>1, <1>2, <1>3, <1>4, <1>5, <1>6, <1>7, <1>8, <1>9

\* The parts of an event.
LEMMA EventParts ==
    /\ NoEvent \notin Events
    /\ \A e \in Events : e.ch \in Channels
    /\ \A e \in Events : e.ch \in {"create", "update"} => e.cat \in CatIds
    /\ \A r, x : TagDeleted(r, x).ch = "delete"
    /\ \A r, x, c : TagCreated(r, x, c).cat = c /\ TagChanged(r, x, c).cat = c
    /\ \A r, c : /\ CategoryCreated(r, c).ch = "createCategory"
                 /\ CategoryChanged(r, c).ch = "updateCategory"
                 /\ CategoryDeleted(r, c).ch = "deleteCategory"
    /\ \A r, i : TagAdded(r, i).ch = "addTagToTea" /\ TagRemoved(r, i).ch = "deleteTagFromTea"
<1>1. NoEvent \notin Events
  <2>1. NoEvent.id = None
    BY DEF NoEvent, TagDeleted, Event
  <2> QED
    BY <2>1, KindTable, TagCatalogAssumption
<1>2. ASSUME NEW e \in Events
      PROVE  e.ch \in Channels /\ (e.ch \in {"create", "update"} => e.cat \in CatIds)
  BY KindTable DEF Channels
<1> QED
  BY <1>1, <1>2
  DEF Event, TagCreated, TagChanged, TagDeleted, CategoryCreated, CategoryChanged,
      CategoryDeleted, TagAdded, TagRemoved

\* Empty channels and tables that satisfy the foreign key.
LEMMA CatInvInit == CatalogInit => CatInv
<1> SUFFICES ASSUME CatalogInit PROVE CatInv
  OBVIOUS
<1> USE TagCatalogAssumption
<1>1. CatalogTypeOK
  BY DEF CatalogInit, CatalogTypeOK
<1>2. RowsInv
  BY DEF CatalogInit, RowsInv
<1>3. RequestsInv /\ DroppedOnlyIfGone
  BY DEF CatalogInit, RequestsInv, DroppedOnlyIfGone
<1>4. \A x \in TagIds : ~Gone(x)
  BY DEF CatalogInit, Gone
<1> QED
  BY <1>1, <1>2, <1>3, <1>4 DEF CatInv, RemoverInv, RemovalAnnouncedUnlessRaced

-----------------------------------------------------------------------------

\* What the tables, the requests and the channels each hold.
TablesTyped ==
    /\ cats \in [CatIds -> {"unborn", "stored", "deleted"}]
    /\ tagCat \in [TagIds -> CatIds \union {None}]
    /\ teas \subseteq TeaIds
    /\ teaTags \subseteq teas \X minted
    /\ minted \subseteq TagIds
    /\ remover \in [TagIds -> Requests \union {None}]

RequestsTyped ==
    /\ step \in [Requests -> {"new", "purge", "drop", "announce", "done", "failed"}]
    /\ target \in [Requests -> CatIds \union {None}]
    /\ listed \in [Requests -> SUBSET TagIds]
    /\ pending \in [Requests -> SUBSET Events]
    /\ final \in [Requests -> Events \union {NoEvent}]

ChannelsTyped ==
    /\ chan \in [Channels -> Seq(Events)]
    /\ \A t \in Channels : Len(chan[t]) <= ChanSize
    /\ held \in Events \union {NoEvent}
    /\ announced \subseteq Events
    /\ dropped \subseteq Events
    /\ unread \subseteq Events

LEMMA CatalogTypes == CatalogTypeOK <=> TablesTyped /\ RequestsTyped /\ ChannelsTyped
  BY DEF CatalogTypeOK, TablesTyped, RequestsTyped, ChannelsTyped

\* A mutation of one statement: the event it will send, and what its
\* statement does to the tables.
LEMMA OneStatement ==
    ASSUME CatInv, NEW r \in Requests,
           \/ CreateCategory(r) \/ UpdateCategory(r)
           \/ CreateTag(r) \/ UpdateTag(r) \/ ChangeCategory(r) \/ DeleteTag(r)
           \/ AddTagToTea(r) \/ DeleteTagFromTea(r)
    PROVE  /\ TablesTyped' /\ RowsInv'
           /\ \A c \in CatIds : cats[c] # "unborn" => cats'[c] = cats[c]
           /\ teas' = teas /\ minted \subseteq minted'
           /\ \E e \in Events :
                /\ Committed(r, e)
                /\ e.ch \in {"create", "update"} => cats'[e.cat] # "unborn"
                /\ \A x \in TagIds : Gone(x)' =>
                     \/ Gone(x) /\ remover'[x] = remover[x]
                     \/ e = TagDeleted(r, x) /\ remover'[x] = r
<1> USE TagCatalogAssumption, EventFacts, EventParts
<1>0. TablesTyped /\ RowsInv
  BY CatalogTypes DEF CatInv
<1>1. CASE CreateCategory(r)
  <2>1. PICK c \in CatIds :
          /\ cats[c] = "unborn" /\ cats' = [cats EXCEPT ![c] = "stored"]
          /\ Committed(r, CategoryCreated(r, c))
          /\ UNCHANGED <<tagCat, teas, teaTags, minted, remover>>
    BY <1>1 DEF CreateCategory
  <2>2. TablesTyped' /\ RowsInv'
    BY <1>0, <2>1 DEF TablesTyped, RowsInv
  <2>3. \A x \in TagIds : Gone(x)' => Gone(x) /\ remover'[x] = remover[x]
    BY <2>1 DEF Gone
  <2> QED
    BY <1>0, <2>1, <2>2, <2>3 DEF TablesTyped
<1>2. CASE UpdateCategory(r)
  <2>1. PICK c \in CatIds :
          Committed(r, CategoryChanged(r, c)) /\ UNCHANGED tables
    BY <1>2 DEF UpdateCategory
  <2>2. TablesTyped' /\ RowsInv'
    BY <1>0, <2>1 DEF TablesTyped, RowsInv, tables
  <2> QED
    BY <2>1, <2>2 DEF tables, Gone
<1>3. CASE CreateTag(r)
  <2>1. PICK y \in TagIds \ minted, c \in CatIds :
          /\ cats[c] = "stored" /\ tagCat' = [tagCat EXCEPT ![y] = c]
          /\ minted' = minted \union {y}
          /\ Committed(r, TagCreated(r, y, c))
          /\ UNCHANGED <<cats, teas, teaTags, remover>>
    BY <1>3 DEF CreateTag
  <2>2. TablesTyped'
    BY <1>0, <2>1 DEF TablesTyped
  <2>3. RowsInv'
    BY <1>0, <2>1 DEF RowsInv, TablesTyped
  <2>4. \A x \in TagIds : Gone(x)' => Gone(x) /\ remover'[x] = remover[x]
    BY <1>0, <2>1 DEF Gone, TablesTyped
  <2> QED
    BY <2>1, <2>2, <2>3, <2>4
<1>4. CASE UpdateTag(r)
  <2>1. PICK y \in TagIds :
          tagCat[y] # None /\ Committed(r, TagChanged(r, y, tagCat[y])) /\ UNCHANGED tables
    BY <1>4 DEF UpdateTag
  <2>2. TablesTyped' /\ RowsInv'
    BY <1>0, <2>1 DEF TablesTyped, RowsInv, tables
  <2>3. tagCat[y] \in CatIds /\ cats'[tagCat[y]] # "unborn"
    BY <1>0, <2>1 DEF TablesTyped, RowsInv, tables
  <2> QED
    BY <2>1, <2>2, <2>3 DEF tables, Gone
<1>5. CASE ChangeCategory(r)
  <2>1. PICK y \in TagIds, c \in CatIds :
          /\ tagCat[y] # None /\ cats[c] = "stored" /\ tagCat' = [tagCat EXCEPT ![y] = c]
          /\ Committed(r, TagChanged(r, y, c))
          /\ UNCHANGED <<cats, teas, teaTags, minted, remover>>
    BY <1>5 DEF ChangeCategory
  <2>2. TablesTyped' /\ RowsInv'
    BY <1>0, <2>1 DEF TablesTyped, RowsInv
  <2>3. \A x \in TagIds : Gone(x)' => Gone(x) /\ remover'[x] = remover[x]
    BY <1>0, <2>1 DEF Gone, TablesTyped
  <2> QED
    BY <2>1, <2>2, <2>3
<1>6. CASE DeleteTag(r)
  <2>1. PICK y \in minted :
          /\ RemoveTags(r, {y} \ {z \in TagIds : tagCat[z] = None})
          /\ Committed(r, TagDeleted(r, y))
    BY <1>6 DEF DeleteTag
  <2> DEFINE X == {y} \ {z \in TagIds : tagCat[z] = None}
  <2>2. /\ tagCat' = [x \in TagIds |-> IF x \in X THEN None ELSE tagCat[x]]
        /\ teaTags' \subseteq teaTags
        /\ remover' = [x \in TagIds |-> IF x \in X THEN r ELSE remover[x]]
        /\ UNCHANGED <<cats, teas, minted>>
    BY <2>1 DEF RemoveTags
  <2>3. y \in TagIds
    BY <1>0, <2>1 DEF TablesTyped
  <2>4. TablesTyped'
    BY <1>0, <2>2 DEF TablesTyped
  <2>5. RowsInv'
    BY <1>0, <2>2 DEF RowsInv
  <2>6. \A x \in TagIds : Gone(x)' =>
           \/ Gone(x) /\ remover'[x] = remover[x]
           \/ x = y /\ remover'[x] = r
    BY <2>2 DEF Gone
  <2> QED
    BY <2>1, <2>2, <2>3, <2>4, <2>5, <2>6
<1>7. CASE AddTagToTea(r)
  <2>1. PICK i \in teas, y \in TagIds :
          /\ tagCat[y] # None /\ teaTags' = teaTags \union {<<i, y>>}
          /\ Committed(r, TagAdded(r, i))
          /\ UNCHANGED <<cats, tagCat, teas, minted, remover>>
    BY <1>7 DEF AddTagToTea
  <2>2. i \in TeaIds /\ y \in minted
    BY <1>0, <2>1 DEF TablesTyped, RowsInv
  <2>3. TablesTyped' /\ RowsInv'
    BY <1>0, <2>1, <2>2 DEF TablesTyped, RowsInv
  <2> QED
    BY <2>1, <2>2, <2>3 DEF Gone
<1>8. CASE DeleteTagFromTea(r)
  <2>1. PICK i \in TeaIds :
          /\ teaTags' \subseteq teaTags
          /\ Committed(r, TagRemoved(r, i))
          /\ UNCHANGED <<cats, tagCat, teas, minted, remover>>
    BY <1>8 DEF DeleteTagFromTea
  <2>2. TablesTyped' /\ RowsInv'
    BY <1>0, <2>1 DEF TablesTyped, RowsInv
  <2> QED
    BY <2>1, <2>2 DEF Gone
<1> QED
  BY <1>1, <1>2, <1>3, <1>4, <1>5, <1>6, <1>7, <1>8

\* The steps that change tables, but for the mutations of one statement.
LEMMA PurgeTables ==
    ASSUME CatInv, NEW r \in Requests, PurgeTags(r)
    PROVE  /\ TablesTyped' /\ RowsInv' /\ UNCHANGED <<cats, teas, minted>>
           /\ \A x \in TagIds : Gone(x)' =>
                \/ Gone(x) /\ remover'[x] = remover[x]
                \/ remover'[x] = r
<1> DEFINE X == {x \in TagIds : tagCat[x] = target[r]}
<1>1. TablesTyped /\ RowsInv
  BY CatalogTypes DEF CatInv
<1>2. /\ tagCat' = [x \in TagIds |-> IF x \in X THEN None ELSE tagCat[x]]
      /\ teaTags' \subseteq teaTags
      /\ remover' = [x \in TagIds |-> IF x \in X THEN r ELSE remover[x]]
      /\ UNCHANGED <<cats, teas, minted>>
  BY DEF PurgeTags, RemoveTags
<1>3. TablesTyped'
  BY <1>1, <1>2 DEF TablesTyped
<1>4. RowsInv'
  BY <1>1, <1>2 DEF RowsInv
<1>5. \A x \in TagIds : Gone(x)' =>
         \/ Gone(x) /\ remover'[x] = remover[x]
         \/ remover'[x] = r
  BY <1>2 DEF Gone
<1> QED
  BY <1>2, <1>3, <1>4, <1>5

LEMMA DropTables ==
    ASSUME CatInv, NEW r \in Requests, DropCategory(r)
    PROVE  /\ TablesTyped' /\ RowsInv' /\ UNCHANGED <<teas, minted>>
           /\ \A c \in CatIds : cats[c] # "unborn" => cats'[c] # "unborn"
           /\ \A c \in CatIds : cats[c] = "deleted" => cats'[c] = "deleted"
           /\ \A x \in TagIds : Gone(x)' => Gone(x) /\ remover'[x] = remover[x]
<1>1. TablesTyped /\ RowsInv
  BY CatalogTypes DEF CatInv
<1>2. target[r] \in CatIds
  BY DEF CatInv, RequestsInv, DropCategory
<1>3. /\ cats' = [cats EXCEPT ![target[r]] = "deleted"]
      /\ \A x \in TagIds : tagCat[x] # target[r]
      /\ UNCHANGED <<tagCat, teas, teaTags, minted, remover>>
  BY DEF DropCategory, Unreferenced
<1>4. TablesTyped'
  BY <1>1, <1>2, <1>3 DEF TablesTyped
<1>5. RowsInv'
  BY <1>1, <1>2, <1>3, TagCatalogAssumption DEF RowsInv, TablesTyped
<1> QED
  BY <1>1, <1>2, <1>3, <1>4, <1>5 DEF TablesTyped, Gone

\* What no step undoes: a category that was stored is never unborn again and a
\* deleted one stays deleted, teas are only deleted, a request never goes back
\* and does not forget what it listed, nor which event it has to send.
Progress ==
    /\ \A c \in CatIds : cats[c] # "unborn" => cats'[c] # "unborn"
    /\ \A c \in CatIds : cats[c] = "deleted" => cats'[c] = "deleted"
    /\ teas' \subseteq teas
    /\ dropped \subseteq dropped' /\ unread \subseteq unread'
    /\ \A q \in Requests : step[q] \notin {"new", "purge"} =>
         step'[q] \notin {"new", "purge"} /\ target'[q] = target[q] /\ listed'[q] = listed[q]
    /\ \A q \in Requests : step[q] \in {"announce", "done"} =>
         step'[q] \in {"announce", "done"} /\ final'[q] = final[q]

LEMMA StepProgress == CatInv /\ [CatalogNext]_catalogVars => Progress
<1> SUFFICES ASSUME CatInv, [CatalogNext]_catalogVars PROVE Progress
  OBVIOUS
<1>0. TablesTyped /\ RequestsTyped
  BY CatalogTypes DEF CatInv
<1>1. ASSUME NEW r \in Requests,
             \/ CreateCategory(r) \/ UpdateCategory(r)
             \/ CreateTag(r) \/ UpdateTag(r) \/ ChangeCategory(r) \/ DeleteTag(r)
             \/ AddTagToTea(r) \/ DeleteTagFromTea(r)
      PROVE  Progress
  <2>1. PICK e \in Events : Committed(r, e)
    BY <1>1, OneStatement
  <2>2. /\ \A c \in CatIds : cats[c] # "unborn" => cats'[c] = cats[c]
        /\ teas' = teas
    BY <1>1, OneStatement
  <2>3. /\ step[r] = "new" /\ step' = [step EXCEPT ![r] = "announce"]
        /\ final' = [final EXCEPT ![r] = e]
        /\ UNCHANGED <<target, listed, dropped, unread>>
    BY <2>1 DEF Committed, outcome
  <2> QED
    BY <1>0, <2>2, <2>3 DEF Progress, RequestsTyped
<1>2. ASSUME NEW r \in Requests, ListTags(r) PROVE Progress
  BY <1>0, <1>2 DEF ListTags, tables, outcome, Progress, RequestsTyped
<1>3. ASSUME NEW r \in Requests, PurgeTags(r) PROVE Progress
  BY <1>0, <1>3, PurgeTables DEF PurgeTags, outcome, Progress, RequestsTyped
<1>4. ASSUME NEW r \in Requests, DropCategory(r) PROVE Progress
  BY <1>0, <1>4, DropTables DEF DropCategory, outcome, Progress, RequestsTyped
<1>5. ASSUME NEW r \in Requests, Fail(r) PROVE Progress
  BY <1>0, <1>5 DEF Fail, tables, outcome, Progress, RequestsTyped
<1>6. ASSUME NEW r \in Requests, Enqueue(r) PROVE Progress
  BY <1>0, <1>6 DEF Enqueue, tables, outcome, Progress, RequestsTyped
<1>7. CASE TeaDeleted
  BY <1>7 DEF TeaDeleted, requests, outcome, Progress
<1>8. CASE (\E t \in Channels : Receive(t)) \/ Announce \/ Drop \/ UNCHANGED catalogVars
  BY <1>8 DEF Receive, Announce, Drop, catalogVars, tables, requests, outcome, Progress
<1> QED
  BY <1>1, <1>2, <1>3, <1>4, <1>5, <1>6, <1>7, <1>8 DEF CatalogNext, RequestStep

\* The rows and the requests keep their types.
LEMMA RowsStep == CatInv /\ [CatalogNext]_catalogVars => TablesTyped' /\ RowsInv'
<1> SUFFICES ASSUME CatInv, [CatalogNext]_catalogVars PROVE TablesTyped' /\ RowsInv'
  OBVIOUS
<1>0. TablesTyped /\ RowsInv
  BY CatalogTypes DEF CatInv
<1>1. CASE UNCHANGED tables
  BY <1>0, <1>1 DEF TablesTyped, RowsInv, tables
<1>2. CASE TeaDeleted
  BY <1>0, <1>2 DEF TeaDeleted, TablesTyped, RowsInv
<1> QED
  BY <1>1, <1>2, OneStatement, PurgeTables, DropTables
  DEF CatalogNext, RequestStep, ListTags, Fail, Enqueue, Receive, Announce, Drop, catalogVars

LEMMA RequestsTypeStep == CatInv /\ [CatalogNext]_catalogVars => RequestsTyped'
<1> SUFFICES ASSUME CatInv, [CatalogNext]_catalogVars PROVE RequestsTyped'
  OBVIOUS
<1>0. RequestsTyped
  BY CatalogTypes DEF CatInv
<1>1. CASE UNCHANGED requests
  BY <1>0, <1>1 DEF RequestsTyped, requests
<1>2. ASSUME NEW r \in Requests, NEW e \in Events, Committed(r, e) PROVE RequestsTyped'
  BY <1>0, <1>2 DEF Committed, RequestsTyped
<1>3. ASSUME NEW r \in Requests, ListTags(r) PROVE RequestsTyped'
  BY <1>0, <1>3 DEF ListTags, RequestsTyped
<1>4. ASSUME NEW r \in Requests, PurgeTags(r) PROVE RequestsTyped'
  BY <1>0, <1>4 DEF PurgeTags, RequestsTyped
<1>5. ASSUME NEW r \in Requests, DropCategory(r) PROVE RequestsTyped'
  <2>1. target[r] \in CatIds
    BY <1>5 DEF CatInv, RequestsInv, DropCategory
  <2>2. {TagDeleted(r, x) : x \in listed[r]} \in SUBSET Events
    BY <1>0, EventFacts, EventParts DEF RequestsTyped
  <2> QED
    BY <1>0, <1>5, <2>1, <2>2, EventFacts, EventParts DEF DropCategory, RequestsTyped
<1>6. ASSUME NEW r \in Requests, Fail(r) PROVE RequestsTyped'
  BY <1>0, <1>6 DEF Fail, RequestsTyped
<1>7. ASSUME NEW r \in Requests, Enqueue(r) PROVE RequestsTyped'
  BY <1>0, <1>7 DEF Enqueue, RequestsTyped
<1> QED
  BY <1>1, <1>2, <1>3, <1>4, <1>5, <1>6, <1>7, OneStatement
  DEF CatalogNext, RequestStep, TeaDeleted, Receive, Announce, Drop, catalogVars

\* Where the one event goes that a blocking send puts on a channel.
LEMMA SendFacts ==
    ASSUME ChannelsTyped, NEW e \in Events, Send(e)
    PROVE  /\ chan' \in [Channels -> Seq(Events)]
           /\ \A t \in Channels : Len(chan'[t]) <= ChanSize
           /\ \A t \in Channels : \A i \in DOMAIN chan[t] :
                i \in DOMAIN chan'[t] /\ chan'[t][i] = chan[t][i]
           /\ \E i \in DOMAIN chan'[e.ch] : chan'[e.ch][i] = e
<1>1. e.ch \in Channels /\ ChanSize \in Nat
  BY EventFacts, EventParts, TagCatalogAssumption
<1>2. chan[e.ch] \in Seq(Events) /\ Len(chan[e.ch]) < ChanSize
  BY <1>1 DEF ChannelsTyped, Send
<1> DEFINE s == chan[e.ch]
           s2 == Append(s, e)
<1>3. chan'[e.ch] = s2 /\ \A t \in Channels : t # e.ch => chan'[t] = chan[t]
  BY <1>1 DEF ChannelsTyped, Send
<1>4. chan' = [chan EXCEPT ![e.ch] = s2]
  BY DEF Send
<1>5. s \in Seq(Events)
  BY <1>2
<1> HIDE DEF s
<1>6. /\ s2 \in Seq(Events) /\ Len(s2) = Len(s) + 1
      /\ \A i \in DOMAIN s : i \in DOMAIN s2 /\ s2[i] = s[i]
      /\ Len(s) + 1 \in DOMAIN s2 /\ s2[Len(s) + 1] = e
  BY <1>5
<1> HIDE DEF s2
<1>7. chan' \in [Channels -> Seq(Events)]
  BY <1>1, <1>4, <1>6 DEF ChannelsTyped
<1>8. Len(s2) <= ChanSize
  <2>1. Len(s) < ChanSize /\ Len(s) \in Nat
    BY <1>2 DEF s
  <2> QED
    BY <1>1, <1>6, <2>1
<1>9. \A t \in Channels : Len(chan'[t]) <= ChanSize
  BY <1>3, <1>8 DEF ChannelsTyped
<1>10. \A t \in Channels : \A i \in DOMAIN chan[t] :
          i \in DOMAIN chan'[t] /\ chan'[t][i] = chan[t][i]
  BY <1>3, <1>6 DEF s
<1>11. \E i \in DOMAIN chan'[e.ch] : chan'[e.ch][i] = e
  BY <1>3, <1>6
<1> QED
  BY <1>7, <1>9, <1>10, <1>11

\* Taking the first event off a channel loses none.
LEMMA ReceiveFacts ==
    ASSUME ChannelsTyped, NEW t \in Channels, Receive(t)
    PROVE  /\ chan' \in [Channels -> Seq(Events)]
           /\ \A u \in Channels : Len(chan'[u]) <= ChanSize
           /\ held = NoEvent /\ held' \in Events
           /\ \A u \in Channels : \A i \in DOMAIN chan[u] :
                \/ chan[u][i] = held'
                \/ \E j \in DOMAIN chan'[u] : chan'[u][j] = chan[u][i]
<1> DEFINE s == chan[t]
           s2 == Tail(s)
<1>1. s \in Seq(Events) /\ s # << >> /\ Len(s) \in Nat /\ Len(s) <= ChanSize /\ ChanSize \in Nat
  BY TagCatalogAssumption DEF ChannelsTyped, Receive
<1>2. chan'[t] = s2 /\ \A u \in Channels : u # t => chan'[u] = chan[u]
  BY DEF ChannelsTyped, Receive
<1>3. chan' = [chan EXCEPT ![t] = s2] /\ held = NoEvent /\ held' = Head(s)
  BY DEF Receive
<1> HIDE DEF s
<1>4. /\ s2 \in Seq(Events) /\ Len(s2) = Len(s) - 1 /\ Head(s) \in Events /\ Head(s) = s[1]
      /\ \A i \in DOMAIN s : i = 1 \/ (i - 1 \in DOMAIN s2 /\ s2[i - 1] = s[i])
  BY <1>1
<1> HIDE DEF s2
<1>5. chan' \in [Channels -> Seq(Events)]
  BY <1>3, <1>4 DEF ChannelsTyped
<1>6. Len(s2) <= ChanSize
  BY <1>1, <1>4
<1>7. \A u \in Channels : Len(chan'[u]) <= ChanSize
  BY <1>2, <1>6 DEF ChannelsTyped
<1>8. \A u \in Channels : \A i \in DOMAIN chan[u] :
         \/ chan[u][i] = held'
         \/ \E j \in DOMAIN chan'[u] : chan'[u][j] = chan[u][i]
  <2>1. \A i \in DOMAIN s : s[i] = held' \/ \E j \in DOMAIN s2 : s2[j] = s[i]
    BY <1>3, <1>4
  <2> QED
    BY <1>2, <2>1 DEF s
<1> QED
  BY <1>3, <1>4, <1>5, <1>7, <1>8

LEMMA ChannelsStep == CatInv /\ [CatalogNext]_catalogVars => ChannelsTyped'
<1> SUFFICES ASSUME CatInv, [CatalogNext]_catalogVars PROVE ChannelsTyped'
  OBVIOUS
<1>0. ChannelsTyped /\ RequestsTyped /\ RequestsInv
  BY CatalogTypes DEF CatInv
<1>1. CASE UNCHANGED <<chan, held, outcome>>
  BY <1>0, <1>1 DEF ChannelsTyped, outcome
<1>2. ASSUME NEW r \in Requests, Enqueue(r) PROVE ChannelsTyped'
  <2>1. PICK e \in Events : Send(e)
    BY <1>0, <1>2 DEF Enqueue, RequestsTyped, RequestsInv
  <2>2. UNCHANGED <<held, outcome>>
    BY <1>2 DEF Enqueue
  <2> QED
    BY <1>0, <2>1, <2>2, SendFacts DEF ChannelsTyped, outcome
<1>3. ASSUME NEW t \in Channels, Receive(t) PROVE ChannelsTyped'
  <2>1. UNCHANGED outcome
    BY <1>3 DEF Receive
  <2> QED
    BY <1>0, <1>3, <2>1, ReceiveFacts DEF ChannelsTyped, outcome
<1>4. CASE Announce \/ Drop
  BY <1>0, <1>4 DEF Announce, Drop, ChannelsTyped
<1>5. ASSUME NEW r \in Requests, NEW e \in Events, Committed(r, e) PROVE ChannelsTyped'
  BY <1>1, <1>5 DEF Committed
<1> QED
  BY <1>1, <1>2, <1>3, <1>4, <1>5, OneStatement
  DEF CatalogNext, RequestStep, ListTags, PurgeTags, DropCategory, Fail, TeaDeleted, catalogVars

\* An event that is on its way stays so, unless it is the one the loop drops.
LEMMA WayKept ==
    ASSUME CatInv, [CatalogNext]_catalogVars, NEW e \in Events, OnItsWay(e)
    PROVE  OnItsWay(e)' \/ (Drop /\ e = held)
<1>0. ChannelsTyped /\ RequestsTyped /\ RequestsInv /\ e.ch \in Channels /\ e # NoEvent
  BY CatalogTypes, EventFacts, EventParts DEF CatInv
<1>1. CASE e \in announced
  <2>1. announced \subseteq announced'
    <3>1. ASSUME NEW r \in Requests, NEW f \in Events, Committed(r, f)
          PROVE  announced \subseteq announced'
      BY <3>1 DEF Committed, outcome
    <3> QED
      BY <3>1, OneStatement
      DEF CatalogNext, RequestStep, ListTags, PurgeTags, DropCategory, Fail, Enqueue,
          TeaDeleted, Receive, Announce, Drop, catalogVars, outcome
  <2> QED
    BY <1>1, <2>1 DEF OnItsWay
<1>2. CASE InFlight(e)
  <2>1. ASSUME UNCHANGED <<chan, held>> PROVE OnItsWay(e)'
    BY <1>2, <2>1 DEF InFlight, OnItsWay
  <2>2. ASSUME NEW r \in Requests, Enqueue(r) PROVE InFlight(e)'
    <3>1. PICK f \in Events : Send(f)
      BY <1>0, <2>2 DEF Enqueue, RequestsTyped, RequestsInv
    <3>2. held' = held
      BY <2>2 DEF Enqueue
    <3> QED
      BY <1>0, <1>2, <3>1, <3>2, SendFacts DEF InFlight
  <2>3. ASSUME NEW t \in Channels, Receive(t) PROVE InFlight(e)'
    BY <1>0, <1>2, <2>3, ReceiveFacts DEF InFlight
  <2>4. CASE Announce
    BY <1>2, <2>4 DEF Announce, InFlight, OnItsWay
  <2>5. CASE Drop
    BY <1>2, <2>5 DEF Drop, InFlight, OnItsWay
  <2>6. ASSUME NEW r \in Requests, NEW f \in Events, Committed(r, f) PROVE OnItsWay(e)'
    BY <2>1, <2>6 DEF Committed
  <2> QED
    BY <2>1, <2>2, <2>3, <2>4, <2>5, <2>6, OneStatement
    DEF CatalogNext, RequestStep, ListTags, PurgeTags, DropCategory, Fail, TeaDeleted,
        catalogVars, OnItsWay
<1>3. CASE \E r \in Requests : step[r] = "announce" /\ e \in pending[r] \union {final[r]}
  <2>1. PICK q \in Requests : step[q] = "announce" /\ e \in pending[q] \union {final[q]}
    BY <1>3
  <2>2. ASSUME step'[q] = step[q], pending'[q] = pending[q], final'[q] = final[q]
        PROVE  OnItsWay(e)'
    BY <2>1, <2>2 DEF OnItsWay
  <2>3. ASSUME NEW r \in Requests, Enqueue(r) PROVE OnItsWay(e)'
    <3>1. CASE r # q
      BY <1>0, <2>2, <2>3, <3>1 DEF Enqueue, RequestsTyped
    <3>2. ASSUME r = q, NEW f \in pending[r], Send(f),
                 pending' = [pending EXCEPT ![r] = @ \ {f}], step' = step, final' = final
          PROVE  OnItsWay(e)'
      <4>1. f \in Events
        BY <1>0 DEF RequestsTyped
      <4>2. CASE f = e
        BY <1>0, <3>2, <4>1, <4>2, SendFacts DEF OnItsWay, InFlight
      <4>3. CASE f # e
        <5>1. e \in pending'[q] \union {final'[q]} /\ step'[q] = "announce"
          BY <1>0, <2>1, <3>2, <4>3 DEF RequestsTyped
        <5> QED
          BY <5>1 DEF OnItsWay
      <4> QED
        BY <4>2, <4>3
    <3>3. CASE r = q /\ pending[r] = {} /\ Send(final[r])
      <4>1. e = final[r]
        BY <2>1, <3>3
      <4> QED
        BY <1>0, <3>3, <4>1, SendFacts DEF OnItsWay, InFlight
    <3> QED
      BY <2>3, <3>1, <3>2, <3>3 DEF Enqueue
  <2>4. ASSUME NEW r \in Requests, NEW f \in Events, Committed(r, f) PROVE OnItsWay(e)'
    <3>1. r # q
      BY <2>1, <2>4 DEF Committed
    <3> QED
      BY <1>0, <2>2, <2>4, <3>1 DEF Committed, RequestsTyped
  <2>5. ASSUME NEW r \in Requests, ListTags(r) \/ PurgeTags(r) \/ DropCategory(r) \/ Fail(r)
        PROVE  OnItsWay(e)'
    <3>1. r # q
      BY <2>1, <2>5 DEF ListTags, PurgeTags, DropCategory, Fail
    <3> QED
      BY <1>0, <2>2, <2>5, <3>1 DEF ListTags, PurgeTags, DropCategory, Fail, RequestsTyped
  <2>6. CASE TeaDeleted \/ (\E t \in Channels : Receive(t)) \/ Announce \/ Drop
               \/ UNCHANGED catalogVars
    BY <2>2, <2>6 DEF TeaDeleted, Receive, Announce, Drop, catalogVars, requests
  <2> QED
    BY <2>3, <2>4, <2>5, <2>6, OneStatement DEF CatalogNext, RequestStep
<1> QED
  BY <1>1, <1>2, <1>3 DEF OnItsWay

\* The remaining parts of the invariant follow from what no step undoes.
LEMMA RequestsInvStep == CatInv /\ [CatalogNext]_catalogVars => RequestsInv'
<1> SUFFICES ASSUME CatInv, [CatalogNext]_catalogVars, NEW r \in Requests
             PROVE  /\ step'[r] \in {"purge", "drop"} => target'[r] \in CatIds
                    /\ step'[r] \in {"announce", "done"} =>
                         /\ final'[r] \in Events
                         /\ final'[r].ch \in {"create", "update"} =>
                              cats'[final'[r].cat] # "unborn"
  BY DEF RequestsInv
<1>0. /\ TablesTyped /\ RequestsTyped /\ Progress
      /\ step[r] \in {"purge", "drop"} => target[r] \in CatIds
      /\ step[r] \in {"announce", "done"} =>
           /\ final[r] \in Events
           /\ final[r].ch \in {"create", "update"} => cats[final[r].cat] # "unborn"
  BY CatalogTypes, StepProgress DEF CatInv, RequestsInv
<1>1. CASE step[r] \in {"announce", "done"}
  <2>1. step'[r] \in {"announce", "done"} /\ final'[r] = final[r]
    BY <1>0, <1>1 DEF Progress
  <2>2. final[r].ch \in {"create", "update"} => final[r].cat \in CatIds
    BY <1>0, <1>1, EventFacts, EventParts
  <2> QED
    BY <1>0, <1>1, <2>1, <2>2 DEF Progress
<1>2. CASE step'[r] = step[r] /\ target'[r] = target[r] /\ step[r] \notin {"announce", "done"}
  BY <1>0, <1>2
<1>3. ASSUME NEW q \in Requests, NEW e \in Events, Committed(q, e),
             e.ch \in {"create", "update"} => cats'[e.cat] # "unborn",
             step[r] \notin {"announce", "done"}
      PROVE  /\ step'[r] \in {"purge", "drop"} => target'[r] \in CatIds
             /\ step'[r] \in {"announce", "done"} =>
                  /\ final'[r] \in Events
                  /\ final'[r].ch \in {"create", "update"} =>
                       cats'[final'[r].cat] # "unborn"
  BY <1>0, <1>3 DEF Committed, RequestsTyped
<1>4. ASSUME NEW q \in Requests, ListTags(q) \/ PurgeTags(q) \/ Fail(q),
             step[r] \notin {"announce", "done"}
      PROVE  /\ step'[r] \in {"purge", "drop"} => target'[r] \in CatIds
             /\ step'[r] \notin {"announce", "done"}
  BY <1>0, <1>4 DEF ListTags, PurgeTags, Fail, RequestsTyped
<1>5. ASSUME NEW q \in Requests, DropCategory(q), step[r] \notin {"announce", "done"}
      PROVE  /\ step'[r] \in {"purge", "drop"} => target'[r] \in CatIds
             /\ step'[r] \in {"announce", "done"} =>
                  final'[r] \in Events /\ final'[r].ch \notin {"create", "update"}
  <2>1. CASE q # r
    BY <1>0, <1>5, <2>1 DEF DropCategory, RequestsTyped
  <2>2. CASE q = r
    <3>1. /\ step'[r] = "announce"
          /\ final'[r] = CategoryDeleted(r, target[r])
          /\ target[r] \in CatIds
      BY <1>0, <1>5, <2>2 DEF DropCategory, RequestsTyped
    <3> QED
      BY <3>1, EventFacts, EventParts
  <2> QED
    BY <2>1, <2>2
<1>6. ASSUME NEW q \in Requests, Enqueue(q), step[r] \notin {"announce", "done"}
      PROVE  step'[r] = step[r] /\ target'[r] = target[r]
  BY <1>0, <1>6 DEF Enqueue, RequestsTyped
<1>7. CASE TeaDeleted \/ (\E t \in Channels : Receive(t)) \/ Announce \/ Drop
             \/ UNCHANGED catalogVars
  BY <1>1, <1>2, <1>7 DEF TeaDeleted, Receive, Announce, Drop, catalogVars, requests
<1> QED
  BY <1>1, <1>2, <1>3, <1>4, <1>5, <1>6, <1>7, OneStatement DEF CatalogNext, RequestStep

\* A tag whose row is gone after a step was gone before it, or is what the
\* step removed: then it is on its way to be announced, or left to the rest of
\* its DeleteCategory.
LEMMA GoneStep ==
    ASSUME CatInv, [CatalogNext]_catalogVars, NEW x \in TagIds, Gone(x)'
    PROVE  \/ Gone(x) /\ remover'[x] = remover[x]
           \/ /\ remover'[x] \in Requests
              /\ \/ /\ step'[remover'[x]] = "announce"
                    /\ final'[remover'[x]] = TagDeleted(remover'[x], x)
                 \/ step'[remover'[x]] = "drop"
<1>0. RequestsTyped /\ TablesTyped
  BY CatalogTypes DEF CatInv
<1>1. CASE UNCHANGED tables
  BY <1>1 DEF tables, Gone
<1>2. ASSUME NEW r \in Requests,
             \/ CreateCategory(r) \/ UpdateCategory(r)
             \/ CreateTag(r) \/ UpdateTag(r) \/ ChangeCategory(r) \/ DeleteTag(r)
             \/ AddTagToTea(r) \/ DeleteTagFromTea(r)
      PROVE  \/ Gone(x) /\ remover'[x] = remover[x]
             \/ /\ remover'[x] = r /\ step'[r] = "announce"
                /\ final'[r] = TagDeleted(r, x)
  <2>1. PICK e \in Events :
          /\ Committed(r, e)
          /\ \/ Gone(x) /\ remover'[x] = remover[x]
             \/ e = TagDeleted(r, x) /\ remover'[x] = r
    BY <1>2, OneStatement
  <2>2. step'[r] = "announce" /\ final'[r] = e
    BY <1>0, <2>1 DEF Committed, RequestsTyped
  <2> QED
    BY <2>1, <2>2
<1>3. ASSUME NEW r \in Requests, PurgeTags(r)
      PROVE  \/ Gone(x) /\ remover'[x] = remover[x]
             \/ remover'[x] = r /\ step'[r] = "drop"
  BY <1>0, <1>3, PurgeTables DEF PurgeTags, RequestsTyped
<1>4. ASSUME NEW r \in Requests, DropCategory(r)
      PROVE  Gone(x) /\ remover'[x] = remover[x]
  BY <1>4, DropTables
<1>5. CASE TeaDeleted
  BY <1>5 DEF TeaDeleted, Gone
<1> QED
  BY <1>1, <1>2, <1>3, <1>4, <1>5
  DEF CatalogNext, RequestStep, ListTags, Fail, Enqueue, Receive, Announce, Drop, catalogVars

LEMMA RemoverStep == CatInv /\ [CatalogNext]_catalogVars => RemoverInv'
<1> SUFFICES ASSUME CatInv, [CatalogNext]_catalogVars, NEW x \in TagIds, Gone(x)'
             PROVE  remover'[x] \in Requests /\ step'[remover'[x]] \notin {"new", "purge"}
  BY DEF RemoverInv
<1>1. CASE Gone(x) /\ remover'[x] = remover[x]
  <2>1. remover[x] \in Requests /\ step[remover[x]] \notin {"new", "purge"}
    BY <1>1 DEF CatInv, RemoverInv
  <2> QED
    BY <1>1, <2>1, StepProgress DEF Progress
<1> QED
  BY <1>1, GoneStep

\* Nothing but a race or a failure keeps a removal from being announced.
LEMMA RemovalStep == CatInv /\ [CatalogNext]_catalogVars => RemovalAnnouncedUnlessRaced'
<1> SUFFICES ASSUME CatInv, [CatalogNext]_catalogVars, NEW x \in TagIds, Gone(x)'
             PROVE  \/ OnItsWay(TagDeleted(remover[x], x))'
                    \/ step'[remover'[x]] \in {"drop", "failed"}
                    \/ target'[remover'[x]] # None /\ x \notin listed'[remover'[x]]
  BY DEF RemovalAnnouncedUnlessRaced
<1>0. RequestsTyped /\ RequestsInv /\ TablesTyped
  BY CatalogTypes DEF CatInv
<1>1. CASE Gone(x) /\ remover'[x] = remover[x]
  <2>1. PICK r \in Requests : r = remover[x] /\ step[r] \notin {"new", "purge"}
    BY <1>1 DEF CatInv, RemoverInv
  <2>2. \/ OnItsWay(TagDeleted(r, x))
        \/ step[r] \in {"drop", "failed"}
        \/ target[r] # None /\ x \notin listed[r]
    BY <1>1, <2>1 DEF CatInv, RemovalAnnouncedUnlessRaced
  <2>3. target'[r] = target[r] /\ listed'[r] = listed[r]
    BY <2>1, StepProgress DEF Progress
  <2>4. CASE OnItsWay(TagDeleted(r, x))
    <3>1. PICK e \in Events : e = TagDeleted(r, x)
      BY EventFacts, EventParts
    <3>2. OnItsWay(e)' \/ (Drop /\ e = held)
      BY <2>4, <3>1, WayKept
    <3>3. e.ch = "delete"
      BY <3>1, EventParts
    <3>4. ~(Drop /\ e = held)
      BY <3>3 DEF Drop, ReadBack, ReadingChannels
    <3>5. TagDeleted(remover'[x], x) = e
      BY <1>1, <2>1, <3>1
    <3>6. OnItsWay(e)' <=> OnItsWay(TagDeleted(remover[x], x))'
      BY <3>5, Zenon
    <3> QED
      BY <3>2, <3>4, <3>6
  <2>5. CASE step[r] \in {"drop", "failed"}
    <3>1. CASE step'[r] \in {"drop", "failed"}
      BY <1>1, <2>1, <3>1
    <3>2. CASE DropCategory(r)
      <4>1. /\ step'[r] = "announce" /\ target[r] # None
            /\ pending'[r] = {TagDeleted(r, y) : y \in listed[r]}
        BY <1>0, <3>2, TagCatalogAssumption DEF DropCategory, RequestsTyped, RequestsInv
      <4>2. CASE x \in listed[r]
        <5>1. remover'[x] = r /\ TagDeleted(r, x) \in pending'[r]
          BY <1>1, <2>1, <4>1, <4>2
        <5> QED
          BY <4>1, <5>1 DEF OnItsWay
      <4> QED
        BY <1>1, <2>1, <2>3, <4>1, <4>2
    <3>3. ASSUME NEW q \in Requests, NEW e \in Events, Committed(q, e)
          PROVE  step'[r] \in {"drop", "failed"}
      BY <1>0, <2>5, <3>3 DEF Committed, RequestsTyped
    <3>4. ASSUME NEW q \in Requests,
                 \/ ListTags(q) \/ PurgeTags(q) \/ Fail(q) \/ Enqueue(q)
                 \/ q # r /\ DropCategory(q)
          PROVE  step'[r] \in {"drop", "failed"}
      BY <1>0, <2>5, <3>4 DEF ListTags, PurgeTags, Fail, Enqueue, DropCategory, RequestsTyped
    <3>5. CASE TeaDeleted \/ (\E t \in Channels : Receive(t)) \/ Announce \/ Drop
                 \/ UNCHANGED catalogVars
      BY <2>5, <3>1, <3>5 DEF TeaDeleted, Receive, Announce, Drop, catalogVars, requests
    <3> QED
      BY <3>1, <3>2, <3>3, <3>4, <3>5, OneStatement DEF CatalogNext, RequestStep
  <2>6. CASE target[r] # None /\ x \notin listed[r]
    BY <1>1, <2>1, <2>3, <2>6
  <2> QED
    BY <2>2, <2>4, <2>5, <2>6
<1>2. CASE /\ remover'[x] \in Requests
           /\ step'[remover'[x]] = "announce"
           /\ final'[remover'[x]] = TagDeleted(remover'[x], x)
  BY <1>2 DEF OnItsWay
<1> QED
  BY <1>1, <1>2, GoneStep

\* What was not there to be read back does not come back.
LEMMA NotReadBack ==
    ASSUME CatInv, Progress, NEW e \in Events, ~ReadBack(e),
           e.ch \in {"create", "update"} => cats[e.cat] # "unborn"
    PROVE  ~ReadBack(e)'
<1>1. CASE e.ch \in {"create", "update"}
  <2>1. e.cat \in CatIds /\ cats[e.cat] # "stored" /\ cats[e.cat] # "unborn"
    BY <1>1, EventFacts, EventParts DEF ReadBack
  <2>2. cats[e.cat] = "deleted"
    BY <2>1 DEF CatInv, CatalogTypeOK
  <2>3. cats'[e.cat] # "stored"
    BY <2>1, <2>2 DEF Progress
  <2> QED
    BY <1>1, <2>3 DEF ReadBack
<1>2. CASE e.ch \in {"addTagToTea", "deleteTagFromTea"}
  BY <1>2 DEF ReadBack, Progress
<1> QED
  BY <1>1, <1>2 DEF ReadBack

LEMMA DroppedStep == CatInv /\ [CatalogNext]_catalogVars => DroppedOnlyIfGone'
<1> SUFFICES ASSUME CatInv, [CatalogNext]_catalogVars, NEW r \in Requests, step'[r] = "done"
             PROVE  \/ OnItsWay(final[r])'
                    \/ final'[r] \in unread'
                    \/ final'[r] \in dropped' /\ ~ReadBack(final[r])'
  BY DEF DroppedOnlyIfGone
<1>0. RequestsTyped /\ RequestsInv /\ ChannelsTyped /\ Progress
  BY CatalogTypes, StepProgress DEF CatInv
<1>1. CASE step[r] = "done"
  <2>1. PICK e \in Events : e = final[r]
    BY <1>0, <1>1 DEF RequestsInv
  <2>2. final'[r] = e
    BY <1>0, <1>1, <2>1 DEF Progress
  <2>3. e.ch \in {"create", "update"} => cats[e.cat] # "unborn"
    BY <1>0, <1>1, <2>1 DEF RequestsInv
  <2>4. \/ OnItsWay(e)
        \/ e \in unread
        \/ e \in dropped /\ ~ReadBack(e)
    BY <1>1, <2>1 DEF CatInv, DroppedOnlyIfGone
  <2>5. CASE e \in dropped /\ ~ReadBack(e)
    <3>1. e \in dropped'
      BY <1>0, <2>5 DEF Progress
    <3>2. ~ReadBack(e)'
      BY <1>0, <2>3, <2>5, NotReadBack
    <3>3. ReadBack(e)' <=> ReadBack(final[r])'
      BY <2>2, Zenon
    <3> QED
      BY <2>2, <3>1, <3>2, <3>3
  <2>6. CASE OnItsWay(e)
    <3>1. CASE OnItsWay(e)'
      <4>1. OnItsWay(e)' <=> OnItsWay(final[r])'
        BY <2>2, Zenon
      <4> QED
        BY <3>1, <4>1
    <3>2. CASE Drop /\ e = held
      <4>1. e \in unread' \/ (e \in dropped' /\ ~ReadBack(e))
        BY <3>2 DEF Drop
      <4>2. ~ReadBack(e) => ~ReadBack(e)'
        BY <1>0, <2>3, NotReadBack
      <4>3. ReadBack(e)' <=> ReadBack(final[r])'
        BY <2>2, Zenon
      <4> QED
        BY <2>2, <4>1, <4>2, <4>3
    <3> QED
      BY <2>6, <3>1, <3>2, WayKept
  <2>7. CASE e \in unread
    BY <1>0, <2>2, <2>7 DEF Progress
  <2> QED
    BY <2>4, <2>5, <2>6, <2>7
<1>2. CASE step[r] # "done"
  <2>1. Enqueue(r) /\ Send(final[r]) /\ step[r] = "announce"
    <3>1. ASSUME NEW q \in Requests, NEW e \in Events, Committed(q, e) PROVE FALSE
      BY <1>0, <1>2, <3>1 DEF Committed, RequestsTyped
    <3>2. ASSUME NEW q \in Requests,
                 \/ ListTags(q) \/ PurgeTags(q) \/ DropCategory(q) \/ Fail(q)
                 \/ q # r /\ Enqueue(q)
          PROVE  FALSE
      BY <1>0, <1>2, <3>2 DEF ListTags, PurgeTags, DropCategory, Fail, Enqueue, RequestsTyped
    <3>3. CASE TeaDeleted \/ (\E t \in Channels : Receive(t)) \/ Announce \/ Drop
                 \/ UNCHANGED catalogVars
      BY <1>2, <3>3 DEF TeaDeleted, Receive, Announce, Drop, catalogVars, requests
    <3>4. Enqueue(r)
      BY <3>1, <3>2, <3>3, OneStatement DEF CatalogNext, RequestStep
    <3> QED
      BY <1>2, <3>4 DEF Enqueue
  <2>2. PICK e \in Events : e = final[r]
    BY <1>0, <2>1 DEF RequestsInv
  <2>3. final'[r] = e
    BY <2>1, <2>2 DEF Enqueue
  <2>4. InFlight(e)'
    BY <1>0, <2>1, <2>2, SendFacts DEF InFlight
  <2>5. OnItsWay(e)'
    BY <2>4 DEF OnItsWay
  <2>6. OnItsWay(e)' <=> OnItsWay(final[r])'
    BY <2>3, Zenon
  <2> QED
    BY <2>5, <2>6
<1> QED
  BY <1>1, <1>2

\* CatInv is inductive.
LEMMA CatInvStep == CatInv /\ [CatalogNext]_catalogVars => CatInv'
<1> SUFFICES ASSUME CatInv, [CatalogNext]_catalogVars PROVE CatInv'
  OBVIOUS
<1>1. TablesTyped' /\ RowsInv' /\ RequestsTyped' /\ ChannelsTyped'
  BY RowsStep, RequestsTypeStep, ChannelsStep
<1>2. CatalogTypeOK'
  BY <1>1 DEF CatalogTypeOK, TablesTyped, RequestsTyped, ChannelsTyped
<1> QED
  BY <1>1, <1>2, RequestsInvStep, RemoverStep, RemovalStep, DroppedStep DEF CatInv

\* Every reachable state of the catalog satisfies the invariant.
THEOREM CatalogInvariant == CatalogSpec => []CatInv
  BY CatInvInit, CatInvStep, PTL DEF CatalogSpec

\* The tables, the requests and the channels are always well typed: rows of
\* tea_tags have a tea and a tag, and no channel exceeds its capacity.
THEOREM CatalogTypeCorrect == CatalogSpec => []CatalogTypeOK
<1>1. CatInv => CatalogTypeOK
  BY DEF CatInv
<1> QED
  BY <1>1, CatalogInvariant, PTL

\* However many mutations race, a tag whose row is gone is announced as
\* deleted, unless the DeleteCategory that removed it is still running or
\* failed, or never listed it.
THEOREM RemovalAnnounced == CatalogSpec => []RemovalAnnouncedUnlessRaced
<1>1. CatInv => RemovalAnnouncedUnlessRaced
  BY DEF CatInv
<1> QED
  BY <1>1, CatalogInvariant, PTL

\* The event of a mutation that returned is lost only by the loop's failed read
\* back: the read itself failed, or its category or tea is gone for good.
THEOREM DroppedForCause == CatalogSpec => []DroppedOnlyIfGone
<1>1. CatInv => DroppedOnlyIfGone
  BY DEF CatInv
<1> QED
  BY <1>1, CatalogInvariant, PTL

-----------------------------------------------------------------------------
(***************************************************************************)
(* The manager: catalog and registries together.                           *)
(***************************************************************************)

\* Seen from the tables, the manager is a catalog: the registries delay the
\* loop but add nothing.
THEOREM ManagerImplementsCatalog == TagSpec => CatalogSpec
<1>1. TagInit => CatalogInit
  BY DEF TagInit
<1>2. [TagNext]_tagVars => [CatalogNext]_catalogVars
  BY TagManagerAssumption
  DEF TagNext, tagVars, MutationStep, LoopReceive, LoopAnnounce, LoopDrop, LoopClean, LoopStep,
      Subscribe, ClientStep, CatalogNext
<1> QED
  BY <1>1, <1>2, PTL DEF TagSpec, CatalogSpec

\* The loop and the resolvers name registries, and so does cleanAll.
LEMMA Routes ==
    /\ \A ch \in Channels : SendsTo(ch) \in Topics
    /\ \A f \in Fields : SubscribeOn(f) \in Topics
    /\ CleanAllOrder \in Seq(Topics)
  BY TagManagerAssumption
  DEF Channels, Fields, Registries, SendsTo, SubscribeOn, handleTeaTagChange, CleanAllOrder

\* The select case of the channel an event is sent on and the registry of a
\* subscription meet exactly where the subscription asked for the event's change.
LEMMA RoutesMeet ==
    ASSUME NEW e \in Events, NEW f \in Fields
    PROVE  SendsTo(e.ch) = SubscribeOn(f) <=> e.what = ToldBy(f)
  BY KindTable DEF Fields, SendsTo, SubscribeOn, ToldBy, handleTeaTagChange

\* What is left to clean is a list of registries, and a subscription is in the
\* registry of the field it asked for.
LoopTyped ==
    /\ cleaning \in Seq(Topics)
    /\ wanted \in [Clients -> Fields \union {NoTopic}]
    /\ topicOf \in [Clients -> Topics \union {NoTopic}]
    /\ \A c \in Clients : topicOf[c] # NoTopic =>
         wanted[c] \in Fields /\ topicOf[c] = SubscribeOn(wanted[c])

LEMMA LoopTypedInit == TagInit => LoopTyped
  BY DEF TagInit, SubInit, LoopTyped

LEMMA LoopTypedStep == LoopTyped /\ [TagNext]_tagVars => LoopTyped'
<1> SUFFICES ASSUME LoopTyped, [TagNext]_tagVars PROVE LoopTyped'
  OBVIOUS
<1>1. ASSUME NEW c \in Clients, NEW f \in Fields, Subscribe(c, f) PROVE LoopTyped'
  BY <1>1, Routes DEF Subscribe, Push, LoopTyped
<1>2. CASE ~ \E c \in Clients, f \in Fields : Subscribe(c, f)
  <2>1. UNCHANGED <<wanted, topicOf>>
    BY <1>2
    DEF TagNext, tagVars, MutationStep, LoopReceive, LoopAnnounce, LoopDrop, LoopClean, LoopStep,
        ClientStep, ReaderMoves, subVars, SendAll, CleanDone, clientVars, DispatcherStep,
        SendNext, SendReturn, ScanNext, ScanEnd, SwapNext, Truncate, Cancel, AwaitNext, StopReading
  <2>2. cleaning' \in Seq(Topics)
    BY <1>2, Routes
    DEF LoopTyped, TagNext, tagVars, MutationStep, LoopReceive, LoopAnnounce, LoopDrop,
        LoopClean, LoopStep, ClientStep
  <2> QED
    BY <2>1, <2>2 DEF LoopTyped
<1> QED
  BY <1>1, <1>2

\* What the loop announces is an event, and goes to a registry.
LEMMA HeldIsEvent ==
    ASSUME CatInv, held # NoEvent
    PROVE  held \in Events /\ held \in Messages /\ SendsTo(held.ch) \in Topics
  BY EventParts, Routes, TagManagerAssumption DEF CatInv, CatalogTypeOK

\* Seen from the registries, the tag manager's loop is one of the dispatchers
\* of SubSpec.
THEOREM TagManagerImplementsSubscribers == TagSpec => SubSpec
<1>1. TagInit => SubInit
  BY DEF TagInit
<1>2. CatInv /\ LoopTyped /\ [TagNext]_tagVars => [SubNext]_subVars
  <2> SUFFICES ASSUME CatInv, LoopTyped, [TagNext]_tagVars
               PROVE  [SubNext]_subVars
    OBVIOUS
  <2>1. CASE MutationStep \/ LoopReceive \/ LoopDrop \/ UNCHANGED tagVars
    BY <2>1 DEF MutationStep, LoopReceive, LoopDrop, tagVars
  <2>2. CASE LoopAnnounce
    BY <2>2, HeldIsEvent DEF LoopAnnounce, Announce, SubNext, DispatcherCall
  <2>3. CASE LoopClean
    <3>1. Head(cleaning) \in Topics
      BY <2>3 DEF LoopClean, LoopTyped
    <3> QED
      BY <2>3, <3>1 DEF LoopClean, SubNext, DispatcherCall
  <2>4. CASE LoopStep \/ ClientStep
    BY <2>4 DEF LoopStep, ClientStep, ReaderMoves, SubNext, ClientNext
  <2>5. ASSUME NEW c \in Clients, NEW f \in Fields, Subscribe(c, f) PROVE SubNext
    BY <2>5, Routes DEF Subscribe, SubNext, ClientNext
  <2> QED
    BY <2>1, <2>2, <2>3, <2>4, <2>5 DEF TagNext
<1> QED
  BY <1>1, <1>2, LoopTypedInit, LoopTypedStep, ManagerImplementsCatalog, CatalogInvariant, PTL
  DEF TagSpec, SubSpec

\* The whole manager is well typed.
THEOREM TagTypeCorrect == TagSpec => []TagTypeOK
<1>1. TagSpec => []LoopTyped
  BY LoopTypedInit, LoopTypedStep, PTL DEF TagSpec
<1>2. CatalogTypeOK /\ SubTypeOK /\ LoopTyped => TagTypeOK
  BY DEF TagTypeOK, LoopTyped
<1> QED
  BY <1>1, <1>2, ManagerImplementsCatalog, CatalogTypeCorrect,
     TagManagerImplementsSubscribers, SubTypeCorrect, PTL

\* The tag manager's loop never panics, its registries stay intact, and every
\* subscriber whose channel is open has what was announced since it joined.
THEOREM TagManagerRegistries == TagSpec => [](NoPanic /\ RegistryIntact /\ DeliveredInOrder)
  BY TagManagerImplementsSubscribers, SubNoPanic, SubRegistryIntact, SubDelivered, PTL

\* With its mutations, read backs and dropped events, the tag manager
\* implements the abstract broadcast.
THEOREM TagManagerBroadcasts == TagSpec => ImplementsBroadcast
  BY TagManagerImplementsSubscribers, SubImplementsBroadcast, PTL

\* Each registry is handed exactly the announced events of the channels whose
\* select case names it.
Routed ==
    \A t \in Topics :
        {sent[t][i] : i \in DOMAIN sent[t]} = {e \in announced : SendsTo(e.ch) = t}

\* The elements of a sequence that grew by one.
LEMMA AppendElements ==
    ASSUME NEW S, NEW s \in Seq(S), NEW m \in S
    PROVE  {Append(s, m)[i] : i \in DOMAIN Append(s, m)} = {s[i] : i \in DOMAIN s} \union {m}
<1> DEFINE s2 == Append(s, m)
<1>1. /\ DOMAIN s = 1 .. Len(s) /\ DOMAIN s2 = 1 .. Len(s) + 1 /\ Len(s) \in Nat
      /\ \A i \in 1 .. Len(s) : s2[i] = s[i]
      /\ s2[Len(s) + 1] = m
  OBVIOUS
<1> HIDE DEF s2
<1>2. ASSUME NEW i \in DOMAIN s2 PROVE s2[i] \in {s[j] : j \in DOMAIN s} \union {m}
  <2>1. i \in DOMAIN s \/ i = Len(s) + 1
    BY <1>1
  <2> QED
    BY <1>1, <2>1
<1>3. ASSUME NEW j \in DOMAIN s PROVE \E i \in DOMAIN s2 : s2[i] = s[j]
  BY <1>1
<1>4. \E i \in DOMAIN s2 : s2[i] = m
  BY <1>1
<1>5. {s2[i] : i \in DOMAIN s2} = {s[i] : i \in DOMAIN s} \union {m}
  BY <1>2, <1>3, <1>4
<1> QED
  BY <1>5 DEF s2

LEMMA RoutedStep ==
    CatInv /\ SubTypeOK /\ Routed /\ [TagNext]_tagVars => Routed'
<1> SUFFICES ASSUME CatInv, SubTypeOK, Routed, [TagNext]_tagVars
             PROVE  Routed'
  OBVIOUS
<1>1. CASE UNCHANGED <<sent, announced>>
  BY <1>1 DEF Routed
<1>2. CASE LoopAnnounce
  <2>1. /\ held \in Messages /\ SendsTo(held.ch) \in Topics
        /\ announced' = announced \union {held}
        /\ sent' = [sent EXCEPT ![SendsTo(held.ch)] = Append(@, held)]
    BY <1>2, HeldIsEvent DEF LoopAnnounce, Announce, SendAll
  <2> SUFFICES ASSUME NEW t \in Topics
               PROVE  {sent'[t][i] : i \in DOMAIN sent'[t]} = {e \in announced' : SendsTo(e.ch) = t}
    BY DEF Routed
  <2>2. {sent[t][i] : i \in DOMAIN sent[t]} = {e \in announced : SendsTo(e.ch) = t}
    BY DEF Routed
  <2>3. CASE t # SendsTo(held.ch)
    <3>1. sent'[t] = sent[t]
      BY <2>1, <2>3 DEF SubTypeOK
    <3> QED
      BY <2>1, <2>2, <2>3, <3>1
  <2>4. CASE t = SendsTo(held.ch)
    <3>1. sent'[t] = Append(sent[t], held) /\ sent[t] \in Seq(Messages)
      BY <2>1, <2>4 DEF SubTypeOK
    <3>2. {sent'[t][i] : i \in DOMAIN sent'[t]} = {sent[t][i] : i \in DOMAIN sent[t]} \union {held}
      BY <2>1, <3>1, AppendElements
    <3> QED
      BY <2>1, <2>2, <2>4, <3>2
  <2> QED
    BY <2>3, <2>4
<1>3. MutationStep => UNCHANGED <<sent, announced>>
  <2> SUFFICES ASSUME MutationStep PROVE UNCHANGED <<sent, announced>>
    OBVIOUS
  <2>1. sent' = sent
    BY DEF MutationStep, subVars
  <2>2. ASSUME NEW r \in Requests, NEW e \in Events, Committed(r, e)
        PROVE  announced' = announced
    BY <2>2 DEF Committed, outcome
  <2>3. announced' = announced
    BY <2>2, OneStatement
    DEF MutationStep, RequestStep, TeaDeleted, ListTags, PurgeTags, DropCategory, Fail,
        Enqueue, outcome
  <2> QED
    BY <2>1, <2>3
<1>4. LoopReceive \/ LoopDrop \/ UNCHANGED tagVars => UNCHANGED <<sent, announced>>
  BY DEF LoopReceive, Receive, LoopDrop, Drop, tagVars, catalogVars, subVars, outcome
<1>5. LoopClean \/ LoopStep \/ ClientStep => UNCHANGED <<sent, announced>>
  BY DEF LoopClean, CleanDone, LoopStep, ClientStep, ReaderMoves, catalogVars, outcome, DispatcherStep,
         SendNext, SendReturn, ScanNext, ScanEnd, SwapNext, Truncate,
         Cancel, AwaitNext, StopReading
<1>6. ASSUME NEW c \in Clients, NEW f \in Fields, Subscribe(c, f)
      PROVE  UNCHANGED <<sent, announced>>
  BY <1>6 DEF Subscribe, Push, catalogVars, outcome
<1> QED
  BY <1>1, <1>2, <1>3, <1>4, <1>5, <1>6 DEF TagNext

\* From the mutation to the subscriber: whichever mutations race, a subscription
\* is told only of changes of the kind it asked for, and its registry of every
\* announced one.
THEOREM SubscribersToldWhatTheyAsked == TagSpec => []ToldWhatWasAsked
<1>1. TagInit => Routed
  BY DEF TagInit, CatalogInit, SubInit, Routed
<1>2. TagSpec => [](CatInv /\ SubTypeOK /\ DeliveredInOrder /\ LoopTyped)
  BY ManagerImplementsCatalog, CatalogInvariant, TagManagerImplementsSubscribers,
     SubTypeCorrect, SubDelivered, LoopTypedInit, LoopTypedStep, PTL DEF TagSpec
<1>3. CatInv /\ SubTypeOK /\ DeliveredInOrder /\ LoopTyped /\ Routed => ToldWhatWasAsked
  <2> SUFFICES ASSUME CatInv, SubTypeOK, DeliveredInOrder, LoopTyped, Routed,
                      NEW c \in Clients, topicOf[c] # NoTopic
               PROVE  /\ \A i \in DOMAIN rcvd[c] : rcvd[c][i].what = ToldBy(wanted[c])
                      /\ {sent[topicOf[c]][i] : i \in DOMAIN sent[topicOf[c]]} =
                           {e \in announced : e.what = ToldBy(wanted[c])}
    BY DEF ToldWhatWasAsked
  <2> DEFINE t == topicOf[c]
             asked == {e \in announced : e.what = ToldBy(wanted[c])}
  <2>1. t \in Topics /\ wanted[c] \in Fields /\ t = SubscribeOn(wanted[c])
    BY DEF LoopTyped
  <2>2. announced \subseteq Events
    BY DEF CatInv, CatalogTypeOK
  <2>3. {e \in announced : SendsTo(e.ch) = t} = asked
    BY <2>1, <2>2, RoutesMeet
  <2>4. {sent[t][i] : i \in DOMAIN sent[t]} = asked
    BY <2>1, <2>3 DEF Routed
  <2>5. ASSUME NEW i \in DOMAIN rcvd[c] PROVE rcvd[c][i] \in asked
    <3>1. /\ rcvd[c] \in Seq(Messages) /\ sent[t] \in Seq(Messages) /\ base[c] \in Nat
      BY <2>1 DEF SubTypeOK
    <3>2. /\ Len(rcvd[c]) <= Len(sent[t]) - base[c]
          /\ \A j \in 1 .. Len(rcvd[c]) : rcvd[c][j] = sent[t][base[c] + j]
      BY DEF DeliveredInOrder, SinceJoined
    <3>3. i \in 1 .. Len(rcvd[c]) /\ base[c] + i \in DOMAIN sent[t]
      BY <3>1, <3>2
    <3> QED
      BY <2>4, <3>2, <3>3
  <2> QED
    BY <2>4, <2>5
<1> QED
  BY <1>1, <1>2, <1>3, RoutedStep, PTL DEF TagSpec

=============================================================================
