----------------------------- MODULE TagCatalog -----------------------------
(***************************************************************************)
(* Tags, tag categories and their announcements (internal/managers/tag     *)
(* over pkg/pg and the tables tag_categories, tags and tea_tags).          *)
(*                                                                         *)
(* A mutation is a request that runs its SQL statements one by one, with   *)
(* no transaction around them, and then sends its events on the manager's  *)
(* buffered channels.  The manager's loop receives one event at a time,    *)
(* reads back the category or the tea the event is about, and announces    *)
(* the event, or drops it when the read finds no row or fails.  To whom    *)
(* announcements go is the business of TagManager.                         *)
(***************************************************************************)
EXTENDS Integers, Sequences, FiniteSets

CONSTANTS CatIds, TagIds, TeaIds,  \* identifiers of categories, tags and teas
          Requests,                \* mutations
          ChanSize,                \* capacity of each channel (defaultChanSize)
          None                     \* absent identifier, category, event or request

ASSUME TagCatalogAssumption ==
    /\ ChanSize \in Nat \ {0}
    /\ None \notin CatIds \union TagIds \union TeaIds \union Requests

\* The manager's channels, by their fields.
Channels == {"create", "update", "delete",
             "createCategory", "updateCategory", "deleteCategory",
             "addTagToTea", "deleteTagFromTea"}

\* An event: the channel it is sent on, the tag, category or tea it is about
\* and, for a created or updated tag, the category of the row the statement
\* returned.  History: the request that sends it and the change it tells of.
Event(r, what, ch, id, cat) == [by |-> r, what |-> what, ch |-> ch, id |-> id, cat |-> cat]

\* What each change is announced with.
TagCreated(r, x, c) == Event(r, "tag created", "create", x, c)
TagChanged(r, x, c) == Event(r, "tag changed", "update", x, c)
TagDeleted(r, x) == Event(r, "tag deleted", "delete", x, None)
CategoryCreated(r, c) == Event(r, "category created", "createCategory", c, None)
CategoryChanged(r, c) == Event(r, "category changed", "updateCategory", c, None)
CategoryDeleted(r, c) == Event(r, "category deleted", "deleteCategory", c, None)
TagAdded(r, i) == Event(r, "tag added to tea", "addTagToTea", i, None)
TagRemoved(r, i) == Event(r, "tag removed from tea", "deleteTagFromTea", i, None)

Events ==
    UNION {
        {TagCreated(r, x, c) : x \in TagIds, c \in CatIds}
          \union {TagChanged(r, x, c) : x \in TagIds, c \in CatIds}
          \union {TagDeleted(r, x) : x \in TagIds}
          \union {CategoryCreated(r, c) : c \in CatIds}
          \union {CategoryChanged(r, c) : c \in CatIds}
          \union {CategoryDeleted(r, c) : c \in CatIds}
          \union {TagAdded(r, i) : i \in TeaIds}
          \union {TagRemoved(r, i) : i \in TeaIds} : r \in Requests}

NoEvent == TagDeleted(None, None)

VARIABLES
    cats,       \* cats[c]: "unborn", "stored" or "deleted"
    tagCat,     \* tagCat[x]: the category_id of x's row; None when there is no row
    teas,       \* the teas stored (the tea manager's table)
    teaTags,    \* the rows of tea_tags, as <<tea, tag>>
    minted,     \* the tag identifiers generated so far
    step,       \* step[r]: "new"; "purge", "drop": DeleteTagCategory has run one,
                \* two statements; "announce"; "done"; "failed"
    target,     \* target[r]: the category DeleteCategory r is about
    listed,     \* listed[r]: the tags its first statement returned
    pending,    \* pending[r]: the tag events r sends before its last one
    final,      \* final[r]: the last event r sends
    chan,       \* chan[ch]: what the buffered channel ch holds
    held,       \* the event the loop has received and not handled yet
    announced,  \* history: the events announced
    dropped,    \* history: the events dropped because the read back found no row
    unread,     \* history: the events dropped because the read back itself failed
    remover     \* history: remover[x]: the request whose statement removed x's row

tables == <<cats, tagCat, teas, teaTags, minted, remover>>
requests == <<step, target, listed, pending, final>>
outcome == <<announced, dropped, unread>>
catalogVars == <<tables, requests, chan, held, outcome>>

CatalogTypeOK ==
    /\ cats \in [CatIds -> {"unborn", "stored", "deleted"}]
    /\ tagCat \in [TagIds -> CatIds \union {None}]
    /\ teas \subseteq TeaIds
    /\ teaTags \subseteq teas \X minted
    /\ minted \subseteq TagIds
    /\ step \in [Requests -> {"new", "purge", "drop", "announce", "done", "failed"}]
    /\ target \in [Requests -> CatIds \union {None}]
    /\ listed \in [Requests -> SUBSET TagIds]
    /\ pending \in [Requests -> SUBSET Events]
    /\ final \in [Requests -> Events \union {NoEvent}]
    /\ chan \in [Channels -> Seq(Events)]
    /\ \A ch \in Channels : Len(chan[ch]) <= ChanSize
    /\ held \in Events \union {NoEvent}
    /\ announced \subseteq Events
    /\ dropped \subseteq Events
    /\ unread \subseteq Events
    /\ remover \in [TagIds -> Requests \union {None}]

\* The tables hold what earlier runs of the server left in them.
CatalogInit ==
    /\ cats \in [CatIds -> {"unborn", "stored"}]
    /\ tagCat \in [TagIds -> {c \in CatIds : cats[c] = "stored"} \union {None}]
    /\ teas = TeaIds
    /\ teaTags = {}
    /\ minted = {x \in TagIds : tagCat[x] # None}
    /\ step = [r \in Requests |-> "new"]
    /\ target = [r \in Requests |-> None]
    /\ listed = [r \in Requests |-> {}]
    /\ pending = [r \in Requests |-> {}]
    /\ final = [r \in Requests |-> NoEvent]
    /\ chan = [ch \in Channels |-> << >>]
    /\ held = NoEvent
    /\ announced = {}
    /\ dropped = {}
    /\ unread = {}
    /\ remover = [x \in TagIds |-> None]

-----------------------------------------------------------------------------
(***************************************************************************)
(* Mutations of one statement.                                             *)
(***************************************************************************)

\* r's only statement succeeded; e is what it will send.
Committed(r, e) ==
    /\ step[r] = "new"
    /\ step' = [step EXCEPT ![r] = "announce"]
    /\ final' = [final EXCEPT ![r] = e]
    /\ UNCHANGED <<target, listed, pending, chan, held, outcome>>

CreateCategory(r) ==
    \E c \in CatIds :
        /\ cats[c] = "unborn"
        /\ cats' = [cats EXCEPT ![c] = "stored"]
        /\ Committed(r, CategoryCreated(r, c))
        /\ UNCHANGED <<tagCat, teas, teaTags, minted, remover>>

\* UPDATE ... RETURNING fails when there is no row.
UpdateCategory(r) ==
    \E c \in CatIds :
        /\ cats[c] = "stored"
        /\ Committed(r, CategoryChanged(r, c))
        /\ UNCHANGED tables

\* The foreign key makes the insert fail when the category has no row.
CreateTag(r) ==
    \E x \in TagIds \ minted, c \in CatIds :
        /\ cats[c] = "stored"
        /\ tagCat' = [tagCat EXCEPT ![x] = c]
        /\ minted' = minted \union {x}
        /\ Committed(r, TagCreated(r, x, c))
        /\ UNCHANGED <<cats, teas, teaTags, remover>>

UpdateTag(r) ==
    \E x \in TagIds :
        /\ tagCat[x] # None
        /\ Committed(r, TagChanged(r, x, tagCat[x]))
        /\ UNCHANGED tables

ChangeCategory(r) ==
    \E x \in TagIds, c \in CatIds :
        /\ tagCat[x] # None
        /\ cats[c] = "stored"
        /\ tagCat' = [tagCat EXCEPT ![x] = c]
        /\ Committed(r, TagChanged(r, x, c))
        /\ UNCHANGED <<cats, teas, teaTags, minted, remover>>

\* Remove the rows of the tags in X, and by cascade their rows in tea_tags.
RemoveTags(r, X) ==
    /\ tagCat' = [x \in TagIds |-> IF x \in X THEN None ELSE tagCat[x]]
    /\ teaTags' = {p \in teaTags : p[2] \notin X}
    /\ remover' = [x \in TagIds |-> IF x \in X THEN r ELSE remover[x]]
    /\ UNCHANGED <<cats, teas, minted>>

\* DELETE succeeds, and is announced, whether or not there is a row.
DeleteTag(r) ==
    \E x \in minted :
        /\ RemoveTags(r, {x} \ {y \in TagIds : tagCat[y] = None})
        /\ Committed(r, TagDeleted(r, x))

\* INSERT ... ON CONFLICT DO NOTHING; the foreign keys need both rows.
AddTagToTea(r) ==
    \E i \in teas, x \in TagIds :
        /\ tagCat[x] # None
        /\ teaTags' = teaTags \union {<<i, x>>}
        /\ Committed(r, TagAdded(r, i))
        /\ UNCHANGED <<cats, tagCat, teas, minted, remover>>

DeleteTagFromTea(r) ==
    \E i \in TeaIds, x \in minted :
        /\ teaTags' = teaTags \ {<<i, x>>}
        /\ Committed(r, TagRemoved(r, i))
        /\ UNCHANGED <<cats, tagCat, teas, minted, remover>>

-----------------------------------------------------------------------------
(***************************************************************************)
(* DeleteCategory: three statements, each its own transaction.             *)
(***************************************************************************)

\* ListTagsByCategory
ListTags(r) ==
    \E c \in CatIds :
        /\ step[r] = "new"
        /\ cats[c] # "unborn"
        /\ step' = [step EXCEPT ![r] = "purge"]
        /\ target' = [target EXCEPT ![r] = c]
        /\ listed' = [listed EXCEPT ![r] = {x \in TagIds : tagCat[x] = c}]
        /\ UNCHANGED <<tables, pending, final, chan, held, outcome>>

\* DeleteTagsByCategory
PurgeTags(r) ==
    /\ step[r] = "purge"
    /\ RemoveTags(r, {x \in TagIds : tagCat[x] = target[r]})
    /\ step' = [step EXCEPT ![r] = "drop"]
    /\ UNCHANGED <<target, listed, pending, final, chan, held, outcome>>

\* Category c is empty: ON DELETE RESTRICT lets its row go.
Unreferenced(c) == \A x \in TagIds : tagCat[x] # c

\* Mutant: the removed tags are not announced.
DropCategorySilently(r) ==
    /\ step[r] = "drop"
    /\ Unreferenced(target[r])
    /\ cats' = [cats EXCEPT ![target[r]] = "deleted"]
    /\ step' = [step EXCEPT ![r] = "announce"]
    /\ final' = [final EXCEPT ![r] = CategoryDeleted(r, target[r])]
    /\ UNCHANGED <<tagCat, teas, teaTags, minted, remover, target, listed, pending, chan, held, outcome>>

\* DeleteTagCategory; the manager then has the listed tags to announce, and
\* the category last.
DropCategory(r) ==
    /\ step[r] = "drop"
    /\ Unreferenced(target[r])
    /\ cats' = [cats EXCEPT ![target[r]] = "deleted"]
    /\ step' = [step EXCEPT ![r] = "announce"]
    /\ pending' = [pending EXCEPT ![r] = {TagDeleted(r, x) : x \in listed[r]}]
    /\ final' = [final EXCEPT ![r] = CategoryDeleted(r, target[r])]
    /\ UNCHANGED <<tagCat, teas, teaTags, minted, remover, target, listed, chan, held, outcome>>

\* A statement fails: the last one of DeleteTagCategory on a tag that came in
\* meanwhile, any one when the database fails or refuses (a duplicate name, a
\* missing row).  The manager returns the error and announces nothing.
Fail(r) ==
    /\ step[r] \in {"new", "purge", "drop"}
    /\ step' = [step EXCEPT ![r] = "failed"]
    /\ UNCHANGED <<tables, target, listed, pending, final, chan, held, outcome>>

\* The tea manager deletes a tea; tea_tags follows by cascade.
TeaDeleted ==
    \E i \in teas :
        /\ teas' = teas \ {i}
        /\ teaTags' = {p \in teaTags : p[1] # i}
        /\ UNCHANGED <<cats, tagCat, minted, remover, requests, chan, held, outcome>>

-----------------------------------------------------------------------------
(***************************************************************************)
(* Channels and loop.                                                      *)
(***************************************************************************)

Send(e) ==
    /\ Len(chan[e.ch]) < ChanSize
    /\ chan' = [chan EXCEPT ![e.ch] = Append(@, e)]

\* One blocking send: a removed tag while there are any, then the last event.
Enqueue(r) ==
    /\ step[r] = "announce"
    /\ \/ \E e \in pending[r] :
            /\ Send(e)
            /\ pending' = [pending EXCEPT ![r] = @ \ {e}]
            /\ step' = step
       \/ /\ pending[r] = {}
          /\ Send(final[r])
          /\ step' = [step EXCEPT ![r] = "done"]
          /\ pending' = pending
    /\ UNCHANGED <<tables, target, listed, final, held, outcome>>

\* One case of the loop's select.
Receive(ch) ==
    /\ held = NoEvent
    /\ chan[ch] # << >>
    /\ held' = Head(chan[ch])
    /\ chan' = [chan EXCEPT ![ch] = Tail(@)]
    /\ UNCHANGED <<tables, requests, outcome>>

\* What handling e reads back is there: the category for a created or updated
\* tag, the tea for a tag added or removed; the other events read nothing.
ReadBack(e) ==
    CASE e.ch \in {"create", "update"} -> cats[e.cat] = "stored"
      [] e.ch \in {"addTagToTea", "deleteTagFromTea"} -> e.id \in teas
      [] OTHER -> TRUE

\* The channels whose events need a read back.
ReadingChannels == {"create", "update", "addTagToTea", "deleteTagFromTea"}

Announce ==
    /\ held # NoEvent
    /\ ReadBack(held)
    /\ announced' = announced \union {held}
    /\ held' = NoEvent
    /\ UNCHANGED <<tables, requests, chan, dropped, unread>>

\* Mutant: the loop retries the read for ever instead of dropping the event.
DropRetries ==
    /\ held # NoEvent
    /\ ~ReadBack(held)
    /\ UNCHANGED catalogVars

\* Mutant: the tag is read back instead of its category.
DropIfTagGone ==
    /\ held # NoEvent
    /\ held.ch \in {"create", "update"} /\ tagCat[held.id] = None
    /\ dropped' = dropped \union {held}
    /\ held' = NoEvent
    /\ UNCHANGED <<tables, requests, chan, announced, unread>>

\* The read back finds no row, or fails on its own: the error is logged and
\* the event dropped.
Drop ==
    /\ held # NoEvent
    /\ \/ /\ ~ReadBack(held)
          /\ dropped' = dropped \union {held}
          /\ UNCHANGED unread
       \/ /\ held.ch \in ReadingChannels
          /\ unread' = unread \union {held}
          /\ UNCHANGED dropped
    /\ held' = NoEvent
    /\ UNCHANGED <<tables, requests, chan, announced>>

-----------------------------------------------------------------------------

RequestStep(r) ==
    \/ CreateCategory(r) \/ UpdateCategory(r)
    \/ CreateTag(r) \/ UpdateTag(r) \/ ChangeCategory(r) \/ DeleteTag(r)
    \/ AddTagToTea(r) \/ DeleteTagFromTea(r)
    \/ ListTags(r) \/ PurgeTags(r) \/ DropCategory(r)
    \/ Fail(r)
    \/ Enqueue(r)

CatalogNext ==
    \/ \E r \in Requests : RequestStep(r)
    \/ TeaDeleted
    \/ \E ch \in Channels : Receive(ch)
    \/ Announce
    \/ Drop

CatalogSpec == CatalogInit /\ [][CatalogNext]_catalogVars

-----------------------------------------------------------------------------
(***************************************************************************)
(* What the announcements must get right.                                  *)
(***************************************************************************)

\* e is on a channel or in the loop's hands.
InFlight(e) == e = held \/ \E i \in DOMAIN chan[e.ch] : chan[e.ch][i] = e

\* e has been announced, is in flight, or a running request still has to send it.
OnItsWay(e) ==
    \/ e \in announced
    \/ InFlight(e)
    \/ \E r \in Requests : step[r] = "announce" /\ e \in pending[r] \union {final[r]}

\* x had a row and has none now.
Gone(x) == x \in minted /\ tagCat[x] = None

\* The request that removed a tag's row announces the deletion, unless it is a
\* DeleteCategory that is still running or failed half-way, or never listed
\* the tag because it came into the category after the listing.
RemovalAnnouncedUnlessRaced ==
    \A x \in TagIds : Gone(x) =>
        LET r == remover[x] IN
        \/ OnItsWay(TagDeleted(r, x))
        \/ step[r] \in {"drop", "failed"}
        \/ target[r] # None /\ x \notin listed[r]

\* The event of a mutation that returned is announced or in flight, or its read
\* back failed; it is dropped for a missing row only when the category or tea
\* it is about is deleted for good.
DroppedOnlyIfGone ==
    \A r \in Requests : step[r] = "done" =>
        \/ OnItsWay(final[r])
        \/ final[r] \in unread
        \/ final[r] \in dropped /\ ~ReadBack(final[r])

=============================================================================
