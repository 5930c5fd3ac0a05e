---------------------------- MODULE Collections ----------------------------
(***************************************************************************)
(* The users' collections of QR records (internal/managers/collection and  *)
(* internal/managers/qr over pkg/pg, and the tables collections,           *)
(* collection_qr_items, qr_records and teas).                              *)
(*                                                                         *)
(* A request runs its SQL statements one by one with no transaction around *)
(* them: AddRecords and DeleteRecords look the collection up under its     *)
(* owner, write, and look it up again; WriteToQR writes the record and     *)
(* reads its tea back.  Meanwhile other requests delete the collection or  *)
(* the tea, and the foreign keys cascade.                                  *)
(***************************************************************************)
EXTENDS Naturals

CONSTANTS Users, CollectionIds, RecordIds, TeaIds,
          Expirations,     \* expiration dates of records
          Requests,
          StorageMayFail,  \* whether SQL statements may fail on their own
          None

ASSUME CollectionsAssumption ==
    /\ Expirations \subseteq Nat
    /\ StorageMayFail \in BOOLEAN
    /\ None \notin Users \union CollectionIds \union RecordIds \union TeaIds

Rows == [tea : TeaIds, exp : Expirations]  \* of qr_records
NoRow == [tea |-> None, exp |-> 0]

\* What a request is about; "none" before its first statement.
Orders ==
    [op : {"add", "delete"}, user : Users, of : CollectionIds]
      \union [op : {"write"}, user : {None}, of : TeaIds]
NoOrder == [op |-> "none", user |-> None, of |-> None]

VARIABLES
    owner,    \* owner[c]: the user_id of collection c's row; None when there is no row
    minted,   \* the collection identifiers generated so far
    teas,     \* the teas stored
    record,   \* record[x]: x's row in qr_records
    items,    \* the rows of collection_qr_items, as <<collection, record>>
    step,     \* step[r]: "new", "write", "reload", "done" or "failed"
    order,    \* order[r]: what r is about
    todo,     \* todo[r]: the records r has still to insert or delete
    broken    \* history: the requests that a failure of the storage ended

tables == <<owner, minted, teas, record, items>>
colVars == <<tables, step, order, todo, broken>>

\* The tables satisfy their foreign keys, and requests are in one of their steps.
CollectionsTypeOK ==
    /\ owner \in [CollectionIds -> Users \union {None}]
    /\ minted \subseteq CollectionIds
    /\ teas \subseteq TeaIds
    /\ record \in [RecordIds -> Rows \union {NoRow}]
    /\ items \subseteq CollectionIds \X RecordIds
    /\ \A c \in CollectionIds : owner[c] # None => c \in minted
    /\ \A x \in RecordIds : record[x] # NoRow => record[x].tea \in teas
    /\ \A p \in items : owner[p[1]] # None /\ record[p[2]] # NoRow
    /\ step \in [Requests -> {"new", "write", "reload", "done", "failed"}]
    /\ order \in [Requests -> Orders \union {NoOrder}]
    /\ todo \in [Requests -> SUBSET RecordIds]
    /\ broken \subseteq Requests

\* The tables hold what earlier requests left in them.
ColInit ==
    /\ owner \in [CollectionIds -> Users \union {None}]
    /\ minted = {c \in CollectionIds : owner[c] # None}
    /\ teas = TeaIds
    /\ record \in [RecordIds -> Rows \union {NoRow}]
    /\ items \in SUBSET {p \in minted \X RecordIds : record[p[2]] # NoRow}
    /\ step = [r \in Requests |-> "new"]
    /\ order = [r \in Requests |-> NoOrder]
    /\ todo = [r \in Requests |-> {}]
    /\ broken = {}

\* Request r goes from one step to another.
Goes(r, from, to) ==
    /\ step[r] = from
    /\ step' = [step EXCEPT ![r] = to]

-----------------------------------------------------------------------------
(***************************************************************************)
(* Collections.                                                            *)
(***************************************************************************)

CreateCollection(r) ==
    \E u \in Users, c \in CollectionIds \ minted :
        /\ Goes(r, "new", "done")
        /\ owner' = [owner EXCEPT ![c] = u]
        /\ minted' = minted \union {c}
        /\ UNCHANGED <<teas, record, items, order, todo, broken>>

\* DELETE ... WHERE id AND user_id succeeds whether or not it finds a row; the
\* items go by cascade.
DeleteCollection(r) ==
    \E u \in Users, c \in CollectionIds :
        LET Gone == {d \in {c} : owner[d] = u} IN
        /\ Goes(r, "new", "done")
        /\ owner' = [d \in CollectionIds |-> IF d \in Gone THEN None ELSE owner[d]]
        /\ items' = {p \in items : p[1] \notin Gone}
        /\ UNCHANGED <<minted, teas, record, order, todo, broken>>

\* Mutant: any user may change any collection.
LookUpAnyOwner(r) ==
    \E op \in {"add", "delete"}, u \in Users, c \in CollectionIds, X \in SUBSET RecordIds :
        /\ owner[c] # None /\ X # {}
        /\ Goes(r, "new", "write")
        /\ order' = [order EXCEPT ![r] = [op |-> op, user |-> u, of |-> c]]
        /\ todo' = [todo EXCEPT ![r] = X]
        /\ UNCHANGED <<tables, broken>>

\* The first statement of AddRecords and DeleteRecords: the collection is the
\* user's.  With no records there is nothing to write.
LookUp(r) ==
    \E op \in {"add", "delete"}, u \in Users, c \in CollectionIds, X \in SUBSET RecordIds :
        /\ owner[c] = u
        /\ Goes(r, "new", IF X = {} THEN "reload" ELSE "write")
        /\ order' = [order EXCEPT ![r] = [op |-> op, user |-> u, of |-> c]]
        /\ todo' = [todo EXCEPT ![r] = X]
        /\ UNCHANGED <<tables, broken>>

\* A request refused by its first statement: the collection is not the user's,
\* or the foreign key of a written record finds no tea.
Refuse(r) ==
    /\ (\E u \in Users, c \in CollectionIds : owner[c] # u) \/ teas # TeaIds
    /\ Goes(r, "new", "failed")
    /\ UNCHANGED <<tables, order, todo, broken>>

\* Mutant: the insert does not join qr_records, so that an unknown record makes
\* the foreign key fail.
AddTeaToCollectionUnjoined(r) ==
    LET c == order[r].of
        New == {c} \X todo[r]
    IN  /\ order[r].op = "add"
        /\ \/ /\ owner[c] # None /\ \A x \in todo[r] : record[x] # NoRow
              /\ Goes(r, "write", "reload")
              /\ items' = items \union New
           \/ /\ owner[c] = None \/ \E x \in todo[r] : record[x] = NoRow
              /\ Goes(r, "write", "failed")
              /\ UNCHANGED items
        /\ todo' = [todo EXCEPT ![r] = {}]
        /\ UNCHANGED <<owner, minted, teas, record, order, broken>>

\* One INSERT of the records that exist, ignoring those already there.  The
\* foreign key makes it fail when the collection is gone and there is a row to
\* insert.
AddTeaToCollection(r) ==
    LET c == order[r].of
        New == {c} \X {x \in todo[r] : record[x] # NoRow}
    IN  /\ order[r].op = "add"
        /\ \/ /\ owner[c] # None \/ New = {}
              /\ Goes(r, "write", "reload")
              /\ items' = items \union New
           \/ /\ owner[c] = None /\ New # {}
              /\ Goes(r, "write", "failed")
              /\ UNCHANGED items
        /\ todo' = [todo EXCEPT ![r] = {}]
        /\ UNCHANGED <<owner, minted, teas, record, order, broken>>

\* One DELETE per record, in the order the caller gave.
DeleteTeaFromCollection(r) ==
    \E x \in todo[r] :
        /\ order[r].op = "delete"
        /\ Goes(r, "write", IF todo[r] = {x} THEN "reload" ELSE "write")
        /\ items' = items \ {<<order[r].of, x>>}
        /\ todo' = [todo EXCEPT ![r] = @ \ {x}]
        /\ UNCHANGED <<owner, minted, teas, record, order, broken>>

\* The last statement of AddRecords and DeleteRecords.
Reload(r) ==
    /\ order[r].op \in {"add", "delete"}
    /\ Goes(r, "reload", IF owner[order[r].of] = order[r].user THEN "done" ELSE "failed")
    /\ UNCHANGED <<tables, order, todo, broken>>

-----------------------------------------------------------------------------
(***************************************************************************)
(* Records and teas.                                                       *)
(***************************************************************************)

\* WriteToQR inserts or replaces the record; its foreign key needs the tea.
WriteQR(r) ==
    \E x \in RecordIds, row \in Rows :
        /\ row.tea \in teas
        /\ record' = [record EXCEPT ![x] = row]
        /\ Goes(r, "new", "reload")
        /\ order' = [order EXCEPT ![r] = [op |-> "write", user |-> None, of |-> row.tea]]
        /\ UNCHANGED <<owner, minted, teas, items, todo, broken>>

\* It then reads the tea back.
ReadTea(r) ==
    /\ order[r].op = "write"
    /\ Goes(r, "reload", IF order[r].of \in teas THEN "done" ELSE "failed")
    /\ UNCHANGED <<tables, order, todo, broken>>

\* The records of a deleted tea, and their items, go by cascade.
DeleteTea(r) ==
    \E t \in TeaIds :
        /\ Goes(r, "new", "done")
        /\ teas' = teas \ {t}
        /\ record' = [x \in RecordIds |-> IF record[x].tea = t THEN NoRow ELSE record[x]]
        /\ items' = {p \in items : record[p[2]].tea # t}
        /\ UNCHANGED <<owner, minted, order, todo, broken>>

\* A statement of r fails on its own.
Break(r) ==
    /\ StorageMayFail
    /\ step[r] \in {"new", "write", "reload"}
    /\ step' = [step EXCEPT ![r] = "failed"]
    /\ broken' = broken \union {r}
    /\ UNCHANGED <<tables, order, todo>>

RequestNext(r) ==
    \/ CreateCollection(r) \/ DeleteCollection(r)
    \/ LookUp(r) \/ Refuse(r) \/ AddTeaToCollection(r) \/ DeleteTeaFromCollection(r) \/ Reload(r)
    \/ WriteQR(r) \/ ReadTea(r) \/ DeleteTea(r)
    \/ Break(r)

ColNext == \E r \in Requests : RequestNext(r)

ColSpec == ColInit /\ [][ColNext]_colVars

-----------------------------------------------------------------------------
(***************************************************************************)
(* What the managers must get right.                                       *)
(***************************************************************************)

\* Collection c keeps its owner and gains or loses an item whose record stays.
Changes(c) ==
    /\ owner'[c] = owner[c]
    /\ \E x \in RecordIds :
         /\ record[x] # NoRow /\ record'[x] # NoRow
         /\ (<<c, x>> \in items) # (<<c, x>> \in items')

\* A collection's items are changed by requests of its owner only, although the
\* owner is checked in a statement before the one that writes.
OwnerOnly ==
    [][\A c \in CollectionIds : Changes(c) =>
           \E r \in Requests :
               /\ step[r] = "write" /\ todo'[r] # todo[r]
               /\ order[r].of = c /\ order[r].user = owner[c]]_colVars

\* AddRecords or DeleteRecords that fails after the owner's check, though the
\* storage did not fail, has lost its collection: what it wrote before the error
\* is gone too.  A failed WriteToQR has lost its tea, and so the record it wrote.
FailedOnlyIfGone ==
    \A r \in Requests \ broken :
        /\ step[r] = "failed" /\ order[r].op \in {"add", "delete"} =>
               /\ owner[order[r].of] = None
               /\ \A p \in items : p[1] # order[r].of
        /\ step[r] = "failed" /\ order[r].op = "write" =>
               \A x \in RecordIds : record[x].tea # order[r].of

=============================================================================
