---------------------------- MODULE AlerterProofs ----------------------------
(***************************************************************************)
(* Proofs about the collections, for any users, collections, records, teas *)
(* and any number of racing requests, and about the expiration alerts that *)
(* read them while these requests run.                                     *)
(***************************************************************************)
EXTENDS Alerter, TLAPS

(***************************************************************************)
(* The collections.                                                        *)
(***************************************************************************)


\* What a request has found out stays true but for the deletion of what it is
\* about: identifiers are not used twice, so that nobody else comes to own its
\* collection.
OrderInv ==
    \A r \in Requests :
        /\ step[r] = "new" => order[r] = NoOrder
        /\ order[r].op \in {"add", "delete"} =>
               /\ order[r].of \in minted
               /\ owner[order[r].of] \in {order[r].user, None}

\* A request that failed on its own has lost its collection or its tea.
FailedInv ==
    \A r \in Requests \ broken : step[r] = "failed" =>
        /\ order[r].op \in {"add", "delete"} => owner[order[r].of] = None
        /\ order[r].op = "write" => order[r].of \notin teas

ColInv == CollectionsTypeOK /\ OrderInv /\ FailedInv

\* An order is of one of two shapes, or there is none yet.
LEMMA OrderShape ==
    ASSUME NEW o \in Orders \union {NoOrder}
    PROVE  /\ o.op \in {"add", "delete"} => o.of \in CollectionIds /\ o.user \in Users
           /\ o.op = "write" => o.of \in TeaIds
           /\ o.op \in {"none", "add", "delete", "write"}
           /\ o = NoOrder => o.op = "none"
  BY DEF Orders, NoOrder

\* A row is not the absence of one.
LEMMA RowShape ==
    /\ \A row \in Rows : row # NoRow /\ row.tea \in TeaIds /\ row.tea # None /\ row.exp \in Expirations
    /\ NoRow.tea = None
  BY CollectionsAssumption DEF Rows, NoRow

LEMMA ColInvInit == ColInit => ColInv
<1> SUFFICES ASSUME ColInit PROVE ColInv
  OBVIOUS
<1>1. CollectionsTypeOK
  <2>1. \A x \in RecordIds : record[x] # NoRow => record[x].tea \in teas
    BY RowShape DEF ColInit
  <2>2. \A p \in items : p \in CollectionIds \X RecordIds /\ owner[p[1]] # None /\ record[p[2]] # NoRow
    BY DEF ColInit
  <2> QED
    BY <2>1, <2>2 DEF ColInit, CollectionsTypeOK
<1>2. OrderInv /\ FailedInv
  BY DEF ColInit, OrderInv, FailedInv, NoOrder
<1> QED
  BY <1>1, <1>2 DEF ColInv

-----------------------------------------------------------------------------
(***************************************************************************)
(* The steps that change a table.                                          *)
(***************************************************************************)

LEMMA CreateInv ==
    ASSUME ColInv, NEW r \in Requests, CreateCollection(r) PROVE ColInv'
<1>1. PICK u \in Users, c \in CollectionIds \ minted :
        /\ step[r] = "new" /\ step' = [step EXCEPT ![r] = "done"]
        /\ owner' = [owner EXCEPT ![c] = u]
        /\ minted' = minted \union {c}
        /\ UNCHANGED <<teas, record, items, order, todo, broken>>
  BY DEF CreateCollection, Goes
<1>2. CollectionsTypeOK'
  BY <1>1, CollectionsAssumption DEF ColInv, CollectionsTypeOK
<1>3. OrderInv'
  BY <1>1, OrderShape DEF ColInv, CollectionsTypeOK, OrderInv
<1>4. FailedInv'
  BY <1>1, OrderShape DEF ColInv, CollectionsTypeOK, OrderInv, FailedInv
<1> QED
  BY <1>2, <1>3, <1>4 DEF ColInv

LEMMA DeleteCollectionInv ==
    ASSUME ColInv, NEW r \in Requests, DeleteCollection(r) PROVE ColInv'
<1>1. PICK u \in Users, c \in CollectionIds :
        /\ step[r] = "new" /\ step' = [step EXCEPT ![r] = "done"]
        /\ owner' = [d \in CollectionIds |-> IF d = c /\ owner[d] = u THEN None ELSE owner[d]]
        /\ items' = {p \in items : ~(p[1] = c /\ owner[c] = u)}
        /\ UNCHANGED <<minted, teas, record, order, todo, broken>>
  BY DEF DeleteCollection, Goes
<1>2. CollectionsTypeOK'
  BY <1>1 DEF ColInv, CollectionsTypeOK
<1>3. OrderInv'
  BY <1>1, OrderShape DEF ColInv, CollectionsTypeOK, OrderInv
<1>4. FailedInv'
  BY <1>1, OrderShape DEF ColInv, CollectionsTypeOK, FailedInv
<1> QED
  BY <1>2, <1>3, <1>4 DEF ColInv

LEMMA WriteQRInv ==
    ASSUME ColInv, NEW r \in Requests, WriteQR(r) PROVE ColInv'
<1>1. PICK x \in RecordIds, row \in Rows :
        /\ row.tea \in teas
        /\ record' = [record EXCEPT ![x] = row]
        /\ step[r] = "new" /\ step' = [step EXCEPT ![r] = "reload"]
        /\ order' = [order EXCEPT ![r] = [op |-> "write", user |-> None, of |-> row.tea]]
        /\ UNCHANGED <<owner, minted, teas, items, todo, broken>>
  BY DEF WriteQR, Goes
<1>2. [op |-> "write", user |-> None, of |-> row.tea] \in Orders
  BY RowShape DEF Orders
<1>3. CollectionsTypeOK'
  BY <1>1, <1>2, RowShape DEF ColInv, CollectionsTypeOK
<1>4. OrderInv'
  BY <1>1 DEF ColInv, CollectionsTypeOK, OrderInv
<1>5. FailedInv'
  BY <1>1 DEF ColInv, CollectionsTypeOK, FailedInv
<1> QED
  BY <1>3, <1>4, <1>5 DEF ColInv

LEMMA DeleteTeaInv ==
    ASSUME ColInv, NEW r \in Requests, DeleteTea(r) PROVE ColInv'
<1>1. PICK t \in TeaIds :
        /\ step[r] = "new" /\ step' = [step EXCEPT ![r] = "done"]
        /\ teas' = teas \ {t}
        /\ record' = [x \in RecordIds |-> IF record[x].tea = t THEN NoRow ELSE record[x]]
        /\ items' = {p \in items : record[p[2]].tea # t}
        /\ UNCHANGED <<owner, minted, order, todo, broken>>
  BY DEF DeleteTea, Goes
<1>2. CollectionsTypeOK'
  BY <1>1 DEF ColInv, CollectionsTypeOK
<1>3. OrderInv'
  BY <1>1 DEF ColInv, CollectionsTypeOK, OrderInv
<1>4. FailedInv'
  BY <1>1 DEF ColInv, CollectionsTypeOK, FailedInv
<1> QED
  BY <1>2, <1>3, <1>4 DEF ColInv

LEMMA AddInv ==
    ASSUME ColInv, NEW r \in Requests, AddTeaToCollection(r) PROVE ColInv'
<1> DEFINE c == order[r].of
           New == {c} \X {x \in todo[r] : record[x] # NoRow}
<1>1. /\ order[r].op = "add" /\ step[r] = "write"
      /\ \/ /\ owner[c] # None \/ New = {}
            /\ step' = [step EXCEPT ![r] = "reload"] /\ items' = items \union New
         \/ /\ owner[c] = None
            /\ step' = [step EXCEPT ![r] = "failed"] /\ items' = items
      /\ todo' = [todo EXCEPT ![r] = {}]
      /\ UNCHANGED <<owner, minted, teas, record, order, broken>>
  BY DEF AddTeaToCollection, Goes
<1>2. c \in CollectionIds
  BY <1>1, OrderShape DEF ColInv, CollectionsTypeOK
<1>3. \A p \in items' : p \in items \/ (p[1] = c /\ owner[c] # None /\ p[2] \in RecordIds /\ record[p[2]] # NoRow
                                         /\ p \in CollectionIds \X RecordIds)
  BY <1>1, <1>2 DEF ColInv, CollectionsTypeOK
<1>4. CollectionsTypeOK'
  <2>1. items' \subseteq CollectionIds \X RecordIds
    BY <1>3 DEF ColInv, CollectionsTypeOK
  <2>2. \A p \in items' : owner'[p[1]] # None /\ record'[p[2]] # NoRow
    BY <1>1, <1>3 DEF ColInv, CollectionsTypeOK
  <2>3. step' \in [Requests -> {"new", "write", "reload", "done", "failed"}]
        /\ todo' \in [Requests -> SUBSET RecordIds]
    BY <1>1 DEF ColInv, CollectionsTypeOK
  <2> QED
    BY <1>1, <2>1, <2>2, <2>3 DEF ColInv, CollectionsTypeOK
<1>5. OrderInv'
  BY <1>1 DEF ColInv, CollectionsTypeOK, OrderInv
<1>6. FailedInv'
  BY <1>1 DEF ColInv, CollectionsTypeOK, FailedInv
<1> QED
  BY <1>4, <1>5, <1>6 DEF ColInv

LEMMA DeleteItemInv ==
    ASSUME ColInv, NEW r \in Requests, DeleteTeaFromCollection(r) PROVE ColInv'
<1>1. PICK x \in todo[r], to \in {"reload", "write"} :
        /\ order[r].op = "delete" /\ step[r] = "write"
        /\ step' = [step EXCEPT ![r] = to]
        /\ items' = items \ {<<order[r].of, x>>}
        /\ todo' = [todo EXCEPT ![r] = todo[r] \ {x}]
        /\ UNCHANGED <<owner, minted, teas, record, order, broken>>
  BY DEF DeleteTeaFromCollection, Goes
<1>2. CollectionsTypeOK'
  BY <1>1 DEF ColInv, CollectionsTypeOK
<1>3. OrderInv'
  BY <1>1 DEF ColInv, CollectionsTypeOK, OrderInv
<1>4. FailedInv'
  BY <1>1 DEF ColInv, CollectionsTypeOK, FailedInv
<1> QED
  BY <1>2, <1>3, <1>4 DEF ColInv

-----------------------------------------------------------------------------
(***************************************************************************)
(* The steps that only read.                                               *)
(***************************************************************************)

LEMMA LookUpInv ==
    ASSUME ColInv, NEW r \in Requests, LookUp(r) PROVE ColInv'
<1>1. PICK op \in {"add", "delete"}, u \in Users, c \in CollectionIds, X \in SUBSET RecordIds,
           to \in {"reload", "write"} :
        /\ owner[c] = u
        /\ step[r] = "new" /\ step' = [step EXCEPT ![r] = to]
        /\ order' = [order EXCEPT ![r] = [op |-> op, user |-> u, of |-> c]]
        /\ todo' = [todo EXCEPT ![r] = X]
        /\ UNCHANGED <<owner, minted, teas, record, items, broken>>
  BY DEF LookUp, Goes, tables
<1>2. [op |-> op, user |-> u, of |-> c] \in Orders
  BY DEF Orders
<1>3. c \in minted
  BY <1>1, CollectionsAssumption DEF ColInv, CollectionsTypeOK
<1>4. CollectionsTypeOK'
  BY <1>1, <1>2 DEF ColInv, CollectionsTypeOK
<1>5. OrderInv'
  BY <1>1, <1>3 DEF ColInv, CollectionsTypeOK, OrderInv
<1>6. FailedInv'
  BY <1>1 DEF ColInv, CollectionsTypeOK, FailedInv
<1> QED
  BY <1>4, <1>5, <1>6 DEF ColInv

LEMMA ReadInv ==
    ASSUME ColInv, NEW r \in Requests, Refuse(r) \/ Reload(r) \/ ReadTea(r) \/ Break(r)
    PROVE  ColInv'
<1>1. PICK to \in {"done", "failed"} :
        /\ step' = [step EXCEPT ![r] = to]
        /\ UNCHANGED <<owner, minted, teas, record, items, order, todo>>
        /\ broken \subseteq broken' /\ broken' \subseteq Requests
        /\ to = "failed" /\ r \notin broken' =>
             \/ step[r] = "new"
             \/ order[r].op \in {"add", "delete"} /\ owner[order[r].of] # order[r].user
             \/ order[r].op = "write" /\ order[r].of \notin teas
  <2>1. CASE Refuse(r)
    BY <2>1 DEF Refuse, Goes, tables, ColInv, CollectionsTypeOK
  <2>2. CASE Reload(r)
    BY <2>2 DEF Reload, Goes, tables, ColInv, CollectionsTypeOK
  <2>3. CASE ReadTea(r)
    BY <2>3 DEF ReadTea, Goes, tables, ColInv, CollectionsTypeOK
  <2>4. CASE Break(r)
    BY <2>4 DEF Break, tables, ColInv, CollectionsTypeOK
  <2> QED
    BY <2>1, <2>2, <2>3, <2>4
<1>2. CollectionsTypeOK'
  BY <1>1 DEF ColInv, CollectionsTypeOK
<1>3. OrderInv'
  BY <1>1 DEF ColInv, CollectionsTypeOK, OrderInv
<1>4. FailedInv'
  <2> SUFFICES ASSUME NEW q \in Requests \ broken', step'[q] = "failed"
               PROVE  /\ order[q].op \in {"add", "delete"} => owner[order[q].of] = None
                      /\ order[q].op = "write" => order[q].of \notin teas
    BY <1>1 DEF FailedInv
  <2>1. CASE q = r
    <3>1. to = "failed"
      BY <1>1, <2>1 DEF ColInv, CollectionsTypeOK
    <3>2. step[r] = "new" => order[r].op = "none"
      BY OrderShape DEF ColInv, CollectionsTypeOK, OrderInv, NoOrder
    <3>3. order[r].op \in {"add", "delete"} => owner[order[r].of] \in {order[r].user, None}
      BY DEF ColInv, OrderInv
    <3> QED
      BY <1>1, <2>1, <3>1, <3>2, <3>3
  <2>2. CASE q # r
    BY <1>1, <2>2 DEF ColInv, CollectionsTypeOK, FailedInv
  <2> QED
    BY <2>1, <2>2
<1> QED
  BY <1>2, <1>3, <1>4 DEF ColInv

LEMMA ColInvStep ==
    ASSUME ColInv, ColNext \/ UNCHANGED colVars PROVE ColInv'
<1>1. CASE ColNext
  BY <1>1, CreateInv, DeleteCollectionInv, WriteQRInv, DeleteTeaInv, AddInv, DeleteItemInv,
     LookUpInv, ReadInv
     DEF ColNext, RequestNext
<1>2. CASE UNCHANGED colVars
  BY <1>2 DEF colVars, tables, ColInv, CollectionsTypeOK, OrderInv, FailedInv
<1> QED
  BY <1>1, <1>2

-----------------------------------------------------------------------------

\* The inductive invariant of the requests and the tables.
THEOREM CollectionsInvariant == ColSpec => []ColInv
<1>1. ColInv /\ [ColNext]_colVars => ColInv'
  BY ColInvStep
<1> QED
  BY <1>1, ColInvInit, PTL DEF ColSpec

\* The tables satisfy their foreign keys whatever the requests do.
THEOREM CollectionsTypeCorrect == ColSpec => []CollectionsTypeOK
  BY CollectionsInvariant, PTL DEF ColInv

\* A request that fails after its first check has lost what it is about, and
\* with it what it wrote.
THEOREM FailureLeavesNothing == ColSpec => []FailedOnlyIfGone
<1>1. ColInv => FailedOnlyIfGone
  <2> SUFFICES ASSUME ColInv, NEW r \in Requests \ broken, step[r] = "failed"
               PROVE  /\ order[r].op \in {"add", "delete"} =>
                            /\ owner[order[r].of] = None
                            /\ \A p \in items : p[1] # order[r].of
                      /\ order[r].op = "write" => \A x \in RecordIds : record[x].tea # order[r].of
    BY DEF FailedOnlyIfGone
  <2>1. ASSUME order[r].op \in {"add", "delete"}
        PROVE  owner[order[r].of] = None /\ \A p \in items : p[1] # order[r].of
    BY <2>1 DEF ColInv, FailedInv, CollectionsTypeOK
  <2>2. ASSUME order[r].op = "write", NEW x \in RecordIds PROVE record[x].tea # order[r].of
    <3>1. order[r].of \in TeaIds /\ order[r].of \notin teas /\ order[r].of # None
      BY <2>2, OrderShape, CollectionsAssumption DEF ColInv, FailedInv, CollectionsTypeOK
    <3>2. record[x] = NoRow \/ record[x].tea \in teas
      BY <2>2 DEF ColInv, CollectionsTypeOK
    <3> QED
      BY <3>1, <3>2, RowShape
  <2> QED
    BY <2>1, <2>2
<1> QED
  BY <1>1, CollectionsInvariant, PTL

\* A collection's items are changed by requests of its owner only, whatever
\* happens between the check and the write.
THEOREM OnlyOwnerWrites == ColSpec => OwnerOnly
<1> DEFINE By(c) == \E r \in Requests :
                      /\ step[r] = "write" /\ todo'[r] # todo[r]
                      /\ order[r].of = c /\ order[r].user = owner[c]
<1>1. ASSUME ColInv, [ColNext]_colVars, NEW c \in CollectionIds, Changes(c) PROVE By(c)
  <2>1. PICK x \in RecordIds :
          /\ record[x] # NoRow /\ record'[x] # NoRow
          /\ (<<c, x>> \in items) # (<<c, x>> \in items')
          /\ owner'[c] = owner[c]
    BY <1>1 DEF Changes
  <2>2. PICK r \in Requests : RequestNext(r)
    BY <1>1, <2>1 DEF ColNext, colVars, tables
  <2>3. CASE AddTeaToCollection(r)
    <3>1. /\ <<c, x>> \in items' /\ c = order[r].of /\ owner[c] # None /\ x \in todo[r]
          /\ step[r] = "write" /\ order[r].op = "add" /\ todo' = [todo EXCEPT ![r] = {}]
      BY <2>1, <2>3 DEF AddTeaToCollection, Goes
    <3>2. owner[c] = order[r].user /\ todo'[r] # todo[r]
      BY <1>1, <3>1 DEF ColInv, OrderInv, CollectionsTypeOK
    <3> QED
      BY <3>1, <3>2
  <2>4. CASE DeleteTeaFromCollection(r)
    <3>1. PICK y \in todo[r] :
            /\ order[r].op = "delete" /\ step[r] = "write"
            /\ items' = items \ {<<order[r].of, y>>}
            /\ todo' = [todo EXCEPT ![r] = todo[r] \ {y}]
      BY <2>4 DEF DeleteTeaFromCollection, Goes
    <3>2. <<c, x>> \in items /\ c = order[r].of
      BY <2>1, <3>1
    <3>3. owner[c] # None
      BY <1>1, <3>2 DEF ColInv, CollectionsTypeOK
    <3>4. owner[c] = order[r].user /\ todo'[r] # todo[r]
      BY <1>1, <3>1, <3>2, <3>3 DEF ColInv, OrderInv, CollectionsTypeOK
    <3> QED
      BY <3>1, <3>2, <3>4
  <2>5. CASE DeleteCollection(r)
    <3>1. PICK u \in Users, d \in CollectionIds :
            /\ owner' = [e \in CollectionIds |-> IF e = d /\ owner[e] = u THEN None ELSE owner[e]]
            /\ items' = {p \in items : ~(p[1] = d /\ owner[d] = u)}
      BY <2>5 DEF DeleteCollection
    <3> QED
      BY <2>1, <3>1, CollectionsAssumption
  <2>6. CASE DeleteTea(r)
    BY <2>1, <2>6 DEF DeleteTea
  <2>7. CASE UNCHANGED items
    BY <2>1, <2>7
  <2> QED
    BY <2>2, <2>3, <2>4, <2>5, <2>6, <2>7
       DEF RequestNext, CreateCollection, LookUp, Refuse, Reload, WriteQR, ReadTea, Break, tables
<1>2. ColInv /\ [ColNext]_colVars => [\A c \in CollectionIds : Changes(c) => By(c)]_colVars
  BY <1>1
<1> QED
  BY <1>2, CollectionsInvariant, PTL DEF ColSpec, OwnerOnly

-----------------------------------------------------------------------------
(***************************************************************************)
(* The expiration alerts.                                                  *)
(***************************************************************************)


\* A device has its identifier or a token given by Apple for a token.
DevInv == \A d \in DeviceIds : device[d] # NoDevice => device[d].token \in PushTokens \union {d}

\* Where a run is inside its nested loops.
AtInv ==
    /\ left.cols # {} \/ left.recs # {} \/ left.tokens # {} => at.user \in Users
    /\ left.recs # {} \/ left.tokens # {} => at.col \in CollectionIds
    /\ left.tokens # {} => at.rec \in RecordIds

\* The run has still to come to alert a, at one of its four levels.
Ahead(a) ==
    \/ a[1] \in left.users
    \/ a[1] = at.user /\ a[2] \in left.cols
    \/ a[1] = at.user /\ a[2] = at.col /\ \E e \in Expirations : <<a[3], e>> \in left.recs /\ e < clock
    \/ a[1] = at.user /\ a[2] = at.col /\ a[3] = at.rec /\ a[4] \in left.tokens

\* What has been due since the run began is due now, and was pushed or is ahead.
CoverInv ==
    /\ due \subseteq Due
    /\ result = "running" => \A a \in due : a \in pushed \/ Ahead(a)
    /\ result = "ok" => due \subseteq pushed

AlertInv == ColInv /\ AlerterTypeOK /\ DevInv /\ AtInv /\ CoverInv

\* What a run finds in the lists it reads about an alert that is due.
LEMMA DueFound ==
    ASSUME CollectionsTypeOK, clock \in Nat, NEW a \in Due
    PROVE  /\ a[1] \in Users /\ a[2] \in CollectionIds /\ a[3] \in RecordIds /\ a[4] \in Tokens
           /\ a = <<a[1], a[2], a[3], a[4]>>
           /\ a[2] \in CollectionsOf(a[1])
           /\ \E e \in Expirations : <<a[3], e>> \in RecordsOf(a[2]) /\ e < clock
           /\ a[4] \in TokensOf(a[1])
<1>1. a \in Alerts /\ owner[a[2]] = a[1] /\ <<a[2], a[3]>> \in items /\ record[a[3]].exp < clock
  BY DEF Due
<1>2. /\ a[1] \in Users /\ a[2] \in CollectionIds /\ a[3] \in RecordIds /\ a[4] \in Tokens
      /\ a = <<a[1], a[2], a[3], a[4]>>
  BY <1>1 DEF Alerts
<1>3. a[2] \in CollectionsOf(a[1])
  BY <1>1, <1>2 DEF CollectionsOf
<1>4. record[a[3]].exp \in Expirations
  BY <1>1, <1>2, RowShape DEF CollectionsTypeOK
<1>5. <<a[3], record[a[3]].exp>> \in RecordsOf(a[2])
  <2> DEFINE i == <<a[2], a[3]>>
  <2>1. i \in {j \in items : j[1] = a[2]} /\ i[2] = a[3]
    BY <1>1
  <2> QED
    BY <2>1 DEF RecordsOf
<1>6. a[4] \in TokensOf(a[1])
  <2>1. PICK d \in DeviceIds : device[d] = [user |-> a[1], token |-> a[4]]
    BY DEF Due
  <2> QED
    BY <2>1 DEF TokensOf
<1> QED
  BY <1>1, <1>2, <1>3, <1>4, <1>5, <1>6

\* The lists a run reads are of the right kind.
LEMMA ListsTyped ==
    ASSUME CollectionsTypeOK, AlerterTypeOK
    PROVE  /\ \A u : CollectionsOf(u) \subseteq CollectionIds
           /\ \A c : RecordsOf(c) \subseteq RecordIds \X Expirations
           /\ \A u \in Users : TokensOf(u) \subseteq Tokens
<1>1. \A u : CollectionsOf(u) \subseteq CollectionIds
  BY DEF CollectionsOf
<1>2. ASSUME NEW c PROVE RecordsOf(c) \subseteq RecordIds \X Expirations
  <2>1. \A p \in items : p[2] \in RecordIds /\ record[p[2]].exp \in Expirations
    BY RowShape DEF CollectionsTypeOK
  <2> QED
    BY <2>1 DEF RecordsOf
<1>3. ASSUME NEW u \in Users PROVE TokensOf(u) \subseteq Tokens
  <2>1. \A d \in DeviceIds : device[d].user = u => device[d].token \in Tokens
    BY CollectionsAssumption DEF AlerterTypeOK, NoDevice
  <2> QED
    BY <2>1 DEF TokensOf
<1> QED
  BY <1>1, <1>2, <1>3

\* Due depends on the tables, the devices and the clock only.
LEMMA DueKept ==
    ASSUME UNCHANGED <<colVars, devVars>> PROVE Due' = Due
  BY DEF Due, colVars, devVars, tables

LEMMA AlertInvInit == AlertInit => AlertInv
<1> SUFFICES ASSUME AlertInit PROVE AlertInv
  OBVIOUS
<1>1. ColInv
  BY ColInvInit DEF AlertInit
<1>2. DevInv
  BY DEF AlertInit, DevInv
<1>3. AlerterTypeOK
  <2>1. \A d, e \in DeviceIds : d # e /\ device[d] # NoDevice => device[d].token # device[e].token
    BY AlerterAssumption DEF AlertInit, NoDevice
  <2>2. /\ left \in [users : SUBSET Users, cols : SUBSET CollectionIds,
                    recs : SUBSET (RecordIds \X Expirations), tokens : SUBSET Tokens]
        /\ at \in [user : Users \union {None}, col : CollectionIds \union {None},
                  rec : RecordIds \union {None}]
    BY DEF AlertInit, Nothing, Nowhere
  <2>3. device \in [DeviceIds -> [user : Users, token : Tokens] \union {NoDevice}]
    BY DEF AlertInit
  <2>4. clock = 0 /\ loop = "off" /\ tick = FALSE /\ result = "none" /\ left = Nothing /\ pushed = {}
    BY DEF AlertInit
  <2>5. stop \in [Stops -> {"idle", "waiting", "returned", "panic"}]
    BY DEF AlertInit
  <2>6. 0 \in 0 .. MaxTime
    BY AlerterAssumption
  <2> QED
    BY <2>1, <2>2, <2>3, <2>4, <2>5, <2>6 DEF AlerterTypeOK
<1>4. AtInv /\ CoverInv
  BY DEF AlertInit, AtInv, CoverInv, Nothing
<1> QED
  BY <1>1, <1>2, <1>3, <1>4 DEF AlertInv

-----------------------------------------------------------------------------
(***************************************************************************)
(* The steps of a run.                                                     *)
(***************************************************************************)

\* A step of the run leaves the tables alone, so that it is right if it keeps
\* its own variables in order and loses no alert.
LEMMA RunStepFrame ==
    ASSUME AlertInv, UNCHANGED <<colVars, devVars, loopVars>>, Prune,
           result = "running", result' \in {"running", "ok", "error"},
           result' # "running" => left' = Nothing,
           left' \in [users : SUBSET Users, cols : SUBSET CollectionIds,
                      recs : SUBSET (RecordIds \X Expirations), tokens : SUBSET Tokens],
           at' \in [user : Users \union {None}, col : CollectionIds \union {None},
                    rec : RecordIds \union {None}],
           pushed' \subseteq Alerts, AtInv',
           result' = "running" => \A a \in due : a \in Due => a \in pushed' \/ Ahead(a)',
           result' = "ok" => due \subseteq pushed'
    PROVE  AlertInv'
<1>1. ColInv'
  BY ColInvStep DEF AlertInv
<1>2. DevInv'
  BY DEF AlertInv, DevInv, devVars
<1>3. AlerterTypeOK'
  BY DEF AlertInv, AlerterTypeOK, devVars, loopVars
<1>4. due' = due \intersect Due'
  BY DEF Prune
<1>5. Due' = Due
  BY DueKept
<1>6. CoverInv'
  BY <1>4, <1>5 DEF CoverInv
<1> QED
  BY <1>1, <1>2, <1>3, <1>6 DEF AlertInv

LEMMA UserStep ==
    ASSUME AlertInv, UNCHANGED <<colVars, devVars, loopVars>>, Prune,
           result = "running", processUserCollections
    PROVE  AlertInv'
<1>1. PICK u \in left.users :
        /\ left.tokens = {} /\ left.recs = {} /\ left.cols = {}
        /\ at' = [Nowhere EXCEPT !.user = u]
        /\ left' = [left EXCEPT !.users = left.users \ {u}, !.cols = CollectionsOf(u)]
        /\ UNCHANGED <<result, pushed>>
  BY DEF processUserCollections
<1>2. /\ at' = [user |-> u, col |-> None, rec |-> None]
      /\ left' = [users |-> left.users \ {u}, cols |-> CollectionsOf(u), recs |-> {}, tokens |-> {}]
      /\ u \in Users /\ left.users \subseteq Users
  BY <1>1 DEF AlertInv, AlerterTypeOK, Nowhere
<1>3. CollectionsOf(u) \subseteq CollectionIds
  BY ListsTyped DEF AlertInv, ColInv
<1>4. AtInv'
  BY <1>2 DEF AtInv
<1>5. ASSUME NEW a \in due, a \in Due PROVE a \in pushed' \/ Ahead(a)'
  <2>1. a \in pushed \/ Ahead(a)
    BY <1>5 DEF AlertInv, CoverInv
  <2>2. a[2] \in CollectionsOf(a[1])
    BY <1>5, DueFound, AlerterAssumption DEF AlertInv, ColInv, AlerterTypeOK
  <2>3. a \in pushed \/ a[1] \in left.users
    BY <1>1, <2>1 DEF Ahead
  <2> QED
    BY <1>1, <1>2, <2>2, <2>3 DEF Ahead
<1>6. /\ left' \in [users : SUBSET Users, cols : SUBSET CollectionIds,
                    recs : SUBSET (RecordIds \X Expirations), tokens : SUBSET Tokens]
      /\ at' \in [user : Users \union {None}, col : CollectionIds \union {None},
                  rec : RecordIds \union {None}]
  BY <1>2, <1>3
<1>7. pushed' \subseteq Alerts /\ result' = "running"
  BY <1>1 DEF AlertInv, AlerterTypeOK
<1> QED
  BY <1>4, <1>5, <1>6, <1>7, RunStepFrame

LEMMA CollectionStep ==
    ASSUME AlertInv, UNCHANGED <<colVars, devVars, loopVars>>, Prune,
           result = "running", processCollectionRecords
    PROVE  AlertInv'
<1>1. PICK c \in left.cols :
        /\ left.tokens = {} /\ left.recs = {}
        /\ at' = [at EXCEPT !.col = c]
        /\ left' = [left EXCEPT !.cols = left.cols \ {c}, !.recs = RecordsOf(c)]
        /\ UNCHANGED <<result, pushed>>
  BY DEF processCollectionRecords
<1>2. /\ at' = [user |-> at.user, col |-> c, rec |-> at.rec]
      /\ left' = [users |-> left.users, cols |-> left.cols \ {c}, recs |-> RecordsOf(c), tokens |-> {}]
      /\ c \in CollectionIds /\ left.cols \subseteq CollectionIds /\ left.users \subseteq Users
      /\ at.user \in Users /\ at.rec \in RecordIds \union {None}
  BY <1>1 DEF AlertInv, AlerterTypeOK, AtInv
<1>3. RecordsOf(c) \subseteq RecordIds \X Expirations
  BY ListsTyped DEF AlertInv, ColInv
<1>4. AtInv'
  BY <1>2 DEF AtInv
<1>5. ASSUME NEW a \in due, a \in Due PROVE a \in pushed' \/ Ahead(a)'
  <2>1. a \in pushed \/ Ahead(a)
    BY <1>5 DEF AlertInv, CoverInv
  <2>2. \E e \in Expirations : <<a[3], e>> \in RecordsOf(a[2]) /\ e < clock
    BY <1>5, DueFound, AlerterAssumption DEF AlertInv, ColInv, AlerterTypeOK
  <2>3. a \in pushed \/ a[1] \in left.users \/ (a[1] = at.user /\ a[2] \in left.cols)
    BY <1>1, <2>1 DEF Ahead
  <2>4. clock' = clock
    BY DEF devVars
  <2>5. CASE a[1] = at.user /\ a[2] = c
    BY <1>2, <2>2, <2>4, <2>5 DEF Ahead
  <2>6. CASE a \in pushed \/ a[1] \in left.users \/ (a[1] = at.user /\ a[2] \in left.cols \ {c})
    BY <1>1, <1>2, <2>6 DEF Ahead
  <2> QED
    BY <2>3, <2>5, <2>6
<1> QED
  BY <1>1, <1>2, <1>3, <1>4, <1>5, RunStepFrame DEF AlertInv, AlerterTypeOK

LEMMA RecordStep ==
    ASSUME AlertInv, UNCHANGED <<colVars, devVars, loopVars>>, Prune,
           result = "running", processRecord
    PROVE  AlertInv'
<1>1. PICK q \in left.recs :
        /\ left.tokens = {}
        /\ at' = [at EXCEPT !.rec = q[1]]
        /\ left' = [left EXCEPT !.recs = left.recs \ {q},
                                !.tokens = IF q[2] < clock THEN TokensOf(at.user) ELSE {}]
        /\ UNCHANGED <<result, pushed>>
  BY DEF processRecord
<1> DEFINE toks == IF q[2] < clock THEN TokensOf(at.user) ELSE {}
<1>2. /\ at' = [user |-> at.user, col |-> at.col, rec |-> q[1]]
      /\ left' = [users |-> left.users, cols |-> left.cols, recs |-> left.recs \ {q}, tokens |-> toks]
      /\ q \in RecordIds \X Expirations /\ left.recs \subseteq RecordIds \X Expirations
      /\ left.cols \subseteq CollectionIds /\ left.users \subseteq Users
      /\ at.user \in Users /\ at.col \in CollectionIds
  BY <1>1 DEF AlertInv, AlerterTypeOK, AtInv
<1>3. toks \subseteq Tokens
  BY <1>2, ListsTyped DEF AlertInv, ColInv
<1>4. q[1] \in RecordIds /\ q = <<q[1], q[2]>>
  BY <1>2
<1>5. AtInv'
  BY <1>2, <1>4 DEF AtInv
<1>6. ASSUME NEW a \in due, a \in Due PROVE a \in pushed' \/ Ahead(a)'
  <2>1. a \in pushed \/ Ahead(a)
    BY <1>6 DEF AlertInv, CoverInv
  <2>2. a[4] \in TokensOf(a[1])
    BY <1>6, DueFound, AlerterAssumption DEF AlertInv, ColInv, AlerterTypeOK
  <2>3. clock' = clock
    BY DEF devVars
  <2>4. CASE a \in pushed \/ a[1] \in left.users \/ (a[1] = at.user /\ a[2] \in left.cols)
    BY <1>1, <1>2, <2>4 DEF Ahead
  <2>5. ASSUME a[1] = at.user, a[2] = at.col,
               NEW e \in Expirations, <<a[3], e>> \in left.recs, e < clock
        PROVE  Ahead(a)'
    <3>1. CASE <<a[3], e>> = q
      <4>1. a[3] = q[1] /\ a[4] \in toks
        BY <2>2, <2>5, <3>1
      <4> HIDE DEF toks
      <4> QED
        BY <1>2, <2>5, <4>1 DEF Ahead
    <3>2. CASE <<a[3], e>> # q
      <4> HIDE DEF toks
      <4> QED
        BY <1>2, <2>3, <2>5, <3>2 DEF Ahead
    <3> QED
      BY <3>1, <3>2
  <2> QED
    BY <1>1, <2>1, <2>4, <2>5 DEF Ahead
<1> HIDE DEF toks
<1>7. /\ left' \in [users : SUBSET Users, cols : SUBSET CollectionIds,
                    recs : SUBSET (RecordIds \X Expirations), tokens : SUBSET Tokens]
      /\ at' \in [user : Users \union {None}, col : CollectionIds \union {None},
                  rec : RecordIds \union {None}]
  BY <1>2, <1>3, <1>4
<1> QED
  BY <1>1, <1>5, <1>6, <1>7, RunStepFrame DEF AlertInv, AlerterTypeOK

LEMMA PushStep ==
    ASSUME AlertInv, UNCHANGED <<colVars, devVars, loopVars>>, Prune,
           result = "running", PushWithContext
    PROVE  AlertInv'
<1>1. PICK tok \in left.tokens :
        /\ pushed' = pushed \union {<<at.user, at.col, at.rec, tok>>}
        /\ left' = [left EXCEPT !.tokens = left.tokens \ {tok}]
        /\ UNCHANGED <<result, at>>
  BY DEF PushWithContext
<1>2. /\ left' = [users |-> left.users, cols |-> left.cols, recs |-> left.recs, tokens |-> left.tokens \ {tok}]
      /\ at.user \in Users /\ at.col \in CollectionIds /\ at.rec \in RecordIds /\ tok \in Tokens
      /\ left.recs \subseteq RecordIds \X Expirations /\ left.tokens \subseteq Tokens
      /\ left.cols \subseteq CollectionIds /\ left.users \subseteq Users
  BY <1>1 DEF AlertInv, AlerterTypeOK, AtInv
<1>3. pushed' \subseteq Alerts
  BY <1>1, <1>2 DEF Alerts, AlertInv, AlerterTypeOK
<1>4. AtInv'
  BY <1>1, <1>2 DEF AtInv
<1>5. ASSUME NEW a \in due, a \in Due PROVE a \in pushed' \/ Ahead(a)'
  <2>1. a \in pushed \/ Ahead(a)
    BY <1>5 DEF AlertInv, CoverInv
  <2>2. a = <<a[1], a[2], a[3], a[4]>>
    BY <1>5, DueFound, AlerterAssumption DEF AlertInv, ColInv, AlerterTypeOK
  <2>3. clock' = clock
    BY DEF devVars
  <2>4. CASE a = <<at.user, at.col, at.rec, tok>>
    BY <1>1, <2>4
  <2>5. CASE a # <<at.user, at.col, at.rec, tok>>
    BY <1>1, <1>2, <2>1, <2>2, <2>3, <2>5 DEF Ahead
  <2> QED
    BY <2>4, <2>5
<1> QED
  BY <1>1, <1>2, <1>3, <1>4, <1>5, RunStepFrame DEF AlertInv, AlerterTypeOK

LEMMA EndStep ==
    ASSUME AlertInv, UNCHANGED <<colVars, devVars, loopVars>>, Prune,
           result = "running", RunFails \/ RunEnds
    PROVE  AlertInv'
<1>1. /\ left' = Nothing /\ at' = Nowhere /\ pushed' = pushed
      /\ result' \in {"ok", "error"}
      /\ result' = "ok" => left = Nothing
  BY DEF RunFails, RunEnds
<1>2. AtInv'
  BY <1>1 DEF AtInv, Nothing
<1>3. left = Nothing => due \subseteq pushed
  BY DEF AlertInv, CoverInv, Ahead, Nothing
<1>4. /\ Nothing \in [users : SUBSET Users, cols : SUBSET CollectionIds,
                      recs : SUBSET (RecordIds \X Expirations), tokens : SUBSET Tokens]
      /\ Nowhere \in [user : Users \union {None}, col : CollectionIds \union {None},
                      rec : RecordIds \union {None}]
  BY DEF Nothing, Nowhere
<1> QED
  BY <1>1, <1>2, <1>3, <1>4, RunStepFrame DEF AlertInv, AlerterTypeOK

-----------------------------------------------------------------------------
(***************************************************************************)
(* The loop, the devices and the requests.                                 *)
(***************************************************************************)

\* A run begins with all users ahead of it.
LEMMA BeginStep ==
    ASSUME AlertInv, LoopTick, UNCHANGED <<colVars, devVars>>, Prune PROVE AlertInv'
<1>1. /\ loop = "select" /\ loop' = "run" /\ tick' = FALSE /\ stop' = stop
      /\ result' = "running" /\ left' = [left EXCEPT !.users = Users]
      /\ pushed' = {} /\ at' = at
  BY DEF LoopTick, RunBegins
<1>2. result # "running" /\ left = Nothing
  BY <1>1 DEF AlertInv, AlerterTypeOK
<1>3. left' = [users |-> Users, cols |-> {}, recs |-> {}, tokens |-> {}]
  BY <1>1, <1>2 DEF Nothing
<1>4. ColInv'
  BY ColInvStep DEF AlertInv
<1>5. DevInv' /\ AtInv'
  BY <1>3 DEF AlertInv, DevInv, AtInv, devVars
<1>6. AlerterTypeOK'
  BY <1>1, <1>3 DEF AlertInv, AlerterTypeOK, devVars
<1>7. CoverInv'
  <2>1. due' = Due /\ Due' = Due
    BY <1>1, <1>2, DueKept DEF Prune
  <2>2. \A a \in Due : a[1] \in Users
    BY DEF Due, Alerts
  <2> QED
    BY <1>1, <1>3, <2>1, <2>2 DEF CoverInv, Ahead
<1> QED
  BY <1>4, <1>5, <1>6, <1>7 DEF AlertInv

\* The other steps leave the run where it is; what they make no longer due is
\* pruned, and the clock does not go back.
LEMMA FrameStep ==
    ASSUME AlertInv, UNCHANGED runVars, Prune, ColInv', AlerterTypeOK', DevInv',
           clock' >= clock
    PROVE  AlertInv'
<1>1. result' = result /\ at' = at /\ left' = left /\ pushed' = pushed
  BY DEF runVars
<1>2. due' = due \intersect Due'
  BY <1>1 DEF Prune
<1>3. AtInv'
  BY <1>1 DEF AlertInv, AtInv
<1>4. ASSUME NEW a, Ahead(a) PROVE Ahead(a)'
  <2>1. \A e \in Expirations : e < clock => e < clock'
    BY CollectionsAssumption, AlerterAssumption DEF AlertInv, AlerterTypeOK
  <2> QED
    BY <1>1, <1>4, <2>1 DEF Ahead
<1>5. CoverInv'
  BY <1>1, <1>2, <1>4 DEF AlertInv, CoverInv
<1> QED
  BY <1>3, <1>5 DEF AlertInv

LEMMA LoopFrame ==
    ASSUME AlertInv, UNCHANGED <<colVars, devVars>>, Prune,
           Start \/ Tick \/ LoopReturn \/ LoopStop \/ LoopClose \/ \E s \in Stops : Stop(s)
    PROVE  AlertInv'
<1>1. UNCHANGED runVars
  BY DEF Start, Tick, LoopReturn, LoopStop, LoopClose, Stop
<1>2. /\ loop' \in {"off", "select", "run", "closing", "closed"}
      /\ tick' \in BOOLEAN
      /\ stop' \in [Stops -> {"idle", "waiting", "returned", "panic"}]
      /\ loop' = "run" \/ result # "running"
  BY DEF Start, Tick, LoopReturn, LoopStop, LoopClose, Stop, AlertInv, AlerterTypeOK
<1>3. AlerterTypeOK'
  BY <1>1, <1>2 DEF AlertInv, AlerterTypeOK, devVars, runVars
<1>4. ColInv' /\ DevInv' /\ clock' >= clock
  BY ColInvStep, AlerterAssumption DEF AlertInv, DevInv, AlerterTypeOK, devVars
<1> QED
  BY <1>1, <1>3, <1>4, FrameStep

LEMMA DevicesFrame ==
    ASSUME AlertInv, DevicesNext, UNCHANGED <<colVars, loopVars, runVars>>, Prune
    PROVE  AlertInv'
<1>1. ColInv'
  BY ColInvStep DEF AlertInv
<1>2. clock \in Nat /\ clock' \in 0 .. MaxTime /\ clock' >= clock
  BY AlerterAssumption DEF DevicesNext, BindDevice, RegisterDeviceToken, Advance, AlertInv, AlerterTypeOK
<1> DEFINE Row == [user : Users, token : Tokens] \union {NoDevice}
           Distinct == \A d, e \in DeviceIds :
                         d # e /\ device[d] # NoDevice => device[d].token # device[e].token
<1>3. device \in [DeviceIds -> Row] /\ Distinct /\ DevInv
  BY DEF AlertInv, AlerterTypeOK
<1>4. device' \in [DeviceIds -> Row] /\ Distinct' /\ DevInv'
  <2>1. ASSUME NEW d \in DeviceIds, NEW u \in Users, BindDevice(d, u)
        PROVE  device' \in [DeviceIds -> Row] /\ Distinct' /\ DevInv'
    <3>1. /\ device[d] = NoDevice
          /\ device' = [device EXCEPT ![d] = [user |-> u, token |-> d]]
      BY <2>1 DEF BindDevice
    <3>2. device' \in [DeviceIds -> Row]
      BY <1>3, <3>1 DEF Tokens
    <3>3. \A e \in DeviceIds \ {d} : device'[e] = device[e] /\ device[e].token # d
      BY <1>3, <3>1, AlerterAssumption DEF DevInv, NoDevice
    <3>4. device'[d].token = d
      BY <1>3, <3>1
    <3>5. Distinct'
      BY <1>3, <3>3, <3>4
    <3>6. DevInv'
      BY <1>3, <3>3, <3>4 DEF DevInv
    <3> QED
      BY <3>2, <3>5, <3>6
  <2>2. ASSUME NEW d \in DeviceIds, NEW tok \in PushTokens, RegisterDeviceToken(d, tok)
        PROVE  device' \in [DeviceIds -> Row] /\ Distinct' /\ DevInv'
    <3>1. /\ device[d] # NoDevice
          /\ \A e \in DeviceIds : device[e].token # tok
          /\ device' = [device EXCEPT ![d] = [device[d] EXCEPT !.token = tok]]
      BY <2>2 DEF RegisterDeviceToken
    <3>2. device[d] \in [user : Users, token : Tokens]
      BY <1>3, <3>1
    <3>3. /\ device'[d] = [user |-> device[d].user, token |-> tok]
          /\ \A e \in DeviceIds \ {d} : device'[e] = device[e]
      BY <1>3, <3>1, <3>2
    <3>4. device' \in [DeviceIds -> Row]
      BY <1>3, <3>1, <3>2 DEF Tokens
    <3>5. Distinct'
      BY <1>3, <3>1, <3>3
    <3>6. DevInv'
      BY <1>3, <3>3 DEF DevInv
    <3> QED
      BY <3>4, <3>5, <3>6
  <2>3. CASE Advance
    BY <1>3, <2>3 DEF Advance, DevInv
  <2> QED
    BY <2>1, <2>2, <2>3 DEF DevicesNext
<1>5. AlerterTypeOK'
  BY <1>2, <1>4 DEF AlertInv, AlerterTypeOK, loopVars, runVars
<1> QED
  BY <1>1, <1>2, <1>4, <1>5, FrameStep

LEMMA RequestFrame ==
    ASSUME AlertInv, ColNext, UNCHANGED <<devVars, loopVars, runVars>>, Prune
    PROVE  AlertInv'
<1>1. ColInv'
  BY ColInvStep DEF AlertInv
<1>2. AlerterTypeOK' /\ DevInv' /\ clock' >= clock
  BY AlerterAssumption DEF AlertInv, AlerterTypeOK, DevInv, devVars, loopVars, runVars
<1> QED
  BY <1>1, <1>2, FrameStep

LEMMA AlertInvStep == AlertInv /\ [AlertNext]_alertVars => AlertInv'
<1> SUFFICES ASSUME AlertInv, [AlertNext]_alertVars PROVE AlertInv'
  OBVIOUS
<1>1. CASE AlertNext
  <2>1. Prune
    BY <1>1 DEF AlertNext
  <2>2. ASSUME RunStep, UNCHANGED <<colVars, devVars, loopVars>> PROVE AlertInv'
    BY <2>1, <2>2, UserStep, CollectionStep, RecordStep, PushStep, EndStep DEF RunStep
  <2> QED
    BY <1>1, <2>1, <2>2, BeginStep, LoopFrame, DevicesFrame, RequestFrame DEF AlertNext, LoopStep
<1>2. CASE UNCHANGED alertVars
  <2>1. UNCHANGED <<colVars, devVars, loopVars, runVars, due>>
    BY <1>2 DEF alertVars
  <2>2. ColInv' /\ Due' = Due
    BY <2>1, ColInvStep, DueKept DEF AlertInv
  <2>3. AlerterTypeOK' /\ DevInv' /\ AtInv'
    BY <2>1 DEF AlertInv, AlerterTypeOK, DevInv, AtInv, devVars, loopVars, runVars
  <2>4. CoverInv'
    BY <2>1, <2>2 DEF AlertInv, CoverInv, Ahead, devVars, runVars
  <2> QED
    BY <2>2, <2>3, <2>4 DEF AlertInv
<1> QED
  BY <1>1, <1>2

-----------------------------------------------------------------------------

\* The inductive invariant: an alert that has been due since the run began was
\* pushed or lies ahead at one of the run's four levels.
THEOREM AlerterInvariant == AlertSpec => []AlertInv
  BY AlertInvInit, AlertInvStep, PTL DEF AlertSpec

\* Devices, loop and run keep their types, tokens are distinct, and Run is only
\* ever inside the loop.
THEOREM AlerterTypeCorrect == AlertSpec => []AlerterTypeOK
  BY AlerterInvariant, PTL DEF AlertInv

\* A run that ends without an error has handed over everything that stayed due.
THEOREM RunIsComplete == AlertSpec => []RunCovers
<1>1. AlertInv => RunCovers
  BY DEF AlertInv, CoverInv, RunCovers
<1> QED
  BY <1>1, AlerterInvariant, PTL

=============================================================================
