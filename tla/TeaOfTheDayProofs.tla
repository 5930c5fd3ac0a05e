------------------------- MODULE TeaOfTheDayProofs -------------------------
(***************************************************************************)
(* Proofs about the tea of the day, for any number of users and concurrent *)
(* queries, any length of the day and of the retention.                    *)
(***************************************************************************)
EXTENDS TeaOfTheDay, TLAPS

\* A query's time is not in the future.
NowInv == \A r \in Requests : now[r] <= clock

\* An entry expires at the midnight after its date, which is not in the future;
\* the request that stored it has returned.
CacheInv ==
    \A u \in Users : cache[u] # None =>
        /\ cache[u].expiresAt = nextMidnight(cache[u].date)
        /\ cache[u].date <= clock
        /\ phase[cache[u].by] = "done"

PriorInv == \A r \in Requests : \A q \in prior[r] : phase[q] = "done"

\* A query that went past the lookup and still finds the entry of one that had
\* returned before it began, found it expired.
MissInv ==
    \A r \in Requests :
        LET e == cache[who[r]] IN
        phase[r] \in {"evict", "select", "insert", "prune", "set"} /\ e # None /\ e.by \in prior[r] =>
            Expired(e, now[r])

TodInv ==
    TodTypeOK /\ NowInv /\ CacheInv /\ PriorInv /\ MissInv /\ NeverYesterdaysTea /\ HistoryKept

-----------------------------------------------------------------------------
(* Days. *)

\* The day of a time, as a quotient.
LEMMA DayOf ==
    ASSUME NEW t \in Nat
    PROVE  /\ Day(t) \in Nat
           /\ Day(t) * DayLength <= t
           /\ t < (Day(t) + 1) * DayLength
<1> DEFINE L == DayLength
<1>1. L \in Nat /\ L > 0
  BY TeaOfTheDayAssumption
<1> HIDE DEF L
<1>2. /\ t \div L \in Nat
      /\ (t \div L) * L <= t
      /\ t < ((t \div L) + 1) * L
  BY <1>1, SMTT(30)
<1> QED
  BY <1>2 DEF Day, L

\* A time before the midnight after d is on d's day or earlier.
LEMMA BeforeMidnight ==
    ASSUME NEW t \in Nat, NEW d \in Nat, t < nextMidnight(d)
    PROVE  Day(t) <= Day(d)
<1>1. /\ Day(t) \in Nat /\ Day(d) \in Nat /\ DayLength \in Nat
      /\ Day(t) * DayLength <= t
      /\ t < (Day(d) + 1) * DayLength
  BY DayOf, TeaOfTheDayAssumption DEF nextMidnight
<1> DEFINE a == Day(t)
           b == Day(d)
           L == DayLength
<1>2. SUFFICES ASSUME a >= b + 1 PROVE FALSE
  BY <1>1
<1> HIDE DEF a, b, L
<1>3. a * L >= (b + 1) * L
  BY <1>1, <1>2, SMTT(30) DEF a, b, L
<1> QED
  BY <1>1, <1>3 DEF a, b, L

-----------------------------------------------------------------------------
(* The invariant holds at the start, and every step keeps it. *)

LEMMA TodInvInit == TodInit => TodInv
  BY TeaOfTheDayAssumption
     DEF TodInit, TodInv, TodTypeOK, NowInv, CacheInv, PriorInv, MissInv, NeverYesterdaysTea,
         HistoryKept, Times, Phases

\* Midnights of the times in range.
LEMMA EntryType ==
    ASSUME NEW t \in Times, NEW x \in Teas, NEW r \in Requests
    PROVE  [tea |-> x, date |-> t, expiresAt |-> nextMidnight(t), by |-> r] \in Entries
  BY DEF Entries

\* The parts of an entry.
LEMMA EntryParts ==
    ASSUME TodTypeOK, NEW u \in Users, cache[u] # None
    PROVE  /\ cache[u].tea \in Teas /\ cache[u].date \in Times
           /\ cache[u].by \in Requests /\ cache[u].expiresAt \in Nat
<1>1. cache[u] \in Entries
  BY DEF TodTypeOK
<1>2. \A t \in Times : nextMidnight(t) \in Nat
  BY DayOf, TeaOfTheDayAssumption DEF nextMidnight, Times
<1> QED
  BY <1>1, <1>2 DEF Entries

\* Types.
LEMMA TodTypeStep == TodTypeOK /\ [TodNext]_todVars => TodTypeOK'
<1> SUFFICES ASSUME TodTypeOK, [TodNext]_todVars PROVE TodTypeOK'
  OBVIOUS
<1> USE TeaOfTheDayAssumption
<1>1. CASE Tick
  BY <1>1 DEF Tick, TodTypeOK, Times
<1>2. ASSUME NEW r \in Requests, NEW u \in Users, Begin(r, u) PROVE TodTypeOK'
  BY <1>2 DEF Begin, Go, TodTypeOK, Phases
<1>3. ASSUME NEW r \in Requests, Get(r) PROVE TodTypeOK'
  <2>1. who[r] \in Users
    BY <1>3 DEF Get, TodTypeOK
  <2>2. cache[who[r]] # None =>
          [tea |-> cache[who[r]].tea, date |-> cache[who[r]].date] \in Answers
    BY <2>1, EntryParts DEF Answers
  <2> QED
    BY <1>3, <2>1, <2>2 DEF Get, Go, TodTypeOK, Phases
<1>4. ASSUME NEW r \in Requests, Evict(r) PROVE TodTypeOK'
  BY <1>4 DEF Evict, Go, TodTypeOK, Phases
<1>5. ASSUME NEW r \in Requests, Select(r) PROVE TodTypeOK'
  BY <1>5 DEF Select, Go, TodTypeOK, Phases
<1>6. ASSUME NEW r \in Requests, SelectFails(r) PROVE TodTypeOK'
  BY <1>6 DEF SelectFails, Go, TodTypeOK, Phases
<1>7. ASSUME NEW r \in Requests, InsertConsumption(r) PROVE TodTypeOK'
  <2>1. [user |-> who[r], tea |-> choice[r], ts |-> now[r]] \in Consumptions
    BY <1>7 DEF InsertConsumption, TodTypeOK, Consumptions
  <2> QED
    BY <1>7, <2>1 DEF InsertConsumption, Go, TodTypeOK, Phases
<1>8. ASSUME NEW r \in Requests, DeleteConsumptionsBefore(r) PROVE TodTypeOK'
  BY <1>8 DEF DeleteConsumptionsBefore, Go, TodTypeOK, Phases
<1>9. ASSUME NEW r \in Requests, RecordFails(r) PROVE TodTypeOK'
  BY <1>9 DEF RecordFails, Go, TodTypeOK, Phases
<1>10. ASSUME NEW r \in Requests, Set(r) PROVE TodTypeOK'
  <2>1. choice[r] \in Teas /\ now[r] \in Times
    BY <1>10 DEF Set, TodTypeOK
  <2>2. /\ [tea |-> choice[r], date |-> now[r]] \in Answers
        /\ [tea |-> choice[r], date |-> now[r],
            expiresAt |-> nextMidnight(now[r]), by |-> r] \in Entries
    BY <2>1, EntryType DEF Answers
  <2> QED
    BY <1>10, <2>2 DEF Set, Go, TodTypeOK, Phases
<1>11. CASE UNCHANGED todVars
  BY <1>11 DEF todVars, TodTypeOK
<1>12. ASSUME NEW x \in Teas, DeleteTea(x) PROVE TodTypeOK'
  BY <1>12 DEF DeleteTea, TodTypeOK
<1> QED
  BY <1>1, <1>2, <1>3, <1>4, <1>5, <1>6, <1>7, <1>8, <1>9, <1>10, <1>11, <1>12 DEF TodNext

\* Times are taken from the clock, which does not go back.
LEMMA ClockMonotone ==
    ASSUME TodTypeOK, [TodNext]_todVars
    PROVE  clock \in Nat /\ clock' \in Nat /\ clock <= clock'
<1>1. clock \in Nat
  BY TeaOfTheDayAssumption DEF TodTypeOK, Times
<1>2. CASE Tick
  BY <1>1, <1>2 DEF Tick
<1>3. ~Tick => clock' = clock
  BY DEF TodNext, Begin, Get, Evict, Select, SelectFails, InsertConsumption,
         DeleteConsumptionsBefore, RecordFails, Set, DeleteTea, todVars
<1> QED
  BY <1>1, <1>2, <1>3

\* Only the first step of a request sets what it is about, and its steps leave
\* the other requests alone.
LEMMA RequestFrame ==
    ASSUME TodTypeOK, [TodNext]_todVars, NEW r \in Requests
    PROVE  \/ \E u \in Users : Begin(r, u)
           \/ UNCHANGED <<who[r], now[r], prior[r]>>
              /\ \/ UNCHANGED <<phase[r], answer[r]>>
                 \/ Get(r) \/ Set(r)
                 \/ /\ phase[r] \in {"evict", "select", "insert", "prune"}
                    /\ phase'[r] # "done"
<1> USE DEF TodTypeOK
<1>1. CASE Tick \/ (\E x \in Teas : DeleteTea(x)) \/ UNCHANGED todVars
  BY <1>1 DEF Tick, DeleteTea, todVars
<1>2. ASSUME NEW q \in Requests, NEW u \in Users, Begin(q, u), q # r
      PROVE  UNCHANGED <<who[r], now[r], prior[r], phase[r], answer[r]>>
  BY <1>2 DEF Begin, Go
<1>3. ASSUME NEW q \in Requests, Get(q) \/ Set(q)
      PROVE  UNCHANGED <<who[r], now[r], prior[r]>> /\ (q # r => UNCHANGED <<phase[r], answer[r]>>)
  BY <1>3 DEF Get, Set, Go
<1>4. ASSUME NEW q \in Requests,
             Evict(q) \/ Select(q) \/ SelectFails(q) \/ InsertConsumption(q)
                \/ DeleteConsumptionsBefore(q) \/ RecordFails(q)
      PROVE  /\ UNCHANGED <<who[r], now[r], prior[r]>>
             /\ q # r => UNCHANGED <<phase[r], answer[r]>>
             /\ phase[q] \in {"evict", "select", "insert", "prune"} /\ phase'[q] # "done"
  BY <1>4 DEF Evict, Select, SelectFails, InsertConsumption, DeleteConsumptionsBefore,
              RecordFails, Go
<1> QED
  BY <1>1, <1>2, <1>3, <1>4 DEF TodNext

LEMMA NowStep == TodTypeOK /\ NowInv /\ [TodNext]_todVars => NowInv'
<1> SUFFICES ASSUME TodTypeOK, NowInv, [TodNext]_todVars PROVE NowInv'
  OBVIOUS
<1>1. clock \in Nat /\ clock' \in Nat /\ clock <= clock' /\ now \in [Requests -> Nat]
  BY ClockMonotone, TeaOfTheDayAssumption DEF TodTypeOK, Times
<1>2. ASSUME NEW r \in Requests, NEW u \in Users, Begin(r, u) PROVE NowInv'
  BY <1>1, <1>2 DEF Begin, NowInv
<1>3. CASE now' = now
  BY <1>1, <1>3 DEF NowInv
<1> QED
  BY <1>2, <1>3 DEF TodNext, Tick, Get, Evict, Select, SelectFails, InsertConsumption,
                    DeleteConsumptionsBefore, RecordFails, Set, DeleteTea, todVars

\* A request that has returned stays so.
LEMMA DoneForGood ==
    ASSUME TodTypeOK, [TodNext]_todVars, NEW q \in Requests, phase[q] = "done"
    PROVE  phase'[q] = "done"
  BY DEF TodTypeOK, TodNext, Tick, Begin, Get, Evict, Select, SelectFails, InsertConsumption,
         DeleteConsumptionsBefore, RecordFails, Set, DeleteTea, todVars, Go

LEMMA PriorStep == TodTypeOK /\ PriorInv /\ [TodNext]_todVars => PriorInv'
<1> SUFFICES ASSUME TodTypeOK, PriorInv, [TodNext]_todVars,
                    NEW r \in Requests, NEW q \in prior'[r]
             PROVE  phase'[q] = "done"
  BY DEF PriorInv
<1>1. q \in Requests /\ phase[q] = "done"
  <2>1. CASE \E u \in Users : Begin(r, u)
    BY <2>1 DEF Begin, TodTypeOK
  <2>2. CASE prior'[r] = prior[r]
    BY <2>2 DEF PriorInv, TodTypeOK
  <2> QED
    BY <2>1, <2>2, RequestFrame
<1> QED
  BY <1>1, DoneForGood

\* How a step may change the cache: one entry is set by a request that thereby
\* returns, or removed by one that finds it expired.
LEMMA CacheChanges ==
    ASSUME TodTypeOK, [TodNext]_todVars, NEW u \in Users, cache'[u] # cache[u]
    PROVE  \/ \E r \in Requests :
                /\ phase[r] = "set" /\ phase'[r] = "done" /\ who[r] = u
                /\ cache'[u] = [tea |-> choice[r], date |-> now[r],
                                expiresAt |-> nextMidnight(now[r]), by |-> r]
           \/ /\ cache'[u] = None
              /\ \E r \in Requests : Expired(cache[u], now[r])
<1>1. ASSUME NEW r \in Requests, Evict(r)
      PROVE  cache'[u] = None /\ Expired(cache[u], now[r])
  BY <1>1 DEF Evict, TodTypeOK
<1>2. ASSUME NEW r \in Requests, Set(r)
      PROVE  /\ phase[r] = "set" /\ phase'[r] = "done" /\ who[r] = u
             /\ cache'[u] = [tea |-> choice[r], date |-> now[r],
                             expiresAt |-> nextMidnight(now[r]), by |-> r]
  BY <1>2 DEF Set, Go, TodTypeOK
<1> QED
  BY <1>1, <1>2 DEF TodNext, Tick, Begin, Get, Select, SelectFails, InsertConsumption,
                    DeleteConsumptionsBefore, RecordFails, DeleteTea, todVars

LEMMA CacheStep ==
    TodTypeOK /\ NowInv /\ CacheInv /\ [TodNext]_todVars => CacheInv'
<1> SUFFICES ASSUME TodTypeOK, NowInv, CacheInv, [TodNext]_todVars,
                    NEW u \in Users, cache'[u] # None
             PROVE  /\ cache'[u].expiresAt = nextMidnight(cache'[u].date)
                    /\ cache'[u].date <= clock'
                    /\ phase'[cache'[u].by] = "done"
  BY DEF CacheInv, nextMidnight, Day
<1>1. clock \in Nat /\ clock' \in Nat /\ clock <= clock' /\ now \in [Requests -> Nat]
  BY ClockMonotone, TeaOfTheDayAssumption DEF TodTypeOK, Times
<1>2. CASE cache'[u] = cache[u]
  <2>1. cache[u].date \in Nat /\ cache[u].by \in Requests
    BY <1>2, EntryParts, TeaOfTheDayAssumption DEF Times
  <2> QED
    BY <1>1, <1>2, <2>1, DoneForGood DEF CacheInv
<1>3. CASE cache'[u] # cache[u]
  <2>1. PICK r \in Requests :
           /\ phase'[r] = "done"
           /\ cache'[u] = [tea |-> choice[r], date |-> now[r],
                           expiresAt |-> nextMidnight(now[r]), by |-> r]
    BY <1>3, CacheChanges
  <2> QED
    BY <1>1, <2>1 DEF NowInv
<1> QED
  BY <1>2, <1>3

LEMMA MissStep ==
    TodInv /\ [TodNext]_todVars => MissInv'
<1> SUFFICES ASSUME TodInv, [TodNext]_todVars, NEW r \in Requests,
                    phase'[r] \in {"evict", "select", "insert", "prune", "set"},
                    cache'[who'[r]] # None, cache'[who'[r]].by \in prior'[r]
             PROVE  Expired(cache'[who'[r]], now'[r])
  BY DEF MissInv, Expired
<1> DEFINE u == who[r]
<1>1. /\ who'[r] = who[r] /\ now'[r] = now[r] /\ prior'[r] = prior[r] /\ u \in Users
      /\ phase[r] \in {"evict", "select", "insert", "prune", "set"} \/ Get(r)
  <2>1. ~ \E v \in Users : Begin(r, v)
    BY DEF Begin, Go, TodInv, TodTypeOK
  <2>2. ~Set(r)
    BY DEF Set, Go, TodInv, TodTypeOK
  <2>3. /\ UNCHANGED <<who[r], now[r], prior[r]>>
        /\ phase'[r] = phase[r] \/ Get(r) \/ phase[r] \in {"evict", "select", "insert", "prune"}
    BY <2>1, <2>2, RequestFrame DEF TodInv
  <2>4. phase[r] # "new"
    BY <2>3 DEF Get
  <2> QED
    BY <2>3, <2>4 DEF TodInv, TodTypeOK
<1>2. CASE cache'[u] # cache[u]
  <2>1. PICK q \in Requests :
           /\ phase[q] = "set"
           /\ cache'[u] = [tea |-> choice[q], date |-> now[q],
                           expiresAt |-> nextMidnight(now[q]), by |-> q]
    BY <1>1, <1>2, CacheChanges DEF TodInv
  <2>2. q \in prior[r]
    BY <1>1, <2>1
  <2> QED
    BY <2>1, <2>2 DEF TodInv, PriorInv
<1>3. CASE cache'[u] = cache[u] /\ ~Get(r)
  BY <1>1, <1>3 DEF TodInv, MissInv
<1>4. CASE cache'[u] = cache[u] /\ Get(r)
  BY <1>1, <1>4 DEF Get, Go, TodInv, TodTypeOK
<1> QED
  BY <1>2, <1>3, <1>4

LEMMA AnswerStep == TodInv /\ [TodNext]_todVars => NeverYesterdaysTea'
<1> SUFFICES ASSUME TodInv, [TodNext]_todVars, NEW r \in Requests, phase'[r] = "done"
             PROVE  Day(answer'[r].date) >= Day(now'[r]) /\ answer'[r].date <= clock'
  BY DEF NeverYesterdaysTea, Day
<1>1. clock \in Nat /\ clock' \in Nat /\ clock <= clock' /\ now \in [Requests -> Nat]
  BY ClockMonotone, TeaOfTheDayAssumption DEF TodInv, TodTypeOK, Times
<1>2. CASE phase[r] = "done"
  <2>1. answer'[r] = answer[r] /\ now'[r] = now[r]
    BY <1>2 DEF TodInv, TodTypeOK, TodNext, Tick, Begin, Get, Evict, Select, SelectFails,
         InsertConsumption, DeleteConsumptionsBefore, RecordFails, Set, DeleteTea, todVars
  <2>2. answer[r].date \in Nat
    BY <1>2, TeaOfTheDayAssumption DEF TodInv, TodTypeOK, Answers, Times
  <2> QED
    BY <1>1, <1>2, <2>1, <2>2 DEF TodInv, NeverYesterdaysTea
<1>3. CASE phase[r] # "done" /\ Get(r)
  <2> DEFINE e == cache[who[r]]
  <2>1. who[r] \in Users
    BY <1>3 DEF Get, TodInv, TodTypeOK
  <2>2. /\ e # None /\ ~Expired(e, now[r]) /\ now' = now
        /\ answer'[r] = [tea |-> e.tea, date |-> e.date]
    BY <1>3 DEF Get, Go, TodInv, TodTypeOK
  <2>3. e.date \in Nat /\ e.expiresAt = nextMidnight(e.date) /\ e.date <= clock
        /\ e.expiresAt \in Nat
    BY <2>1, <2>2, EntryParts, TeaOfTheDayAssumption DEF TodInv, CacheInv, Times
  <2>4. now[r] \in Nat /\ now[r] < nextMidnight(e.date)
    BY <1>1, <2>2, <2>3 DEF Expired
  <2>5. Day(now[r]) <= Day(e.date) /\ Day(now[r]) \in Nat /\ Day(e.date) \in Nat
    BY <2>3, <2>4, BeforeMidnight, DayOf
  <2> QED
    BY <1>1, <2>2, <2>3, <2>5
<1>4. CASE phase[r] # "done" /\ Set(r)
  <2>1. answer'[r].date = now[r] /\ now' = now /\ clock' = clock
    BY <1>4 DEF Set, TodInv, TodTypeOK
  <2>2. Day(now[r]) \in Nat
    BY <1>1, DayOf
  <2> QED
    BY <1>1, <2>1, <2>2 DEF TodInv, NowInv
<1>5. phase[r] # "done" => Get(r) \/ Set(r)
  <2>1. ~ \E v \in Users : Begin(r, v)
    BY DEF Begin, Go, TodInv, TodTypeOK
  <2> QED
    BY <2>1, RequestFrame DEF TodInv
<1> QED
  BY <1>2, <1>3, <1>4, <1>5

LEMMA HistoryStep == TodInv /\ [TodNext]_todVars => HistoryKept'
<1> SUFFICES ASSUME TodInv, [TodNext]_todVars, NEW row \in ever',
                    row.ts >= clock' - Retention, row.tea \notin gone'
             PROVE  row \in drunk'
  BY DEF HistoryKept
<1>1. clock \in Nat /\ clock' \in Nat /\ clock <= clock' /\ now \in [Requests -> Nat]
      /\ Retention \in Nat
  BY ClockMonotone, TeaOfTheDayAssumption DEF TodInv, TodTypeOK, Times
<1>2. TodTypeOK'
  BY TodTypeStep DEF TodInv
<1>3. row.ts \in Nat
  BY <1>2, TeaOfTheDayAssumption DEF TodTypeOK, Consumptions, Times
<1>4. row \in ever => row \in drunk
  <2>1. row.tea \notin gone
    BY DEF TodNext, Tick, Begin, Get, Evict, Select, SelectFails, InsertConsumption,
           DeleteConsumptionsBefore, RecordFails, Set, DeleteTea, todVars
  <2> QED
    BY <1>1, <1>3, <2>1 DEF TodInv, HistoryKept
<1>5. ASSUME NEW r \in Requests, InsertConsumption(r) PROVE row \in drunk'
  BY <1>4, <1>5 DEF InsertConsumption
<1>6. ASSUME NEW r \in Requests, DeleteConsumptionsBefore(r) PROVE row \in drunk'
  <2>1. clock' = clock /\ row \in drunk /\ drunk' = {w \in drunk : ~Stale(w, r)}
    BY <1>4, <1>6 DEF DeleteConsumptionsBefore
  <2>2. now[r] <= clock
    BY DEF TodInv, NowInv
  <2>3. ~Stale(row, r)
    BY <1>1, <1>3, <2>1, <2>2 DEF Stale
  <2> QED
    BY <2>1, <2>3
<1>7. ASSUME NEW x \in Teas, DeleteTea(x) PROVE row \in drunk'
  BY <1>4, <1>7 DEF DeleteTea
<1>8. CASE UNCHANGED <<drunk, ever>>
  BY <1>4, <1>8
<1> QED
  BY <1>5, <1>6, <1>7, <1>8 DEF TodNext, Tick, Begin, Get, Evict, Select, SelectFails, RecordFails,
                          Set, todVars

-----------------------------------------------------------------------------

\* The inductive invariant of the tea of the day.
THEOREM TodInvariant == TodSpec => []TodInv
<1>1. TodInv /\ [TodNext]_todVars => TodInv'
  BY TodTypeStep, NowStep, CacheStep, PriorStep, MissStep, AnswerStep, HistoryStep DEF TodInv
<1> QED
  BY <1>1, TodInvInit, PTL DEF TodSpec

\* Queries, cache and consumptions keep their types.
THEOREM TodTypeCorrect == TodSpec => []TodTypeOK
  BY TodInvariant, PTL DEF TodInv

\* However many queries overlap around midnight, none is answered with the tea of
\* a day before the one it began in.
THEOREM NoStaleTea == TodSpec => []NeverYesterdaysTea
  BY TodInvariant, PTL DEF TodInv

\* Whatever queries prune and however slow they are, a consumption within the
\* retention leaves the table only with its tea.
THEOREM RetentionKept == TodSpec => []HistoryKept
  BY TodInvariant, PTL DEF TodInv

\* The lazy deletion of Get removes no entry that is still good.
THEOREM EvictionSafe == TodSpec => EvictsOnlyExpired
<1>1. TodInv /\ [TodNext]_todVars => [\A u \in Users : Fresh(u) => cache'[u] # None]_todVars
  <2> SUFFICES ASSUME TodInv, [TodNext]_todVars, NEW u \in Users, Fresh(u), cache'[u] = None
               PROVE  FALSE
    OBVIOUS
  <2>1. cache'[u] # cache[u]
    BY DEF Fresh
  <2>2. PICK r \in Requests : Expired(cache[u], now[r])
    <3>1. ASSUME NEW r \in Requests, phase[r] = "set"
          PROVE  [tea |-> choice[r], date |-> now[r],
                  expiresAt |-> nextMidnight(now[r]), by |-> r] # None
      <4>1. choice[r] \in Teas /\ now[r] \in Times
        BY <3>1 DEF TodInv, TodTypeOK
      <4> QED
        BY <4>1, EntryType, NoneIsNoEntry
    <3>2. \/ \E r \in Requests :
               /\ phase[r] = "set"
               /\ cache'[u] = [tea |-> choice[r], date |-> now[r],
                               expiresAt |-> nextMidnight(now[r]), by |-> r]
          \/ \E r \in Requests : Expired(cache[u], now[r])
      BY <2>1, CacheChanges DEF TodInv
    <3> QED
      BY <3>1, <3>2
  <2>3. now[r] <= clock /\ now[r] \in Nat /\ clock \in Nat /\ cache[u].expiresAt \in Nat
    BY EntryParts, TeaOfTheDayAssumption DEF TodInv, NowInv, TodTypeOK, Times, Fresh
  <2> QED
    BY <2>2, <2>3 DEF Fresh, Expired
<1> QED
  BY <1>1, TodInvariant, PTL DEF TodSpec, EvictsOnlyExpired

\* A good entry is replaced only by a query that overlapped the one that stored it.
THEOREM ReplacementOnlyInRace == TodSpec => ReplacedOnlyInRace
<1>1. TodInv /\ [TodNext]_todVars =>
        [\A u \in Users : Fresh(u) /\ cache'[u] # cache[u] =>
            cache[u].by \notin prior[cache'[u].by]]_todVars
  <2> SUFFICES ASSUME TodInv, [TodNext]_todVars, NEW u \in Users, Fresh(u),
                      cache'[u] # cache[u], cache[u].by \in prior[cache'[u].by]
               PROVE  FALSE
    OBVIOUS
  <2>1. cache[u] # None /\ clock < cache[u].expiresAt
        /\ cache[u].expiresAt \in Nat /\ clock \in Nat
    BY EntryParts, TeaOfTheDayAssumption DEF TodInv, TodTypeOK, Times, Fresh, Expired
  <2>2. \A r \in Requests : now[r] <= clock /\ now[r] \in Nat
    BY TeaOfTheDayAssumption DEF TodInv, NowInv, TodTypeOK, Times
  <2>3. \A r \in Requests : ~Expired(cache[u], now[r])
    BY <2>1, <2>2 DEF Expired
  <2>4. PICK r \in Requests : phase[r] = "set" /\ who[r] = u /\ cache'[u].by = r
    <3> TodTypeOK
      BY DEF TodInv
    <3>1. \/ \E r \in Requests :
               /\ phase[r] = "set" /\ who[r] = u
               /\ cache'[u] = [tea |-> choice[r], date |-> now[r],
                               expiresAt |-> nextMidnight(now[r]), by |-> r]
          \/ \E r \in Requests : Expired(cache[u], now[r])
      BY CacheChanges
    <3>2. PICK r \in Requests :
             /\ phase[r] = "set" /\ who[r] = u
             /\ cache'[u] = [tea |-> choice[r], date |-> now[r],
                             expiresAt |-> nextMidnight(now[r]), by |-> r]
      BY <2>3, <3>1
    <3>3. cache'[u].by = r
      BY <3>2
    <3> QED
      BY <3>2, <3>3
  <2> QED
    BY <2>1, <2>3, <2>4 DEF TodInv, MissInv
<1> QED
  BY <1>1, TodInvariant, PTL DEF TodSpec, ReplacedOnlyInRace

=============================================================================
