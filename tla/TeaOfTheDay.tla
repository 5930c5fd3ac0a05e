---------------------------- MODULE TeaOfTheDay ----------------------------
(***************************************************************************)
(* The teaOfTheDay query (schema.resolvers.go), its per-user cache         *)
(* (teaoftheday_cache.go) and the consumption history it writes            *)
(* (internal/consumption, pkg/pgstore).                                    *)
(*                                                                         *)
(* A request reads the clock once, at its beginning, and carries that time *)
(* through the cache lookup, the lazy eviction, the selection (which waits *)
(* for the database, the weather service and the language model), the two  *)
(* statements that record the consumption, and the final Set.  Requests    *)
(* run concurrently, and midnight may pass while one is under way.         *)
(*                                                                         *)
(* Which tea wins is left open: with the scores of the language model      *)
(* unknown, any tea of the user's collections may.                         *)
(***************************************************************************)
EXTENDS Integers

CONSTANTS Users, Teas, Requests,
          DayLength,   \* units of time in a day
          Retention,   \* how long consumptions are kept, in units of time
          MaxTime,     \* bound on the clock
          None         \* no entry, tea or user

ASSUME TeaOfTheDayAssumption ==
    /\ DayLength \in Nat \ {0}
    /\ Retention \in Nat \ {0}
    /\ MaxTime \in Nat
    /\ None \notin Users \union Teas

VARIABLES
    clock,      \* time.Now()
    cache,      \* cache[u]: the entry of user u, or None
    phase,      \* phase[r]: what request r does next
    who,        \* who[r]: the user of r
    now,        \* now[r]: the time r read when it began
    choice,     \* choice[r]: the tea selected
    answer,     \* answer[r]: the tea and date r returned
    drunk,      \* the rows of the consumptions table
    gone,       \* the teas deleted by deleteTea
    ever,       \* history: every consumption inserted
    prior       \* history: the requests that had returned when r began

todVars == <<clock, cache, phase, who, now, choice, answer, drunk, gone, ever, prior>>

Times == 0 .. MaxTime
Day(t) == t \div DayLength

\* Mutant: the entry lives for a day, whenever it was made.
nextMidnightADayLater(t) == t + DayLength

nextMidnight(t) == (Day(t) + 1) * DayLength

\* A cached value, and when it expires; "by" is history.
Entries == [tea : Teas, date : Times, expiresAt : {nextMidnight(t) : t \in Times}, by : Requests]
Answers == [tea : Teas, date : Times]
Consumptions == [user : Users, tea : Teas, ts : Times]

ASSUME NoneIsNoEntry == None \notin Entries

Phases == {"new", "get", "evict", "select", "insert", "prune", "set", "done", "failed"}

TodTypeOK ==
    /\ clock \in Times
    /\ cache \in [Users -> Entries \union {None}]
    /\ phase \in [Requests -> Phases]
    /\ who \in [Requests -> Users \union {None}]
    /\ now \in [Requests -> Times]
    /\ choice \in [Requests -> Teas \union {None}]
    /\ answer \in [Requests -> Answers \union {None}]
    /\ drunk \subseteq ever
    /\ gone \subseteq Teas
    /\ ever \subseteq Consumptions
    /\ prior \in [Requests -> SUBSET Requests]
    /\ \A r \in Requests :
         /\ phase[r] # "new" => who[r] \in Users
         /\ phase[r] \in {"insert", "prune", "set"} => choice[r] \in Teas
         /\ phase[r] = "done" => answer[r] \in Answers

TodInit ==
    /\ clock = 0
    /\ cache = [u \in Users |-> None]
    /\ phase = [r \in Requests |-> "new"]
    /\ who = [r \in Requests |-> None]
    /\ now = [r \in Requests |-> 0]
    /\ choice = [r \in Requests |-> None]
    /\ answer = [r \in Requests |-> None]
    /\ drunk = {}
    /\ gone = {}
    /\ ever = {}
    /\ prior = [r \in Requests |-> {}]

-----------------------------------------------------------------------------

Tick ==
    /\ clock < MaxTime
    /\ clock' = clock + 1
    /\ UNCHANGED <<cache, phase, who, now, choice, answer, drunk, gone, ever, prior>>

Go(r, p) == phase' = [phase EXCEPT ![r] = p]

\* The request is authenticated as user u and reads the clock.
Begin(r, u) ==
    /\ phase[r] = "new"
    /\ who' = [who EXCEPT ![r] = u]
    /\ now' = [now EXCEPT ![r] = clock]
    /\ prior' = [prior EXCEPT ![r] = {q \in Requests : phase[q] = "done"}]
    /\ Go(r, "get")
    /\ UNCHANGED <<clock, cache, choice, answer, drunk, gone, ever>>

\* Expired at time t: !t.Before(expiresAt).
Expired(e, t) == t >= e.expiresAt

\* Mutant: the lookup always misses.
GetMisses(r) ==
    /\ phase[r] = "get"
    /\ Go(r, "select")
    /\ UNCHANGED <<clock, cache, who, now, choice, answer, drunk, gone, ever, prior>>

\* Get under the read lock: miss, expired or hit, judged by the request's time.
Get(r) ==
    LET e == cache[who[r]] IN
    /\ phase[r] = "get"
    /\ \/ /\ e = None
          /\ Go(r, "select")
          /\ UNCHANGED answer
       \/ /\ e # None
          /\ Expired(e, now[r])
          /\ Go(r, "evict")
          /\ UNCHANGED answer
       \/ /\ e # None
          /\ ~Expired(e, now[r])
          /\ answer' = [answer EXCEPT ![r] = [tea |-> e.tea, date |-> e.date]]
          /\ Go(r, "done")
    /\ UNCHANGED <<clock, cache, who, now, choice, drunk, gone, ever, prior>>

\* Mutant: no recheck under the write lock.
EvictUnchecked(r) ==
    /\ phase[r] = "evict"
    /\ cache' = [cache EXCEPT ![who[r]] = None]
    /\ Go(r, "select")
    /\ UNCHANGED <<clock, who, now, choice, answer, drunk, gone, ever, prior>>

\* The lazy deletion of Get: the write lock is taken afresh, so the entry is
\* looked at again.
Evict(r) ==
    LET e == cache[who[r]] IN
    /\ phase[r] = "evict"
    /\ cache' = IF e # None /\ Expired(e, now[r])
                THEN [cache EXCEPT ![who[r]] = None] ELSE cache
    /\ Go(r, "select")
    /\ UNCHANGED <<clock, who, now, choice, answer, drunk, gone, ever, prior>>

\* Read the user's collections, the weather, the recent consumptions and the
\* context scores, and select a tea; the last three are best-effort.  The tea
\* was there when the collections were read; it may be deleted at any time.
Select(r) ==
    /\ phase[r] = "select"
    /\ \E x \in Teas \ gone : choice' = [choice EXCEPT ![r] = x]
    /\ Go(r, "insert")
    /\ UNCHANGED <<clock, cache, who, now, answer, drunk, gone, ever, prior>>

\* The collections cannot be read, or hold no tea: the query fails.
SelectFails(r) ==
    /\ phase[r] = "select"
    /\ Go(r, "failed")
    /\ UNCHANGED <<clock, cache, who, now, choice, answer, drunk, gone, ever, prior>>

\* Record, first statement: INSERT ... ON CONFLICT DO NOTHING; the foreign key
\* makes it fail for a tea that was deleted meanwhile.
InsertConsumption(r) ==
    LET row == [user |-> who[r], tea |-> choice[r], ts |-> now[r]] IN
    /\ phase[r] = "insert"
    /\ choice[r] \notin gone
    /\ drunk' = drunk \union {row}
    /\ ever' = ever \union {row}
    /\ Go(r, "prune")
    /\ UNCHANGED <<clock, cache, who, now, choice, answer, gone, prior>>

\* Mutant: rows younger than the retention are deleted.
StaleAtHalf(row, r) == row.user = who[r] /\ row.ts < now[r] - Retention \div 2

\* The rows the second statement of Record deletes: ts < cutoff.
Stale(row, r) == row.user = who[r] /\ row.ts < now[r] - Retention

\* Record, second statement.
DeleteConsumptionsBefore(r) ==
    /\ phase[r] = "prune"
    /\ drunk' = {row \in drunk : ~Stale(row, r)}
    /\ Go(r, "set")
    /\ UNCHANGED <<clock, cache, who, now, choice, answer, gone, ever, prior>>

\* Either statement fails: Record returns the error, the resolver logs it and
\* goes on.
RecordFails(r) ==
    /\ phase[r] \in {"insert", "prune"}
    /\ Go(r, "set")
    /\ UNCHANGED <<clock, cache, who, now, choice, answer, drunk, gone, ever, prior>>

\* Set under the write lock, with the time the request began, and return.
Set(r) ==
    /\ phase[r] = "set"
    /\ cache' = [cache EXCEPT ![who[r]] =
                    [tea |-> choice[r], date |-> now[r],
                     expiresAt |-> nextMidnight(now[r]), by |-> r]]
    /\ answer' = [answer EXCEPT ![r] = [tea |-> choice[r], date |-> now[r]]]
    /\ Go(r, "done")
    /\ UNCHANGED <<clock, who, now, choice, drunk, gone, ever, prior>>

\* deleteTea: the tea's consumptions go with its row (ON DELETE CASCADE); the
\* cache is not told.
DeleteTea(x) ==
    /\ x \notin gone
    /\ gone' = gone \union {x}
    /\ drunk' = {row \in drunk : row.tea # x}
    /\ UNCHANGED <<clock, cache, phase, who, now, choice, answer, ever, prior>>

TodNext ==
    \/ Tick
    \/ \E x \in Teas : DeleteTea(x)
    \/ \E r \in Requests :
         \/ \E u \in Users : Begin(r, u)
         \/ Get(r) \/ Evict(r) \/ Select(r) \/ SelectFails(r)
         \/ InsertConsumption(r) \/ DeleteConsumptionsBefore(r) \/ RecordFails(r)
         \/ Set(r)

TodSpec == TodInit /\ [][TodNext]_todVars

-----------------------------------------------------------------------------
(***************************************************************************)
(* What the query must get right.                                          *)
(***************************************************************************)

\* No request is answered with the tea of a day before the one it began in,
\* nor with one dated in the future.
NeverYesterdaysTea ==
    \A r \in Requests : phase[r] = "done" =>
        /\ Day(answer[r].date) >= Day(now[r])
        /\ answer[r].date <= clock

\* u has an entry that has not expired by the clock.
Fresh(u) == cache[u] # None /\ ~Expired(cache[u], clock)

\* The lazy deletion never removes an entry that is still good, even one that
\* another request stored between the two critical sections of Get.
EvictsOnlyExpired ==
    [][\A u \in Users : Fresh(u) => cache'[u] # None]_todVars

\* An entry that is still good is replaced only by a request that overlapped
\* the one that stored it: whoever comes later is served from the cache.
ReplacedOnlyInRace ==
    [][\A u \in Users : Fresh(u) /\ cache'[u] # cache[u] =>
          cache[u].by \notin prior[cache'[u].by]]_todVars

\* Every consumption recorded within the retention window is still in the
\* table, unless its tea was deleted: pruning, whose cutoff is the time a slow
\* request began, deletes nothing that counts.
HistoryKept ==
    \A row \in ever : row.ts >= clock - Retention /\ row.tea \notin gone => row \in drunk

=============================================================================
