------------------------------ MODULE Alerter ------------------------------
(***************************************************************************)
(* The expiration alerts: internal/expiration walks through all users,     *)
(* their collections and the records in them, and hands a push message for *)
(* each expired record to every device of the user (internal/apns).  The   *)
(* weekly loop calls Run; the mutation "send" does too, and since two runs *)
(* share no state the loop's is the one modelled.  Devices are bound and   *)
(* their tokens registered by internal/managers/notification.              *)
(*                                                                         *)
(* Every list Run works on is the result of one statement, read when the   *)
(* run gets there: the requests of Collections and the devices change the  *)
(* tables between any two of its steps.                                    *)
(***************************************************************************)
EXTENDS Collections

CONSTANTS DeviceIds,
          PushTokens,  \* tokens given by Apple; a new device has its identifier for one
          Stops,       \* calls of Stop
          RunsMayFail, \* whether a statement or a push of Run may fail
          MaxTime      \* bound on the clock

ASSUME AlerterAssumption ==
    /\ MaxTime \in Nat
    /\ RunsMayFail \in BOOLEAN
    /\ DeviceIds \intersect PushTokens = {}
    /\ None \notin DeviceIds \union PushTokens

Tokens == DeviceIds \union PushTokens
NoDevice == [user |-> None, token |-> None]

\* A push message: to whom, about which record of which collection, to which token.
Alerts == Users \X CollectionIds \X RecordIds \X Tokens

VARIABLES
    clock,
    device,  \* device[d]: d's row in devices
    loop,    \* "off", "select", "run" (inside Run), "closing" or "closed"
    tick,    \* whether the ticker's channel, of capacity one, holds a tick
    stop,    \* stop[s]: call s of Stop: "idle", "waiting", "returned" or "panic"
    result,  \* of Run: "none" before the first, "running", "ok" or "error"
    at,      \* the user, collection and record it is at
    left,    \* the users, collections, records and tokens it has still to go through
    pushed,  \* history: the messages the current or last run handed to Apple
    due      \* history: the messages that have been due ever since it began

devVars == <<clock, device>>
loopVars == <<loop, tick, stop>>
runVars == <<result, at, left, pushed>>
alertVars == <<colVars, devVars, loopVars, runVars, due>>

Nowhere == [user |-> None, col |-> None, rec |-> None]
Nothing == [users |-> {}, cols |-> {}, recs |-> {}, tokens |-> {}]

\* The rows of devices have distinct tokens, and Run is only ever inside the loop.
AlerterTypeOK ==
    /\ clock \in 0 .. MaxTime
    /\ device \in [DeviceIds -> [user : Users, token : Tokens] \union {NoDevice}]
    /\ \A d, e \in DeviceIds :
         d # e /\ device[d] # NoDevice => device[d].token # device[e].token
    /\ loop \in {"off", "select", "run", "closing", "closed"}
    /\ tick \in BOOLEAN
    /\ stop \in [Stops -> {"idle", "waiting", "returned", "panic"}]
    /\ result \in {"none", "running", "ok", "error"}
    /\ loop = "run" \/ result # "running"
    /\ result # "running" => left = Nothing
    /\ left \in [users : SUBSET Users, cols : SUBSET CollectionIds,
                 recs : SUBSET (RecordIds \X Expirations), tokens : SUBSET Tokens]
    /\ at \in [user : Users \union {None}, col : CollectionIds \union {None},
               rec : RecordIds \union {None}]
    /\ pushed \subseteq Alerts

\* The messages the tables call for.
Due ==
    {a \in Alerts :
        /\ owner[a[2]] = a[1] /\ <<a[2], a[3]>> \in items
        /\ record[a[3]].exp < clock
        /\ \E d \in DeviceIds : device[d] = [user |-> a[1], token |-> a[4]]}

AlertInit ==
    /\ ColInit
    /\ clock = 0
    /\ device \in {f \in [DeviceIds -> [user : Users, token : Tokens] \union {NoDevice}] :
                     \A d \in DeviceIds : f[d] # NoDevice => f[d].token = d}
    /\ loop = "off"
    /\ tick = FALSE
    /\ stop = [s \in Stops |-> "idle"]
    /\ result = "none"
    /\ at = Nowhere
    /\ left = Nothing
    /\ pushed = {}
    /\ due = {}

-----------------------------------------------------------------------------
(***************************************************************************)
(* Run, one statement or push at a time, for each of the nested loops.     *)
(***************************************************************************)

\* The three lists, as the statements return them: a user's collections, a
\* collection's records with their dates, a user's tokens.
CollectionsOf(u) == {c \in CollectionIds : owner[c] = u}

RecordsOf(c) == {<<p[2], record[p[2]].exp>> : p \in {i \in items : i[1] = c}}

TokensOf(u) == {device[d].token : d \in {e \in DeviceIds : device[e].user = u}}

\* GetUsers.
RunBegins ==
    /\ result' = "running"
    /\ left' = [left EXCEPT !.users = Users]
    /\ pushed' = {}
    /\ UNCHANGED at  \* nowhere yet

\* processUserCollections for the next user.
processUserCollections ==
    /\ left.tokens = {} /\ left.recs = {} /\ left.cols = {}
    /\ \E u \in left.users :
         /\ at' = [Nowhere EXCEPT !.user = u]
         /\ left' = [left EXCEPT !.users = @ \ {u}, !.cols = CollectionsOf(u)]
    /\ UNCHANGED <<result, pushed>>

\* processCollectionRecords for the next collection.
processCollectionRecords ==
    /\ left.tokens = {} /\ left.recs = {}
    /\ \E c \in left.cols :
         /\ at' = [at EXCEPT !.col = c]
         /\ left' = [left EXCEPT !.cols = @ \ {c}, !.recs = RecordsOf(c)]
    /\ UNCHANGED <<result, pushed>>

\* Mutant: records are not in the order of their dates, and the first that has
\* not expired ends the loop.
processRecordBreaks ==
    /\ left.tokens = {}
    /\ \E q \in left.recs :
         /\ at' = [at EXCEPT !.rec = q[1]]
         /\ left' = [left EXCEPT !.recs = IF q[2] < clock THEN @ \ {q} ELSE {},
                                 !.tokens = IF q[2] < clock THEN TokensOf(at.user) ELSE {}]
    /\ UNCHANGED <<result, pushed>>

\* processRecord for the next record, by expiration: Send lists the user's
\* tokens if the record has expired.
processRecord ==
    /\ left.tokens = {}
    /\ \E q \in left.recs :
         /\ \A o \in left.recs : q[2] <= o[2]
         /\ at' = [at EXCEPT !.rec = q[1]]
         /\ left' = [left EXCEPT !.recs = @ \ {q},
                                 !.tokens = IF q[2] < clock THEN TokensOf(at.user) ELSE {}]
    /\ UNCHANGED <<result, pushed>>

\* One push.  A message Apple refuses is logged, and the loop goes on.
PushWithContext ==
    \E tok \in left.tokens :
        /\ pushed' = pushed \union {<<at.user, at.col, at.rec, tok>>}
        /\ left' = [left EXCEPT !.tokens = @ \ {tok}]
        /\ UNCHANGED <<result, at>>

\* A statement or a push that fails ends the run.
RunFails ==
    /\ RunsMayFail
    /\ result' = "error"
    /\ left' = Nothing
    /\ at' = Nowhere
    /\ UNCHANGED pushed

RunEnds ==
    /\ left = Nothing
    /\ result' = "ok"
    /\ at' = Nowhere
    /\ UNCHANGED <<left, pushed>>

RunStep ==
    /\ result = "running"
    /\ \/ processUserCollections \/ processCollectionRecords
       \/ processRecord \/ PushWithContext
       \/ RunFails \/ RunEnds

\* What has been due since the run began.
Prune == due' = IF result # "running" /\ result' = "running" THEN Due ELSE due \intersect Due'

-----------------------------------------------------------------------------
(***************************************************************************)
(* The loop, its ticker and Stop.                                          *)
(***************************************************************************)

Start == loop = "off" /\ loop' = "select" /\ UNCHANGED <<tick, stop, runVars>>

\* A tick that finds the ticker's channel full is dropped.
Tick == loop # "off" /\ tick' = TRUE /\ UNCHANGED <<loop, stop, runVars>>

LoopTick ==
    /\ loop = "select" /\ tick
    /\ loop' = "run" /\ tick' = FALSE
    /\ RunBegins
    /\ UNCHANGED stop

\* Mutant: the loop ends when a run fails.
LoopReturnEnds ==
    /\ loop = "run" /\ result # "running"
    /\ loop' = IF result = "error" THEN "closing" ELSE "select"
    /\ UNCHANGED <<tick, stop, runVars>>

\* An error of the run is logged.
LoopReturn ==
    /\ loop = "run" /\ result # "running"
    /\ loop' = "select"
    /\ UNCHANGED <<tick, stop, runVars>>

\* Stop sends on a channel without buffer; once the loop has closed it, that
\* panics.
Stop(s) ==
    /\ stop[s] = "idle"
    /\ stop' = [stop EXCEPT ![s] = IF loop = "closed" THEN "panic" ELSE "waiting"]
    /\ UNCHANGED <<loop, tick, runVars>>

\* Mutant: a pending tick goes before Stop.
LoopStopAfterTick ==
    \E s \in Stops :
        /\ loop = "select" /\ stop[s] = "waiting" /\ ~tick
        /\ stop' = [stop EXCEPT ![s] = "returned"]
        /\ loop' = "closing"
        /\ UNCHANGED <<tick, runVars>>

LoopStop ==
    \E s \in Stops :
        /\ loop = "select" /\ stop[s] = "waiting"
        /\ stop' = [stop EXCEPT ![s] = "returned"]
        /\ loop' = "closing"
        /\ UNCHANGED <<tick, runVars>>

\* close(a.stop): senders that still wait panic.
LoopClose ==
    /\ loop = "closing"
    /\ loop' = "closed"
    /\ stop' = [s \in Stops |-> IF stop[s] = "waiting" THEN "panic" ELSE stop[s]]
    /\ UNCHANGED <<tick, runVars>>

LoopStep ==
    \/ LoopTick \/ LoopReturn \/ LoopStop \/ LoopClose
    \/ RunStep /\ UNCHANGED loopVars

-----------------------------------------------------------------------------
(***************************************************************************)
(* Devices.                                                                *)
(***************************************************************************)

\* INSERT ... ON CONFLICT (id) DO NOTHING.
BindDevice(d, u) ==
    /\ device[d] = NoDevice
    /\ device' = [device EXCEPT ![d] = [user |-> u, token |-> d]]
    /\ UNCHANGED clock

\* UPDATE ... WHERE id: nothing without a row; tokens are unique.
RegisterDeviceToken(d, tok) ==
    /\ device[d] # NoDevice
    /\ \A e \in DeviceIds : device[e].token # tok
    /\ device' = [device EXCEPT ![d].token = tok]
    /\ UNCHANGED clock

Advance == clock < MaxTime /\ clock' = clock + 1 /\ UNCHANGED device

DevicesNext ==
    \/ \E d \in DeviceIds, u \in Users : BindDevice(d, u)
    \/ \E d \in DeviceIds, tok \in PushTokens : RegisterDeviceToken(d, tok)
    \/ Advance

AlertNext ==
    /\ \/ (Start \/ Tick \/ LoopStep) /\ UNCHANGED <<colVars, devVars>>
       \/ (\E s \in Stops : Stop(s)) /\ UNCHANGED <<colVars, devVars>>
       \/ DevicesNext /\ UNCHANGED <<colVars, loopVars, runVars>>
       \/ ColNext /\ UNCHANGED <<devVars, loopVars, runVars>>
    /\ Prune

\* main starts the alerter, the ticker ticks for ever, and the loop goroutine
\* runs; a select whose two cases are ready over and over takes each of them.
AlertFairness ==
    /\ WF_alertVars(Start /\ UNCHANGED <<colVars, devVars>> /\ Prune)
    /\ WF_alertVars(Tick /\ UNCHANGED <<colVars, devVars>> /\ Prune)
    /\ WF_alertVars(LoopStep /\ UNCHANGED <<colVars, devVars>> /\ Prune)
    /\ SF_alertVars(LoopStop /\ UNCHANGED <<colVars, devVars>> /\ Prune)

AlertSpec == AlertInit /\ [][AlertNext]_alertVars /\ AlertFairness

-----------------------------------------------------------------------------
(***************************************************************************)
(* What the alerts must get right.                                         *)
(***************************************************************************)

\* A run that ends without an error has handed over every message that was due
\* when it began and stayed due: reading the lists one by one, while requests
\* change other rows, skips none of them.
RunCovers == result = "ok" => due \subseteq pushed

\* A message that stays due is handed over by the loop again and again, unless
\* the loop was stopped or its runs keep failing: one failed run does not end it.
AlertedEveryWeek ==
    \A a \in Alerts :
        <>[](a \in Due) =>
            \/ []<>(a \in pushed)
            \/ []<>(result = "error") /\ []<>(result = "running")
            \/ <>(\E s \in Stops : stop[s] = "returned")

\* Stop returns, or panics because another call has ended the loop; it does not
\* wait for ever, since a run ends and the loop then takes it.
StopReturns == \A s \in Stops : stop[s] = "waiting" ~> stop[s] # "waiting"

=============================================================================
