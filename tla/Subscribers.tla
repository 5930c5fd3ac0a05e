---------------------------- MODULE Subscribers ----------------------------
(***************************************************************************)
(* The subscriber registries of the tea and tag managers                   *)
(* (internal/managers/*/subscribers): one registry per topic, each a slice *)
(* of {done, ch} pairs under a sync.RWMutex.                               *)
(*                                                                         *)
(* A subscription is one GraphQL subscription operation: a context, an     *)
(* unbuffered channel and the reader that drains it.  One dispatcher       *)
(* goroutine (the manager's loop) calls SendAll and CleanDone; Push is     *)
(* called by the goroutine that resolves the subscription.                 *)
(*                                                                         *)
(* The dispatcher's two operations are modelled step by step, because a    *)
(* context can be cancelled, and a reader can come or go, between any two  *)
(* of their steps.                                                         *)
(***************************************************************************)
EXTENDS Integers, Sequences

CONSTANTS Clients,    \* subscriptions, each with a channel of its own
          Topics,     \* one registry per topic
          Messages,   \* what is broadcast
          NoTopic,    \* the topic of a client that has not subscribed
          NoMessage   \* the message register of an idle dispatcher

ASSUME SubscribersAssumption ==
    /\ NoTopic \notin Topics
    /\ NoMessage \notin Messages

VARIABLES
    subs,       \* subs[t]: the slice of topic t
    topicOf,    \* topicOf[c]: the registry client c was pushed to
    ctxDone,    \* the clients whose context is cancelled (their done channel is ready)
    closed,     \* the clients whose channel CleanDone has closed
    reader,     \* reader[c]: where the goroutine draining c's channel stands
    rcvd,       \* rcvd[c]: the messages c has received, in order
    pc,         \* where the dispatcher stands
    cur,        \* the topic whose registry the dispatcher has locked
    msg,        \* the message SendAll is delivering
    pos,        \* the loop variable of the dispatcher's current for loop
    forRemove,  \* CleanDone's local slice of indexes to remove
    sent,       \* history: sent[t] is what SendAll was called with on t
    base        \* history: base[c] = Len(sent[topicOf[c]]) when c was pushed

clientVars == <<topicOf, ctxDone, closed, reader, rcvd, base>>
subVars == <<subs, topicOf, ctxDone, closed, reader, rcvd,
             pc, cur, msg, pos, forRemove, sent, base>>

-----------------------------------------------------------------------------

(***************************************************************************)
(* Readers.  "new": not subscribed; "busy": between two receives (the      *)
(* resolver has not started reading yet, or a response is being written);  *)
(* "await": in the generated select on the channel and the context;        *)
(* "gone": the select saw the context done or the channel closed, and      *)
(* nobody receives from the channel any more.                              *)
(***************************************************************************)
ReaderStates == {"new", "busy", "await", "gone"}

(***************************************************************************)
(* Dispatcher.  "idle": in neither operation; "send": in SendAll's loop,   *)
(* holding the read lock; "scan", "swap": in CleanDone's first and second  *)
(* loop, holding the write lock; "panic": the goroutine panicked, which    *)
(* ends the process.                                                       *)
(***************************************************************************)
DispatcherStates == {"idle", "send", "scan", "swap", "panic"}

\* The dispatcher holds topic t's mutex, shared or exclusive: Push must wait.
Locked(t) == pc # "idle" /\ cur = t

SubTypeOK ==
    /\ subs \in [Topics -> Seq(Clients)]
    /\ topicOf \in [Clients -> Topics \union {NoTopic}]
    /\ ctxDone \subseteq Clients
    /\ closed \subseteq Clients
    /\ reader \in [Clients -> ReaderStates]
    /\ rcvd \in [Clients -> Seq(Messages)]
    /\ pc \in DispatcherStates
    /\ cur \in Topics \union {NoTopic}
    /\ pc # "idle" => cur \in Topics
    /\ msg \in Messages \union {NoMessage}
    /\ pc = "send" => msg \in Messages
    /\ pos \in Nat
    /\ forRemove \in Seq(Nat)
    /\ sent \in [Topics -> Seq(Messages)]
    /\ base \in [Clients -> Nat]

SubInit ==
    /\ subs = [t \in Topics |-> << >>]
    /\ topicOf = [c \in Clients |-> NoTopic]
    /\ ctxDone = {}
    /\ closed = {}
    /\ reader = [c \in Clients |-> "new"]
    /\ rcvd = [c \in Clients |-> << >>]
    /\ pc = "idle"
    /\ cur = NoTopic
    /\ msg = NoMessage
    /\ pos = 0
    /\ forRemove = << >>
    /\ sent = [t \in Topics |-> << >>]
    /\ base = [c \in Clients |-> 0]

-----------------------------------------------------------------------------
(***************************************************************************)
(* Subscriptions and their readers.                                        *)
(***************************************************************************)

\* SubscribeOn...: make the channel and Push it under the write lock.
Push(c, t) ==
    /\ reader[c] = "new"
    /\ ~Locked(t)
    /\ subs' = [subs EXCEPT ![t] = Append(@, c)]
    /\ topicOf' = [topicOf EXCEPT ![c] = t]
    /\ reader' = [reader EXCEPT ![c] = "busy"]
    /\ base' = [base EXCEPT ![c] = Len(sent[t])]
    /\ UNCHANGED <<ctxDone, closed, rcvd, pc, cur, msg, pos, forRemove, sent>>

\* The peer disconnects, unsubscribes or times out; this may precede Push.
Cancel(c) ==
    /\ c \notin ctxDone
    /\ ctxDone' = ctxDone \union {c}
    /\ UNCHANGED <<subs, topicOf, closed, reader, rcvd,
                   pc, cur, msg, pos, forRemove, sent, base>>

\* The transport asks for the next response: the reader enters its select.
AwaitNext(c) ==
    /\ reader[c] = "busy"
    /\ reader' = [reader EXCEPT ![c] = "await"]
    /\ UNCHANGED <<subs, topicOf, ctxDone, closed, rcvd,
                   pc, cur, msg, pos, forRemove, sent, base>>

\* The select fires on a done context or on a closed channel: the reader
\* returns nil and the transport stops asking.
StopReading(c) ==
    /\ reader[c] = "await"
    /\ c \in ctxDone \union closed
    /\ reader' = [reader EXCEPT ![c] = "gone"]
    /\ UNCHANGED <<subs, topicOf, ctxDone, closed, rcvd,
                   pc, cur, msg, pos, forRemove, sent, base>>

-----------------------------------------------------------------------------
(***************************************************************************)
(* SendAll: RLock, then a blocking send on every channel of the slice.     *)
(***************************************************************************)

\* Mutant: the message is not kept for the sends.
SendAllForgets(t, m) ==
    /\ pc = "idle"
    /\ pc' = "send" /\ cur' = t /\ msg' = NoMessage /\ pos' = 1
    /\ sent' = [sent EXCEPT ![t] = Append(@, m)]
    /\ UNCHANGED <<subs, forRemove, clientVars>>

\* Mutant: the range starts at the second entry.
SendAllSkipsFirst(t, m) ==
    /\ pc = "idle"
    /\ pc' = "send" /\ cur' = t /\ msg' = m /\ pos' = 2
    /\ sent' = [sent EXCEPT ![t] = Append(@, m)]
    /\ UNCHANGED <<subs, forRemove, clientVars>>

SendAll(t, m) ==
    /\ pc = "idle"
    /\ pc' = "send"
    /\ cur' = t
    /\ msg' = m
    /\ pos' = 1
    /\ sent' = [sent EXCEPT ![t] = Append(@, m)]
    /\ UNCHANGED <<subs, forRemove, clientVars>>

\* The channels are unbuffered: a send completes with a receive, and a send
\* on a closed channel panics.
SendNext ==
    /\ pc = "send"
    /\ pos <= Len(subs[cur])
    /\ LET c == subs[cur][pos] IN
         \/ /\ c \notin closed
            /\ reader[c] = "await"
            /\ rcvd' = [rcvd EXCEPT ![c] = Append(@, msg)]
            /\ reader' = [reader EXCEPT ![c] = "busy"]
            /\ pos' = pos + 1
            /\ pc' = pc
         \/ /\ c \in closed
            /\ pc' = "panic"
            /\ UNCHANGED <<rcvd, reader, pos>>
    /\ UNCHANGED <<subs, topicOf, ctxDone, closed, cur, msg, forRemove, sent, base>>

SendReturn ==
    /\ pc = "send"
    /\ pos > Len(subs[cur])
    /\ pc' = "idle"
    /\ cur' = NoTopic
    /\ msg' = NoMessage
    /\ pos' = 0
    /\ UNCHANGED <<subs, forRemove, sent, clientVars>>

-----------------------------------------------------------------------------
(***************************************************************************)
(* CleanDone: Lock; close the channel of every subscriber whose context is *)
(* done and remember its index; then, from the last index to the first,    *)
(* overwrite each remembered entry with one from the end of the slice, and *)
(* cut the end off.                                                        *)
(***************************************************************************)

CleanDone(t) ==
    /\ pc = "idle"
    /\ pc' = "scan"
    /\ cur' = t
    /\ pos' = 1
    /\ forRemove' = << >>
    /\ UNCHANGED <<subs, msg, sent, clientVars>>

\* Mutant: the select on the context is missing, so every channel is closed.
ScanNextClosesAll ==
    /\ pc = "scan" /\ pos <= Len(subs[cur])
    /\ closed' = closed \union {subs[cur][pos]}
    /\ forRemove' = Append(forRemove, pos)
    /\ pos' = pos + 1
    /\ UNCHANGED <<pc, subs, topicOf, ctxDone, reader, rcvd, cur, msg, sent, base>>

\* One iteration of the first loop.  The select has a default case: it looks
\* at the context once and goes on.  Closing a closed channel panics.
ScanNext ==
    /\ pc = "scan"
    /\ pos <= Len(subs[cur])
    /\ LET c == subs[cur][pos] IN
         \/ /\ c \notin ctxDone
            /\ pos' = pos + 1
            /\ UNCHANGED <<pc, closed, forRemove>>
         \/ /\ c \in ctxDone
            /\ c \notin closed
            /\ closed' = closed \union {c}
            /\ forRemove' = Append(forRemove, pos)
            /\ pos' = pos + 1
            /\ pc' = pc
         \/ /\ c \in ctxDone
            /\ c \in closed
            /\ pc' = "panic"
            /\ UNCHANGED <<pos, closed, forRemove>>
    /\ UNCHANGED <<subs, topicOf, ctxDone, reader, rcvd, cur, msg, sent, base>>

ScanEnd ==
    /\ pc = "scan"
    /\ pos > Len(subs[cur])
    /\ pc' = "swap"
    /\ pos' = Len(forRemove)
    /\ UNCHANGED <<subs, cur, msg, forRemove, sent, clientVars>>

\* Mutant: every removed entry is replaced by the very last one.
ReplacementLast(n, k, j) == n

\* Index of the entry that replaces the j-th remembered one (from 1).
Replacement(n, k, j) == n - k + j

\* One iteration of the second loop, counting pos down.
SwapNext ==
    /\ pc = "swap"
    /\ pos > 0
    /\ subs' = [subs EXCEPT ![cur][forRemove[pos]] =
                   subs[cur][Replacement(Len(subs[cur]), Len(forRemove), pos)]]
    /\ pos' = pos - 1
    /\ UNCHANGED <<pc, cur, msg, forRemove, sent, clientVars>>

\* Mutant: the reslice keeps one entry too many.
TruncateOneShort ==
    /\ pc = "swap" /\ pos = 0
    /\ subs' = [subs EXCEPT ![cur] =
                  IF forRemove = << >> THEN @ ELSE SubSeq(@, 1, Len(@) - Len(forRemove) + 1)]
    /\ pc' = "idle" /\ cur' = NoTopic /\ forRemove' = << >>
    /\ UNCHANGED <<msg, pos, sent, clientVars>>

\* Reslice to the kept length and return, releasing the lock.
Truncate ==
    /\ pc = "swap"
    /\ pos = 0
    /\ subs' = [subs EXCEPT ![cur] =
                   SubSeq(@, 1, Len(@) - Len(forRemove))]
    /\ pc' = "idle"
    /\ cur' = NoTopic
    /\ forRemove' = << >>
    /\ UNCHANGED <<msg, pos, sent, clientVars>>

-----------------------------------------------------------------------------

ClientNext ==
    \E c \in Clients :
        \/ \E t \in Topics : Push(c, t)
        \/ Cancel(c)
        \/ AwaitNext(c)
        \/ StopReading(c)

\* The steps of an operation the dispatcher has begun.
DispatcherStep ==
    SendNext \/ SendReturn \/ ScanNext \/ ScanEnd \/ SwapNext \/ Truncate

\* A dispatcher that may call either operation, on any topic, in any order:
\* the loop of each manager is one such dispatcher.
DispatcherCall ==
    \E t \in Topics :
        \/ \E m \in Messages : SendAll(t, m)
        \/ CleanDone(t)

SubNext == ClientNext \/ DispatcherStep \/ DispatcherCall

SubSpec == SubInit /\ [][SubNext]_subVars

-----------------------------------------------------------------------------
(***************************************************************************)
(* What the registries must get right.                                     *)
(***************************************************************************)

\* CleanDone and SendAll never panic: SendAll never sends on a channel that
\* CleanDone closed, and CleanDone never closes a channel twice, which is
\* what would follow if the swap loop left a removed entry in the kept part.
NoPanic == pc # "panic"

\* The clients that were pushed to t and whose channel CleanDone has not closed.
Members(t) == {c \in Clients : topicOf[c] = t /\ c \notin closed}

\* Whenever a registry's mutex is free, its slice holds every subscription
\* that was pushed and not closed exactly once, and nothing else: the swap
\* and the reslice of CleanDone drop no live subscriber and keep no dead one.
RegistryIntact ==
    \A t \in Topics : ~Locked(t) =>
        /\ {subs[t][i] : i \in DOMAIN subs[t]} = Members(t)
        /\ \A i, j \in DOMAIN subs[t] : subs[t][i] = subs[t][j] => i = j

\* How many messages were broadcast on c's topic since c was pushed.
SinceJoined(c) == Len(sent[topicOf[c]]) - base[c]

\* The dispatcher is in SendAll on c's topic and has not come to c yet.
Awaited(c) ==
    /\ pc = "send"
    /\ cur = topicOf[c]
    /\ \E i \in pos .. Len(subs[cur]) : subs[cur][i] = c

\* A subscriber that was not removed has received every message broadcast on
\* its topic since it subscribed, in order, once, except the one being sent.
\* A removed subscriber has received a prefix of them.
DeliveredInOrder ==
    \A c \in Clients : topicOf[c] # NoTopic =>
        /\ Len(rcvd[c]) <= SinceJoined(c)
        /\ \A i \in 1 .. Len(rcvd[c]) : rcvd[c][i] = sent[topicOf[c]][base[c] + i]
        /\ c \notin closed =>
             Len(rcvd[c]) = SinceJoined(c) - (IF Awaited(c) THEN 1 ELSE 0)

\* The registries implement the abstract broadcast: the members of a topic are
\* the open channels found in its slice, even in the middle of CleanDone.
Abstract == INSTANCE Broadcast WITH
    members  <- [t \in Topics |->
                   {subs[t][i] : i \in DOMAIN subs[t]} \ closed],
    topic    <- topicOf,
    done     <- ctxDone,
    inbox    <- rcvd,
    airTopic <- IF pc = "send" THEN cur ELSE NoTopic,
    airMsg   <- msg,
    pending  <- IF pc = "send"
                THEN {subs[cur][i] : i \in pos .. Len(subs[cur])} ELSE {}

\* SendAll, Push and CleanDone together implement Broadcast: no member is
\* skipped, served twice or dropped while its context is live.
ImplementsBroadcast == Abstract!Spec

=============================================================================
