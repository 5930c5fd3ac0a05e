------------------------------ MODULE Answers ------------------------------
(***************************************************************************)
(* The language model's answers to the subscriptions                       *)
(* startGenerateDescription (internal/descrgen) and recommendTea           *)
(* (internal/adviser).  Each subscription has a buffered channel: for a    *)
(* description of capacity one, filled from the cache or by a goroutine    *)
(* that asks the model once; for a recommendation of capacity StreamSize,  *)
(* filled by a goroutine that forwards the model's stream chunk by chunk.  *)
(* The generated reader drains the channel until it is closed or its       *)
(* context is done.                                                        *)
(*                                                                         *)
(* The messages of an answer are numbered; a description is one message,   *)
(* and what matters of its text is whether the model's call failed, in     *)
(* which case the empty string is sent, and cached.                        *)
(***************************************************************************)
EXTENDS Integers, Sequences

CONSTANTS Subscriptions, Names,
          StreamSize,  \* capacity of a recommendation's channel
          MaxChunks,   \* bound on the chunks of a stream
          NoName

ASSUME AnswersAssumption ==
    /\ StreamSize \in Nat \ {0}
    /\ MaxChunks \in Nat
    /\ NoName \notin Names

VARIABLES
    name,      \* name[s]: the name s asked a description of; NoName for a recommendation
    cache,     \* cache[n]: "none", "text" or "empty"
    producer,  \* producer[s]: "none", "ask", "cache", "recv", "send", "close" or "done"
    text,      \* text[s]: the description the model gave: "none", "text" or "empty"
    made,      \* made[s]: the number of messages read from the model or the cache
    buf,       \* buf[s]: the contents of the channel
    closed,    \* the subscriptions whose channel is closed
    reader,    \* reader[s]: "new", "reading", "finished", "left" or "refused"
    got,       \* got[s]: the messages received
    ctxDone    \* the subscriptions whose context is done

channels == <<buf, closed>>
clients == <<reader, got, ctxDone>>
ansVars == <<name, cache, producer, text, made, channels, clients>>

Size(s) == IF name[s] = NoName THEN StreamSize ELSE 1

AnswersTypeOK ==
    /\ name \in [Subscriptions -> Names \union {NoName}]
    /\ cache \in [Names -> {"none", "text", "empty"}]
    /\ producer \in [Subscriptions -> {"none", "ask", "cache", "recv", "send", "close", "done"}]
    /\ text \in [Subscriptions -> {"none", "text", "empty"}]
    /\ made \in [Subscriptions -> 0 .. (MaxChunks + 1)]
    /\ buf \in [Subscriptions -> Seq(1 .. (MaxChunks + 1))]
    /\ \A s \in Subscriptions : Len(buf[s]) <= Size(s)
    /\ closed \subseteq Subscriptions
    /\ reader \in [Subscriptions -> {"new", "reading", "finished", "left", "refused"}]
    /\ got \in [Subscriptions -> Seq(1 .. (MaxChunks + 1))]
    /\ ctxDone \subseteq Subscriptions

AnsInit ==
    /\ name = [s \in Subscriptions |-> NoName]
    /\ cache = [n \in Names |-> "none"]
    /\ producer = [s \in Subscriptions |-> "none"]
    /\ text = [s \in Subscriptions |-> "none"]
    /\ made = [s \in Subscriptions |-> 0]
    /\ buf = [s \in Subscriptions |-> << >>]
    /\ closed = {}
    /\ reader = [s \in Subscriptions |-> "new"]
    /\ got = [s \in Subscriptions |-> << >>]
    /\ ctxDone = {}

\* The resolver of s returns: a channel to read, or an error.
Resolves(s, to) ==
    /\ reader[s] = "new"
    /\ reader' = [reader EXCEPT ![s] = to]
    /\ UNCHANGED <<got, ctxDone>>

\* The producer of s goes from one step to another.
Goes(s, from, to) ==
    /\ producer[s] = from
    /\ producer' = [producer EXCEPT ![s] = to]

-----------------------------------------------------------------------------
(***************************************************************************)
(* Descriptions.                                                           *)
(***************************************************************************)

\* The name is cached: the resolver itself sends and closes.
ServeCached(s) ==
    \E n \in Names :
        /\ cache[n] # "none"
        /\ Resolves(s, "reading")
        /\ name' = [name EXCEPT ![s] = n]
        /\ text' = [text EXCEPT ![s] = cache[n]]
        /\ made' = [made EXCEPT ![s] = 1]
        /\ buf' = [buf EXCEPT ![s] = <<1>>]
        /\ closed' = closed \union {s}
        /\ producer' = [producer EXCEPT ![s] = "done"]
        /\ UNCHANGED cache

\* It is not: a goroutine generates it.
StartGenerateDescription(s) ==
    \E n \in Names :
        /\ cache[n] = "none"
        /\ Resolves(s, "reading")
        /\ name' = [name EXCEPT ![s] = n]
        /\ Goes(s, "none", "ask")
        /\ UNCHANGED <<cache, text, made, channels>>

\* GenerateDescription, within asyncGenerateTimeout.
GenerateDescription(s) ==
    \E t \in {"text", "empty"} :
        /\ Goes(s, "ask", "cache")
        /\ text' = [text EXCEPT ![s] = t]
        /\ made' = [made EXCEPT ![s] = 1]
        /\ UNCHANGED <<name, cache, channels, clients>>

\* The result is cached, a failure's empty one too, unless the cache does not
\* take it.
CacheSet(s) ==
    /\ Goes(s, "cache", "send")
    /\ cache' \in {cache, [cache EXCEPT ![name[s]] = text[s]]}
    /\ UNCHANGED <<name, text, made, channels, clients>>

\* The cache may drop an entry at any time.
Evict(n) ==
    /\ cache[n] # "none"
    /\ cache' = [cache EXCEPT ![n] = "none"]
    /\ UNCHANGED <<name, producer, text, made, channels, clients>>

-----------------------------------------------------------------------------
(***************************************************************************)
(* Recommendations.                                                        *)
(***************************************************************************)

\* The stream is open, and readStream runs.
RecommendTeaStream(s) ==
    /\ Resolves(s, "reading")
    /\ Goes(s, "none", "recv")
    /\ UNCHANGED <<name, cache, text, made, channels>>

\* The weather, the collection, the template or the model fails, or the
\* collection has no teas; or the cache fails for a description.
Refuse(s) ==
    /\ Resolves(s, "refused")
    /\ UNCHANGED <<name, cache, producer, text, made, channels>>

\* stream.Recv gives the next chunk.
Recv(s) ==
    /\ made[s] < MaxChunks
    /\ Goes(s, "recv", "send")
    /\ made' = [made EXCEPT ![s] = @ + 1]
    /\ UNCHANGED <<name, cache, text, channels, clients>>

\* Mutant: an error that is not the end of the stream does not leave the loop.
RecvEndIgnoresErrors(s) ==
    /\ s \notin ctxDone
    /\ Goes(s, "recv", "close")
    /\ UNCHANGED <<name, cache, text, made, channels, clients>>

\* stream.Recv reports the end of the stream or an error, of a done context too.
RecvEnd(s) ==
    /\ Goes(s, "recv", "close")
    /\ UNCHANGED <<name, cache, text, made, channels, clients>>

-----------------------------------------------------------------------------
(***************************************************************************)
(* Channels and readers.                                                   *)
(***************************************************************************)

\* Mutant: a message that does not fit is dropped.
SendDrops(s) ==
    /\ Goes(s, "send", IF name[s] = NoName THEN "recv" ELSE "close")
    /\ buf' = [buf EXCEPT ![s] = IF Len(@) < Size(s) THEN Append(@, made[s]) ELSE @]
    /\ UNCHANGED <<name, cache, text, made, closed, clients>>

\* The producer sends its message, once the channel has room.
Send(s) ==
    /\ Goes(s, "send", IF name[s] = NoName THEN "recv" ELSE "close")
    /\ Len(buf[s]) < Size(s)
    /\ buf' = [buf EXCEPT ![s] = Append(@, made[s])]
    /\ UNCHANGED <<name, cache, text, made, closed, clients>>

\* Mutant: a failed description leaves its channel open.
CloseAfterText(s) ==
    /\ Goes(s, "close", "done")
    /\ closed' = IF text[s] = "empty" THEN closed ELSE closed \union {s}
    /\ UNCHANGED <<name, cache, text, made, buf, clients>>

Close(s) ==
    /\ Goes(s, "close", "done")
    /\ closed' = closed \union {s}
    /\ UNCHANGED <<name, cache, text, made, buf, clients>>

\* The generated select takes a message, or sees the channel closed and empty,
\* or the context done.
Receive(s) ==
    /\ reader[s] = "reading"
    /\ buf[s] # << >>
    /\ got' = [got EXCEPT ![s] = Append(@, Head(buf[s]))]
    /\ buf' = [buf EXCEPT ![s] = Tail(@)]
    /\ UNCHANGED <<name, cache, producer, text, made, closed, reader, ctxDone>>

Finish(s) ==
    /\ reader[s] = "reading"
    /\ buf[s] = << >> /\ s \in closed
    /\ reader' = [reader EXCEPT ![s] = "finished"]
    /\ UNCHANGED <<name, cache, producer, text, made, channels, got, ctxDone>>

Leave(s) ==
    /\ reader[s] = "reading"
    /\ s \in ctxDone
    /\ reader' = [reader EXCEPT ![s] = "left"]
    /\ UNCHANGED <<name, cache, producer, text, made, channels, got, ctxDone>>

Cancel(s) ==
    /\ reader[s] # "new" /\ s \notin ctxDone
    /\ ctxDone' = ctxDone \union {s}
    /\ UNCHANGED <<name, cache, producer, text, made, channels, reader, got>>

ReaderStep(s) == Receive(s) \/ Finish(s) \/ Leave(s)

AnsNext ==
    \/ \E s \in Subscriptions :
         \/ ServeCached(s) \/ StartGenerateDescription(s)
         \/ GenerateDescription(s) \/ CacheSet(s)
         \/ RecommendTeaStream(s) \/ Refuse(s) \/ Recv(s) \/ RecvEnd(s)
         \/ Send(s) \/ Close(s) \/ ReaderStep(s) \/ Cancel(s)
    \/ \E n \in Names : Evict(n)

\* Goroutines that can go on do.  The call for a description ends within its
\* timeout, a Recv only when its context is done: a stream may take for ever.
AnsFairness ==
    \A s \in Subscriptions :
        /\ WF_ansVars(GenerateDescription(s) \/ CacheSet(s) \/ Send(s) \/ Close(s))
        /\ WF_ansVars(s \in ctxDone /\ RecvEnd(s))
        /\ WF_ansVars(ReaderStep(s))

AnsSpec == AnsInit /\ [][AnsNext]_ansVars /\ AnsFairness

-----------------------------------------------------------------------------
(***************************************************************************)
(* What the answers must get right.                                        *)
(***************************************************************************)

\* A reader that ran to the end of its channel has received every message of
\* the answer, once and in order, and a description is exactly one message.
WholeAnswer ==
    \A s \in Subscriptions : reader[s] = "finished" =>
        /\ got[s] = [i \in 1 .. made[s] |-> i]
        /\ name[s] # NoName => made[s] = 1

\* After the client has left, the goroutine that serves it ends, unless it waits
\* for room in a recommendation's full channel, which nobody drains any more.
EndsUnlessLeaked ==
    \A s \in Subscriptions :
        s \in ctxDone /\ producer[s] # "none" ~>
            \/ producer[s] = "done"
            \/ /\ producer[s] = "send" /\ name[s] = NoName
               /\ Len(buf[s]) = StreamSize /\ reader[s] = "left"

\* A client that asked for a description gets to the end of its channel, unless
\* it leaves: the channel is closed although the model has failed.
DescriptionServed ==
    \A s \in Subscriptions :
        reader[s] = "reading" /\ name[s] # NoName ~> reader[s] \in {"finished", "left"}

=============================================================================
