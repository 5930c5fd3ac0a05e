--------------------------- MODULE ResponseProofs ---------------------------
(***************************************************************************)
(* Proofs about what a client is sent: the answers of the model that       *)
(* Answers streams to a subscription, and the responses that Execution     *)
(* makes of an operation.  The two specifications share no variable.       *)
(*                                                                         *)
(* Answers are proved about for any number of subscriptions, any capacity  *)
(* and any number of chunks; operations for any selections, lengths of     *)
(* lists and numbers of events.                                            *)
(***************************************************************************)
EXTENDS Answers, Execution, WellFoundedInduction, TLAPS

-----------------------------------------------------------------------------
(* The language model's answers. *)

\* How many messages the producer of s has put on the channel: all it has, or all
\* but the one it is about to cache or to send.
Put(s) == IF producer[s] \in {"cache", "send"} THEN made[s] - 1 ELSE made[s]

\* What was received and what is on the channel are the messages put there, in order.
InOrder ==
    \A s \in Subscriptions :
        /\ Len(got[s]) + Len(buf[s]) = Put(s)
        /\ \A i \in 1 .. Len(got[s]) : got[s][i] = i
        /\ \A i \in 1 .. Len(buf[s]) : buf[s][i] = Len(got[s]) + i

\* How far a producer is, by what it serves.
ProducerInv ==
    \A s \in Subscriptions :
        /\ producer[s] \in {"none", "ask"} => made[s] = 0
        /\ producer[s] = "none" => name[s] = NoName
        /\ producer[s] = "recv" => name[s] = NoName
        /\ producer[s] \in {"ask", "cache"} => name[s] # NoName
        /\ producer[s] \in {"cache", "send"} => made[s] >= 1
        /\ producer[s] \notin {"none", "ask"} /\ name[s] # NoName => made[s] = 1
        /\ s \in closed => producer[s] = "done"

\* Before the resolver returns there is nothing; at the end the channel is
\* closed and empty.
ReaderInv ==
    \A s \in Subscriptions :
        /\ reader[s] = "new" => producer[s] = "none"
        /\ reader[s] = "finished" => s \in closed /\ buf[s] = << >>

AnsInv == AnswersTypeOK /\ InOrder /\ ProducerInv /\ ReaderInv

-----------------------------------------------------------------------------

LEMMA AnsInvInit == AnsInit => AnsInv
<1> SUFFICES ASSUME AnsInit PROVE AnsInv
  OBVIOUS
<1>1. AnswersTypeOK
  <2>1. << >> \in Seq(1 .. (MaxChunks + 1)) /\ Len(<< >>) = 0 /\ 0 \in 0 .. (MaxChunks + 1)
    BY AnswersAssumption
  <2>2. \A s \in Subscriptions : buf[s] = << >> /\ Size(s) \in Nat
    BY AnswersAssumption DEF AnsInit, Size
  <2>3. ASSUME NEW s \in Subscriptions PROVE Len(buf[s]) <= Size(s)
    <3> DEFINE b == buf[s]
               z == Size(s)
    <3>1. b = << >> /\ z \in Nat
      BY <2>2
    <3> HIDE DEF b, z
    <3>2. Len(b) <= z
      BY <3>1
    <3> QED
      BY <3>2 DEF b, z
  <2> QED
    BY <2>1, <2>3 DEF AnsInit, AnswersTypeOK
<1>2. \A s \in Subscriptions : got[s] = << >> /\ buf[s] = << >> /\ Put(s) = 0
  BY DEF AnsInit, Put
<1>3. InOrder
  <2> SUFFICES ASSUME NEW s \in Subscriptions
               PROVE  /\ Len(got[s]) + Len(buf[s]) = Put(s)
                      /\ \A i \in 1 .. Len(got[s]) : got[s][i] = i
                      /\ \A i \in 1 .. Len(buf[s]) : buf[s][i] = Len(got[s]) + i
    BY DEF InOrder
  <2> DEFINE g == got[s]
             b == buf[s]
             p == Put(s)
  <2>1. g = << >> /\ b = << >> /\ p = 0
    BY <1>2
  <2> HIDE DEF g, b, p
  <2>2. Len(g) = 0 /\ Len(b) = 0
    BY <2>1
  <2>3. /\ Len(g) + Len(b) = p
        /\ \A i \in 1 .. Len(g) : g[i] = i
        /\ \A i \in 1 .. Len(b) : b[i] = Len(g) + i
    BY <2>1, <2>2
  <2> QED
    BY <2>3 DEF g, b, p
<1> QED
  BY <1>1, <1>3 DEF AnsInit, AnsInv, ProducerInv, ReaderInv

\* A step that leaves channels, messages and subscriptions alone, but for what a
\* done context or the cache holds.
LEMMA AnsInvKept ==
    ASSUME AnsInv, UNCHANGED <<name, producer, made, channels, got>>,
           AnswersTypeOK', ReaderInv'
    PROVE  AnsInv'
  BY DEF AnsInv, InOrder, ProducerInv, Put, channels

\* Nothing was put for a subscription without a producer.
LEMMA NothingPut ==
    ASSUME AnsInv, NEW s \in Subscriptions, producer[s] = "none"
    PROVE  /\ made[s] = 0 /\ buf[s] = << >>
           /\ Len(got[s]) = 0 /\ Len(buf[s]) = 0
<1>1. made[s] = 0 /\ Put(s) = 0
  BY DEF AnsInv, ProducerInv, Put
<1> DEFINE g == got[s]
           b == buf[s]
           C == 1 .. (MaxChunks + 1)
<1>2. g \in Seq(C) /\ b \in Seq(C)
  BY DEF AnsInv, AnswersTypeOK
<1>3. Len(g) + Len(b) = 0
  BY <1>1 DEF AnsInv, InOrder
<1>4. b = << >> /\ Len(g) = 0 /\ Len(b) = 0
  <2> HIDE DEF b, g, C
  <2>1. Len(g) \in Nat /\ Len(b) \in Nat
    BY <1>2
  <2> QED
    BY <1>2, <1>3, <2>1
<1> QED
  BY <1>1, <1>4

LEMMA ServeCachedInv ==
    ASSUME AnsInv, NEW s \in Subscriptions, ServeCached(s) PROVE AnsInv'
<1> USE AnswersAssumption
<1>1. PICK n \in Names :
        /\ reader[s] = "new"
        /\ reader' = [reader EXCEPT ![s] = "reading"] /\ got' = got /\ ctxDone' = ctxDone
        /\ cache[n] # "none"
        /\ name' = [name EXCEPT ![s] = n]
        /\ text' = [text EXCEPT ![s] = cache[n]]
        /\ made' = [made EXCEPT ![s] = 1]
        /\ buf' = [buf EXCEPT ![s] = <<1>>]
        /\ closed' = closed \union {s}
        /\ producer' = [producer EXCEPT ![s] = "done"]
        /\ cache' = cache
  BY DEF ServeCached, Resolves
<1>2. /\ <<1>> \in Seq(1 .. (MaxChunks + 1)) /\ Len(<<1>>) = 1 /\ <<1>>[1] = 1
      /\ 1 \in 0 .. (MaxChunks + 1)
  OBVIOUS
<1>3. AnswersTypeOK'
  BY <1>1, <1>2 DEF AnsInv, AnswersTypeOK, Size
<1>4. ProducerInv'
  BY <1>1 DEF AnsInv, AnswersTypeOK, ProducerInv
<1>5. ReaderInv'
  BY <1>1 DEF AnsInv, AnswersTypeOK, ReaderInv
<1>6. InOrder'
  <2>1. Len(got[s]) = 0 /\ Len(buf[s]) = 0
    BY <1>1, NothingPut DEF AnsInv, ReaderInv
  <2>2. \A q \in Subscriptions \ {s} :
          UNCHANGED <<got[q], buf[q], producer[q], made[q]>>
    BY <1>1 DEF AnsInv, AnswersTypeOK
  <2>3. got'[s] = got[s] /\ buf'[s] = <<1>> /\ producer'[s] = "done" /\ made'[s] = 1
    BY <1>1 DEF AnsInv, AnswersTypeOK
  <2> SUFFICES ASSUME NEW q \in Subscriptions
               PROVE  /\ Len(got[q])' + Len(buf[q])' = Put(q)'
                      /\ \A i \in 1 .. Len(got[q])' : got'[q][i] = i
                      /\ \A i \in 1 .. Len(buf[q])' : buf'[q][i] = Len(got[q])' + i
    BY DEF InOrder
  <2>4. CASE q = s
    <3>1. Put(q)' = 1
      BY <2>3, <2>4 DEF Put
    <3>2. /\ Len(got'[q]) = 0 /\ Len(buf'[q]) = 1 /\ buf'[q][1] = 1
      BY <1>2, <2>1, <2>3, <2>4
    <3> QED
      BY <3>1, <3>2
  <2>5. CASE q # s
    BY <2>2, <2>5 DEF AnsInv, InOrder, Put
  <2> QED
    BY <2>4, <2>5
<1> QED
  BY <1>3, <1>4, <1>5, <1>6 DEF AnsInv

\* Starting a producer puts nothing on the channel.
LEMMA StartInv ==
    ASSUME AnsInv, NEW s \in Subscriptions,
           StartGenerateDescription(s) \/ RecommendTeaStream(s) \/ Refuse(s)
    PROVE  AnsInv'
<1>1. PICK to \in {"none", "ask", "recv"}, rd \in {"reading", "refused"}, n \in Names \union {NoName} :
        /\ reader[s] = "new"
        /\ reader' = [reader EXCEPT ![s] = rd] /\ got' = got /\ ctxDone' = ctxDone
        /\ name' = [name EXCEPT ![s] = n]
        /\ producer[s] = "none"
        /\ producer' = [producer EXCEPT ![s] = to]
        /\ (to = "ask") = (n # NoName)
        /\ UNCHANGED <<cache, text, made, buf, closed>>
  <2>1. (producer[s] = "none" /\ name[s] = NoName) \/ reader[s] # "new"
    BY DEF AnsInv, ReaderInv, ProducerInv
  <2>2. name = [name EXCEPT ![s] = name[s]] /\ producer = [producer EXCEPT ![s] = producer[s]]
    BY DEF AnsInv, AnswersTypeOK
  <2>3. CASE StartGenerateDescription(s)
    BY <2>1, <2>3, AnswersAssumption DEF StartGenerateDescription, Resolves, Goes, channels
  <2>4. CASE RecommendTeaStream(s)
    BY <2>1, <2>2, <2>4 DEF RecommendTeaStream, Resolves, Goes, channels
  <2>5. CASE Refuse(s)
    BY <2>1, <2>2, <2>5 DEF Refuse, Resolves, channels
  <2> QED
    BY <2>3, <2>4, <2>5
<1>2. made[s] = 0 /\ Len(got[s]) = 0 /\ Len(buf[s]) = 0 /\ buf[s] = << >>
  BY <1>1, NothingPut
<1>3. AnswersTypeOK'
  BY <1>1, <1>2, AnswersAssumption DEF AnsInv, AnswersTypeOK, Size
<1>4. ProducerInv'
  BY <1>1, <1>2 DEF AnsInv, AnswersTypeOK, ProducerInv
<1>5. ReaderInv'
  BY <1>1 DEF AnsInv, AnswersTypeOK, ReaderInv
<1>6. InOrder'
  BY <1>1 DEF AnsInv, AnswersTypeOK, InOrder, Put
<1> QED
  BY <1>3, <1>4, <1>5, <1>6 DEF AnsInv

\* The model's message, or the next chunk: one more is made, none is put yet.
LEMMA MadeInv ==
    ASSUME AnsInv, NEW s \in Subscriptions, GenerateDescription(s) \/ Recv(s)
    PROVE  AnsInv'
<1> USE AnswersAssumption
<1>1. PICK to \in {"cache", "send"}, t \in {"none", "text", "empty"} :
        /\ producer[s] = IF to = "cache" THEN "ask" ELSE "recv"
        /\ producer' = [producer EXCEPT ![s] = to]
        /\ text' = [text EXCEPT ![s] = t]
        /\ made' = [made EXCEPT ![s] = made[s] + 1]
        /\ made[s] <= MaxChunks
        /\ UNCHANGED <<name, cache, buf, closed, reader, got, ctxDone>>
  <2>1. CASE GenerateDescription(s)
    <3>1. made[s] = 0
      BY <2>1 DEF GenerateDescription, Goes, AnsInv, ProducerInv
    <3>2. PICK t \in {"text", "empty"} :
             /\ producer[s] = "ask" /\ producer' = [producer EXCEPT ![s] = "cache"]
             /\ text' = [text EXCEPT ![s] = t]
             /\ made' = [made EXCEPT ![s] = 1]
             /\ UNCHANGED <<name, cache, buf, closed, reader, got, ctxDone>>
      BY <2>1 DEF GenerateDescription, Goes, channels, clients
    <3>3. made' = [made EXCEPT ![s] = made[s] + 1] /\ made[s] <= MaxChunks
      BY <3>1, <3>2
    <3> QED
      BY <3>2, <3>3
  <2>2. CASE Recv(s)
    <3>1. text = [text EXCEPT ![s] = text[s]] /\ text[s] \in {"none", "text", "empty"}
          /\ made[s] \in Nat
      BY DEF AnsInv, AnswersTypeOK
    <3> QED
      BY <2>2, <3>1 DEF Recv, Goes, channels, clients
  <2> QED
    BY <2>1, <2>2
<1>2. AnswersTypeOK'
  BY <1>1 DEF AnsInv, AnswersTypeOK, Size
<1>3. ProducerInv'
  BY <1>1 DEF AnsInv, AnswersTypeOK, ProducerInv
<1>4. ReaderInv'
  BY <1>1 DEF AnsInv, AnswersTypeOK, ReaderInv
<1>5. \A q \in Subscriptions : Put(q)' = Put(q)
  BY <1>1 DEF AnsInv, AnswersTypeOK, Put
<1>6. InOrder'
  BY <1>1, <1>5 DEF AnsInv, InOrder
<1> QED
  BY <1>2, <1>3, <1>4, <1>6 DEF AnsInv

\* Caching, the end of a stream and the close of a channel move no message.
LEMMA MoveInv ==
    ASSUME AnsInv, NEW s \in Subscriptions, CacheSet(s) \/ RecvEnd(s) \/ Close(s)
    PROVE  AnsInv'
<1>1. PICK from \in {"cache", "recv", "close"}, to \in {"send", "close", "done"} :
        /\ <<from, to>> \in {<<"cache", "send">>, <<"recv", "close">>, <<"close", "done">>}
        /\ producer[s] = from
        /\ producer' = [producer EXCEPT ![s] = to]
        /\ closed' = IF to = "done" THEN closed \union {s} ELSE closed
        /\ cache' \in {cache, [cache EXCEPT ![name[s]] = text[s]]}
        /\ UNCHANGED <<name, text, made, buf, reader, got, ctxDone>>
  BY DEF CacheSet, RecvEnd, Close, Goes, channels, clients
<1>2. cache' \in [Names -> {"none", "text", "empty"}]
  BY <1>1 DEF AnsInv, AnswersTypeOK
<1>3. AnswersTypeOK'
  BY <1>1, <1>2 DEF AnsInv, AnswersTypeOK, Size
<1>4. ProducerInv'
  BY <1>1 DEF AnsInv, AnswersTypeOK, ProducerInv
<1>5. ReaderInv'
  BY <1>1 DEF AnsInv, AnswersTypeOK, ReaderInv
<1>6. \A q \in Subscriptions : Put(q)' = Put(q)
  BY <1>1 DEF AnsInv, AnswersTypeOK, Put
<1>7. InOrder'
  BY <1>1, <1>6 DEF AnsInv, InOrder
<1> QED
  BY <1>3, <1>4, <1>5, <1>7 DEF AnsInv

LEMMA SendInv ==
    ASSUME AnsInv, NEW s \in Subscriptions, Send(s) PROVE AnsInv'
<1> USE AnswersAssumption
<1>1. PICK to \in {"recv", "close"} :
        /\ producer[s] = "send" /\ producer' = [producer EXCEPT ![s] = to]
        /\ to = IF name[s] = NoName THEN "recv" ELSE "close"
        /\ Len(buf[s]) < Size(s)
        /\ buf' = [buf EXCEPT ![s] = Append(buf[s], made[s])]
        /\ UNCHANGED <<name, cache, text, made, closed, reader, got, ctxDone>>
  BY DEF Send, Goes, clients
<1>2. /\ made[s] \in 1 .. (MaxChunks + 1)
      /\ buf[s] \in Seq(1 .. (MaxChunks + 1)) /\ got[s] \in Seq(1 .. (MaxChunks + 1))
      /\ Len(got[s]) + Len(buf[s]) = made[s] - 1
  BY <1>1 DEF AnsInv, AnswersTypeOK, ProducerInv, InOrder, Put
<1>3. /\ Append(buf[s], made[s]) \in Seq(1 .. (MaxChunks + 1))
      /\ Len(Append(buf[s], made[s])) = Len(buf[s]) + 1
      /\ \A i \in 1 .. Len(buf[s]) : Append(buf[s], made[s])[i] = buf[s][i]
      /\ Append(buf[s], made[s])[Len(buf[s]) + 1] = made[s]
      /\ Len(buf[s]) \in Nat /\ Len(got[s]) \in Nat
  BY <1>2
<1>4. AnswersTypeOK'
  <2>1. \A q \in Subscriptions : Len(buf'[q]) <= Size(q)'
    BY <1>1, <1>3 DEF AnsInv, AnswersTypeOK, Size
  <2> QED
    BY <1>1, <1>3, <2>1 DEF AnsInv, AnswersTypeOK
<1>5. ProducerInv'
  BY <1>1 DEF AnsInv, AnswersTypeOK, ProducerInv
<1>6. ReaderInv'
  BY <1>1 DEF AnsInv, AnswersTypeOK, ReaderInv, ProducerInv
<1>7. InOrder'
  <2> SUFFICES ASSUME NEW q \in Subscriptions
               PROVE  /\ Len(got[q])' + Len(buf[q])' = Put(q)'
                      /\ \A i \in 1 .. Len(got[q])' : got'[q][i] = i
                      /\ \A i \in 1 .. Len(buf[q])' : buf'[q][i] = Len(got[q])' + i
    BY DEF InOrder
  <2>1. CASE q = s
    <3> DEFINE b == buf[s]
               g == got[s]
               m == made[s]
               a == Append(buf[s], made[s])
    <3>1. /\ got'[q] = g /\ buf'[q] = a
          /\ producer'[q] \notin {"cache", "send"} /\ made'[q] = m
      BY <1>1, <2>1 DEF AnsInv, AnswersTypeOK
    <3>2. /\ \A i \in 1 .. Len(g) : g[i] = i
          /\ \A i \in 1 .. Len(b) : b[i] = Len(g) + i
      BY DEF AnsInv, InOrder
    <3>3. Put(q)' = m
      BY <3>1 DEF Put
    <3> DEFINE C == 1 .. (MaxChunks + 1)
    <3>4. b \in Seq(C) /\ g \in Seq(C) /\ m \in C /\ a = Append(b, m) /\ Len(g) + Len(b) = m - 1
      BY <1>2
    <3>5. C \subseteq Nat
      OBVIOUS
    <3> HIDE DEF b, g, m, a, C
    <3>6. /\ Len(a) = Len(b) + 1
          /\ \A i \in 1 .. Len(b) : a[i] = b[i]
          /\ a[Len(b) + 1] = m
          /\ Len(b) \in Nat /\ Len(g) \in Nat /\ m \in Nat
          /\ Len(g) + Len(b) = m - 1
      BY <3>4, <3>5
    <3>7. ASSUME NEW i \in 1 .. (Len(b) + 1) PROVE a[i] = Len(g) + i
      <4>1. CASE i \in 1 .. Len(b)
        BY <3>2, <3>6, <4>1
      <4>2. CASE i = Len(b) + 1
        BY <3>6, <4>2
      <4> QED
        BY <3>6, <4>1, <4>2
    <3> QED
      BY <3>1, <3>2, <3>3, <3>6, <3>7
  <2>2. CASE q # s
    BY <1>1, <2>2 DEF AnsInv, AnswersTypeOK, InOrder, Put
  <2> QED
    BY <2>1, <2>2
<1> QED
  BY <1>4, <1>5, <1>6, <1>7 DEF AnsInv

LEMMA ReceiveInv ==
    ASSUME AnsInv, NEW s \in Subscriptions, Receive(s) PROVE AnsInv'
<1> USE AnswersAssumption
<1>1. /\ reader[s] = "reading" /\ buf[s] # << >>
      /\ got' = [got EXCEPT ![s] = Append(got[s], Head(buf[s]))]
      /\ buf' = [buf EXCEPT ![s] = Tail(buf[s])]
      /\ UNCHANGED <<name, cache, producer, text, made, closed, reader, ctxDone>>
  BY DEF Receive
<1> DEFINE b == buf[s]
           g == got[s]
           C == 1 .. (MaxChunks + 1)
<1>2. b \in Seq(C) /\ g \in Seq(C) /\ b # << >>
  BY <1>1 DEF AnsInv, AnswersTypeOK
<1>3. /\ Tail(b) \in Seq(C) /\ Append(g, Head(b)) \in Seq(C)
      /\ Len(Tail(b)) = Len(b) - 1 /\ Len(Append(g, Head(b))) = Len(g) + 1
      /\ Head(b) = b[1]
      /\ \A i \in 1 .. (Len(b) - 1) : Tail(b)[i] = b[i + 1]
      /\ \A i \in 1 .. Len(g) : Append(g, Head(b))[i] = g[i]
      /\ Append(g, Head(b))[Len(g) + 1] = Head(b)
      /\ Len(b) \in Nat \ {0} /\ Len(g) \in Nat
  <2> HIDE DEF b, g, C
  <2> QED
    BY <1>2
<1>4. AnswersTypeOK'
  <2>1. \A q \in Subscriptions : Len(buf'[q]) <= Size(q)'
    <3>1. \A q \in Subscriptions : Size(q)' = Size(q) /\ Size(q) \in Nat
      BY <1>1 DEF Size
    <3> QED
      BY <1>1, <1>3, <3>1 DEF AnsInv, AnswersTypeOK
  <2> QED
    BY <1>1, <1>3, <2>1 DEF AnsInv, AnswersTypeOK
<1>5. ProducerInv'
  BY <1>1 DEF AnsInv, ProducerInv
<1>6. ReaderInv'
  BY <1>1 DEF AnsInv, AnswersTypeOK, ReaderInv
<1>7. InOrder'
  <2> SUFFICES ASSUME NEW q \in Subscriptions
               PROVE  /\ Len(got[q])' + Len(buf[q])' = Put(q)'
                      /\ \A i \in 1 .. Len(got[q])' : got'[q][i] = i
                      /\ \A i \in 1 .. Len(buf[q])' : buf'[q][i] = Len(got[q])' + i
    BY DEF InOrder
  <2>1. CASE q = s
    <3>1. got'[q] = Append(g, Head(b)) /\ buf'[q] = Tail(b) /\ Put(q)' = Put(s)
      BY <1>1, <2>1 DEF AnsInv, AnswersTypeOK, Put
    <3>2. /\ \A i \in 1 .. Len(g) : g[i] = i
          /\ \A i \in 1 .. Len(b) : b[i] = Len(g) + i
          /\ Len(g) + Len(b) = Put(s)
      BY DEF AnsInv, InOrder
    <3> HIDE DEF b, g
    <3> QED
      BY <1>3, <3>1, <3>2
  <2>2. CASE q # s
    BY <1>1, <2>2 DEF AnsInv, AnswersTypeOK, InOrder, Put
  <2> QED
    BY <2>1, <2>2
<1> QED
  BY <1>4, <1>5, <1>6, <1>7 DEF AnsInv

\* A reader that ends, a context that is done and the cache touch no message.
LEMMA AsideInv ==
    ASSUME AnsInv,
           \/ \E s \in Subscriptions : Finish(s) \/ Leave(s) \/ Cancel(s)
           \/ \E n \in Names : Evict(n)
           \/ UNCHANGED ansVars
    PROVE  AnsInv'
<1>1. UNCHANGED <<name, producer, made, channels, got>>
  BY DEF Finish, Leave, Cancel, Evict, ansVars, channels, clients
<1>2. ASSUME NEW s \in Subscriptions, Finish(s) \/ Leave(s) \/ Cancel(s)
      PROVE  AnswersTypeOK' /\ ReaderInv'
  BY <1>2 DEF Finish, Leave, Cancel, channels, AnsInv, AnswersTypeOK, ReaderInv, Size
<1>3. ASSUME NEW n \in Names, Evict(n) PROVE AnswersTypeOK' /\ ReaderInv'
  BY <1>3 DEF Evict, channels, clients, AnsInv, AnswersTypeOK, ReaderInv, Size
<1>4. ASSUME UNCHANGED ansVars PROVE AnswersTypeOK' /\ ReaderInv'
  <2>1. AnswersTypeOK'
    BY <1>4 DEF ansVars, channels, clients, AnsInv, AnswersTypeOK, Size
  <2>2. ReaderInv'
    BY <1>4 DEF ansVars, channels, clients, AnsInv, ReaderInv
  <2> QED
    BY <2>1, <2>2
<1> QED
  BY <1>1, <1>2, <1>3, <1>4, AnsInvKept

\* The inductive invariant: what a client has received and what waits for it are
\* the messages made for it, in order.
THEOREM AnswersInvariant == AnsSpec => []AnsInv
<1>1. AnsInv /\ [AnsNext]_ansVars => AnsInv'
  BY ServeCachedInv, StartInv, MadeInv, MoveInv, SendInv, ReceiveInv, AsideInv
     DEF AnsNext, ReaderStep
<1> QED
  BY <1>1, AnsInvInit, PTL DEF AnsSpec

\* Producers, channels and readers keep their types, and no channel holds more
\* than its capacity.
THEOREM AnswersTypeCorrect == AnsSpec => []AnswersTypeOK
  BY AnswersInvariant, PTL DEF AnsInv

\* A client that reads to the end of its channel has the whole answer.
THEOREM AnswerComplete == AnsSpec => []WholeAnswer
<1>1. AnsInv => WholeAnswer
  <2> SUFFICES ASSUME AnsInv, NEW s \in Subscriptions, reader[s] = "finished"
               PROVE  /\ got[s] = [i \in 1 .. made[s] |-> i]
                      /\ name[s] # NoName => made[s] = 1
    BY DEF WholeAnswer
  <2>1. producer[s] = "done" /\ buf[s] = << >> /\ Put(s) = made[s]
    BY DEF AnsInv, ReaderInv, ProducerInv, Put
  <2>2. Len(got[s]) = made[s] /\ \A i \in 1 .. Len(got[s]) : got[s][i] = i
    BY <2>1 DEF AnsInv, InOrder, AnswersTypeOK
  <2>3. got[s] \in Seq(1 .. (MaxChunks + 1))
    BY DEF AnsInv, AnswersTypeOK
  <2>4. DOMAIN got[s] = 1 .. made[s] /\ got[s] = [i \in DOMAIN got[s] |-> got[s][i]]
    BY <2>2, <2>3
  <2> QED
    BY <2>1, <2>2, <2>4 DEF AnsInv, ProducerInv
<1> QED
  BY <1>1, AnswersInvariant, PTL

-----------------------------------------------------------------------------
(* The execution of operations: paths. *)

Paths == Seq(Segments)

\* A set of numbers has a least element.
LEMMA LeastNumber ==
    ASSUME NEW T \in SUBSET Nat, T # {}
    PROVE  \E n \in T : \A m \in T : n <= m
<1>1. \E x \in T : \A y \in T : ~ (<<y, x>> \in OpToRel(<, Nat))
  BY WFMin, NatLessThanWellFounded, Zenon
<1>2. PICK x \in T : \A y \in T : ~ (<<y, x>> \in OpToRel(<, Nat))
  BY <1>1
<1>3. \A y \in T : ~ (y < x)
  BY <1>2, Zenon DEF OpToRel
<1> QED
  BY <1>3

\* The path of a child: its parent's, and one name more.
LEMMA AppendPath ==
    ASSUME NEW p \in Paths, NEW f \in Segments
    PROVE  /\ Append(p, f) \in Paths /\ Append(p, f) # <<>>
           /\ Front(Append(p, f)) = p /\ Last(Append(p, f)) = f
           /\ Len(Append(p, f)) = Len(p) + 1
           /\ \A k \in 0 .. Len(p) : SubSeq(Append(p, f), 1, k) = SubSeq(p, 1, k)
           /\ SubSeq(Append(p, f), 1, Len(p) + 1) = Append(p, f)
<1>1. Append(p, f) \in Paths /\ Len(Append(p, f)) = Len(p) + 1 /\ Append(p, f) # <<>>
  <2>1. Append(p, f) \in Paths
    BY DEF Paths
  <2>2. Len(Append(p, f)) = Len(p) + 1 /\ Len(p) \in Nat
    BY DEF Paths
  <2> QED
    BY <2>1, <2>2
<1>2. Last(Append(p, f)) = f
  BY <1>1 DEF Paths, Last
<1>3. \A k \in 0 .. Len(p) : SubSeq(Append(p, f), 1, k) = SubSeq(p, 1, k)
  BY <1>1 DEF Paths
<1>4. SubSeq(p, 1, Len(p)) = p /\ SubSeq(Append(p, f), 1, Len(p) + 1) = Append(p, f)
  BY <1>1 DEF Paths
<1> QED
  BY <1>1, <1>2, <1>3, <1>4 DEF Front, Paths

\* A path below the root has a parent.
LEMMA FrontPath ==
    ASSUME NEW p \in Paths, p # <<>>
    PROVE  /\ Front(p) \in Paths /\ Len(Front(p)) = Len(p) - 1 /\ Len(p) > 0
           /\ Front(p) = SubSeq(p, 1, Len(p) - 1)
           /\ Last(p) \in Segments /\ p = Append(Front(p), Last(p))
<1>1. Len(p) > 0 /\ Last(p) \in Segments
  <2>1. Len(p) \in Nat /\ Len(p) # 0
    BY DEF Paths
  <2> QED
    BY <2>1 DEF Paths, Last
<1>2. Front(p) \in Paths /\ Len(Front(p)) = Len(p) - 1
  <2>1. Len(p) \in Nat /\ Len(p) - 1 \in 0 .. Len(p)
    BY <1>1 DEF Paths
  <2>2. \A k \in 0 .. Len(p) : SubSeq(p, 1, k) \in Paths /\ Len(SubSeq(p, 1, k)) = k
    BY DEF Paths
  <2> QED
    BY <2>1, <2>2 DEF Front
<1>3. p = Append(Front(p), Last(p))
  <2>1. Append(Front(p), Last(p)) \in Paths /\ Len(Append(Front(p), Last(p))) = Len(p)
    BY <1>1, <1>2, AppendPath DEF Paths
  <2>2. \A i \in 1 .. Len(p) : Append(Front(p), Last(p))[i] = p[i]
    BY <1>1, <1>2 DEF Paths, Front, Last
  <2> QED
    BY <2>1, <2>2 DEF Paths
<1> QED
  BY <1>1, <1>2, <1>3 DEF Front

\* Prefixes are paths, and a prefix of a prefix is a prefix.
LEMMA PrefixPath ==
    ASSUME NEW p \in Paths
    PROVE  /\ \A k \in 0 .. Len(p) :
                /\ SubSeq(p, 1, k) \in Paths /\ Len(SubSeq(p, 1, k)) = k
                /\ IsPrefix(SubSeq(p, 1, k), p)
                /\ k > 0 => Front(SubSeq(p, 1, k)) = SubSeq(p, 1, k - 1)
           /\ SubSeq(p, 1, Len(p)) = p
           /\ SubSeq(p, 1, 0) = <<>>
BY DEF Paths, Front, IsPrefix

\* A path's prefixes are its parent's, and itself.
LEMMA PrefixesOfChild ==
    ASSUME NEW q \in Paths, q # <<>>
    PROVE  /\ Len(q) = Len(Front(q)) + 1 /\ Len(Front(q)) \in Nat
           /\ SubSeq(q, 1, Len(q)) = q
           /\ \A k \in 0 .. Len(Front(q)) : SubSeq(q, 1, k) = SubSeq(Front(q), 1, k)
           /\ \A k \in 0 .. Len(q) : k \in 0 .. Len(Front(q)) \/ k = Len(q)
<1>1. Front(q) \in Paths /\ Len(Front(q)) = Len(q) - 1 /\ Len(q) \in Nat /\ Len(q) > 0
  BY FrontPath DEF Paths
<1>2. SubSeq(q, 1, Len(q)) = q
  BY PrefixPath
<1>3. \A k \in 0 .. Len(q) - 1 : SubSeq(q, 1, k) = SubSeq(SubSeq(q, 1, Len(q) - 1), 1, k)
  BY <1>1 DEF Paths
<1>4. \A k \in 0 .. Len(Front(q)) : SubSeq(q, 1, k) = SubSeq(Front(q), 1, k)
  BY <1>1, <1>3 DEF Front
<1>5. \A k \in 0 .. Len(q) : k \in 0 .. Len(Front(q)) \/ k = Len(q)
  BY <1>1
<1>6. Len(q) = Len(Front(q)) + 1 /\ Len(Front(q)) \in Nat
  BY <1>1
<1> QED
  BY <1>2, <1>4, <1>5, <1>6

LEMMA PrefixesOfRoot == Len(<<>>) = 0 /\ \A k \in 0 .. 0 : SubSeq(<<>>, 1, k) = <<>>
<1>1. ASSUME NEW S, NEW s \in Seq(S), s = <<>>
      PROVE  Len(s) = 0 /\ \A k \in 0 .. 0 : SubSeq(s, 1, k) = <<>>
  <2>1. Len(s) = 0
    BY <1>1
  <2>2. SubSeq(s, 1, 0) = <<>>
    BY <1>1
  <2>3. \A k \in 0 .. 0 : k = 0
    OBVIOUS
  <2> QED
    BY <2>1, <2>2, <2>3
<1>2. <<>> \in Seq({})
  OBVIOUS
<1> QED
  BY <1>1, <1>2

\* A set that holds a path's parent with all its prefixes.
LEMMA PrefixesHeld ==
    ASSUME NEW D, NEW q \in Paths, q # <<>>, q \in D, NEW e, e = Front(q),
           \A k \in 0 .. Len(e) : SubSeq(e, 1, k) \in D
    PROVE  \A k \in 0 .. Len(q) : SubSeq(q, 1, k) \in D
BY PrefixesOfChild

LEMMA FrontIsPrefix ==
    ASSUME NEW p \in Paths, NEW e \in Paths, p # <<>>, IsPrefix(p, e)
    PROVE  IsPrefix(Front(p), e)
BY DEF Paths, Front, IsPrefix

LEMMA SamePath ==
    ASSUME NEW p \in Paths
    PROVE  IsPrefix(p, p) /\ IsPrefix(<<>>, p)
BY DEF Paths, IsPrefix

LEMMA ChildPath ==
    ASSUME NEW p \in Paths, NEW q \in Paths
    PROVE  Len(q) = Len(p) + 1 /\ IsPrefix(p, q) <=> q # <<>> /\ Front(q) = p
BY DEF Paths, IsPrefix, Front

-----------------------------------------------------------------------------
(* The inductive invariant. *)

Fields == {"type", "via", "list", "null", "sel", "shape", "state", "out", "res", "invalids"}

\* The nodes are the paths of a tree of finite depth.
TreeInv ==
    /\ DOMAIN node \subseteq Paths
    /\ \A p \in DOMAIN node : \A k \in 0 .. Len(p) : SubSeq(p, 1, k) \in DOMAIN node
    /\ \E d \in Nat : \A p \in DOMAIN node : Len(p) <= d

\* A node waits, runs with a value, or is done with a result.
WellFormed(n) ==
    /\ DOMAIN n = Fields
    /\ n.state \in States /\ n.out \in Outcomes /\ n.shape \in Shapes
    /\ n.res \in {"none", "ok", "null"} /\ n.invalids \in Nat
    /\ n.state = "queued" => n.out = "none" /\ n.invalids = 0
    /\ n.state = "open" => n.out = "value"
    /\ n.state = "done" <=> n.res # "none"
    /\ n.state = "done" => n.out # "none"

\* The type of a node is the one that validation found for its selection.
Typed(n) == n.sel \in op.sel \union {<<>>} /\ n.type = op.type[n.sel]

NodesInv == \A p \in DOMAIN node : WellFormed(node[p]) /\ Typed(node[p])

(***************************************************************************)
(* Only a node that runs with a value, or did, has nodes below it, which   *)
(* it waits for.  The elements of a list and the fields of a tag are not   *)
(* nullable.                                                               *)
(***************************************************************************)
BelowInv ==
    \A q \in DOMAIN node \ {<<>>} :
        LET p == Front(q) IN
        /\ node[p].state # "queued" /\ node[p].out = "value"
        /\ node[p].state = "done" => node[q].state = "done"
        /\ node[p].list \/ node[p].type = "Tag" => ~node[q].null

\* There is a null right below p where none is allowed.
NullBelow(p) ==
    \E q \in DOMAIN node \ {<<>>} : Front(q) = p /\ ~node[q].null /\ node[q].res = "null"

\* The rule of GraphQL, one level at a time, and what the counters count.
NullInv ==
    \A p \in DOMAIN node :
        /\ node[p].state = "done" /\ (p # <<>> \/ op.on # "Subscription") =>
            (node[p].res = "null" <=> node[p].out # "value" \/ NullBelow(p))
        /\ node[p].state = "open" /\ ~node[p].list =>
            (node[p].invalids > 0 <=> NullBelow(p))

\* Every error of a field is that of a null, and every null has such an error at
\* or below it.
ErrorsInv ==
    <<>> \in DOMAIN node =>
        /\ \A e \in errors \ {<<>>} : e \in DOMAIN node \ {<<>>} /\ node[e].res = "null"
        /\ \A p \in DOMAIN node : node[p].res = "null" => \E e \in errors \ {<<>>} : IsPrefix(p, e)

PhaseInv ==
    /\ op \in Operations /\ phase \in Phases /\ events \in 0 .. MaxEvents
    /\ node = <<>> \/ <<>> \in DOMAIN node
    /\ errors \subseteq DOMAIN node \union {<<>>}
    /\ phase \in {"start", "nilStream"} => node = <<>>
    /\ phase = "start" => errors = {} /\ calls = <<>>
    /\ phase # "start" /\ op.on # "Subscription" =>
        phase \in {"running", "answered"} /\ <<>> \in DOMAIN node
    /\ phase = "listening" => op.on = "Subscription"
    /\ phase \in {"listening", "running"} /\ op.on = "Subscription" => Len(op.root) = 1
    /\ phase = "running" =>
        <<>> \in DOMAIN node /\ node[<<>>].state = "open" /\ ~node[<<>>].list
    /\ phase \in {"listening", "answered", "ended"} =>
        \A p \in DOMAIN node : node[p].state = "done"

AnswerInv ==
    /\ answer = None \/ DOMAIN answer = {"data", "errors"}
    /\ NullsExplained
    /\ phase = "answered" =>
        IF op.on = "Subscription" THEN answer.data = None ELSE answer.data = Data(node)

ExecInv ==
    /\ TreeInv /\ NodesInv /\ BelowInv /\ NullInv
    /\ ErrorsInv /\ PhaseInv /\ AnswerInv

\* A root field of a mutation has started.
Started(f) == <<f>> \in DOMAIN node /\ node[<<f>>].state # "queued"

-----------------------------------------------------------------------------
(* What the steps do to the tree. *)

\* The fields that no step changes.
SameField(m, n) ==
    /\ m.type = n.type /\ m.list = n.list /\ m.null = n.null /\ m.sel = n.sel
    /\ m.via = n.via

\* p finishes with the given outcome and result.
Closes(p, out, res) ==
    /\ DOMAIN node' = DOMAIN node
    /\ \A q \in DOMAIN node :
        /\ DOMAIN node'[q] = Fields /\ SameField(node'[q], node[q])
        /\ node'[q].shape = node[q].shape
        /\ node'[q].state = IF q = p THEN "done" ELSE node[q].state
        /\ node'[q].out = IF q = p THEN out ELSE node[q].out
        /\ node'[q].res = IF q = p THEN res ELSE node[q].res
        /\ node'[q].invalids =
            IF q = Front(p) /\ res = "null" /\ ~node[p].null /\ ~node[q].list
            THEN node[q].invalids + 1 ELSE node[q].invalids

\* p has a value, below which new nodes wait or run.
Opens(p) ==
    /\ DOMAIN node \subseteq DOMAIN node'
    /\ \A q \in DOMAIN node \ {p} : node'[q] = node[q]
    /\ WellFormed(node'[p]) /\ SameField(node'[p], node[p])
    /\ node'[p].state = "open" /\ node'[p].invalids = 0
    /\ \A q \in DOMAIN node' \ DOMAIN node :
        /\ q \in Paths /\ q # <<>>
        /\ \/ Front(q) = p
           \/ Front(q) \in DOMAIN node' \ DOMAIN node /\ Front(Front(q)) = p
        /\ WellFormed(node'[q]) /\ Typed(node'[q])
        /\ node'[q].res = "none" /\ node'[q].invalids = 0
        /\ node'[Front(q)].state = "open"
        /\ node'[Front(q)].list \/ node'[Front(q)].type = "Tag" => ~node'[q].null

LEMMA FinishedCloses ==
    ASSUME TreeInv, NodesInv, NEW p \in DOMAIN node, p # <<>>, NEW out, NEW res,
           node' = Finished(node, p, out, res)
    PROVE  Closes(p, out, res)
<1>1. Front(p) \in DOMAIN node /\ Front(p) # p
  <2>1. p \in Paths /\ Len(p) \in Nat
    BY DEF TreeInv, Paths
  <2>2. Front(p) = SubSeq(p, 1, Len(p) - 1) /\ Len(Front(p)) = Len(p) - 1 /\ Len(p) > 0
    BY <2>1, FrontPath
  <2>3. Len(p) - 1 \in 0 .. Len(p)
    BY <2>1, <2>2
  <2>4. Front(p) \in DOMAIN node
    BY <2>2, <2>3 DEF TreeInv
  <2> QED
    BY <2>1, <2>2, <2>4
<1>2. \A q \in DOMAIN node : DOMAIN node[q] = Fields /\ node[q].invalids \in Nat
  BY DEF NodesInv, WellFormed
<1> DEFINE n == [node EXCEPT ![p].state = "done", ![p].out = out, ![p].res = res]
<1>3. /\ DOMAIN n = DOMAIN node
      /\ \A q \in DOMAIN node :
        /\ DOMAIN n[q] = Fields /\ SameField(n[q], node[q])
        /\ n[q].shape = node[q].shape
        /\ n[q].state = IF q = p THEN "done" ELSE node[q].state
        /\ n[q].out = IF q = p THEN out ELSE node[q].out
        /\ n[q].res = IF q = p THEN res ELSE node[q].res
        /\ n[q].invalids = node[q].invalids
  BY <1>2 DEF SameField, Fields
<1> HIDE DEF n
<1>4. CASE res = "null" /\ ~node[p].null /\ ~node[Front(p)].list
  <2>1. node' = [n EXCEPT ![Front(p)].invalids = @ + 1]
    BY <1>4 DEF Finished, n
  <2> QED
    BY <2>1, <1>1, <1>2, <1>3, <1>4 DEF Closes, SameField, Fields
<1>5. CASE ~(res = "null" /\ ~node[p].null /\ ~node[Front(p)].list)
  <2>1. node' = n
    BY <1>5 DEF Finished, n
  <2> QED
    BY <2>1, <1>1, <1>3, <1>5 DEF Closes
<1> QED
  BY <1>4, <1>5

\* The fields of a tag are not nullable.
LEMMA TagFieldsNotNull == \A f \in DOMAIN FieldsOf["Tag"] : ~FieldsOf["Tag"][f].null
<1>1. FieldsOf["Tag"] = TagFields
  BY DEF FieldsOf
<1> QED
  BY <1>1 DEF TagFields, Value, Resolver

\* What an object's selected fields are.
FreshField(new, c, paths, type) ==
    /\ c \in Paths /\ c # <<>> /\ Front(c) \in paths
    /\ WellFormed(new[c]) /\ Typed(new[c])
    /\ new[c].state = "queued" /\ new[c].res = "none" /\ new[c].invalids = 0
    /\ type = "Tag" => ~new[c].null

LEMMA FieldsAtFacts ==
    ASSUME op \in Operations, NEW paths \in SUBSET Paths,
           NEW type, NEW sel \in op.sel \union {<<>>}, type = op.type[sel],
           NEW new, new = FieldsAt(paths, type, sel), NEW c \in DOMAIN new
    PROVE  FreshField(new, c, paths, type)
<1>1. PICK p \in paths, t \in op.sel : Front(t) = sel /\ c = Append(p, Last(t))
  BY DEF FieldsAt, Selected
<1>2. t \in Paths /\ t # <<>> /\ Last(t) \in DOMAIN FieldsOf[op.type[Front(t)]]
      /\ op.type[t] = FieldsOf[op.type[Front(t)]][Last(t)].type
  BY ExecutionAssumption DEF Paths
<1>3. Last(t) \in Segments /\ Append(sel, Last(t)) = t
  BY <1>1, <1>2, FrontPath
<1>4. c \in Paths /\ c # <<>> /\ Front(c) = p /\ Last(c) = Last(t)
  BY <1>1, <1>3, AppendPath
<1>5. new[c] = Queued(FieldsOf[type][Last(t)], t)
  <2> DEFINE D == {Append(r, f) : r \in paths, f \in Selected(sel)}
             F(x) == Queued(FieldsOf[type][Last(x)], Append(sel, Last(x)))
  <2>1. new = [x \in D |-> F(x)] /\ c \in D
    BY DEF FieldsAt
  <2> HIDE DEF D
  <2>2. new[c] = F(c)
    BY <2>1
  <2> QED
    BY <2>2, <1>3, <1>4
<1>6. WellFormed(Queued(FieldsOf[type][Last(t)], t))
  BY DEF WellFormed, Queued, Fields, States, Outcomes, Shapes
<1>7. Typed(Queued(FieldsOf[type][Last(t)], t))
  BY <1>1, <1>2 DEF Typed, Queued
<1>8. type = "Tag" => ~Queued(FieldsOf[type][Last(t)], t).null
  BY <1>1, <1>2, TagFieldsNotNull DEF Queued
<1>9. new[c].state = "queued" /\ new[c].res = "none" /\ new[c].invalids = 0
  BY <1>5 DEF Queued
<1>10. WellFormed(new[c]) /\ Typed(new[c]) /\ (type = "Tag" => ~new[c].null)
  BY <1>5, <1>6, <1>7, <1>8
<1> QED
  BY <1>4, <1>9, <1>10 DEF FreshField

\* What a resolver may return, and how it may go.
LEMMA ShapesAreShapes == \A type, field : ShapesOf(type, field) \subseteq Shapes
BY DEF ShapesOf, TagShapes, Shapes

LEMMA OutcomesAreOutcomes ==
    \A p : OutcomesOf(p) \subseteq Outcomes \ {"none"}
<1>1. \A type, shape : ValueOutcomes(type, shape) \subseteq Outcomes \ {"none"}
  BY DEF ValueOutcomes, Outcomes
<1>2. \A shape : Category(shape) \subseteq Outcomes \ {"none"}
  BY DEF Category, Outcomes
<1>3. \A type, f, shape : ResolverOutcomes(type, f, shape) \subseteq Outcomes \ {"none"}
  BY <1>2 DEF ResolverOutcomes, Outcomes
<1> QED
  BY <1>1, <1>3 DEF OutcomesOf

\* A node that waits has nothing below it.
LEMMA QueuedIsLeaf ==
    ASSUME BelowInv, NEW p \in DOMAIN node, node[p].state = "queued",
           NEW q \in DOMAIN node, q # <<>>
    PROVE  Front(q) # p
BY DEF BelowInv

LEMMA FieldReturnsObjectOpens ==
    ASSUME TreeInv, NodesInv, BelowInv, op \in Operations,
           NEW p \in DOMAIN node, FieldReturnsObject(p)
    PROVE  Opens(p)
<1> DEFINE type == node[p].type
           sel == node[p].sel
           new == FieldsAt({p}, type, sel)
<1>1. PICK shape \in Shapes :
        node' = Grown([node EXCEPT ![p].state = "open", ![p].out = "value", ![p].shape = shape], new)
  BY ShapesAreShapes DEF FieldReturnsObject
<1>2. node[p].state = "queued" /\ WellFormed(node[p]) /\ Typed(node[p]) /\ p \in Paths
      /\ ~node[p].list
  BY DEF FieldReturnsObject, MayStart, NodesInv, TreeInv
<1>3. \A c \in DOMAIN new :
        /\ c \in Paths /\ c # <<>> /\ Front(c) = p
        /\ WellFormed(new[c]) /\ Typed(new[c]) /\ new[c].res = "none" /\ new[c].invalids = 0
        /\ type = "Tag" => ~new[c].null
  <2>1. {p} \in SUBSET Paths /\ sel \in op.sel \union {<<>>} /\ type = op.type[sel]
    BY <1>2 DEF Typed
  <2> HIDE DEF type, sel
  <2>2. new = FieldsAt({p}, type, sel)
    OBVIOUS
  <2> HIDE DEF new
  <2>3. \A c \in DOMAIN new : FreshField(new, c, {p}, type)
    BY <2>1, <2>2, FieldsAtFacts, Zenon
  <2> QED
    BY <2>3 DEF FreshField
<1>4. \A c \in DOMAIN new : c \notin DOMAIN node
  BY <1>2, <1>3, QueuedIsLeaf
<1> HIDE DEF new
<1> DEFINE old == [node EXCEPT ![p].state = "open", ![p].out = "value", ![p].shape = shape]
<1>5. /\ DOMAIN old = DOMAIN node
      /\ \A q \in DOMAIN node \ {p} : old[q] = node[q]
      /\ WellFormed(old[p]) /\ SameField(old[p], node[p])
      /\ old[p].state = "open" /\ old[p].invalids = 0
  BY <1>2 DEF WellFormed, SameField, Fields, States, Outcomes
<1> HIDE DEF old
<1>6. /\ DOMAIN node' = DOMAIN new \union DOMAIN node
      /\ \A q \in DOMAIN node : node'[q] = old[q]
      /\ \A q \in DOMAIN new : node'[q] = new[q]
  BY <1>1, <1>4, <1>5 DEF Grown, old
<1>7. /\ WellFormed(node'[p]) /\ SameField(node'[p], node[p])
      /\ node'[p].state = "open" /\ node'[p].invalids = 0
  BY <1>5, <1>6
<1>8. node'[p].type = type /\ ~node'[p].list
  BY <1>2, <1>7 DEF SameField
<1>9. ASSUME NEW q \in DOMAIN node' \ DOMAIN node
      PROVE  /\ q \in Paths /\ q # <<>> /\ Front(q) = p
             /\ WellFormed(node'[q]) /\ Typed(node'[q])
             /\ node'[q].res = "none" /\ node'[q].invalids = 0
             /\ node'[p].list \/ node'[p].type = "Tag" => ~node'[q].null
  BY <1>3, <1>6, <1>8
<1> QED
  BY <1>5, <1>6, <1>7, <1>9 DEF Opens

LEMMA FieldReturnsListOpens ==
    ASSUME TreeInv, NodesInv, BelowInv, op \in Operations,
           NEW p \in DOMAIN node, FieldReturnsList(p)
    PROVE  Opens(p)
<1> DEFINE type == node[p].type
           sel == node[p].sel
<1>1. PICK len \in 0 .. MaxLen :
      \E shape \in [{Append(p, Index[i]) : i \in 1 .. len} -> ShapesOf(Parent(p).type, node[p])] :
        node' = Grown([node EXCEPT ![p].state = "open", ![p].out = "value"],
                      Grown([q \in DOMAIN shape |-> Object(type, sel, shape[q])],
                            FieldsAt(DOMAIN shape, type, sel)))
  BY DEF FieldReturnsList
<1> DEFINE paths == {Append(p, Index[i]) : i \in 1 .. len}
<1>2. PICK shape \in [paths -> Shapes] :
        node' = Grown([node EXCEPT ![p].state = "open", ![p].out = "value"],
                      Grown([q \in paths |-> Object(type, sel, shape[q])],
                            FieldsAt(paths, type, sel)))
  BY <1>1, ShapesAreShapes
<1>3. node[p].state = "queued" /\ WellFormed(node[p]) /\ Typed(node[p]) /\ p \in Paths
  BY DEF FieldReturnsList, MayStart, NodesInv, TreeInv
<1>4. \A e \in paths : e \in Paths /\ e # <<>> /\ Front(e) = p
  <2>1. \A i \in 1 .. len : Index[i] \in Segments
    <3>1. len <= 3 /\ DOMAIN Index = 1 .. 3
      BY ExecutionAssumption DEF Index
    <3>2. \A i \in 1 .. len : i \in DOMAIN Index
      BY <3>1
    <3>3. \A i \in DOMAIN Index : Index[i] \in ToSet(Index)
      BY DEF ToSet
    <3>4. ToSet(Index) \subseteq Segments
      BY Zenon DEF Segments
    <3> QED
      BY <3>2, <3>3, <3>4
  <2>2. ASSUME NEW i \in 1 .. len
        PROVE  LET e == Append(p, Index[i]) IN e \in Paths /\ e # <<>> /\ Front(e) = p
    BY <2>1, <1>3, AppendPath
  <2> QED
    BY <2>2
<1> HIDE DEF paths
<1> DEFINE elements == [q \in paths |-> Object(type, sel, shape[q])]
           fields == FieldsAt(paths, type, sel)
           old == [node EXCEPT ![p].state = "open", ![p].out = "value"]
<1>5. \A c \in DOMAIN fields :
        /\ c \in Paths /\ c # <<>> /\ Front(c) \in paths
        /\ WellFormed(fields[c]) /\ Typed(fields[c])
        /\ fields[c].res = "none" /\ fields[c].invalids = 0
        /\ type = "Tag" => ~fields[c].null
  <2>1. paths \in SUBSET Paths /\ sel \in op.sel \union {<<>>} /\ type = op.type[sel]
    BY <1>3, <1>4 DEF Typed
  <2>2. fields = FieldsAt(paths, type, sel)
    OBVIOUS
  <2> HIDE DEF type, sel, fields
  <2>3. \A c \in DOMAIN fields : FreshField(fields, c, paths, type)
    BY <2>1, <2>2, FieldsAtFacts, Zenon
  <2> QED
    BY <2>3 DEF FreshField
<1>6. \A e \in paths :
        /\ WellFormed(elements[e]) /\ Typed(elements[e])
        /\ elements[e].res = "none" /\ elements[e].invalids = 0 /\ elements[e].state = "open"
        /\ ~elements[e].null /\ ~elements[e].list /\ elements[e].type = type
  BY <1>3 DEF Object, Queued, Value, WellFormed, Typed, Fields, States, Outcomes
<1>7. /\ DOMAIN old = DOMAIN node
      /\ \A q \in DOMAIN node \ {p} : old[q] = node[q]
      /\ WellFormed(old[p]) /\ SameField(old[p], node[p])
      /\ old[p].state = "open" /\ old[p].invalids = 0
  BY <1>3 DEF WellFormed, SameField, Fields, States, Outcomes
<1>8. \A e \in paths : e \notin DOMAIN node /\ e \notin DOMAIN fields
  <2>1. SUFFICES ASSUME NEW e \in paths PROVE e \notin DOMAIN node /\ e \notin DOMAIN fields
    OBVIOUS
  <2>2. e \notin DOMAIN node
    BY <1>3, <1>4, QueuedIsLeaf
  <2>3. ASSUME e \in DOMAIN fields PROVE FALSE
    <3>1. Front(e) = p /\ p \in paths
      BY <1>4, <1>5, <2>3
    <3>2. Front(p) = p /\ p # <<>>
      BY <3>1, <1>4
    <3>3. Len(p) = Len(p) - 1 /\ Len(p) \in Nat
      BY <3>2, <1>3, FrontPath DEF Paths
    <3> QED
      BY <3>3
  <2> QED
    BY <2>2, <2>3
<1>9. \A c \in DOMAIN fields : c \notin DOMAIN node
  <2>1. SUFFICES ASSUME NEW c \in DOMAIN fields, c \in DOMAIN node PROVE FALSE
    OBVIOUS
  <2>2. c \in Paths /\ c # <<>> /\ Len(c) \in Nat
    BY <1>5 DEF Paths
  <2>3. Front(c) = SubSeq(c, 1, Len(c) - 1) /\ Len(c) - 1 \in 0 .. Len(c)
    BY <2>2, FrontPath
  <2>4. Front(c) \in DOMAIN node
    BY <2>1, <2>3 DEF TreeInv
  <2> QED
    BY <2>4, <1>5, <1>8
<1> HIDE DEF elements, fields, old
<1>10. DOMAIN elements = paths
  BY DEF elements
<1>11. /\ DOMAIN node' = paths \union DOMAIN fields \union DOMAIN node
       /\ \A q \in DOMAIN node : node'[q] = old[q]
       /\ \A q \in paths : node'[q] = elements[q]
       /\ \A q \in DOMAIN fields : node'[q] = fields[q]
  <2>1. node' = Grown(old, Grown(elements, fields))
    BY <1>2 DEF elements, fields, old
  <2> QED
    BY <2>1, <1>7, <1>8, <1>9, <1>10 DEF Grown
<1>12. /\ WellFormed(node'[p]) /\ SameField(node'[p], node[p])
       /\ node'[p].state = "open" /\ node'[p].invalids = 0
  BY <1>7, <1>11
<1>13. ASSUME NEW q \in DOMAIN node' \ DOMAIN node
       PROVE  /\ q \in Paths /\ q # <<>>
              /\ \/ Front(q) = p
                 \/ Front(q) \in DOMAIN node' \ DOMAIN node /\ Front(Front(q)) = p
              /\ WellFormed(node'[q]) /\ Typed(node'[q])
              /\ node'[q].res = "none" /\ node'[q].invalids = 0
              /\ node'[Front(q)].state = "open"
              /\ node'[Front(q)].list \/ node'[Front(q)].type = "Tag" => ~node'[q].null
  <2>1. CASE q \in paths
    BY <2>1, <1>4, <1>6, <1>11, <1>12
  <2>2. CASE q \in DOMAIN fields
    <3>1. Front(q) \in paths
      BY <2>2, <1>5
    <3>2. node'[Front(q)].type = type /\ ~node'[Front(q)].list /\ node'[Front(q)].state = "open"
      BY <3>1, <1>6, <1>11
    <3>3. Front(q) \in DOMAIN node' \ DOMAIN node /\ Front(Front(q)) = p
      BY <3>1, <1>4, <1>8, <1>11
    <3> QED
      BY <2>2, <3>2, <3>3, <1>5, <1>11
  <2> QED
    BY <2>1, <2>2, <1>11
<1> QED
  BY <1>7, <1>11, <1>12, <1>13 DEF Opens

-----------------------------------------------------------------------------
(* The tree stays one, and its nulls follow the rule level by level. *)

TreesInv == TreeInv /\ NodesInv /\ BelowInv /\ NullInv

\* A node's parent is in the tree, and is another node.
LEMMA ParentInTree ==
    ASSUME TreeInv, NEW q \in DOMAIN node, q # <<>>
    PROVE  q \in Paths /\ Front(q) \in DOMAIN node /\ Front(q) # q
<1>1. q \in Paths /\ Len(q) \in Nat
  BY DEF TreeInv, Paths
<1>2. Front(q) = SubSeq(q, 1, Len(q) - 1) /\ Len(Front(q)) = Len(q) - 1 /\ Len(q) > 0
  BY <1>1, FrontPath
<1>3. Len(q) - 1 \in 0 .. Len(q)
  BY <1>1, <1>2
<1>4. Front(q) \in DOMAIN node
  BY <1>2, <1>3 DEF TreeInv
<1> QED
  BY <1>1, <1>2, <1>4

\* When a node may finish, and how.
MayClose(p, out, res) ==
    /\ p # <<>> /\ node[p].state # "done"
    /\ out \in Outcomes \ {"none"} /\ res \in {"ok", "null"}
    /\ \A q \in DOMAIN node \ {<<>>} : Front(q) = p => node[q].state = "done" /\ out = "value"
    /\ res = "null" <=> out # "value" \/ NullBelow(p)

LEMMA ClosesKeepsTree ==
    ASSUME TreesInv, op' = op, NEW p \in DOMAIN node, NEW out, NEW res,
           MayClose(p, out, res), Closes(p, out, res)
    PROVE  TreesInv'
<1> USE DEF TreesInv
<1>1. TreeInv'
  BY DEF TreeInv, Closes
<1>2. NodesInv'
  <2>1. SUFFICES ASSUME NEW q \in DOMAIN node
                 PROVE  WellFormed(node'[q]) /\ Typed(node'[q])
    BY DEF NodesInv, Closes, Typed
  <2>2. WellFormed(node[q]) /\ Typed(node[q]) /\ WellFormed(node[p])
    BY DEF NodesInv
  <2>3. Typed(node'[q])
    BY <2>2 DEF Typed, Closes, SameField
  <2>4. node[q].invalids + 1 \in Nat
    BY <2>2 DEF WellFormed
  <2>5. q = Front(p) => node[q].state # "queued"
    BY DEF BelowInv, MayClose
  <2>6. CASE q = p
    <3>1. Front(p) # p
      BY ParentInTree DEF MayClose
    <3> QED
      BY <2>2, <2>3, <2>6, <3>1 DEF WellFormed, Closes, MayClose, States
  <2>7. CASE q # p
    BY <2>2, <2>3, <2>4, <2>5, <2>7 DEF WellFormed, Closes
  <2> QED
    BY <2>6, <2>7
<1>3. Front(p) \in DOMAIN node /\ Front(p) # p /\ node[Front(p)].state = "open"
  <2>1. Front(p) \in DOMAIN node /\ Front(p) # p
    BY ParentInTree DEF MayClose
  <2>2. node[Front(p)].state \in States
    BY <2>1 DEF NodesInv, WellFormed
  <2>3. node[Front(p)].state \notin {"queued", "done"}
    BY DEF BelowInv, MayClose
  <2> QED
    BY <2>1, <2>2, <2>3 DEF States
<1>4. BelowInv'
  <2>1. SUFFICES ASSUME NEW q \in DOMAIN node, q # <<>>
                 PROVE  /\ node'[Front(q)].state # "queued" /\ node'[Front(q)].out = "value"
                        /\ node'[Front(q)].state = "done" => node'[q].state = "done"
                        /\ node'[Front(q)].list \/ node'[Front(q)].type = "Tag" => ~node'[q].null
    BY DEF BelowInv, Closes
  <2>2. Front(q) \in DOMAIN node
    BY <2>1, ParentInTree
  <2>3. /\ node[Front(q)].state # "queued" /\ node[Front(q)].out = "value"
        /\ node[Front(q)].state = "done" => node[q].state = "done"
        /\ node[Front(q)].list \/ node[Front(q)].type = "Tag" => ~node[q].null
    BY <2>1 DEF BelowInv
  <2>4. Front(q) = p => node[q].state = "done" /\ out = "value"
    BY <2>1 DEF MayClose
  <2>5. node'[Front(q)].list \/ node'[Front(q)].type = "Tag" => ~node'[q].null
    BY <2>2, <2>3 DEF Closes, SameField
  <2>6. node'[Front(q)].state # "queued" /\ node'[Front(q)].out = "value"
    BY <2>2, <2>3, <2>4 DEF Closes
  <2>7. node'[Front(q)].state = "done" => node'[q].state = "done"
    BY <2>2, <2>3, <2>4 DEF Closes
  <2> QED
    BY <2>5, <2>6, <2>7
<1>5. \A r \in DOMAIN node :
        NullBelow(r)' <=> NullBelow(r) \/ (r = Front(p) /\ ~node[p].null /\ res = "null")
  <2>1. node[p].res = "none"
    BY DEF NodesInv, WellFormed, MayClose
  <2>2. p \in DOMAIN node \ {<<>>}
    BY DEF MayClose
  <2> QED
    BY <2>1, <2>2 DEF NullBelow, Closes, SameField
<1>6. NullInv'
  <2>1. SUFFICES ASSUME NEW r \in DOMAIN node
                 PROVE  /\ node'[r].state = "done" /\ (r # <<>> \/ op.on # "Subscription") =>
                            (node'[r].res = "null" <=> node'[r].out # "value" \/ NullBelow(r)')
                        /\ node'[r].state = "open" /\ ~node'[r].list =>
                            (node'[r].invalids > 0 <=> NullBelow(r)')
    BY DEF NullInv, Closes
  <2>2. /\ node[r].state = "done" /\ (r # <<>> \/ op.on # "Subscription") =>
            (node[r].res = "null" <=> node[r].out # "value" \/ NullBelow(r))
        /\ node[r].state = "open" /\ ~node[r].list =>
            (node[r].invalids > 0 <=> NullBelow(r))
    BY DEF NullInv
  <2>3. node[r].invalids \in Nat
    BY DEF NodesInv, WellFormed
  <2>4. CASE r = p
    BY <2>4, <1>3, <1>5 DEF Closes, MayClose
  <2>5. CASE r = Front(p)
    <3>1. /\ node'[r].state = "open" /\ (node'[r].list <=> node[r].list)
          /\ node'[r].invalids = IF res = "null" /\ ~node[p].null /\ ~node[r].list
                                 THEN node[r].invalids + 1 ELSE node[r].invalids
      BY <2>5, <1>3 DEF Closes, SameField
    <3>2. node[r].state = "open"
      BY <2>5, <1>3
    <3>3. CASE node[r].list
      BY <3>1, <3>3
    <3>4. CASE ~node[r].list /\ res = "null" /\ ~node[p].null
      BY <3>1, <3>4, <2>3, <2>5, <1>5
    <3>5. CASE ~node[r].list /\ ~(res = "null" /\ ~node[p].null)
      BY <3>1, <3>2, <3>5, <2>2, <2>5, <1>5
    <3> QED
      BY <3>3, <3>4, <3>5
  <2>6. CASE r # p /\ r # Front(p)
    <3>1. /\ node'[r].state = node[r].state /\ (node'[r].list <=> node[r].list)
          /\ node'[r].out = node[r].out /\ node'[r].res = node[r].res
          /\ node'[r].invalids = node[r].invalids
      BY <2>6 DEF Closes, SameField
    <3>2. NullBelow(r)' <=> NullBelow(r)
      BY <2>6, <1>5
    <3> QED
      BY <3>1, <3>2, <2>2
  <2> QED
    BY <2>4, <2>5, <2>6
<1> QED
  BY <1>1, <1>2, <1>4, <1>6

LEMMA OpensKeepsTree ==
    ASSUME TreesInv, op' = op, NEW p \in DOMAIN node, node[p].state = "queued", Opens(p)
    PROVE  TreesInv'
<1> USE DEF TreesInv
<1> DEFINE new == DOMAIN node' \ DOMAIN node
<1>1. p \in Paths /\ WellFormed(node[p]) /\ Typed(node[p])
  BY DEF TreeInv, NodesInv
<1>2. \A q \in new : q \in Paths /\ q # <<>> /\
        (Front(q) = p \/ (Front(q) \in new /\ Front(Front(q)) = p))
  BY DEF Opens
<1>3. \A q \in DOMAIN node \ {<<>>} : Front(q) \in DOMAIN node /\ Front(q) # p
  BY ParentInTree, QueuedIsLeaf
<1>4. TreeInv'
  <2>1. DOMAIN node' \subseteq Paths
    BY <1>2 DEF TreeInv
  <2>2. \A q \in new : Front(q) = p =>
            Len(q) = Len(p) + 1 /\ \A k \in 0 .. Len(q) : SubSeq(q, 1, k) \in DOMAIN node'
    <3>1. SUFFICES ASSUME NEW q \in new, Front(q) = p
                   PROVE  /\ Len(q) = Len(p) + 1
                          /\ \A k \in 0 .. Len(q) : SubSeq(q, 1, k) \in DOMAIN node'
      OBVIOUS
    <3>2. /\ Len(q) = Len(p) + 1 /\ SubSeq(q, 1, Len(q)) = q
          /\ \A k \in 0 .. Len(p) : SubSeq(q, 1, k) = SubSeq(p, 1, k)
          /\ \A k \in 0 .. Len(q) : k \in 0 .. Len(p) \/ k = Len(q)
      BY <3>1, <1>2, PrefixesOfChild
    <3>3. \A k \in 0 .. Len(p) : SubSeq(q, 1, k) \in DOMAIN node'
      BY <3>2 DEF TreeInv, Opens
    <3> QED
      BY <3>1, <3>2, <3>3
  <2>3. \A q \in new : Front(q) # p =>
            Len(q) = Len(p) + 2 /\ \A k \in 0 .. Len(q) : SubSeq(q, 1, k) \in DOMAIN node'
    <3>1. SUFFICES ASSUME NEW q \in new, Front(q) # p
                   PROVE  /\ Len(q) = Len(p) + 2
                          /\ \A k \in 0 .. Len(q) : SubSeq(q, 1, k) \in DOMAIN node'
      OBVIOUS
    <3> DEFINE e == Front(q)
    <3>2. e \in new /\ Front(e) = p /\ e \in Paths
      BY <3>1, <1>2
    <3>3. Len(e) = Len(p) + 1 /\ \A k \in 0 .. Len(e) : SubSeq(e, 1, k) \in DOMAIN node'
      BY <3>2, <2>2
    <3>4. /\ Len(q) = Len(e) + 1 /\ SubSeq(q, 1, Len(q)) = q /\ Len(p) \in Nat
          /\ \A k \in 0 .. Len(e) : SubSeq(q, 1, k) = SubSeq(e, 1, k)
          /\ \A k \in 0 .. Len(q) : k \in 0 .. Len(e) \/ k = Len(q)
      BY <3>1, <1>1, <1>2, PrefixesOfChild DEF Paths
    <3> HIDE DEF e
    <3>5. Len(q) = Len(p) + 2
      BY <3>3, <3>4
    <3> QED
      BY <3>1, <3>3, <3>4, <3>5
  <2>4. ASSUME NEW q \in DOMAIN node', NEW k \in 0 .. Len(q) PROVE SubSeq(q, 1, k) \in DOMAIN node'
    <3>1. CASE q \in DOMAIN node
      BY <3>1 DEF TreeInv, Opens
    <3> QED
      BY <3>1, <2>2, <2>3
  <2>5. \E d \in Nat : \A q \in DOMAIN node' : Len(q) <= d
    <3>1. PICK d \in Nat : \A q \in DOMAIN node : Len(q) <= d
      BY DEF TreeInv
    <3>2. Len(p) <= d /\ Len(p) \in Nat
      BY <3>1, <1>1 DEF Paths
    <3>3. \A q \in DOMAIN node' : Len(q) \in Nat
      BY <2>1 DEF Paths
    <3>4. \A q \in DOMAIN node' : Len(q) <= d + 2
      BY <3>1, <3>2, <3>3, <2>2, <2>3
    <3> QED
      BY <3>4
  <2> QED
    BY <2>1, <2>4, <2>5 DEF TreeInv
<1>5. NodesInv'
  <2>1. SUFFICES ASSUME NEW q \in DOMAIN node'
                 PROVE  WellFormed(node'[q]) /\ Typed(node'[q])
    BY DEF NodesInv, Typed
  <2>2. Typed(node'[p])
    BY <1>1 DEF Typed, Opens, SameField
  <2> QED
    BY <2>1, <2>2 DEF NodesInv, Opens
<1>6. \A q \in DOMAIN node : /\ SameField(node'[q], node[q])
                             /\ q # p => node'[q] = node[q]
  BY DEF Opens, SameField
<1>7. BelowInv'
  <2>1. SUFFICES ASSUME NEW q \in DOMAIN node', q # <<>>
                 PROVE  /\ node'[Front(q)].state # "queued" /\ node'[Front(q)].out = "value"
                        /\ node'[Front(q)].state = "done" => node'[q].state = "done"
                        /\ node'[Front(q)].list \/ node'[Front(q)].type = "Tag" => ~node'[q].null
    BY DEF BelowInv
  <2>2. CASE q \in DOMAIN node
    <3>1. Front(q) \in DOMAIN node /\ node'[Front(q)] = node[Front(q)]
      BY <2>1, <2>2, <1>3, <1>6
    <3>2. /\ node[Front(q)].state # "queued" /\ node[Front(q)].out = "value"
          /\ node[Front(q)].state = "done" => node[q].state = "done"
          /\ node[Front(q)].list \/ node[Front(q)].type = "Tag" => ~node[q].null
      BY <2>1, <2>2 DEF BelowInv
    <3>3. (node'[q].null <=> node[q].null) /\ (node[q].state = "done" => node'[q].state = "done")
      BY <2>2, <1>6 DEF SameField
    <3> QED
      BY <3>1, <3>2, <3>3
  <2>3. CASE q \in new
    <3>1. /\ node'[Front(q)].state = "open"
          /\ node'[Front(q)].list \/ node'[Front(q)].type = "Tag" => ~node'[q].null
      BY <2>3 DEF Opens
    <3>2. Front(q) \in DOMAIN node'
      BY <2>3, <1>2 DEF Opens
    <3>3. node'[Front(q)].out = "value"
      BY <3>1, <3>2, <1>5 DEF NodesInv, WellFormed
    <3> QED
      BY <3>1, <3>3
  <2> QED
    BY <2>1, <2>2, <2>3
<1>8. \A q \in DOMAIN node' : node'[q].res = "null" => q \in DOMAIN node /\ node[q].res = "null"
  <2>1. node'[p].res = "none"
    BY DEF Opens, WellFormed
  <2> QED
    BY <2>1, <1>6 DEF Opens
<1>9. \A r \in DOMAIN node : NullBelow(r)' <=> NullBelow(r)
  <2>1. node[p].res # "null"
    BY <1>1 DEF WellFormed
  <2> QED
    BY <2>1, <1>6, <1>8 DEF NullBelow, SameField, Opens
<1>10. \A r \in new : ~NullBelow(r)'
  BY <1>3, <1>8 DEF NullBelow
<1>11. ~NullBelow(p)
  BY <1>3 DEF NullBelow
<1>12. NullInv'
  <2>1. SUFFICES ASSUME NEW r \in DOMAIN node'
                 PROVE  /\ node'[r].state = "done" /\ (r # <<>> \/ op.on # "Subscription") =>
                            (node'[r].res = "null" <=> node'[r].out # "value" \/ NullBelow(r)')
                        /\ node'[r].state = "open" /\ ~node'[r].list =>
                            (node'[r].invalids > 0 <=> NullBelow(r)')
    BY DEF NullInv
  <2>2. CASE r \in new
    <3>1. node'[r].res = "none" /\ node'[r].invalids = 0 /\ WellFormed(node'[r])
      BY <2>2 DEF Opens
    <3> QED
      BY <3>1, <2>2, <1>10 DEF WellFormed
  <2>3. CASE r = p
    <3>1. node'[p].state = "open" /\ node'[p].invalids = 0
      BY DEF Opens
    <3> QED
      BY <3>1, <2>3, <1>9, <1>11
  <2>4. CASE r \in DOMAIN node \ {p}
    BY <2>4, <1>6, <1>9 DEF NullInv
  <2> QED
    BY <2>1, <2>2, <2>3, <2>4
<1> QED
  BY <1>4, <1>5, <1>7, <1>12

\* A new tree, of a root, fields, and perhaps fields of theirs.
Plants ==
    /\ <<>> \in DOMAIN node' /\ node'[<<>>].state = "open" /\ ~node'[<<>>].list
    /\ \A q \in DOMAIN node' :
        /\ q \in Paths /\ WellFormed(node'[q]) /\ Typed(node'[q])
        /\ node'[q].res = "none" /\ node'[q].invalids = 0
    /\ \A q \in DOMAIN node' \ {<<>>} :
        /\ Front(q) \in DOMAIN node' /\ node'[Front(q)].state = "open"
        /\ Front(q) = <<>> \/ Front(Front(q)) = <<>>
        /\ node'[Front(q)].list \/ node'[Front(q)].type = "Tag" => ~node'[q].null

LEMMA PlantsTree ==
    ASSUME op' = op, Plants
    PROVE  TreesInv'
<1>1. TreeInv'
  <2>1. \A q \in DOMAIN node' : q \in Paths /\ Len(q) \in Nat
    BY DEF Plants, Paths
  <2>2. ASSUME NEW q \in DOMAIN node', q # <<>>
        PROVE  Len(q) = Len(Front(q)) + 1 /\ Len(Front(q)) \in Nat
    BY <2>1, <2>2, PrefixesOfChild
  <2>3. <<>> \in DOMAIN node' /\ \A k \in 0 .. Len(<<>>) : SubSeq(<<>>, 1, k) \in DOMAIN node'
    BY PrefixesOfRoot DEF Plants
  <2>4. ASSUME NEW q \in DOMAIN node', q # <<>>, Front(q) = <<>>
        PROVE  Len(q) = 1 /\ \A k \in 0 .. Len(q) : SubSeq(q, 1, k) \in DOMAIN node'
    <3>1. \A k \in 0 .. Len(q) : SubSeq(q, 1, k) \in DOMAIN node'
      BY <2>1, <2>3, <2>4, PrefixesHeld, Zenon
    <3>2. Len(q) = 1
      <4>1. Len(q) = Len(Front(q)) + 1
        BY <2>2, <2>4, Zenon
      <4>2. Len(Front(q)) = 0
        BY <2>4, PrefixesOfRoot, Zenon
      <4> QED
        BY <4>1, <4>2
    <3> QED
      BY <3>1, <3>2
  <2>5. ASSUME NEW q \in DOMAIN node', q # <<>>, Front(q) # <<>>
        PROVE  Len(q) = 2 /\ \A k \in 0 .. Len(q) : SubSeq(q, 1, k) \in DOMAIN node'
    <3>1. Front(q) \in DOMAIN node' /\ Front(Front(q)) = <<>>
      BY <2>5 DEF Plants
    <3>2. Len(Front(q)) = 1 /\ \A k \in 0 .. Len(Front(q)) : SubSeq(Front(q), 1, k) \in DOMAIN node'
      BY <2>4, <2>5, <3>1
    <3>3. \A k \in 0 .. Len(q) : SubSeq(q, 1, k) \in DOMAIN node'
      BY <2>1, <2>5, <3>2, PrefixesHeld, Zenon
    <3>4. Len(q) = 2
      <4>1. Len(q) = Len(Front(q)) + 1
        BY <2>2, <2>5, Zenon
      <4> QED
        BY <4>1, <3>2
    <3> QED
      BY <3>3, <3>4
  <2>6. \A q \in DOMAIN node' : Len(q) <= 2
    <3>1. \A q \in DOMAIN node' : Len(q) \in {0, 1, 2}
      BY <2>4, <2>5, PrefixesOfRoot, Zenon
    <3>2. \A l \in {0, 1, 2} : l <= 2
      OBVIOUS
    <3> QED
      BY <3>1, <3>2, Zenon
  <2>7. \A q \in DOMAIN node' : \A k \in 0 .. Len(q) : SubSeq(q, 1, k) \in DOMAIN node'
    BY <2>3, <2>4, <2>5, Zenon
  <2> QED
    BY <2>1, <2>6, <2>7 DEF TreeInv
<1>2. NodesInv'
  BY DEF NodesInv, Plants, Typed
<1>3. BelowInv'
  <2>1. \A q \in DOMAIN node' : node'[q].state = "open" => node'[q].out = "value"
    BY DEF Plants, WellFormed
  <2> QED
    BY <2>1 DEF BelowInv, Plants
<1>4. NullInv'
  <2>1. \A r : ~NullBelow(r)'
    BY DEF NullBelow, Plants
  <2>2. \A r \in DOMAIN node' : node'[r].invalids = 0 /\ node'[r].state # "done"
    BY DEF Plants, WellFormed
  <2> QED
    BY <2>1, <2>2 DEF NullInv
<1> QED
  BY <1>1, <1>2, <1>3, <1>4 DEF TreesInv

\* The root finishes with the given result.
ClosesRoot(res) ==
    /\ DOMAIN node' = DOMAIN node
    /\ \A q \in DOMAIN node \ {<<>>} : node'[q] = node[q]
    /\ WellFormed(node'[<<>>]) /\ SameField(node'[<<>>], node[<<>>])
    /\ node'[<<>>].state = "done" /\ node'[<<>>].out = "value" /\ node'[<<>>].res = res

LEMMA RootEffect ==
    ASSUME NodesInv, <<>> \in DOMAIN node, node[<<>>].state = "open", NEW res \in {"ok", "null"},
           node' = [node EXCEPT ![<<>>].state = "done", ![<<>>].res = res]
    PROVE  ClosesRoot(res)
<1>1. WellFormed(node[<<>>])
  BY DEF NodesInv
<1> QED
  BY <1>1 DEF ClosesRoot, WellFormed, SameField, Fields, States

LEMMA ClosesRootKeepsTree ==
    ASSUME TreesInv, op' = op, <<>> \in DOMAIN node, node[<<>>].state = "open",
           \A q \in DOMAIN node \ {<<>>} : Front(q) = <<>> => node[q].state = "done",
           NEW res, ClosesRoot(res),
           op.on # "Subscription" => (res = "null" <=> NullBelow(<<>>))
    PROVE  TreesInv'
<1> USE DEF TreesInv
<1>1. TreeInv'
  BY DEF TreeInv, ClosesRoot
<1>2. NodesInv'
  <2>1. Typed(node'[<<>>])
    BY DEF NodesInv, Typed, ClosesRoot, SameField
  <2> QED
    BY <2>1 DEF NodesInv, Typed, ClosesRoot
<1>3. \A q \in DOMAIN node \ {<<>>} : Front(q) \in DOMAIN node
  BY ParentInTree
<1>4. BelowInv'
  <2>1. SUFFICES ASSUME NEW q \in DOMAIN node \ {<<>>}
                 PROVE  /\ node'[Front(q)].state # "queued" /\ node'[Front(q)].out = "value"
                        /\ node'[Front(q)].state = "done" => node'[q].state = "done"
                        /\ node'[Front(q)].list \/ node'[Front(q)].type = "Tag" => ~node'[q].null
    BY DEF BelowInv, ClosesRoot
  <2>2. /\ node[Front(q)].state # "queued" /\ node[Front(q)].out = "value"
        /\ node[Front(q)].state = "done" => node[q].state = "done"
        /\ node[Front(q)].list \/ node[Front(q)].type = "Tag" => ~node[q].null
    BY <2>1 DEF BelowInv
  <2>3. CASE Front(q) = <<>>
    BY <2>2, <2>3 DEF ClosesRoot, SameField
  <2>4. CASE Front(q) # <<>>
    BY <2>2, <2>4, <1>3 DEF ClosesRoot
  <2> QED
    BY <2>3, <2>4
<1>5. \A r \in DOMAIN node : NullBelow(r)' <=> NullBelow(r)
  BY DEF NullBelow, ClosesRoot
<1>6. NullInv'
  <2>1. SUFFICES ASSUME NEW r \in DOMAIN node
                 PROVE  /\ node'[r].state = "done" /\ (r # <<>> \/ op.on # "Subscription") =>
                            (node'[r].res = "null" <=> node'[r].out # "value" \/ NullBelow(r)')
                        /\ node'[r].state = "open" /\ ~node'[r].list =>
                            (node'[r].invalids > 0 <=> NullBelow(r)')
    BY DEF NullInv, ClosesRoot
  <2>2. CASE r = <<>>
    BY <2>2, <1>5 DEF ClosesRoot
  <2>3. CASE r # <<>>
    BY <2>3, <1>5 DEF ClosesRoot, NullInv
  <2> QED
    BY <2>2, <2>3
<1> QED
  BY <1>1, <1>2, <1>4, <1>6

-----------------------------------------------------------------------------
(* The actions and what they do to the tree. *)

\* Children are the nodes whose path is one longer.
LEMMA ChildrenFacts ==
    ASSUME TreeInv, NEW p \in DOMAIN node
    PROVE  \A q : q \in Children(p) <=> q \in DOMAIN node \ {<<>>} /\ Front(q) = p
<1>1. p \in Paths /\ \A q \in DOMAIN node : q \in Paths
  BY DEF TreeInv
<1>2. \A q \in DOMAIN node :
        Len(q) = Len(p) + 1 /\ IsPrefix(p, q) <=> q # <<>> /\ Front(q) = p
  BY <1>1, ChildPath
<1> QED
  BY <1>2, Zenon DEF Children

\* The root runs as long as the operation does, and is not a list.
LEMMA RootFacts ==
    ASSUME PhaseInv, <<>> \in DOMAIN node
    PROVE  /\ node[<<>>].state # "queued"
           /\ node[<<>>].state = "open" => phase = "running" /\ ~node[<<>>].list
<1>1. node # <<>> /\ DOMAIN <<>> = {}
  OBVIOUS
<1>2. phase \in {"running", "listening", "answered", "ended"}
  BY <1>1 DEF PhaseInv, Phases
<1> QED
  BY <1>2 DEF PhaseInv

LEMMA FieldFailsCloses ==
    ASSUME TreesInv, PhaseInv, NEW p \in DOMAIN node, MayStart(p),
           NEW out \in OutcomesOf(p) \ {"value"}, node' = Finished(node, p, out, "null")
    PROVE  MayClose(p, out, "null") /\ Closes(p, out, "null") /\ p \in ErrorsOf(p, out)
<1> USE DEF TreesInv
<1>1. node[p].state = "queued" /\ p # <<>>
  BY RootFacts DEF MayStart
<1>2. out \in Outcomes \ {"none"}
  BY OutcomesAreOutcomes
<1>3. \A q \in DOMAIN node \ {<<>>} : Front(q) # p
  BY <1>1, QueuedIsLeaf
<1>4. MayClose(p, out, "null")
  BY <1>1, <1>2, <1>3 DEF MayClose
<1>5. Closes(p, out, "null")
  BY <1>1, FinishedCloses
<1>6. out = "nil" => ~node[p].null
  <2>1. SUFFICES ASSUME out = "nil" PROVE ~node[p].null
    OBVIOUS
  <2>2. \A type, shape : "nil" \notin ValueOutcomes(type, shape)
    BY DEF ValueOutcomes
  <2>3. \A type, f, shape : "nil" \in ResolverOutcomes(type, f, shape) => type = "Tag"
    BY DEF ResolverOutcomes
  <2>4. node[Front(p)].type = "Tag"
    BY <2>1, <2>2, <2>3 DEF OutcomesOf, Parent
  <2> QED
    BY <2>4, <1>1 DEF BelowInv
<1> QED
  BY <1>4, <1>5, <1>6 DEF ErrorsOf

LEMMA ScalarCloses ==
    ASSUME TreesInv, PhaseInv, NEW p \in DOMAIN node, FieldReturnsScalar(p)
    PROVE  MayClose(p, "value", "ok") /\ Closes(p, "value", "ok")
<1> USE DEF TreesInv
<1>1. node[p].state = "queued" /\ p # <<>>
  BY RootFacts DEF FieldReturnsScalar, MayStart
<1>2. \A q \in DOMAIN node \ {<<>>} : Front(q) # p
  BY <1>1, QueuedIsLeaf
<1>3. MayClose(p, "value", "ok")
  BY <1>1, <1>2 DEF MayClose, NullBelow, Outcomes
<1> QED
  BY <1>1, <1>3, FinishedCloses DEF FieldReturnsScalar

LEMMA ObjectCloses ==
    ASSUME TreesInv, PhaseInv, NEW p \in DOMAIN node, ObjectDone(p)
    PROVE  \E res : MayClose(p, "value", res) /\ Closes(p, "value", res)
<1> USE DEF TreesInv
<1> DEFINE res == IF node[p].invalids > 0 THEN "null" ELSE "ok"
<1>1. /\ p # <<>> /\ ~node[p].list /\ node[p].state = "open"
      /\ \A q \in Children(p) : node[q].state = "done"
      /\ node' = Finished(node, p, "value", res)
  BY DEF ObjectDone, Joined
<1>2. \A q \in DOMAIN node \ {<<>>} : Front(q) = p => node[q].state = "done"
  BY <1>1, ChildrenFacts
<1>3. node[p].invalids > 0 <=> NullBelow(p)
  BY <1>1 DEF NullInv
<1>4. MayClose(p, "value", res)
  BY <1>1, <1>2, <1>3 DEF MayClose, Outcomes
<1>5. Closes(p, "value", res)
  BY <1>1, FinishedCloses
<1> QED
  BY <1>4, <1>5

LEMMA ListCloses ==
    ASSUME TreesInv, PhaseInv, NEW p \in DOMAIN node, ListDone(p)
    PROVE  \E res : MayClose(p, "value", res) /\ Closes(p, "value", res)
<1> USE DEF TreesInv
<1> DEFINE some == \E q \in Children(p) : node[q].res = "null"
           res == IF some THEN "null" ELSE "ok"
<1>1. /\ node[p].list /\ node[p].state = "open"
      /\ \A q \in Children(p) : node[q].state = "done"
      /\ node' = Finished(node, p, "value", res)
  BY DEF ListDone, Joined
<1>2. p # <<>>
  BY <1>1, RootFacts
<1>3. \A q \in DOMAIN node \ {<<>>} : Front(q) = p => node[q].state = "done"
  BY <1>1, ChildrenFacts
<1>4. some <=> NullBelow(p)
  BY <1>1, ChildrenFacts DEF NullBelow, BelowInv
<1> HIDE DEF some
<1>5. MayClose(p, "value", res)
  BY <1>1, <1>2, <1>3, <1>4 DEF MayClose, Outcomes
<1>6. Closes(p, "value", res)
  BY <1>1, <1>2, FinishedCloses
<1> QED
  BY <1>5, <1>6

LEMMA ExecPlants ==
    ASSUME PhaseInv, Exec
    PROVE  Plants
<1>1. op \in Operations /\ op.type[<<>>] = op.on /\ op.on # "Tag"
  BY ExecutionAssumption DEF PhaseInv
<1> DEFINE root == Object(op.on, <<>>, "plain")
           sel == <<>>
           fields == FieldsAt({<<>>}, op.on, sel)
<1>2. /\ WellFormed(root) /\ root.state = "open" /\ root.res = "none" /\ root.invalids = 0
      /\ ~root.list /\ root.type = op.on /\ root.sel = sel
  BY DEF Object, Queued, Value, WellFormed, Fields, States, Outcomes, Shapes
<1>3. Typed(root)
  BY <1>1, <1>2 DEF Typed
<1>4. <<>> \in Paths
  BY DEF Paths
<1>5. \A c \in DOMAIN fields : FreshField(fields, c, {<<>>}, op.on)
  <2>1. {<<>>} \in SUBSET Paths /\ sel \in op.sel \union {<<>>} /\ op.on = op.type[sel]
    BY <1>1, <1>4
  <2>2. fields = FieldsAt({<<>>}, op.on, sel)
    OBVIOUS
  <2> HIDE DEF fields, sel
  <2> QED
    BY <1>1, <2>1, <2>2, FieldsAtFacts, Zenon
<1>6. \A c \in DOMAIN fields :
        /\ c \in Paths /\ c # <<>> /\ Front(c) = <<>>
        /\ WellFormed(fields[c]) /\ Typed(fields[c])
        /\ fields[c].res = "none" /\ fields[c].invalids = 0
  BY <1>5 DEF FreshField
<1>7. node' = Grown([p \in {<<>>} |-> root], fields)
  BY DEF Exec
<1> HIDE DEF root, fields
<1>8. /\ DOMAIN node' = {<<>>} \union DOMAIN fields /\ node'[<<>>] = root
      /\ \A c \in DOMAIN fields : node'[c] = fields[c]
  BY <1>6, <1>7 DEF Grown
<1> QED
  BY <1>1, <1>2, <1>3, <1>4, <1>6, <1>8 DEF Plants

LEMMA EventPlants ==
    ASSUME PhaseInv, Event
    PROVE  Plants
<1> DEFINE f == op.root[1]
           root == <<f>>
           type == Subscription[f].type
           fields == FieldsAt({root}, type, root)
<1>1. op \in Operations /\ op.on = "Subscription" /\ Len(op.root) = 1 /\ op.root \in Seq(Segments)
  BY ExecutionAssumption DEF PhaseInv, Event
<1>2. f \in Segments /\ f \in ToSet(op.root)
  BY <1>1 DEF ToSet
<1>3. root \in Paths /\ root # <<>> /\ Front(root) = <<>> /\ Last(root) = f
  BY <1>2 DEF Paths, Front, Last
<1>4. root \in op.sel
  BY <1>1, <1>2, ExecutionAssumption
<1>5. op.type[<<>>] = "Subscription" /\ type = op.type[root]
  <2>1. op.type[<<>>] = "Subscription"
    BY <1>1, ExecutionAssumption
  <2>2. op.type[root] = FieldsOf[op.type[Front(root)]][Last(root)].type
    BY <1>1, <1>4, ExecutionAssumption
  <2>3. FieldsOf["Subscription"] = Subscription
    BY DEF FieldsOf
  <2>4. op.type[root] = FieldsOf["Subscription"][f].type
    BY <2>1, <2>2, <1>3
  <2> QED
    BY <2>1, <2>3, <2>4
<1> HIDE DEF root, type
<1>6. PICK shape \in Shapes :
        node' = Grown([p \in {<<>>, root} |-> IF p = root THEN Object(type, root, shape)
                                              ELSE Object("Subscription", <<>>, "plain")], fields)
  BY ShapesAreShapes DEF Event, root, type
<1> DEFINE top == Object("Subscription", <<>>, "plain")
           obj == Object(type, root, shape)
<1>7. /\ WellFormed(top) /\ top.state = "open" /\ top.res = "none" /\ top.invalids = 0
      /\ ~top.list /\ top.type = "Subscription" /\ top.sel = <<>>
  BY DEF Object, Queued, Value, WellFormed, Fields, States, Outcomes, Shapes
<1>8. /\ WellFormed(obj) /\ obj.state = "open" /\ obj.res = "none" /\ obj.invalids = 0
      /\ ~obj.list /\ ~obj.null /\ obj.type = type /\ obj.sel = root
  BY DEF Object, Queued, Value, WellFormed, Fields, States, Outcomes, Shapes
<1>9. Typed(top) /\ Typed(obj)
  BY <1>4, <1>5, <1>7, <1>8 DEF Typed
<1>10. <<>> \in Paths
  BY DEF Paths
<1>11. \A c \in DOMAIN fields : FreshField(fields, c, {root}, type)
  <2>1. {root} \in SUBSET Paths /\ root \in op.sel \union {<<>>} /\ type = op.type[root]
    BY <1>3, <1>4, <1>5
  <2>2. fields = FieldsAt({root}, type, root)
    OBVIOUS
  <2> HIDE DEF fields
  <2> QED
    BY <1>1, <2>1, <2>2, FieldsAtFacts, Zenon
<1>12. \A c \in DOMAIN fields :
        /\ c \in Paths /\ c # <<>> /\ Front(c) = root
        /\ WellFormed(fields[c]) /\ Typed(fields[c])
        /\ fields[c].res = "none" /\ fields[c].invalids = 0
        /\ type = "Tag" => ~fields[c].null
  BY <1>11 DEF FreshField
<1> HIDE DEF top, obj, fields
<1>13. node' = Grown([p \in {<<>>, root} |-> IF p = root THEN obj ELSE top], fields)
  BY <1>6 DEF top, obj
<1>14. root \notin DOMAIN fields /\ <<>> \notin DOMAIN fields
  BY <1>3, <1>12
<1>15. /\ DOMAIN node' = {<<>>, root} \union DOMAIN fields
       /\ node'[<<>>] = top /\ node'[root] = obj
       /\ \A c \in DOMAIN fields : node'[c] = fields[c]
  BY <1>3, <1>13, <1>14 DEF Grown
<1>16. \A q \in DOMAIN node' :
        /\ q \in Paths /\ WellFormed(node'[q]) /\ Typed(node'[q])
        /\ node'[q].res = "none" /\ node'[q].invalids = 0
  BY <1>3, <1>7, <1>8, <1>9, <1>10, <1>12, <1>15
<1>17. ASSUME NEW q \in DOMAIN node' \ {<<>>}
       PROVE  /\ Front(q) \in DOMAIN node' /\ node'[Front(q)].state = "open"
              /\ Front(q) = <<>> \/ Front(Front(q)) = <<>>
              /\ node'[Front(q)].list \/ node'[Front(q)].type = "Tag" => ~node'[q].null
  <2>1. CASE q = root
    BY <2>1, <1>3, <1>7, <1>8, <1>15
  <2>2. CASE q \in DOMAIN fields
    BY <2>2, <1>3, <1>8, <1>12, <1>15
  <2> QED
    BY <2>1, <2>2, <1>15
<1> QED
  BY <1>7, <1>15, <1>16, <1>17 DEF Plants

\* What is below a node that is done is done.
LEMMA DoneBelow ==
    ASSUME TreeInv, BelowInv, NEW p \in DOMAIN node, NEW j \in 0 .. Len(p),
           node[SubSeq(p, 1, j)].state = "done" \/
             (j = 0 /\ \A q \in DOMAIN node \ {<<>>} : Front(q) = <<>> => node[q].state = "done"),
           j < Len(p)
    PROVE  node[p].state = "done"
<1>1. p \in Paths /\ Len(p) \in Nat
  BY DEF TreeInv, Paths
<1> DEFINE T == {k \in Nat : k \in j + 1 .. Len(p) /\ node[SubSeq(p, 1, k)].state # "done"}
<1>2. SUFFICES ASSUME node[p].state # "done" PROVE FALSE
  OBVIOUS
<1>3. Len(p) \in T
  <2>1. Len(p) \in j + 1 .. Len(p)
    BY <1>1
  <2>2. SubSeq(p, 1, Len(p)) = p
    BY <1>1, PrefixPath
  <2> QED
    BY <1>1, <1>2, <2>1, <2>2
<1>4. PICK k \in T : \A m \in T : k <= m
  BY <1>3, LeastNumber
<1>5. k \in 1 .. Len(p) /\ k - 1 \in 0 .. Len(p) /\ k - 1 >= j /\ k \in 0 .. Len(p)
  BY <1>1, <1>4
<1> DEFINE q == SubSeq(p, 1, k)
<1>6. q \in DOMAIN node /\ q # <<>> /\ Front(q) = SubSeq(p, 1, k - 1)
  <2>1. q \in Paths /\ Len(q) = k /\ (k > 0 => Front(q) = SubSeq(p, 1, k - 1))
    BY <1>1, <1>5, PrefixPath
  <2>2. q \in DOMAIN node
    BY <1>5 DEF TreeInv
  <2>3. q # <<>>
    BY <2>1, <1>5, PrefixesOfRoot
  <2> QED
    BY <2>1, <2>2, <2>3, <1>5
<1>7. node[q].state # "done"
  BY <1>4
<1> HIDE DEF q
<1>8. CASE k - 1 = j
  <2>1. CASE node[SubSeq(p, 1, j)].state = "done"
    BY <2>1, <1>6, <1>7, <1>8 DEF BelowInv
  <2>2. CASE j = 0 /\ \A r \in DOMAIN node \ {<<>>} : Front(r) = <<>> => node[r].state = "done"
    BY <2>2, <1>1, <1>6, <1>7, <1>8, PrefixPath
  <2> QED
    BY <2>1, <2>2
<1>9. CASE k - 1 # j
  <2>1. k - 1 \in Nat /\ k - 1 \in j + 1 .. Len(p) /\ ~(k <= k - 1)
    BY <1>1, <1>5, <1>9
  <2>2. k - 1 \notin T
    BY <2>1, <1>4
  <2>3. node[SubSeq(p, 1, k - 1)].state = "done"
    BY <2>1, <2>2
  <2> QED
    BY <2>3, <1>6, <1>7 DEF BelowInv
<1> QED
  BY <1>8, <1>9

\* When the root's fields are done, all fields are.
LEMMA AllDone ==
    ASSUME TreeInv, BelowInv, <<>> \in DOMAIN node,
           \A q \in DOMAIN node \ {<<>>} : Front(q) = <<>> => node[q].state = "done"
    PROVE  \A p \in DOMAIN node \ {<<>>} : node[p].state = "done"
<1>1. SUFFICES ASSUME NEW p \in DOMAIN node, p # <<>> PROVE node[p].state = "done"
  OBVIOUS
<1>2. p \in Paths /\ Len(p) \in Nat /\ Len(p) > 0
  BY <1>1, FrontPath DEF TreeInv, Paths
<1>3. 0 \in 0 .. Len(p) /\ 0 < Len(p)
  BY <1>2
<1> QED
  BY <1>3, DoneBelow

-----------------------------------------------------------------------------
(* Every step keeps the invariant. *)

\* A node that is not done is that of an operation that runs.
LEMMA RunningFacts ==
    ASSUME PhaseInv, NEW p \in DOMAIN node, node[p].state # "done"
    PROVE  /\ phase = "running" /\ <<>> \in DOMAIN node
           /\ node[<<>>].state = "open" /\ ~node[<<>>].list
<1>1. node # <<>>
  OBVIOUS
<1>2. phase = "running"
  BY <1>1 DEF PhaseInv, Phases
<1> QED
  BY <1>2 DEF PhaseInv

\* A step of a field.
LEMMA FieldStepKeeps ==
    ASSUME ExecInv, NEW p \in DOMAIN node, node[p].state # "done",
           TreesInv', ErrorsInv', errors' \subseteq DOMAIN node',
           <<>> \in DOMAIN node', node'[<<>>].state = "open", ~node'[<<>>].list,
           UNCHANGED <<op, phase, answer, events>>
    PROVE  ExecInv'
<1>1. phase = "running"
  BY RunningFacts DEF ExecInv
<1>2. PhaseInv'
  BY <1>1 DEF ExecInv, PhaseInv, Phases
<1>3. AnswerInv'
  BY <1>1 DEF ExecInv, AnswerInv, NullsExplained
<1> QED
  BY <1>2, <1>3 DEF ExecInv, TreesInv

LEMMA ClosesKeepsErrors ==
    ASSUME TreesInv, PhaseInv, ErrorsInv, NEW p \in DOMAIN node, NEW out, NEW res,
           MayClose(p, out, res), Closes(p, out, res),
           errors \subseteq errors', out = "value" => errors' = errors,
           out # "value" => errors' = errors \union {p}
    PROVE  ErrorsInv' /\ errors' \subseteq DOMAIN node'
<1> USE DEF TreesInv
<1>1. <<>> \in DOMAIN node /\ p # <<>> /\ DOMAIN node' = DOMAIN node
  BY RunningFacts DEF MayClose, Closes
<1>2. /\ \A e \in errors \ {<<>>} : e \in DOMAIN node \ {<<>>} /\ node[e].res = "null"
      /\ \A q \in DOMAIN node : node[q].res = "null" => \E e \in errors \ {<<>>} : IsPrefix(q, e)
  BY <1>1 DEF ErrorsInv
<1>3. node[p].res = "none" /\ p \in Paths
  BY DEF NodesInv, WellFormed, MayClose, TreeInv
<1>4. \A e \in errors' \ {<<>>} : e \in DOMAIN node' \ {<<>>} /\ node'[e].res = "null"
  <2>1. SUFFICES ASSUME NEW e \in errors' \ {<<>>}
                 PROVE  e \in DOMAIN node \ {<<>>} /\ node'[e].res = "null"
    BY <1>1
  <2>2. CASE e \in errors
    BY <2>2, <1>2, <1>3 DEF Closes
  <2>3. CASE e = p /\ out # "value"
    BY <2>3, <1>1 DEF Closes, MayClose
  <2> QED
    BY <2>2, <2>3
<1>5. ASSUME NEW q \in DOMAIN node, node'[q].res = "null"
      PROVE  \E e \in errors' \ {<<>>} : IsPrefix(q, e)
  <2>1. CASE q # p
    BY <2>1, <1>2, <1>5 DEF Closes
  <2>2. CASE q = p /\ out # "value"
    BY <2>2, <1>1, <1>3, SamePath
  <2>3. CASE q = p /\ out = "value"
    <3>1. NullBelow(p)
      BY <2>3, <1>5 DEF Closes, MayClose
    <3>2. PICK r \in DOMAIN node \ {<<>>} : Front(r) = p /\ node[r].res = "null"
      BY <3>1 DEF NullBelow
    <3>3. PICK e \in errors \ {<<>>} : IsPrefix(r, e)
      BY <3>2, <1>2
    <3>4. r \in Paths /\ e \in Paths
      BY <1>2 DEF TreeInv
    <3> QED
      BY <2>3, <3>2, <3>3, <3>4, FrontIsPrefix
  <2> QED
    BY <2>1, <2>2, <2>3
<1> QED
  BY <1>1, <1>4, <1>5 DEF ErrorsInv

\* A step that finishes a node.
LEMMA CloseStepKeeps ==
    ASSUME ExecInv, NEW p \in DOMAIN node, NEW out, NEW res,
           MayClose(p, out, res), Closes(p, out, res),
           errors \subseteq errors', out = "value" => errors' = errors,
           out # "value" => errors' = errors \union {p},
           UNCHANGED <<op, phase, answer, events>>
    PROVE  ExecInv'
<1>1. TreesInv /\ PhaseInv /\ ErrorsInv
  BY DEF ExecInv, TreesInv
<1>2. TreesInv'
  BY <1>1, ClosesKeepsTree
<1>3. ErrorsInv' /\ errors' \subseteq DOMAIN node'
  BY <1>1, ClosesKeepsErrors
<1>4. node[p].state # "done" /\ p # <<>>
  BY DEF MayClose
<1>5. <<>> \in DOMAIN node /\ node[<<>>].state = "open" /\ ~node[<<>>].list
  BY <1>1, <1>4, RunningFacts
<1>6. <<>> \in DOMAIN node' /\ node'[<<>>].state = "open" /\ ~node'[<<>>].list
  BY <1>4, <1>5 DEF Closes, SameField
<1> QED
  BY <1>2, <1>3, <1>4, <1>6, FieldStepKeeps

\* A step that finds a value with nodes below.
LEMMA OpenStepKeeps ==
    ASSUME ExecInv, NEW p \in DOMAIN node, node[p].state = "queued", Opens(p),
           UNCHANGED <<op, phase, errors, answer, events>>
    PROVE  ExecInv'
<1>1. TreesInv /\ PhaseInv /\ ErrorsInv
  BY DEF ExecInv, TreesInv
<1>2. TreesInv'
  BY <1>1, OpensKeepsTree
<1>3. <<>> \in DOMAIN node /\ node[<<>>].state = "open" /\ ~node[<<>>].list /\ p # <<>>
  BY <1>1, RunningFacts
<1>4. <<>> \in DOMAIN node' /\ node'[<<>>].state = "open" /\ ~node'[<<>>].list
  BY <1>3 DEF Opens
<1>5. node[p].res # "null" /\ node'[p].res # "null"
  BY <1>1 DEF Opens, TreesInv, NodesInv, WellFormed
<1>6. /\ \A e \in errors \ {<<>>} : e \in DOMAIN node \ {<<>>} /\ node[e].res = "null"
      /\ \A q \in DOMAIN node : node[q].res = "null" => \E e \in errors \ {<<>>} : IsPrefix(q, e)
  BY <1>1, <1>3 DEF ErrorsInv
<1>7. \A e \in errors \ {<<>>} : e \in DOMAIN node' \ {<<>>} /\ node'[e].res = "null"
  BY <1>5, <1>6 DEF Opens
<1>8. \A q \in DOMAIN node' : node'[q].res = "null" => \E e \in errors \ {<<>>} : IsPrefix(q, e)
  BY <1>5, <1>6 DEF Opens
<1>9. ErrorsInv' /\ errors' \subseteq DOMAIN node'
  BY <1>4, <1>7, <1>8 DEF ErrorsInv
<1> QED
  BY <1>2, <1>4, <1>9, FieldStepKeeps

\* A step that begins a response.
LEMMA PlantStepKeeps ==
    ASSUME ExecInv, Plants, errors' \subseteq {<<>>}, phase' = "running", events' \in 0 .. MaxEvents,
           op.on = "Subscription" => Len(op.root) = 1, UNCHANGED <<op, answer>>
    PROVE  ExecInv'
<1>1. TreesInv'
  BY PlantsTree
<1>2. ErrorsInv'
  BY DEF ErrorsInv, Plants
<1>3. PhaseInv'
  BY DEF PhaseInv, Phases, Plants, ExecInv
<1>4. AnswerInv'
  BY DEF ExecInv, AnswerInv, NullsExplained
<1> QED
  BY <1>1, <1>2, <1>3, <1>4 DEF ExecInv, TreesInv

\* Above or at an error, in a tree that is done, there is a first null.
LEMMA FirstNull ==
    ASSUME NEW nodes, DOMAIN nodes \subseteq Paths,
           \A q \in DOMAIN nodes : \A k \in 0 .. Len(q) : SubSeq(q, 1, k) \in DOMAIN nodes,
           \A q \in DOMAIN nodes : nodes[q].res \in {"ok", "null"},
           NEW e \in DOMAIN nodes, nodes[e].res = "null"
    PROVE  \E p \in DOMAIN Data(nodes) : Data(nodes)[p] = "null" /\ IsPrefix(p, e)
<1>1. e \in Paths /\ Len(e) \in Nat /\ SubSeq(e, 1, Len(e)) = e
  BY PrefixPath DEF Paths
<1> DEFINE T == {k \in Nat : k \in 0 .. Len(e) /\ nodes[SubSeq(e, 1, k)].res # "ok"}
<1>2. Len(e) \in T
  <2>1. Len(e) \in 0 .. Len(e)
    BY <1>1
  <2>2. nodes[SubSeq(e, 1, Len(e))].res # "ok"
    BY <1>1
  <2> QED
    BY <1>1, <2>1, <2>2
<1>3. PICK k \in T : \A m \in T : k <= m
  BY <1>2, LeastNumber
<1>4. k \in Nat /\ k \in 0 .. Len(e) /\ nodes[SubSeq(e, 1, k)].res # "ok"
  BY <1>3
<1>5. \A j \in 0 .. k - 1 : nodes[SubSeq(e, 1, j)].res = "ok"
  <2>1. SUFFICES ASSUME NEW j \in 0 .. k - 1, nodes[SubSeq(e, 1, j)].res # "ok" PROVE FALSE
    OBVIOUS
  <2>2. j \in Nat /\ j \in 0 .. Len(e) /\ ~(k <= j)
    BY <1>1, <1>4
  <2>3. j \in T
    BY <2>1, <2>2
  <2> QED
    BY <2>2, <2>3, <1>3
<1> HIDE DEF T
<1> DEFINE p == SubSeq(e, 1, k)
<1>6. p \in DOMAIN nodes /\ p \in Paths /\ Len(p) = k /\ IsPrefix(p, e)
  BY <1>1, <1>4, PrefixPath
<1>7. \A j \in 0 .. k - 1 : SubSeq(p, 1, j) = SubSeq(e, 1, j)
  BY <1>1, <1>4 DEF Paths
<1>8. nodes[p].res = "null"
  BY <1>4, <1>6
<1> HIDE DEF p
<1>9. \A j \in 0 .. Len(p) - 1 : nodes[SubSeq(p, 1, j)].res = "ok"
  BY <1>5, <1>6, <1>7
<1>10. p \in DOMAIN Data(nodes) /\ Data(nodes)[p] = nodes[p].res
  BY <1>6, <1>9 DEF Data
<1> QED
  BY <1>6, <1>8, <1>10

\* A step that ends a response.
LEMMA ResponseKeeps ==
    ASSUME ExecInv, phase = "running", Joined(<<>>), NEW res \in {"ok", "null"},
           node' = [node EXCEPT ![<<>>].state = "done", ![<<>>].res = res],
           op.on # "Subscription" => (res = "null" <=> node[<<>>].invalids > 0),
           op.on = "Subscription" => res = "ok",
           answer' = [data |-> Data(node'), errors |-> errors],
           phase' = IF op.on = "Subscription" THEN "listening" ELSE "answered",
           UNCHANGED <<op, errors, events>>
    PROVE  ExecInv'
<1>1. TreesInv /\ PhaseInv /\ ErrorsInv
  BY DEF ExecInv, TreesInv
<1>2. <<>> \in DOMAIN node /\ node[<<>>].state = "open" /\ ~node[<<>>].list
  BY <1>1 DEF PhaseInv
<1>3. \A q \in DOMAIN node \ {<<>>} : Front(q) = <<>> => node[q].state = "done"
  BY <1>1, <1>2, ChildrenFacts DEF Joined, TreesInv
<1>4. ClosesRoot(res)
  BY <1>1, <1>2, RootEffect DEF TreesInv
<1>5. node[<<>>].invalids > 0 <=> NullBelow(<<>>)
  BY <1>1, <1>2 DEF TreesInv, NullInv
<1>6. TreesInv'
  <2>1. op.on # "Subscription" => (res = "null" <=> NullBelow(<<>>))
    BY <1>5
  <2> QED
    BY <1>1, <1>2, <1>3, <1>4, <2>1, ClosesRootKeepsTree
<1>7. \A q \in DOMAIN node' : node'[q].state = "done"
  <2>1. \A q \in DOMAIN node \ {<<>>} : node[q].state = "done"
    BY <1>1, <1>2, <1>3, AllDone DEF TreesInv
  <2> QED
    BY <2>1, <1>4 DEF ClosesRoot
<1>8. /\ \A e \in errors \ {<<>>} : e \in DOMAIN node \ {<<>>} /\ node[e].res = "null"
      /\ \A q \in DOMAIN node : node[q].res = "null" => \E e \in errors \ {<<>>} : IsPrefix(q, e)
  BY <1>1, <1>2 DEF ErrorsInv
<1>9. \A e \in errors \ {<<>>} : e \in DOMAIN node' \ {<<>>} /\ node'[e].res = "null"
  BY <1>4, <1>8 DEF ClosesRoot
<1>10. ASSUME NEW q \in DOMAIN node', node'[q].res = "null"
       PROVE  \E e \in errors \ {<<>>} : IsPrefix(q, e)
  <2>1. CASE q # <<>>
    BY <2>1, <1>4, <1>8, <1>10 DEF ClosesRoot
  <2>2. CASE q = <<>>
    <3>1. res = "null" /\ NullBelow(<<>>)
      BY <2>2, <1>4, <1>5, <1>10 DEF ClosesRoot
    <3>2. PICK r \in DOMAIN node : node[r].res = "null"
      BY <3>1 DEF NullBelow
    <3>3. PICK e \in errors \ {<<>>} : IsPrefix(r, e)
      BY <3>2, <1>8
    <3>4. e \in Paths
      BY <1>1, <1>8 DEF TreesInv, TreeInv
    <3> QED
      BY <2>2, <3>4, SamePath
  <2> QED
    BY <2>1, <2>2
<1>11. ErrorsInv'
  BY <1>9, <1>10 DEF ErrorsInv
<1>12. PhaseInv'
  <2>1. <<>> \in DOMAIN node' /\ errors \subseteq DOMAIN node'
    BY <1>2, <1>4, <1>8 DEF ClosesRoot
  <2>2. op.on \in {"Query", "Mutation", "Subscription"}
    BY <1>1, ExecutionAssumption DEF PhaseInv
  <2> QED
    BY <1>1, <1>7, <2>1, <2>2 DEF PhaseInv, Phases
<1>13. NullsExplained'
  <2>1. answer'.data = Data(node') /\ answer'.errors = errors
    OBVIOUS
  <2>2. ASSUME NEW p \in DOMAIN Data(node'), Data(node')[p] = "null"
        PROVE  \E e \in errors \ {<<>>} : IsPrefix(p, e)
    <3>1. p \in DOMAIN node' /\ node'[p].res = "null"
      BY <2>2 DEF Data
    <3> QED
      BY <3>1, <1>10
  <2>3. ASSUME NEW e \in errors \ {<<>>}
        PROVE  \E p \in DOMAIN Data(node') : Data(node')[p] = "null" /\ IsPrefix(p, e)
    <3>1. /\ DOMAIN node' \subseteq Paths
          /\ \A q \in DOMAIN node' : \A k \in 0 .. Len(q) : SubSeq(q, 1, k) \in DOMAIN node'
          /\ \A q \in DOMAIN node' : node'[q].res \in {"ok", "null"}
      BY <1>6, <1>7 DEF TreesInv, TreeInv, NodesInv, WellFormed
    <3>2. e \in DOMAIN node' /\ node'[e].res = "null"
      BY <1>9
    <3> QED
      BY <3>1, <3>2, FirstNull
  <2> QED
    BY <2>1, <2>2, <2>3 DEF NullsExplained, FieldErrors
<1>14. AnswerInv'
  BY <1>13 DEF AnswerInv
<1> QED
  BY <1>6, <1>11, <1>12, <1>14 DEF ExecInv, TreesInv

LEMMA EmptyTree ==
    ASSUME node = <<>>
    PROVE  TreesInv /\ ErrorsInv /\ DOMAIN node = {}
<1>1. DOMAIN node = {}
  OBVIOUS
<1>2. TreeInv
  <2>1. 0 \in Nat /\ \A p \in DOMAIN node : Len(p) <= 0
    BY <1>1
  <2> QED
    BY <1>1, <2>1 DEF TreeInv
<1>3. NodesInv /\ BelowInv /\ NullInv /\ ErrorsInv
  BY <1>1 DEF NodesInv, BelowInv, NullInv, ErrorsInv
<1> QED
  BY <1>1, <1>2, <1>3 DEF TreesInv

LEMMA ExecInvInit == Init => ExecInv
<1> SUFFICES ASSUME Init PROVE ExecInv
  OBVIOUS
<1>1. /\ op \in Operations /\ phase = "start" /\ node = <<>> /\ errors = {}
      /\ answer = None /\ events = 0 /\ calls = <<>>
  BY DEF Init
<1>2. TreesInv /\ ErrorsInv /\ DOMAIN node = {}
  BY <1>1, EmptyTree
<1>3. PhaseInv
  <2>1. events \in 0 .. MaxEvents
    BY <1>1, ExecutionAssumption
  <2> QED
    BY <1>1, <1>2, <2>1 DEF PhaseInv, Phases
<1>4. AnswerInv
  BY <1>1 DEF AnswerInv, NullsExplained
<1> QED
  BY <1>2, <1>3, <1>4 DEF ExecInv, TreesInv

\* The steps that leave the tree alone.
LEMMA StreamStepKeeps ==
    ASSUME ExecInv, Subscribe \/ RefuseStream \/ StreamEnds
    PROVE  ExecInv'
<1>1. node' = node /\ op' = op /\ events' = events
  BY DEF Subscribe, RefuseStream, StreamEnds
<1>2. TreesInv'
  BY <1>1 DEF ExecInv, TreesInv, TreeInv, NodesInv, Typed, BelowInv, NullInv, NullBelow
<1>3. CASE Subscribe
  <2>1. node = <<>> /\ DOMAIN node = {}
    BY <1>3 DEF ExecInv, PhaseInv, Subscribe
  <2>2. ErrorsInv'
    BY <2>1, <1>1 DEF ErrorsInv
  <2>3. /\ phase' \in {"nilStream", "listening"} /\ errors' \subseteq {<<>>}
        /\ phase' = "listening" => Len(op.root) = 1
    BY <1>3 DEF Subscribe
  <2>4. op.on = "Subscription" /\ answer' = answer /\ calls' = calls
    BY <1>3 DEF Subscribe
  <2>5. PhaseInv'
    BY <1>1, <2>1, <2>3, <2>4 DEF PhaseInv, ExecInv, Phases
  <2>6. AnswerInv'
    BY <2>3, <2>4 DEF ExecInv, AnswerInv, NullsExplained
  <2> QED
    BY <1>2, <2>2, <2>5, <2>6 DEF ExecInv, TreesInv
<1>4. CASE RefuseStream
  <2>1. node = <<>> /\ DOMAIN node = {} /\ errors' = errors /\ phase = "nilStream"
        /\ phase' = "answered" /\ op.on = "Subscription"
        /\ answer' = [data |-> None, errors |-> errors]
    BY <1>4 DEF ExecInv, PhaseInv, RefuseStream
  <2>2. ErrorsInv'
    BY <2>1, <1>1 DEF ErrorsInv
  <2>3. PhaseInv'
    BY <1>1, <2>1 DEF PhaseInv, ExecInv, Phases
  <2>4. AnswerInv'
    BY <1>1, <2>1 DEF AnswerInv, NullsExplained
  <2> QED
    BY <1>2, <2>2, <2>3, <2>4 DEF ExecInv, TreesInv
<1>5. CASE StreamEnds
  <2>1. phase = "listening" /\ phase' = "ended" /\ errors' = errors /\ answer' = answer
        /\ calls' = calls
    BY <1>5 DEF StreamEnds
  <2>2. op.on = "Subscription"
    BY <2>1 DEF ExecInv, PhaseInv
  <2>3. ErrorsInv'
    BY <1>1, <2>1 DEF ErrorsInv, ExecInv
  <2>4. PhaseInv'
    BY <1>1, <2>1, <2>2 DEF PhaseInv, ExecInv, Phases
  <2>5. AnswerInv'
    BY <2>1 DEF ExecInv, AnswerInv, NullsExplained
  <2> QED
    BY <1>2, <2>3, <2>4, <2>5 DEF ExecInv, TreesInv
<1> QED
  BY <1>3, <1>4, <1>5

LEMMA ExecInvStep == ExecInv /\ [Next]_execVars => ExecInv'
<1> SUFFICES ASSUME ExecInv, [Next]_execVars PROVE ExecInv'
  OBVIOUS
<1>1. TreesInv /\ PhaseInv /\ op \in Operations
  BY DEF ExecInv, TreesInv, PhaseInv
<1>2. ASSUME NEW p \in DOMAIN node, FieldFails(p) PROVE ExecInv'
  <2>1. PICK out \in OutcomesOf(p) \ {"value"} :
            /\ MayStart(p) /\ node' = Finished(node, p, out, "null")
            /\ errors' = errors \union ErrorsOf(p, out)
    BY <1>2 DEF FieldFails
  <2>2. MayClose(p, out, "null") /\ Closes(p, out, "null") /\ p \in ErrorsOf(p, out)
    BY <1>1, <2>1, FieldFailsCloses
  <2>3. errors' = errors \union {p} /\ errors \subseteq errors' /\ out # "value"
    BY <2>1, <2>2 DEF ErrorsOf
  <2>4. UNCHANGED <<op, phase, answer, events>>
    BY <1>2 DEF FieldFails
  <2> QED
    BY <2>2, <2>3, <2>4, CloseStepKeeps
<1>3. ASSUME NEW p \in DOMAIN node, FieldReturnsScalar(p) PROVE ExecInv'
  <2>1. MayClose(p, "value", "ok") /\ Closes(p, "value", "ok")
    BY <1>1, <1>3, ScalarCloses
  <2>2. UNCHANGED <<op, phase, errors, answer, events>>
    BY <1>3 DEF FieldReturnsScalar
  <2> QED
    BY <2>1, <2>2, CloseStepKeeps
<1>4. ASSUME NEW p \in DOMAIN node, ObjectDone(p) \/ ListDone(p) PROVE ExecInv'
  <2>1. PICK res : MayClose(p, "value", res) /\ Closes(p, "value", res)
    BY <1>1, <1>4, ObjectCloses, ListCloses
  <2>2. UNCHANGED <<op, phase, errors, answer, events>>
    BY <1>4 DEF ObjectDone, ListDone
  <2> QED
    BY <2>1, <2>2, CloseStepKeeps
<1>5. ASSUME NEW p \in DOMAIN node, FieldReturnsObject(p) \/ FieldReturnsList(p) PROVE ExecInv'
  <2>1. Opens(p)
    BY <1>1, <1>5, FieldReturnsObjectOpens, FieldReturnsListOpens DEF TreesInv
  <2>2. node[p].state = "queued" /\ UNCHANGED <<op, phase, errors, answer, events>>
    BY <1>5 DEF FieldReturnsObject, FieldReturnsList, MayStart
  <2> QED
    BY <2>1, <2>2, OpenStepKeeps
<1>6. CASE Exec
  <2>1. Plants
    BY <1>1, <1>6, ExecPlants
  <2>2. /\ errors' \subseteq {<<>>} /\ phase' = "running" /\ events' \in 0 .. MaxEvents
        /\ op.on # "Subscription" /\ UNCHANGED <<op, answer>>
    BY <1>1, <1>6 DEF Exec, InterceptResponse, PhaseInv
  <2> QED
    BY <2>1, <2>2, PlantStepKeeps
<1>7. CASE Event
  <2>1. Plants
    BY <1>1, <1>7, EventPlants
  <2>2. /\ errors' \subseteq {<<>>} /\ phase' = "running" /\ events' \in 0 .. MaxEvents
        /\ UNCHANGED <<op, answer>>
    BY <1>1, <1>7, ExecutionAssumption DEF Event, InterceptResponse, PhaseInv
  <2>3. op.on = "Subscription" => Len(op.root) = 1
    BY <1>1, <1>7 DEF Event, PhaseInv
  <2> QED
    BY <2>1, <2>2, <2>3, PlantStepKeeps
<1>8. CASE Respond
  <2> DEFINE res == IF node[<<>>].invalids > 0 THEN "null" ELSE "ok"
  <2>1. /\ phase = "running" /\ op.on # "Subscription" /\ Joined(<<>>)
        /\ node' = [node EXCEPT ![<<>>].state = "done", ![<<>>].res = res]
        /\ answer' = [data |-> Data(node'), errors |-> errors]
        /\ phase' = "answered" /\ UNCHANGED <<op, errors, events>>
    BY <1>8 DEF Respond
  <2>2. res \in {"ok", "null"} /\ (res = "null" <=> node[<<>>].invalids > 0)
    OBVIOUS
  <2> HIDE DEF res
  <2> QED
    BY <2>1, <2>2, ResponseKeeps
<1>9. CASE SendEvent
  <2>1. /\ phase = "running" /\ op.on = "Subscription" /\ Joined(<<>>)
        /\ node' = [node EXCEPT ![<<>>].state = "done", ![<<>>].res = "ok"]
        /\ answer' = [data |-> Data(node'), errors |-> errors]
        /\ phase' = "listening" /\ UNCHANGED <<op, errors, events>>
    BY <1>9 DEF SendEvent
  <2> QED
    BY <2>1, ResponseKeeps
<1>10. CASE Subscribe \/ RefuseStream \/ StreamEnds
  BY <1>10, StreamStepKeeps
<1>11. CASE UNCHANGED execVars
  <2>1. /\ node' = node /\ op' = op /\ events' = events /\ errors' = errors
        /\ phase' = phase /\ answer' = answer /\ calls' = calls
    BY <1>11 DEF execVars
  <2>2. TreesInv' /\ ErrorsInv'
    BY <2>1 DEF ExecInv, TreesInv, TreeInv, NodesInv, Typed, BelowInv, NullInv, NullBelow, ErrorsInv
  <2>3. PhaseInv'
    BY <2>1 DEF ExecInv, PhaseInv
  <2>4. AnswerInv'
    BY <2>1 DEF ExecInv, AnswerInv, NullsExplained
  <2> QED
    BY <2>2, <2>3, <2>4 DEF ExecInv, TreesInv
<1> QED
  BY <1>2, <1>3, <1>4, <1>5, <1>6, <1>7, <1>8, <1>9, <1>10, <1>11 DEF Next, Step

(***************************************************************************)
(* The inductive invariant of the execution of an operation: the nodes are *)
(* a tree, each null follows from the level below it, and each null and    *)
(* each error have one another.                                            *)
(***************************************************************************)
THEOREM ExecutionInvariant == Spec => []ExecInv
BY ExecInvInit, ExecInvStep, PTL DEF Spec

(***************************************************************************)
(* For any operations, lengths of lists and interleavings of resolvers,    *)
(* and with or without the middleware's error, a client is told by the     *)
(* error of a field why it misses what it asked for, and has a null for    *)
(* every error of a field.                                                 *)
(***************************************************************************)
THEOREM EveryNullExplained == Spec => []NullsExplained
<1>1. ExecInv => NullsExplained
  BY DEF ExecInv, AnswerInv
<1> QED
  BY <1>1, ExecutionInvariant, PTL

-----------------------------------------------------------------------------
(* The rule for the whole tree. *)

(***************************************************************************)
(* A rule that asks of an element what it says of the elements below, each *)
(* one level deeper, has a solution where the depth is bounded.            *)
(***************************************************************************)
Solvable(D, bad, below) == \E f : f = [p \in D |-> p \in bad \/ \E q \in below[p] : f[q]]

LEMMA RuleHasSolution ==
    ASSUME NEW D, NEW bad \in SUBSET D, NEW below \in [D -> SUBSET D],
           NEW depth \in [D -> Nat], NEW d \in Nat, \A p \in D : depth[p] <= d,
           \A p \in D : \A q \in below[p] : depth[q] = depth[p] + 1
    PROVE  Solvable(D, bad, below)
<1> DEFINE Solves(f, k) ==
            \A p \in D : depth[p] >= k => (p \in f <=> p \in bad \/ \E q \in below[p] : q \in f)
           T == {k \in Nat : \E f \in SUBSET D : Solves(f, k)}
<1>1. d + 1 \in T
  <2>1. \A p \in D : ~ (depth[p] >= d + 1)
    OBVIOUS
  <2>2. {} \in SUBSET D /\ Solves({}, d + 1)
    BY <2>1
  <2> QED
    BY <2>2
<1>2. ASSUME NEW k \in T, k # 0 PROVE k - 1 \in T
  <2>1. PICK f \in SUBSET D : Solves(f, k)
    OBVIOUS
  <2> DEFINE g == {p \in D : IF depth[p] = k - 1 THEN p \in bad \/ \E q \in below[p] : q \in f
                             ELSE p \in f}
  <2>2. ASSUME NEW p \in D, depth[p] >= k - 1
        PROVE  p \in g <=> p \in bad \/ \E q \in below[p] : q \in g
    <3>1. \A q \in below[p] : q \in D /\ depth[q] # k - 1
      BY <2>2
    <3>2. \A q \in below[p] : q \in g <=> q \in f
      BY <3>1
    <3>3. CASE depth[p] = k - 1
      BY <3>2, <3>3
    <3>4. CASE depth[p] # k - 1
      <4>1. depth[p] >= k
        BY <2>2, <3>4
      <4>2. p \in g <=> p \in f
        BY <3>4
      <4>3. p \in f <=> p \in bad \/ \E q \in below[p] : q \in f
        BY <2>1, <4>1
      <4> HIDE DEF g
      <4> QED
        BY <3>2, <4>2, <4>3
    <3> QED
      BY <3>3, <3>4
  <2>3. g \in SUBSET D
    OBVIOUS
  <2> HIDE DEF g
  <2>4. Solves(g, k - 1)
    BY <2>2
  <2>5. k - 1 \in Nat
    BY <1>2
  <2> HIDE DEF Solves
  <2> QED
    BY <2>3, <2>4, <2>5
<1>3. 0 \in T
  <2>1. T \in SUBSET Nat /\ T # {}
    <3> HIDE DEF Solves
    <3> QED
      BY <1>1
  <2> HIDE DEF T
  <2>2. PICK n \in T : \A m \in T : n <= m
    BY <2>1, LeastNumber
  <2> QED
    BY <1>2, <2>1, <2>2
<1>4. PICK s \in SUBSET D : Solves(s, 0)
  BY <1>3
<1>5. \A p \in D : p \in s <=> p \in bad \/ \E q \in below[p] : q \in s
  BY <1>4
<1> DEFINE f == [p \in D |-> p \in s]
<1>6. \A p \in D : f[p] = (p \in bad \/ \E q \in below[p] : f[q])
  <2>1. \A p \in D : \A q \in below[p] : q \in D /\ f[q] = (q \in s)
    OBVIOUS
  <2>2. \A p \in D : f[p] = (p \in s)
    OBVIOUS
  <2> HIDE DEF f
  <2> SUFFICES ASSUME NEW p \in D PROVE f[p] = (p \in bad \/ \E q \in below[p] : f[q])
    OBVIOUS
  <2>3. f[p] = (p \in s) /\ (p \in s <=> p \in bad \/ \E q \in below[p] : q \in s)
    BY <1>5, <2>2
  <2>4. \A q \in below[p] : f[q] = (q \in s)
    BY <2>1
  <2>5. (\E q \in below[p] : f[q]) <=> \E q \in below[p] : q \in s
    BY <2>4, Zenon
  <2> DEFINE now == p \in s
             rule == p \in bad \/ \E q \in below[p] : f[q]
  <2>6. now \in BOOLEAN /\ rule \in BOOLEAN
    OBVIOUS
  <2>7. now <=> rule
    BY <2>3, <2>5, Zenon
  <2>8. f[p] = now
    BY <2>3
  <2> HIDE DEF now, rule
  <2>9. f[p] = rule
    BY <2>6, <2>7, <2>8
  <2> QED
    BY <2>9 DEF rule
<1>7. f = [p \in D |-> p \in bad \/ \E q \in below[p] : f[q]]
  <2>1. f = [p \in D |-> f[p]]
    OBVIOUS
  <2> HIDE DEF f
  <2> QED
    BY <1>6, <2>1
<1> QED
  BY <1>7 DEF Solvable

\* The rule of GraphQL says of each node whether it is null.
LEMMA IsNullEquation ==
    ASSUME TreeInv, NEW p \in DOMAIN node
    PROVE  IsNull[p] <=> \/ node[p].out # "value"
                         \/ \E q \in Children(p) : ~node[q].null /\ IsNull[q]
<1> DEFINE D == DOMAIN node
           bad == {r \in D : node[r].out # "value"}
           below == [r \in D |-> {q \in Children(r) : ~node[q].null}]
           depth == [r \in D |-> Len(r)]
<1>1. \A r \in D : Len(r) \in Nat
  BY DEF TreeInv, Paths
<1>2. PICK d \in Nat : \A r \in D : Len(r) <= d
  BY DEF TreeInv
<1>3. \A r \in D : Children(r) \in SUBSET D /\ \A q \in Children(r) : Len(q) = Len(r) + 1
  BY DEF Children
<1>4. bad \in SUBSET D /\ below \in [D -> SUBSET D] /\ depth \in [D -> Nat]
  BY <1>1, <1>3
<1>5. (\A r \in D : depth[r] <= d) /\ \A r \in D : \A q \in below[r] : depth[q] = depth[r] + 1
  BY <1>2, <1>3
<1>6. Solvable(D, bad, below)
  <2> HIDE DEF D, bad, below, depth
  <2> QED
    BY <1>4, <1>5, RuleHasSolution, Zenon
<1>7. PICK f : f = [r \in D |-> r \in bad \/ \E q \in below[r] : f[q]]
  BY <1>6, Zenon DEF Solvable
<1>8. \A r \in D : (r \in bad \/ \E q \in below[r] : f[q])
                   = (node[r].out # "value" \/ \E q \in Children(r) : ~node[q].null /\ f[q])
  OBVIOUS
<1>9. f = [r \in DOMAIN node |-> \/ node[r].out # "value"
                                 \/ \E q \in Children(r) : ~node[q].null /\ f[q]]
  BY <1>7, <1>8, Zenon
<1>10. IsNull = [r \in DOMAIN node |-> \/ node[r].out # "value"
                                       \/ \E q \in Children(r) : ~node[q].null /\ IsNull[q]]
  BY <1>9, Zenon DEF IsNull
<1> QED
  BY <1>10, Zenon

\* What holds level by level holds of the tree.
LEMMA NullsByLevels ==
    ASSUME TreesInv, NEW p \in DOMAIN node, node[p].state = "done",
           p # <<>> \/ op.on # "Subscription"
    PROVE  node[p].res = "null" <=> IsNull[p]
<1> USE DEF TreesInv
<1> DEFINE Counts(r) == node[r].state = "done" /\ (r # <<>> \/ op.on # "Subscription")
           Wrong(r) == Counts(r) /\ ~(node[r].res = "null" <=> IsNull[r])
<1>1. PICK d \in Nat : \A r \in DOMAIN node : Len(r) <= d
  BY DEF TreeInv
<1> DEFINE T == {d - Len(r) : r \in {r \in DOMAIN node : Wrong(r)}}
<1>2. \A r \in DOMAIN node : Len(r) \in Nat /\ d - Len(r) \in Nat
  BY <1>1 DEF TreeInv, Paths
<1>3. SUFFICES ASSUME Wrong(p) PROVE FALSE
  OBVIOUS
<1>4. T \in SUBSET Nat /\ T # {}
  BY <1>2, <1>3
<1>5. PICK n \in T : \A m \in T : n <= m
  BY <1>4, LeastNumber
<1>6. PICK r \in DOMAIN node : Wrong(r) /\ n = d - Len(r)
  BY <1>5
<1>7. ASSUME NEW q \in Children(r)
      PROVE  q \in DOMAIN node /\ (node[q].res = "null" <=> IsNull[q])
  <2>1. q \in DOMAIN node \ {<<>>} /\ Front(q) = r /\ Len(q) = Len(r) + 1
    BY <1>7, ChildrenFacts DEF Children
  <2>2. node[q].state = "done"
    BY <2>1, <1>6 DEF BelowInv
  <2>3. ASSUME Wrong(q) PROVE FALSE
    <3>1. d - Len(q) \in T
      BY <2>1, <2>3
    <3>2. d - Len(r) <= d - Len(q)
      BY <3>1, <1>5, <1>6
    <3> QED
      BY <3>2, <2>1, <1>2
  <2> QED
    BY <2>1, <2>2, <2>3
<1>8. NullBelow(r) <=> \E q \in Children(r) : ~node[q].null /\ node[q].res = "null"
  BY ChildrenFacts DEF NullBelow
<1>9. node[r].res = "null" <=> node[r].out # "value" \/ NullBelow(r)
  BY <1>6 DEF NullInv
<1>10. IsNull[r] <=> \/ node[r].out # "value"
                     \/ \E q \in Children(r) : ~node[q].null /\ IsNull[q]
  BY IsNullEquation
<1> QED
  BY <1>6, <1>7, <1>8, <1>9, <1>10

LEMMA ExecInvNulls == ExecInv => NullsFollowTheRule
<1> SUFFICES ASSUME ExecInv PROVE NullsFollowTheRule
  OBVIOUS
<1>1. TreesInv /\ PhaseInv /\ AnswerInv
  BY DEF ExecInv, TreesInv
<1>2. \A p \in DOMAIN node \ {<<>>} : node[p].state = "done" => (node[p].res = "null" <=> IsNull[p])
  BY <1>1, NullsByLevels
<1>3. ASSUME phase = "answered", answer.data # None
      PROVE  answer.data[<<>>] = "null" <=> IsNull[<<>>]
  <2>1. op.on # "Subscription" /\ answer.data = Data(node) /\ <<>> \in DOMAIN node
    BY <1>1, <1>3 DEF AnswerInv, PhaseInv
  <2>2. node[<<>>].state = "done"
    BY <1>1, <1>3, <2>1 DEF PhaseInv
  <2>3. Data(node)[<<>>] = node[<<>>].res
    <3>1. \A k \in 0 .. Len(<<>>) - 1 : node[SubSeq(<<>>, 1, k)].res = "ok"
      BY PrefixesOfRoot
    <3> QED
      BY <2>1, <3>1 DEF Data
  <2>4. node[<<>>].res = "null" <=> IsNull[<<>>]
    BY <1>1, <2>1, <2>2, NullsByLevels
  <2> QED
    BY <2>1, <2>3, <2>4
<1> QED
  BY <1>2, <1>3 DEF NullsFollowTheRule

(***************************************************************************)
(* For any operations, lengths of lists and interleavings of resolvers,    *)
(* the counters and the wait groups of generated.go put nulls exactly      *)
(* where the rule of GraphQL does.                                         *)
(***************************************************************************)
THEOREM NullsByTheRule == Spec => []NullsFollowTheRule
BY ExecutionInvariant, ExecInvNulls, PTL

-----------------------------------------------------------------------------
(* The root fields of a mutation. *)

LEMMA OneSegment ==
    ASSUME NEW f \in Segments
    PROVE  /\ <<f>> \in Paths /\ <<f>> # <<>> /\ Len(<<f>>) = 1
           /\ Front(<<f>>) = <<>> /\ Last(<<f>>) = f /\ <<f>>[1] = f /\ Append(<<>>, f) = <<f>>
BY DEF Paths, Front, Last

\* A root field has one place in the request.
LEMMA PlaceFacts ==
    ASSUME op \in Operations
    PROVE  \A f \in ToSet(op.root) :
            f \in Segments /\ Place(f) \in Nat /\ op.root[Place(f)] = f
<1>1. op.root \in Seq(Segments)
  BY ExecutionAssumption
<1> SUFFICES ASSUME NEW f \in ToSet(op.root)
             PROVE  f \in Segments /\ Place(f) \in Nat /\ op.root[Place(f)] = f
  OBVIOUS
<1>2. PICK i \in DOMAIN op.root : op.root[i] = f
  BY DEF ToSet
<1>3. Place(f) \in DOMAIN op.root /\ op.root[Place(f)] = f
  BY <1>2 DEF Place
<1> QED
  BY <1>1, <1>2, <1>3

\* The root fields of a mutation that runs are the nodes right below the root.
RootsInv ==
    op.on = "Mutation" /\ <<>> \in DOMAIN node =>
        \A q : q \in DOMAIN node /\ Len(q) = 1 <=> \E f \in ToSet(op.root) : q = <<f>>

\* What has been called, in which order, and what it has waited for.
OrderInv ==
    op.on = "Mutation" /\ <<>> \in DOMAIN node =>
        /\ \A f \in ToSet(op.root) :
            /\ f \in ToSet(calls) <=> Started(f) /\ node[<<f>>].out # "unparsed"
            /\ Started(f) =>
                \A g \in ToSet(op.root) : Place(g) < Place(f) => node[<<g>>].state = "done"
            /\ node[<<f>>].state = "open" => calls # <<>> /\ f = Last(calls)
        /\ \A i, j \in DOMAIN calls : i < j => Place(calls[i]) < Place(calls[j])

CallsInv ==
    /\ calls \in Seq(ToSet(op.root))
    /\ op.on # "Mutation" => calls = <<>>
    /\ RootsInv /\ OrderInv

\* What a step of the field at p leaves alone.
Elsewhere(p) ==
    /\ DOMAIN node \subseteq DOMAIN node'
    /\ \A q \in DOMAIN node' \ DOMAIN node : Len(q) # 1
    /\ \A q \in DOMAIN node \ {p} :
        node'[q].state = node[q].state /\ node'[q].out = node[q].out

LEMMA ElsewhereRoots ==
    ASSUME RootsInv, op' = op, NEW p, Elsewhere(p), <<>> \in DOMAIN node
    PROVE  RootsInv'
BY DEF RootsInv, Elsewhere

LEMMA ClosesElsewhere ==
    ASSUME NEW p, NEW out, NEW res, Closes(p, out, res)
    PROVE  Elsewhere(p)
BY DEF Closes, Elsewhere

LEMMA OpensElsewhere ==
    ASSUME TreeInv, NEW p \in DOMAIN node, p # <<>>, Opens(p)
    PROVE  Elsewhere(p)
<1>1. ASSUME NEW q \in DOMAIN node' \ DOMAIN node PROVE Len(q) # 1
  <2>1. q \in Paths /\ q # <<>>
    BY DEF Opens
  <2>2. Len(q) = Len(Front(q)) + 1 /\ Len(Front(q)) \in Nat
    BY <2>1, PrefixesOfChild
  <2>3. Len(p) > 0 /\ p \in Paths
    BY FrontPath DEF TreeInv
  <2>4. CASE Front(q) = p
    BY <2>2, <2>3, <2>4
  <2>5. CASE Front(q) # p
    <3>1. Front(q) \in DOMAIN node' \ DOMAIN node
      BY <2>5 DEF Opens
    <3>2. Front(q) \in Paths /\ Front(q) # <<>>
      BY <3>1 DEF Opens
    <3>3. Len(Front(q)) > 0
      BY <3>2, FrontPath
    <3> QED
      BY <2>2, <3>3
  <2> QED
    BY <2>4, <2>5
<1> QED
  BY <1>1 DEF Opens, Elsewhere

\* A step that calls no resolver of a root field, and starts none.
LEMMA NothingStarts ==
    ASSUME CallsInv, op' = op, calls' = calls, NEW p, Elsewhere(p), <<>> \in DOMAIN node,
           op.on = "Mutation" /\ p \in DOMAIN node /\ Len(p) = 1 =>
            /\ node[p].state = "open" /\ node'[p].state = "done"
            /\ node'[p].out = node[p].out
    PROVE  CallsInv'
<1>1. RootsInv'
  BY ElsewhereRoots DEF CallsInv
<1>2. OrderInv'
  <2> SUFFICES ASSUME op.on = "Mutation" PROVE OrderInv'
    BY DEF OrderInv
  <2>1. \A f : Place(f)' = Place(f)
    BY DEF Place
  <2>2. \A f \in ToSet(op.root) :
            /\ <<f>> \in DOMAIN node /\ <<f>> \in DOMAIN node' /\ Len(<<f>>) = 1
            /\ node'[<<f>>].out = node[<<f>>].out
            /\ \/ node'[<<f>>].state = node[<<f>>].state
               \/ node[<<f>>].state = "open" /\ node'[<<f>>].state = "done"
    <3>1. \A f \in ToSet(op.root) :
            <<f>> \in DOMAIN node /\ <<f>> \in DOMAIN node' /\ Len(<<f>>) = 1
      BY DEF CallsInv, RootsInv, Elsewhere
    <3> QED
      BY <3>1 DEF Elsewhere
  <2>3. \A f \in ToSet(op.root) : Started(f)' <=> Started(f)
    BY <2>2 DEF Started
  <2>4. OrderInv /\ calls' = calls /\ op' = op
    BY DEF CallsInv
  <2>5. ASSUME NEW f \in ToSet(op.root)
        PROVE  /\ f \in ToSet(calls) <=> Started(f)' /\ node'[<<f>>].out # "unparsed"
               /\ Started(f)' =>
                    \A g \in ToSet(op.root) : Place(g) < Place(f) => node'[<<g>>].state = "done"
               /\ node'[<<f>>].state = "open" => calls # <<>> /\ f = Last(calls)
    <3>1. /\ f \in ToSet(calls) <=> Started(f) /\ node[<<f>>].out # "unparsed"
          /\ Started(f) =>
                \A g \in ToSet(op.root) : Place(g) < Place(f) => node[<<g>>].state = "done"
          /\ node[<<f>>].state = "open" => calls # <<>> /\ f = Last(calls)
      BY <2>4 DEF OrderInv
    <3>2. \A g \in ToSet(op.root) : node[<<g>>].state = "done" => node'[<<g>>].state = "done"
      BY <2>2
    <3>3. /\ node'[<<f>>].out = node[<<f>>].out
          /\ node'[<<f>>].state = "open" => node[<<f>>].state = "open"
      BY <2>2
    <3> QED
      BY <2>3, <3>1, <3>2, <3>3
  <2>6. \A i, j \in DOMAIN calls : i < j => Place(calls[i]) < Place(calls[j])
    BY <2>4 DEF OrderInv
  <2>7. /\ \A f \in ToSet(op'.root) :
            /\ f \in ToSet(calls') <=> Started(f)' /\ node'[<<f>>].out # "unparsed"
            /\ Started(f)' =>
                \A g \in ToSet(op'.root) : Place(g)' < Place(f)' => node'[<<g>>].state = "done"
            /\ node'[<<f>>].state = "open" => calls' # <<>> /\ f = Last(calls')
        /\ \A i, j \in DOMAIN calls' : i < j => Place(calls'[i]) < Place(calls'[j])
    BY <2>1, <2>4, <2>5, <2>6
  <2>8. \A i, j \in DOMAIN calls' : i < j => Place(calls[i])' < Place(calls[j])'
    BY <2>1, <2>7
  <2> QED
    BY <2>7, <2>8 DEF OrderInv
<1> QED
  BY <1>1, <1>2 DEF CallsInv

\* t is the sequence s with g after it.
Extends(t, s, g, S) ==
    /\ t \in Seq(S) /\ t # <<>> /\ Last(t) = g
    /\ \A f : f \in ToSet(t) <=> f \in ToSet(s) \/ f = g
    /\ \A i, j \in DOMAIN t : i < j =>
        \/ i \in DOMAIN s /\ j \in DOMAIN s /\ t[i] = s[i] /\ t[j] = s[j]
        \/ i \in DOMAIN s /\ t[i] = s[i] /\ t[j] = g

LEMMA AppendedCall ==
    ASSUME NEW S, NEW s \in Seq(S), NEW g \in S
    PROVE  Extends(Append(s, g), s, g, S)
<1> DEFINE t == Append(s, g)
<1>1. /\ t \in Seq(S) /\ Len(t) = Len(s) + 1 /\ Len(s) \in Nat
      /\ DOMAIN t = 1 .. Len(t) /\ DOMAIN s = 1 .. Len(s)
  OBVIOUS
<1>2. t[Len(s) + 1] = g /\ \A i \in 1 .. Len(s) : t[i] = s[i]
  OBVIOUS
<1>3. Last(t) = g /\ t # <<>>
  BY <1>1, <1>2 DEF Last
<1>4. \A f : f \in ToSet(t) <=> f \in ToSet(s) \/ f = g
  BY <1>1, <1>2 DEF ToSet
<1>5. ASSUME NEW i \in DOMAIN t, NEW j \in DOMAIN t, i < j
      PROVE  \/ i \in DOMAIN s /\ j \in DOMAIN s /\ t[i] = s[i] /\ t[j] = s[j]
             \/ i \in DOMAIN s /\ t[i] = s[i] /\ t[j] = g
  <2>1. i \in DOMAIN s /\ (j \in DOMAIN s \/ j = Len(s) + 1)
    BY <1>1, <1>5
  <2> QED
    BY <2>1, <1>1, <1>2
<1> HIDE DEF t
<1>6. Extends(t, s, g, S)
  BY <1>1, <1>3, <1>4, <1>5 DEF Extends
<1> QED
  BY <1>6 DEF t

\* A root field starts: the earlier ones are done, the later ones have not started.
LEMMA RootStarts ==
    ASSUME CallsInv, op \in Operations, op' = op, op.on = "Mutation", <<>> \in DOMAIN node,
           NEW g \in ToSet(op.root), Elsewhere(<<g>>), node[<<g>>].state = "queued",
           \A f \in ToSet(op.root) : Place(f) < Place(g) => node[<<f>>].state = "done",
           NEW out, node'[<<g>>].out = out, node'[<<g>>].state \in {"open", "done"},
           out = "unparsed" => node'[<<g>>].state = "done",
           calls' = IF out # "unparsed" THEN Append(calls, g) ELSE calls
    PROVE  CallsInv'
<1>1. RootsInv'
  BY ElsewhereRoots DEF CallsInv
<1>2. \A f : Place(f)' = Place(f)
  BY DEF Place
<1>3. \A f \in ToSet(op.root) :
        <<f>> \in DOMAIN node /\ <<f>> \in DOMAIN node' /\ (f # g => <<f>> # <<g>>)
  BY DEF CallsInv, RootsInv, Elsewhere
<1>4. \A f \in ToSet(op.root) \ {g} :
        node'[<<f>>].state = node[<<f>>].state /\ node'[<<f>>].out = node[<<f>>].out
  BY <1>3 DEF Elsewhere
<1>5. \A f \in ToSet(op.root) : Started(f) => Place(f) < Place(g) /\ node[<<f>>].state = "done"
  <2> SUFFICES ASSUME NEW f \in ToSet(op.root), Started(f)
               PROVE  Place(f) < Place(g) /\ node[<<f>>].state = "done"
    OBVIOUS
  <2>1. f # g
    BY DEF Started
  <2>2. Place(f) # Place(g) /\ Place(f) \in Nat /\ Place(g) \in Nat
    BY <2>1, PlaceFacts
  <2>3. ~ (Place(g) < Place(f))
    BY DEF CallsInv, OrderInv
  <2> QED
    BY <2>2, <2>3
<1>6. calls \in Seq(ToSet(op.root)) /\ \A f \in ToSet(calls) : f \in ToSet(op.root) /\ Started(f)
  <2>1. calls \in Seq(ToSet(op.root))
    BY DEF CallsInv
  <2>2. \A f \in ToSet(calls) : f \in ToSet(op.root)
    BY <2>1 DEF ToSet
  <2> QED
    BY <2>1, <2>2 DEF CallsInv, OrderInv
<1>7. /\ calls' \in Seq(ToSet(op.root))
      /\ out # "unparsed" => calls' # <<>> /\ Last(calls') = g
      /\ \A f : f \in ToSet(calls') <=> f \in ToSet(calls) \/ (f = g /\ out # "unparsed")
      /\ \A i, j \in DOMAIN calls' : i < j =>
            \/ i \in DOMAIN calls /\ j \in DOMAIN calls /\ calls'[i] = calls[i] /\ calls'[j] = calls[j]
            \/ i \in DOMAIN calls /\ calls'[i] = calls[i] /\ calls'[j] = g
  <2>1. CASE out = "unparsed"
    BY <2>1, <1>6
  <2>2. CASE out # "unparsed"
    <3>1. calls' = Append(calls, g)
      BY <2>2
    <3>2. calls \in Seq(ToSet(op.root)) /\ g \in ToSet(op.root)
      BY <1>6
    <3>3. Extends(Append(calls, g), calls, g, ToSet(op.root))
      BY <3>2, AppendedCall, Zenon
    <3>4. Extends(calls', calls, g, ToSet(op.root))
      BY <3>1, <3>3, Zenon
    <3> QED
      BY <2>2, <3>4 DEF Extends
  <2> QED
    BY <2>1, <2>2
<1>8. \A i, j \in DOMAIN calls' : i < j => Place(calls'[i]) < Place(calls'[j])
  <2> SUFFICES ASSUME NEW i \in DOMAIN calls', NEW j \in DOMAIN calls', i < j
               PROVE  Place(calls'[i]) < Place(calls'[j])
    OBVIOUS
  <2>1. CASE i \in DOMAIN calls /\ j \in DOMAIN calls
             /\ calls'[i] = calls[i] /\ calls'[j] = calls[j]
    BY <2>1 DEF CallsInv, OrderInv
  <2>2. CASE i \in DOMAIN calls /\ calls'[i] = calls[i] /\ calls'[j] = g
    <3>1. calls[i] \in ToSet(calls)
      BY <2>2 DEF ToSet
    <3> QED
      BY <2>2, <3>1, <1>5, <1>6
  <2> QED
    BY <2>1, <2>2, <1>7
<1>9. Started(g)' /\ ~Started(g) /\ \A f \in ToSet(op.root) \ {g} : Started(f)' <=> Started(f)
  BY <1>3, <1>4 DEF Started
<1>10. ASSUME NEW f \in ToSet(op.root)
       PROVE  /\ f \in ToSet(calls') <=> Started(f)' /\ node'[<<f>>].out # "unparsed"
              /\ Started(f)' =>
                  \A h \in ToSet(op.root) : Place(h) < Place(f) => node'[<<h>>].state = "done"
              /\ node'[<<f>>].state = "open" => calls' # <<>> /\ f = Last(calls')
  <2>1. f \in ToSet(calls) <=> Started(f) /\ node[<<f>>].out # "unparsed"
    BY DEF CallsInv, OrderInv
  <2>2. f \in ToSet(calls') <=> Started(f)' /\ node'[<<f>>].out # "unparsed"
    BY <2>1, <1>4, <1>7, <1>9
  <2>3. node'[<<f>>].state = "open" => calls' # <<>> /\ f = Last(calls')
    <3>1. CASE f = g
      BY <3>1, <1>7
    <3>2. CASE f # g
      <4>1. node[<<f>>].state # "open"
        BY <1>3, <1>5 DEF Started
      <4> QED
        BY <3>2, <4>1, <1>4
    <3> QED
      BY <3>1, <3>2
  <2>4. ASSUME Started(f)', NEW h \in ToSet(op.root), Place(h) < Place(f)
        PROVE  node'[<<h>>].state = "done"
    <3>1. Place(f) \in Nat /\ Place(g) \in Nat /\ Place(h) \in Nat
      BY PlaceFacts
    <3>2. node[<<h>>].state = "done"
      <4>1. CASE f = g
        BY <4>1, <2>4
      <4>2. CASE f # g
        BY <4>2, <2>4, <1>9 DEF CallsInv, OrderInv
      <4> QED
        BY <4>1, <4>2
    <3>3. h # g
      BY <3>2
    <3> QED
      BY <3>2, <3>3, <1>4
  <2> QED
    BY <2>2, <2>3, <2>4
<1>11. OrderInv'
  BY <1>2, <1>8, <1>10 DEF OrderInv
<1> QED
  BY <1>1, <1>7, <1>11 DEF CallsInv

LEMMA FieldStarts ==
    ASSUME ExecInv, CallsInv, NEW p \in DOMAIN node, MayStart(p), Elsewhere(p), op' = op,
           NEW out, node'[p].out = out, node'[p].state \in {"open", "done"},
           out = "unparsed" => node'[p].state = "done", Called(p, out)
    PROVE  CallsInv'
<1>1. TreeInv /\ op \in Operations /\ node[p].state = "queued"
  BY DEF ExecInv, PhaseInv, MayStart
<1>2. <<>> \in DOMAIN node
  BY <1>1, RunningFacts DEF ExecInv
<1>3. CASE ~(op.on = "Mutation" /\ Len(p) = 1)
  <2>1. calls' = calls
    BY <1>3 DEF Called
  <2> QED
    BY <1>2, <1>3, <2>1, NothingStarts
<1>4. CASE op.on = "Mutation" /\ Len(p) = 1
  <2>1. PICK g \in ToSet(op.root) : p = <<g>>
    BY <1>2, <1>4 DEF CallsInv, RootsInv
  <2>2. Last(p) = g
    BY <1>1, <2>1, PlaceFacts, OneSegment
  <2>3. calls' = IF out # "unparsed" THEN Append(calls, g) ELSE calls
    BY <1>4, <2>2 DEF Called
  <2>4. RootOrder(p)
    BY <1>4 DEF MayStart
  <2>5. ASSUME NEW f \in ToSet(op.root), Place(f) < Place(g)
        PROVE  node[<<f>>].state = "done"
    <3>1. <<f>> # <<>> /\ Front(<<f>>) = <<>> /\ Last(<<f>>) = f
      BY <1>1, PlaceFacts, OneSegment
    <3>2. <<f>> \in DOMAIN node
      BY <1>2, <1>4 DEF CallsInv, RootsInv
    <3>3. <<f>> \in Children(<<>>)
      BY <1>1, <1>2, <3>1, <3>2, ChildrenFacts
    <3> QED
      BY <2>2, <2>4, <2>5, <3>1, <3>3 DEF RootOrder
  <2> QED
    BY <1>1, <1>2, <1>4, <2>1, <2>3, <2>5, RootStarts
<1> QED
  BY <1>3, <1>4

\* An operation starts: no root field has.
LEMMA ExecKeepsCalls ==
    ASSUME ExecInv, CallsInv, Exec
    PROVE  CallsInv'
<1>1. op \in Operations /\ op' = op /\ calls' = calls /\ calls = <<>>
  BY DEF ExecInv, PhaseInv, Exec
<1> SUFFICES ASSUME op.on = "Mutation" PROVE CallsInv'
  BY <1>1 DEF CallsInv, RootsInv, OrderInv
<1>2. {<<f>> : f \in ToSet(op.root)} = {t \in op.sel : Front(t) = <<>>}
  BY <1>1, ExecutionAssumption
<1>3. \A f \in ToSet(op.root) : <<f>> # <<>> /\ Last(<<f>>) = f /\ Append(<<>>, f) = <<f>> /\ Len(<<f>>) = 1
  BY <1>1, PlaceFacts, OneSegment
<1>4. Selected(<<>>) = ToSet(op.root)
  BY <1>2, <1>3 DEF Selected
<1> DEFINE fields == FieldsAt({<<>>}, op.on, <<>>)
           roots == {<<f>> : f \in ToSet(op.root)}
<1>5. DOMAIN fields = roots
  BY <1>3, <1>4 DEF FieldsAt
<1>6. \A c \in DOMAIN fields : fields[c].state = "queued" /\ fields[c].out = "none"
  BY DEF FieldsAt, Queued
<1>7. node' = Grown([p \in {<<>>} |-> Object(op.on, <<>>, "plain")], fields)
  BY DEF Exec
<1> HIDE DEF fields
<1>8. DOMAIN node' = {<<>>} \union roots /\ \A c \in roots : node'[c] = fields[c]
  BY <1>5, <1>7 DEF Grown
<1>9. \A f \in ToSet(op.root) : <<f>> \in DOMAIN node' /\ node'[<<f>>].state = "queued"
  BY <1>5, <1>6, <1>8
<1>10. RootsInv'
  <2>1. Len(<<>>) # 1
    BY PrefixesOfRoot
  <2> QED
    BY <1>1, <1>3, <1>8, <2>1 DEF RootsInv
<1>11. OrderInv'
  <2>1. \A f \in ToSet(op.root) : ~Started(f)'
    BY <1>9 DEF Started
  <2>2. ToSet(calls) = {} /\ DOMAIN calls = {}
    BY <1>1 DEF ToSet
  <2> QED
    BY <1>1, <1>9, <2>1, <2>2 DEF OrderInv
<1> QED
  BY <1>1, <1>10, <1>11 DEF CallsInv

LEMMA CallsInvStep == ExecInv /\ CallsInv /\ [Next]_execVars => CallsInv'
<1> SUFFICES ASSUME ExecInv, CallsInv, [Next]_execVars PROVE CallsInv'
  OBVIOUS
<1>1. TreesInv /\ TreeInv /\ PhaseInv /\ op \in Operations
  BY DEF ExecInv, TreesInv, PhaseInv
<1>2. ASSUME NEW p \in DOMAIN node, FieldFails(p) PROVE CallsInv'
  <2>1. PICK out \in OutcomesOf(p) \ {"value"} :
            MayStart(p) /\ node' = Finished(node, p, out, "null") /\ Called(p, out)
    BY <1>2 DEF FieldFails
  <2>2. Closes(p, out, "null")
    BY <1>1, <2>1, FieldFailsCloses
  <2>3. Elsewhere(p) /\ node'[p].out = out /\ node'[p].state = "done" /\ op' = op
    BY <1>2, <2>2, ClosesElsewhere DEF Closes, FieldFails
  <2> QED
    BY <2>1, <2>3, FieldStarts
<1>3. ASSUME NEW p \in DOMAIN node, FieldReturnsScalar(p) PROVE CallsInv'
  <2>1. Closes(p, "value", "ok")
    BY <1>1, <1>3, ScalarCloses
  <2>2. Elsewhere(p) /\ node'[p].out = "value" /\ node'[p].state = "done"
    BY <2>1, ClosesElsewhere DEF Closes
  <2>3. MayStart(p) /\ Called(p, "value") /\ op' = op
    BY <1>3 DEF FieldReturnsScalar
  <2> QED
    BY <2>2, <2>3, FieldStarts
<1>4. ASSUME NEW p \in DOMAIN node, ObjectDone(p) \/ ListDone(p) PROVE CallsInv'
  <2>1. PICK res : Closes(p, "value", res)
    BY <1>1, <1>4, ObjectCloses, ListCloses
  <2>2. Elsewhere(p) /\ node'[p].out = "value" /\ node'[p].state = "done"
    <3>1. Elsewhere(p)
      BY <2>1, ClosesElsewhere, Zenon
    <3> QED
      BY <2>1, <3>1 DEF Closes
  <2>3. op' = op /\ calls' = calls /\ node[p].state = "open"
    BY <1>4 DEF ObjectDone, ListDone, Joined
  <2>4. node[p].out = "value" /\ <<>> \in DOMAIN node
    BY <1>1, <2>3, RunningFacts DEF TreesInv, NodesInv, WellFormed
  <2> QED
    BY <2>2, <2>3, <2>4, NothingStarts
<1>5. ASSUME NEW p \in DOMAIN node, FieldReturnsObject(p) \/ FieldReturnsList(p) PROVE CallsInv'
  <2>1. Opens(p)
    BY <1>1, <1>5, FieldReturnsObjectOpens, FieldReturnsListOpens DEF TreesInv
  <2>2. MayStart(p) /\ Called(p, "value") /\ op' = op /\ node[p].state = "queued"
    BY <1>5 DEF FieldReturnsObject, FieldReturnsList, MayStart
  <2>3. p # <<>>
    BY <1>1, <2>2, RootFacts
  <2>4. Elsewhere(p)
    BY <1>1, <2>1, <2>3, OpensElsewhere
  <2>5. node'[p].state = "open" /\ node'[p].out = "value"
    BY <2>1 DEF Opens, WellFormed
  <2> QED
    BY <2>2, <2>4, <2>5, FieldStarts
<1>6. CASE Exec
  BY <1>6, ExecKeepsCalls
<1>7. CASE Respond
  <2>1. /\ op' = op /\ calls' = calls /\ <<>> \in DOMAIN node /\ node[<<>>].state = "open"
        /\ Len(<<>>) # 1
    BY <1>1, <1>7, PrefixesOfRoot DEF Respond, PhaseInv
  <2> DEFINE res == IF node[<<>>].invalids > 0 THEN "null" ELSE "ok"
  <2>2. node' = [node EXCEPT ![<<>>].state = "done", ![<<>>].res = res] /\ res \in {"ok", "null"}
    BY <1>7 DEF Respond
  <2> HIDE DEF res
  <2>3. ClosesRoot(res)
    BY <1>1, <2>1, <2>2, RootEffect DEF TreesInv
  <2>4. Elsewhere(<<>>)
    BY <2>3 DEF ClosesRoot, Elsewhere
  <2> QED
    BY <2>1, <2>4, NothingStarts
<1>8. CASE Event \/ Subscribe \/ RefuseStream \/ SendEvent \/ StreamEnds
  <2>1. op' = op /\ calls' = calls /\ op.on = "Subscription"
    BY <1>1, <1>8 DEF Event, Subscribe, RefuseStream, SendEvent, StreamEnds, PhaseInv
  <2> QED
    BY <2>1 DEF CallsInv, RootsInv, OrderInv
<1>9. CASE UNCHANGED execVars
  <2>1. op' = op /\ calls' = calls /\ node' = node
    BY <1>9 DEF execVars
  <2>2. RootsInv'
    BY <2>1 DEF CallsInv, RootsInv
  <2>3. OrderInv'
    <3>1. \A f : Place(f)' = Place(f) /\ (Started(f)' <=> Started(f))
      BY <2>1 DEF Place, Started
    <3>2. \A i : calls'[i] = calls[i] /\ Place(calls[i])' = Place(calls[i])
      BY <2>1 DEF Place
    <3> QED
      BY <2>1, <3>1, <3>2 DEF CallsInv, OrderInv
  <2> QED
    BY <2>1, <2>2, <2>3 DEF CallsInv
<1> QED
  BY <1>2, <1>3, <1>4, <1>5, <1>6, <1>7, <1>8, <1>9 DEF Next, Step

LEMMA CallsInvInit == Init => CallsInv
<1> SUFFICES ASSUME Init PROVE CallsInv
  OBVIOUS
<1>1. DOMAIN node = {} /\ calls = <<>>
  BY DEF Init
<1> QED
  BY <1>1 DEF CallsInv, RootsInv, OrderInv

\* With the record of the calls: the root fields of a mutation have started in
\* the order of the request, each after the earlier ones were done.
THEOREM CallsInvariant == Spec => [](ExecInv /\ CallsInv)
<1>1. Init => ExecInv /\ CallsInv
  BY ExecInvInit, CallsInvInit
<1>2. ExecInv /\ CallsInv /\ [Next]_execVars => ExecInv' /\ CallsInv'
  BY ExecInvStep, CallsInvStep
<1> QED
  BY <1>1, <1>2, PTL DEF Spec

\* What is open lies below the root field that was called last.
LEMMA OpenBelowLast ==
    ASSUME ExecInv, CallsInv, op.on = "Mutation", <<>> \in DOMAIN node,
           NEW p \in DOMAIN node, Len(p) > 0, node[p].state = "open"
    PROVE  p[1] = Last(calls)
<1>1. TreeInv /\ BelowInv /\ NodesInv /\ p \in Paths /\ Len(p) \in Nat
  BY DEF ExecInv, TreeInv, Paths
<1>2. SubSeq(p, 1, 1) = <<p[1]>> /\ 1 \in 0 .. Len(p)
  <2>1. 1 \in 0 .. Len(p) /\ 1 \in 1 .. Len(p)
    BY <1>1
  <2>2. SubSeq(p, 1, 1) \in Paths /\ Len(SubSeq(p, 1, 1)) = 1
    BY <1>1, <2>1, PrefixPath
  <2>3. SubSeq(p, 1, 1)[1] = p[1]
    BY <1>1, <2>1 DEF Paths
  <2>4. \A s \in Paths : Len(s) = 1 => s = <<s[1]>>
    BY DEF Paths
  <2>5. SubSeq(p, 1, 1) = <<SubSeq(p, 1, 1)[1]>>
    BY <2>2, <2>4
  <2> QED
    BY <2>1, <2>3, <2>5
<1> DEFINE r == <<p[1]>>
<1>3. r \in DOMAIN node /\ Len(r) = 1
  BY <1>1, <1>2 DEF TreeInv
<1>4. PICK f \in ToSet(op.root) : r = <<f>>
  BY <1>3 DEF CallsInv, RootsInv
<1>5. node[r].state = "open"
  <2>1. CASE Len(p) = 1
    <3>1. p = r
      BY <1>1, <1>2, <2>1, PrefixPath
    <3> QED
      BY <3>1
  <2>2. CASE Len(p) > 1
    <3>1. node[r].state # "done"
      BY <1>1, <1>2, <2>2, DoneBelow
    <3> DEFINE q == SubSeq(p, 1, 2)
    <3>2. 2 \in 0 .. Len(p) /\ 2 > 0 /\ 2 - 1 = 1
      BY <1>1, <2>2
    <3>3. Len(q) = 2 /\ Front(q) = r
      BY <1>1, <1>2, <3>2, PrefixPath
    <3>4. q \in DOMAIN node /\ q # <<>>
      BY <1>1, <3>2, <3>3, PrefixesOfRoot DEF TreeInv
    <3>5. node[r].state # "queued"
      BY <1>1, <3>3, <3>4 DEF BelowInv
    <3>6. node[r].state \in {"queued", "open", "done"}
      BY <1>1, <1>3 DEF NodesInv, WellFormed, States
    <3> QED
      BY <3>1, <3>5, <3>6
  <2>3. Len(p) = 1 \/ Len(p) > 1
    <3>1. \A n \in Nat : n > 0 => n = 1 \/ n > 1
      OBVIOUS
    <3> QED
      BY <1>1, <3>1, Zenon
  <2> QED
    BY <2>1, <2>2, <2>3
<1>6. f = Last(calls)
  BY <1>4, <1>5 DEF CallsInv, OrderInv
<1>7. p[1] = f
  BY <1>4
<1> QED
  BY <1>6, <1>7

LEMMA CallsInvOrder == ExecInv /\ CallsInv => MutationsInOrder
<1> SUFFICES ASSUME ExecInv, CallsInv, op.on = "Mutation", node # <<>> PROVE MutationsInOrder
  BY DEF MutationsInOrder
<1>1. <<>> \in DOMAIN node /\ NodesInv /\ PhaseInv
  BY DEF ExecInv, PhaseInv
<1>2. \A i, j \in DOMAIN calls : i < j => Place(calls[i]) < Place(calls[j])
  BY <1>1 DEF CallsInv, OrderInv
<1>3. ASSUME NEW f \in ToSet(op.root)
      PROVE  /\ f \in ToSet(calls) <=> node[<<f>>].out \notin {"none", "unparsed"}
             /\ phase = "answered" => node[<<f>>].out # "none"
             /\ node[<<f>>].out # "none" =>
                 \A g \in ToSet(op.root) : Place(g) < Place(f) => node[<<g>>].state = "done"
  <2>1. <<f>> \in DOMAIN node
    BY <1>1 DEF CallsInv, RootsInv
  <2>2. Started(f) <=> node[<<f>>].out # "none"
    <3>1. WellFormed(node[<<f>>])
      BY <1>1, <2>1 DEF NodesInv
    <3> QED
      BY <2>1, <3>1 DEF Started, WellFormed, States
  <2>3. phase = "answered" => Started(f)
    BY <1>1, <2>1 DEF PhaseInv, Started
  <2>4. /\ f \in ToSet(calls) <=> Started(f) /\ node[<<f>>].out # "unparsed"
        /\ Started(f) =>
            \A g \in ToSet(op.root) : Place(g) < Place(f) => node[<<g>>].state = "done"
    BY <1>1 DEF CallsInv, OrderInv
  <2> QED
    BY <2>2, <2>3, <2>4
<1>4. \A p \in DOMAIN node : Len(p) > 0 /\ node[p].state = "open" => p[1] = Last(calls)
  BY <1>1, OpenBelowLast
<1> QED
  BY <1>2, <1>3, <1>4 DEF MutationsInOrder

(***************************************************************************)
(* For any mutation and any outcome of its resolvers, the root fields run  *)
(* to the end of their subtrees one after the other, in the order of the   *)
(* request, and a failure stops none of the later ones.                    *)
(***************************************************************************)
THEOREM MutationsRunInOrder == Spec => []MutationsInOrder
BY CallsInvariant, CallsInvOrder, PTL

\* The state of the execution has its type.
THEOREM ExecutionTypeCorrect == Spec => []ExecTypeOK
<1>1. ExecInv /\ CallsInv => ExecTypeOK
  <2> SUFFICES ASSUME ExecInv, CallsInv PROVE ExecTypeOK
    OBVIOUS
  <2>1. \A i \in DOMAIN calls : calls[i] \in ToSet(op.root)
    BY DEF CallsInv
  <2> QED
    BY <2>1 DEF ExecInv, PhaseInv, NodesInv, WellFormed, AnswerInv, ExecTypeOK
<1> QED
  BY <1>1, CallsInvariant, PTL

=============================================================================
