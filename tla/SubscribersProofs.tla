------------------------- MODULE SubscribersProofs -------------------------
(***************************************************************************)
(* Proofs about the subscriber registries, for any number of clients,      *)
(* topics and messages.                                                    *)
(***************************************************************************)
EXTENDS Subscribers, TLAPS

(***************************************************************************)
(* The part of topic t's slice that still counts.  CleanDone's second loop *)
(* handles one remembered index per iteration, from the last to the first; *)
(* after each one the slice may be thought of as one entry shorter.        *)
(***************************************************************************)
Active(t) ==
    IF pc = "swap" /\ cur = t
    THEN Len(subs[t]) - Len(forRemove) + pos ELSE Len(subs[t])

\* How many remembered indexes the second loop has not handled yet.
Unhandled == IF pc = "swap" THEN pos ELSE Len(forRemove)

\* Index i of topic t's slice was remembered and is not handled yet.
Marked(t, i) ==
    /\ pc \in {"scan", "swap"}
    /\ cur = t
    /\ \E k \in 1 .. Unhandled : forRemove[k] = i

\* A client is in a registry exactly once it has been pushed.
PushedInv ==
    \A c \in Clients :
        /\ topicOf[c] = NoTopic <=> reader[c] = "new"
        /\ topicOf[c] = NoTopic => c \notin closed /\ rcvd[c] = << >>

\* The counting part of a slice holds distinct clients of its topic, among
\* them every client whose channel is open; the closed ones are the marked.
SliceInv ==
    \A t \in Topics :
        /\ \A i \in 1 .. Active(t) :
             /\ topicOf[subs[t][i]] = t
             /\ subs[t][i] \in closed <=> Marked(t, i)
        /\ \A i, j \in 1 .. Active(t) : subs[t][i] = subs[t][j] => i = j
        /\ \A c \in Clients : topicOf[c] = t /\ c \notin closed =>
             \E i \in 1 .. Active(t) : subs[t][i] = c

\* The remembered indexes increase, and each leaves room behind it for those
\* that follow: this is what bounds the second loop's accesses.
RememberedInv ==
    /\ pc \in {"scan", "swap"} =>
         /\ \A k \in 1 .. Len(forRemove) : forRemove[k] >= 1
         /\ \A k, l \in 1 .. Len(forRemove) : k < l => forRemove[k] < forRemove[l]
    /\ pc \in {"send", "scan"} => pos >= 1
    /\ pc = "scan" =>
         /\ pos <= Len(subs[cur]) + 1
         /\ \A k \in 1 .. Len(forRemove) : forRemove[k] + (Len(forRemove) - k) < pos
         /\ Len(forRemove) < pos
    /\ pc = "swap" =>
         /\ pos <= Len(forRemove)
         /\ Len(forRemove) <= Len(subs[cur])
         /\ \A k \in 1 .. Len(forRemove) :
              forRemove[k] + (Len(forRemove) - k) <= Len(subs[cur])

SubInv ==
    /\ SubTypeOK
    /\ NoPanic
    /\ PushedInv
    /\ SliceInv
    /\ RememberedInv

-----------------------------------------------------------------------------

\* Empty registries satisfy the invariant.
LEMMA InitInv == SubInit => SubInv
  BY SubscribersAssumption
  DEF SubInit, SubInv, SubTypeOK, NoPanic, PushedInv, SliceInv, RememberedInv,
      Active, Marked, Unhandled, ReaderStates, DispatcherStates

\* Overwriting one entry of a sequence.
LEMMA SeqUpdate ==
    ASSUME NEW S, NEW s \in Seq(S), NEW i \in 1 .. Len(s), NEW e \in S
    PROVE  /\ [s EXCEPT ![i] = e] \in Seq(S)
           /\ Len([s EXCEPT ![i] = e]) = Len(s)
           /\ \A j \in 1 .. Len(s) : [s EXCEPT ![i] = e][j] = IF j = i THEN e ELSE s[j]
  OBVIOUS

\* The second loop of CleanDone stays within the slice: the index it writes
\* is within the part that counts, and the entry it copies is the last one
\* of that part.
LEMMA SwapInBounds ==
    ASSUME SubInv, pc = "swap", pos > 0
    PROVE  /\ forRemove[pos] \in 1 .. Active(cur)
           /\ Active(cur) \in 1 .. Len(subs[cur])
           /\ Replacement(Len(subs[cur]), Len(forRemove), pos) = Active(cur)
<1>1. cur \in Topics /\ Len(subs[cur]) \in Nat /\ Len(forRemove) \in Nat /\ pos \in Nat
  BY DEF SubInv, SubTypeOK
<1>2. pos \in 1 .. Len(forRemove) /\ Len(forRemove) <= Len(subs[cur])
  BY <1>1 DEF SubInv, RememberedInv
<1>3. forRemove[pos] \in Nat
  BY <1>2 DEF SubInv, SubTypeOK
<1>4. forRemove[pos] >= 1 /\ forRemove[pos] + (Len(forRemove) - pos) <= Len(subs[cur])
  BY <1>2 DEF SubInv, RememberedInv
<1>5. Active(cur) = Len(subs[cur]) - Len(forRemove) + pos
  BY DEF Active
<1> QED
  BY <1>1, <1>2, <1>3, <1>4, <1>5 DEF Replacement

\* The part of a slice that counts lies within the slice.
LEMMA ActiveBound ==
    ASSUME SubInv, NEW t \in Topics
    PROVE  /\ Active(t) \in 0 .. Len(subs[t])
           /\ \A i \in 1 .. Active(t) : subs[t][i] \in Clients
<1>1. subs[t] \in Seq(Clients) /\ Len(subs[t]) \in Nat /\ Len(forRemove) \in Nat /\ pos \in Nat
  BY DEF SubInv, SubTypeOK
<1>2. Active(t) \in 0 .. Len(subs[t])
  <2>1. CASE pc = "swap" /\ cur = t
    <3>1. pos <= Len(forRemove) /\ Len(forRemove) <= Len(subs[t])
      BY <2>1 DEF SubInv, RememberedInv
    <3> QED
      BY <1>1, <2>1, <3>1 DEF Active
  <2>2. CASE ~(pc = "swap" /\ cur = t)
    BY <1>1, <2>2 DEF Active
  <2> QED
    BY <2>1, <2>2
<1> QED
  BY <1>1, <1>2

\* The entry a loop over the slice is looking at is a client.
LEMMA EntryAtPos ==
    ASSUME SubInv, pc \in {"send", "scan"}, pos <= Len(subs[cur])
    PROVE  /\ cur \in Topics
           /\ pos \in 1 .. Len(subs[cur])
           /\ subs[cur][pos] \in Clients
<1>1. cur \in Topics /\ subs[cur] \in Seq(Clients) /\ pos \in Nat
  BY DEF SubInv, SubTypeOK
<1>2. pos \in 1 .. Len(subs[cur])
  BY <1>1 DEF SubInv, RememberedInv
<1> QED
  BY <1>1, <1>2

\* The slices, messages and registers keep their types.
LEMMA TypeStep == SubInv /\ [SubNext]_subVars => SubTypeOK'
<1> SUFFICES ASSUME SubInv, [SubNext]_subVars PROVE SubTypeOK'
  OBVIOUS
<1>0. SubTypeOK
  BY DEF SubInv
<1> USE SubscribersAssumption DEF SubTypeOK, ReaderStates, DispatcherStates, clientVars
<1>1. ASSUME NEW c \in Clients, NEW t \in Topics, Push(c, t) PROVE SubTypeOK'
  BY <1>0, <1>1 DEF Push
<1>2. ASSUME NEW c \in Clients, Cancel(c) PROVE SubTypeOK'
  BY <1>0, <1>2 DEF Cancel
<1>3. ASSUME NEW c \in Clients, AwaitNext(c) PROVE SubTypeOK'
  BY <1>0, <1>3 DEF AwaitNext
<1>4. ASSUME NEW c \in Clients, StopReading(c) PROVE SubTypeOK'
  BY <1>0, <1>4 DEF StopReading
<1>5. ASSUME NEW t \in Topics, NEW m \in Messages, SendAll(t, m) PROVE SubTypeOK'
  BY <1>0, <1>5 DEF SendAll
<1>6. CASE SendNext
  <2>1. /\ reader' \in [Clients -> ReaderStates]
        /\ rcvd' \in [Clients -> Seq(Messages)]
        /\ pos' \in Nat
        /\ pc' \in {"send", "panic"}
    <3>1. subs[cur][pos] \in Clients
      BY <1>6, EntryAtPos DEF SendNext
    <3>2. CASE subs[cur][pos] \notin closed
      <4>1. rcvd' = [rcvd EXCEPT ![subs[cur][pos]] = Append(@, msg)]
        BY <1>6, <3>2 DEF SendNext
      <4>2. rcvd' \in [Clients -> Seq(Messages)]
        BY <1>0, <1>6, <3>1, <4>1 DEF SendNext
      <4>3. reader' = [reader EXCEPT ![subs[cur][pos]] = "busy"] /\ pos' = pos + 1 /\ pc' = pc
        BY <1>6, <3>2 DEF SendNext
      <4> QED
        BY <1>0, <1>6, <3>1, <4>2, <4>3 DEF SendNext
    <3>3. CASE subs[cur][pos] \in closed
      BY <1>0, <1>6, <3>1, <3>3 DEF SendNext
    <3> QED
      BY <3>2, <3>3
  <2> QED
    BY <1>0, <1>6, <2>1 DEF SendNext
<1>7. CASE SendReturn
  BY <1>0, <1>7 DEF SendReturn
<1>8. ASSUME NEW t \in Topics, CleanDone(t) PROVE SubTypeOK'
  BY <1>0, <1>8 DEF CleanDone
<1>9. CASE ScanNext
  <2>1. /\ closed' \subseteq Clients
        /\ forRemove' \in Seq(Nat)
        /\ pos' \in Nat
        /\ pc' \in DispatcherStates \ {"send"}
    <3>1. subs[cur][pos] \in Clients
      BY <1>9, EntryAtPos DEF ScanNext
    <3>2. closed' \subseteq Clients
      BY <1>0, <1>9, <3>1 DEF ScanNext
    <3>3. forRemove' \in Seq(Nat)
      <4>1. forRemove' = forRemove \/ forRemove' = Append(forRemove, pos)
        BY <1>9 DEF ScanNext
      <4>2. forRemove \in Seq(Nat) /\ pos \in Nat
        BY <1>0
      <4> QED
        BY <4>1, <4>2
    <3>4. pos' \in Nat
      BY <1>0, <1>9, <3>1 DEF ScanNext
    <3>5. pc' \in {"scan", "panic"}
      BY <1>9 DEF ScanNext
    <3> QED
      BY <3>2, <3>3, <3>4, <3>5 DEF DispatcherStates
  <2> QED
    BY <1>0, <1>9, <2>1 DEF ScanNext
<1>10. CASE ScanEnd
  BY <1>0, <1>10 DEF ScanEnd
<1>11. CASE SwapNext
  <2>1. subs' \in [Topics -> Seq(Clients)]
    <3> DEFINE s2 == [subs[cur] EXCEPT ![forRemove[pos]] = subs[cur][Active(cur)]]
    <3>1. subs' = [subs EXCEPT ![cur] = s2]
      BY <1>11, SwapInBounds DEF SwapNext
    <3>2. cur \in Topics /\ subs[cur] \in Seq(Clients)
      BY <1>0, <1>11 DEF SwapNext
    <3>3. s2 \in Seq(Clients)
      BY <1>11, <3>2, SwapInBounds, SeqUpdate DEF SwapNext
    <3> QED
      BY <1>0, <3>1, <3>2, <3>3
  <2> QED
    <3>1. /\ pos' \in Nat
          /\ pc' = "swap"
          /\ cur' = cur /\ cur \in Topics
          /\ UNCHANGED <<msg, forRemove, sent, topicOf, ctxDone, closed, reader, rcvd, base>>
      BY <1>0, <1>11 DEF SwapNext
    <3> QED
      BY <1>0, <2>1, <3>1
<1>12. CASE Truncate
  BY <1>0, <1>12 DEF Truncate
<1>13. CASE UNCHANGED subVars
  BY <1>0, <1>13 DEF subVars
<1> QED
  BY <1>1, <1>2, <1>3, <1>4, <1>5, <1>6, <1>7, <1>8, <1>9, <1>10, <1>11, <1>12, <1>13
  DEF SubNext, ClientNext, DispatcherStep, DispatcherCall

-----------------------------------------------------------------------------
(***************************************************************************)
(* Every step keeps the invariant, one lemma per action.                   *)
(***************************************************************************)

\* Push appends a client that was in no slice, and needs the lock: no slice
\* that is being cleaned changes.
LEMMA PushStep ==
    ASSUME SubInv, SubTypeOK', NEW c \in Clients, NEW t \in Topics, Push(c, t)
    PROVE  SubInv'
<1> USE SubscribersAssumption DEF SubInv
<1>0. SubTypeOK
  OBVIOUS
<1>1. NoPanic'
  BY DEF NoPanic, Push
<1>2. PushedInv'
  BY <1>0 DEF PushedInv, Push, SubTypeOK
<1>3. RememberedInv'
  BY <1>0 DEF RememberedInv, Push, SubTypeOK, Locked, DispatcherStates, NoPanic
<1>4. SliceInv'
  <2>0. closed' = closed /\ c \notin closed
    BY DEF Push, PushedInv
  <2>1. /\ subs' = [subs EXCEPT ![t] = Append(@, c)]
        /\ topicOf[c] = NoTopic /\ c \notin closed
        /\ topicOf' = [topicOf EXCEPT ![c] = t]
        /\ ~(pc # "idle" /\ cur = t)
        /\ UNCHANGED <<closed, pc, cur, pos, forRemove>>
    BY DEF Push, PushedInv, Locked
  <2> SUFFICES ASSUME NEW u \in Topics
               PROVE  /\ \A i \in 1 .. Active(u)' :
                           /\ topicOf'[subs'[u][i]] = u
                           /\ subs'[u][i] \in closed' <=> Marked(u, i)'
                      /\ \A i, j \in 1 .. Active(u)' : subs'[u][i] = subs'[u][j] => i = j
                      /\ \A d \in Clients : topicOf'[d] = u /\ d \notin closed' =>
                           \E i \in 1 .. Active(u)' : subs'[u][i] = d
    BY DEF SliceInv
  <2>2. CASE u # t
    <3>1. subs'[u] = subs[u] /\ Active(u)' = Active(u)
      BY <1>0, <2>1, <2>2 DEF SubTypeOK, Active
    <3>2. \A i : Marked(u, i)' <=> Marked(u, i)
      BY <2>1 DEF Marked, Unhandled
    <3>3. \A i \in 1 .. Active(u) : subs[u][i] \in Clients /\ topicOf[subs[u][i]] = u
      BY ActiveBound DEF SliceInv
    <3>4. \A d \in Clients : topicOf'[d] = u <=> topicOf[d] = u
      BY <1>0, <2>1, <2>2 DEF SubTypeOK
    <3> QED
      <4>1. \A i \in 1 .. Active(u) : subs[u][i] \in closed <=> Marked(u, i)
        BY DEF SliceInv
      <4>2. \A i \in 1 .. Active(u)' :
               /\ topicOf'[subs'[u][i]] = u
               /\ subs'[u][i] \in closed' <=> Marked(u, i)'
        BY <2>0, <3>1, <3>2, <3>3, <3>4, <4>1
      <4>3. \A i, j \in 1 .. Active(u)' : subs'[u][i] = subs'[u][j] => i = j
        BY <3>1 DEF SliceInv
      <4>4. \A d \in Clients : topicOf'[d] = u /\ d \notin closed' =>
               \E i \in 1 .. Active(u)' : subs'[u][i] = d
        BY <2>0, <3>1, <3>4 DEF SliceInv
      <4> QED
        BY <4>2, <4>3, <4>4
  <2>3. CASE u = t
    <3>1. Active(t) = Len(subs[t]) /\ Active(t)' = Len(subs[t]) + 1
      BY <1>0, <2>1 DEF Active, SubTypeOK
    <3>2. \A i : ~Marked(t, i) /\ ~Marked(t, i)'
      BY <2>1 DEF Marked
    <3>4. subs'[t] = Append(subs[t], c)
      BY <1>0, <2>1 DEF SubTypeOK
    <3>5. /\ subs[t] \in Seq(Clients) /\ Len(subs[t]) \in Nat
          /\ \A i \in 1 .. Len(subs[t]) : subs[t][i] \in Clients /\ subs[t][i] # c
      <4>1. subs[t] \in Seq(Clients) /\ Len(subs[t]) \in Nat
        BY <1>0 DEF SubTypeOK
      <4>2. \A i \in 1 .. Len(subs[t]) : topicOf[subs[t][i]] = t
        BY <3>1 DEF SliceInv
      <4>3. t # NoTopic
        OBVIOUS
      <4> QED
        BY <2>1, <4>1, <4>2, <4>3
    <3>6. /\ \A i \in 1 .. Len(subs[t]) : subs'[t][i] = subs[t][i]
          /\ subs'[t][Len(subs[t]) + 1] = c
      BY <3>4, <3>5
    <3>7. \A d \in Clients : topicOf'[d] = t <=> (topicOf[d] = t \/ d = c)
      BY <1>0, <2>1 DEF SubTypeOK
    <3>8. \A i \in 1 .. Len(subs[t]) + 1 : i \in 1 .. Len(subs[t]) \/ i = Len(subs[t]) + 1
      BY <3>5
    <3>9. \A i \in 1 .. Active(t)' :
             /\ topicOf'[subs'[t][i]] = t
             /\ subs'[t][i] \in closed' <=> Marked(t, i)'
      <4>1. \A i \in 1 .. Len(subs[t]) : topicOf[subs[t][i]] = t /\ subs[t][i] \notin closed
        BY <3>1, <3>2 DEF SliceInv
      <4>2. \A i \in 1 .. Len(subs[t]) :
               topicOf'[subs'[t][i]] = t /\ subs'[t][i] \notin closed'
        BY <2>0, <3>5, <3>6, <3>7, <4>1
      <4>3. topicOf'[c] = t /\ c \notin closed'
        BY <2>0, <3>7
      <4> QED
        BY <3>1, <3>2, <3>6, <3>8, <4>2, <4>3
    <3>10. \A i, j \in 1 .. Active(t)' : subs'[t][i] = subs'[t][j] => i = j
      BY <3>1, <3>5, <3>6, <3>8 DEF SliceInv
    <3>11. \A d \in Clients : topicOf'[d] = t /\ d \notin closed' =>
              \E i \in 1 .. Active(t)' : subs'[t][i] = d
      BY <2>1, <3>1, <3>5, <3>6, <3>7 DEF SliceInv
    <3> QED
      BY <2>3, <3>9, <3>10, <3>11
  <2> QED
    BY <2>2, <2>3
<1> QED
  BY <1>1, <1>2, <1>3, <1>4

\* The client actions that touch neither the slices nor the channels.
LEMMA ReaderStep ==
    ASSUME SubInv, SubTypeOK', NEW c \in Clients,
           Cancel(c) \/ AwaitNext(c) \/ StopReading(c)
    PROVE  SubInv'
<1> USE DEF SubInv
<1>1. UNCHANGED <<subs, topicOf, closed, rcvd, pc, cur, pos, forRemove>>
  BY DEF Cancel, AwaitNext, StopReading
<1>2. \A d \in Clients : reader'[d] = "new" <=> reader[d] = "new"
  BY DEF Cancel, AwaitNext, StopReading, SubTypeOK
<1>3. PushedInv'
  BY <1>1, <1>2 DEF PushedInv
<1>4. NoPanic' /\ SliceInv' /\ RememberedInv'
  BY <1>1 DEF NoPanic, SliceInv, RememberedInv, Active, Marked, Unhandled
<1> QED
  BY <1>3, <1>4

\* SendAll changes no slice and meets no closed channel.
LEMMA SendStep ==
    ASSUME SubInv, SubTypeOK',
           (\E t \in Topics, m \in Messages : SendAll(t, m)) \/ SendNext \/ SendReturn
    PROVE  SubInv'
<1> USE DEF SubInv
<1>1. /\ UNCHANGED <<subs, topicOf, closed, forRemove>>
      /\ pc \in {"idle", "send"} /\ pc' \in {"idle", "send", "panic"}
      /\ pc' \in {"send", "panic"} => pos' >= 1
  BY DEF SendAll, SendNext, SendReturn, clientVars, RememberedInv, SubTypeOK
<1>2. pc' # "panic"
  <2>1. CASE SendNext
    <3>1. cur \in Topics /\ Active(cur) = Len(subs[cur]) /\ pos \in 1 .. Len(subs[cur])
      BY <2>1, EntryAtPos DEF SendNext, Active
    <3>2. \A i : ~Marked(cur, i)
      BY <2>1 DEF SendNext, Marked
    <3>3. subs[cur][pos] \notin closed
      BY <3>1, <3>2 DEF SliceInv
    <3> QED
      BY <2>1, <3>3 DEF SendNext
  <2> QED
    BY <2>1 DEF SendAll, SendReturn
<1>3. \A c \in Clients : reader'[c] = "new" <=> reader[c] = "new"
  <2>1. CASE SendNext
    BY <2>1, <1>2, EntryAtPos DEF SendNext, SubTypeOK
  <2> QED
    BY <2>1 DEF SendAll, SendReturn, clientVars
<1>4. \A c \in Clients : topicOf[c] = NoTopic => rcvd'[c] = << >>
  <2>1. CASE SendNext
    <3>1. reader[subs[cur][pos]] = "await" /\ subs[cur][pos] \in Clients
      BY <2>1, <1>2, EntryAtPos DEF SendNext
    <3>2. topicOf[subs[cur][pos]] # NoTopic
      BY <3>1 DEF PushedInv
    <3>3. \A c \in Clients : c # subs[cur][pos] => rcvd'[c] = rcvd[c]
      BY <2>1, <1>2 DEF SendNext, SubTypeOK
    <3> QED
      BY <3>2, <3>3 DEF PushedInv
  <2> QED
    BY <2>1 DEF SendAll, SendReturn, clientVars, PushedInv
<1>5. PushedInv'
  BY <1>1, <1>3, <1>4 DEF PushedInv
<1>6. RememberedInv'
  BY <1>1, <1>2 DEF RememberedInv
<1>7. SliceInv'
  <2>1. \A t \in Topics : Active(t) = Len(subs[t]) /\ Active(t)' = Len(subs[t])
    BY <1>1 DEF Active
  <2>2. \A t, i : ~Marked(t, i) /\ ~Marked(t, i)'
    BY <1>1 DEF Marked
  <2> QED
    BY <1>1, <2>1, <2>2 DEF SliceInv
<1> QED
  BY <1>2, <1>5, <1>6, <1>7 DEF NoPanic

\* The beginning of CleanDone marks nothing yet.
LEMMA CleanStep ==
    ASSUME SubInv, SubTypeOK', (\E t \in Topics : CleanDone(t)) \/ ScanEnd
    PROVE  SubInv'
<1> USE DEF SubInv
<1>1. UNCHANGED <<subs, topicOf, closed, reader, rcvd>>
  BY DEF CleanDone, ScanEnd, clientVars
<1>2. NoPanic' /\ PushedInv'
  BY <1>1 DEF CleanDone, ScanEnd, NoPanic, PushedInv
<1>3. CASE \E t \in Topics : CleanDone(t)
  <2>1. /\ pc = "idle" /\ pc' = "scan"
        /\ forRemove' = << >> /\ Len(forRemove') = 0 /\ pos' = 1 /\ cur' \in Topics
    BY <1>3 DEF CleanDone
  <2>2. RememberedInv'
    BY <2>1, <1>1 DEF RememberedInv, SubTypeOK
  <2>3. \A t \in Topics : Active(t) = Len(subs[t]) /\ Active(t)' = Len(subs[t])
    BY <1>1, <2>1 DEF Active
  <2>4. \A t, i : ~Marked(t, i) /\ ~Marked(t, i)'
    BY <2>1 DEF Marked, Unhandled
  <2>5. SliceInv'
    BY <1>1, <2>3, <2>4 DEF SliceInv
  <2> QED
    BY <1>2, <2>2, <2>5
<1>4. CASE ScanEnd
  <2>1. /\ pc = "scan" /\ pc' = "swap" /\ cur' = cur /\ forRemove' = forRemove
        /\ pos' = Len(forRemove) /\ pos > Len(subs[cur])
    BY <1>4 DEF ScanEnd
  <2>2. /\ cur \in Topics /\ Len(subs[cur]) \in Nat /\ pos \in Nat
        /\ forRemove \in Seq(Nat) /\ Len(forRemove) \in Nat
    BY <2>1 DEF SubTypeOK
  <2>3. pos = Len(subs[cur]) + 1 /\ Len(forRemove) < pos
    <3>1. pos <= Len(subs[cur]) + 1 /\ Len(forRemove) < pos
      BY <2>1 DEF RememberedInv
    <3> QED
      BY <2>1, <2>2, <3>1
  <2>4. \A k \in 1 .. Len(forRemove) :
           forRemove[k] \in Nat /\ forRemove[k] + (Len(forRemove) - k) <= Len(subs[cur])
    BY <2>1, <2>2, <2>3 DEF RememberedInv
  <2>5. RememberedInv'
    BY <1>1, <2>1, <2>2, <2>3, <2>4 DEF RememberedInv
  <2>6. \A t \in Topics : Active(t) = Len(subs[t]) /\ Active(t)' = Len(subs[t])
    BY <1>1, <2>1, <2>2 DEF Active, SubTypeOK
  <2>7. \A t, i : Marked(t, i) <=> Marked(t, i)'
    BY <2>1 DEF Marked, Unhandled
  <2>8. SliceInv'
    BY <1>1, <2>6, <2>7 DEF SliceInv
  <2> QED
    BY <1>2, <2>5, <2>8
<1> QED
  BY <1>3, <1>4

\* The first loop marks exactly the entries whose channel it closes.
LEMMA ScanStep ==
    ASSUME SubInv, SubTypeOK', ScanNext
    PROVE  SubInv'
<1> USE DEF SubInv
<1> DEFINE c == subs[cur][pos]
<1>1. /\ pc = "scan" /\ pos <= Len(subs[cur])
      /\ UNCHANGED <<subs, topicOf, reader, rcvd, cur>>
  BY DEF ScanNext
<1>2. cur \in Topics /\ pos \in 1 .. Len(subs[cur]) /\ c \in Clients
  BY <1>1, EntryAtPos
<1>3. \A t \in Topics : Active(t) = Len(subs[t])
  BY <1>1 DEF Active
<1>4. /\ forRemove \in Seq(Nat) /\ Len(forRemove) \in Nat /\ Len(subs[cur]) \in Nat
      /\ \A k \in 1 .. Len(forRemove) : forRemove[k] \in Nat /\ forRemove[k] < pos
      /\ Len(forRemove) < pos
  <2>1. forRemove \in Seq(Nat) /\ Len(forRemove) \in Nat /\ Len(subs[cur]) \in Nat
    <3>1. forRemove \in Seq(Nat) /\ subs[cur] \in Seq(Clients)
      BY <1>2 DEF SubTypeOK
    <3> QED
      BY <3>1
  <2>2. /\ \A k \in 1 .. Len(forRemove) : forRemove[k] + (Len(forRemove) - k) < pos
        /\ Len(forRemove) < pos
    BY <1>1 DEF RememberedInv
  <2> QED
    BY <1>2, <2>1, <2>2
<1>5. c \notin closed
  <2>1. ~Marked(cur, pos)
    BY <1>1, <1>2, <1>4 DEF Marked, Unhandled
  <2> QED
    BY <1>2, <1>3, <2>1 DEF SliceInv
<1>6. /\ pc' = "scan" /\ pos' = pos + 1
      /\ \/ closed' = closed /\ forRemove' = forRemove
         \/ closed' = closed \union {c} /\ forRemove' = Append(forRemove, pos)
  BY <1>5 DEF ScanNext
<1>7. topicOf[c] = cur /\ cur # NoTopic
  BY <1>2, <1>3, SubscribersAssumption DEF SliceInv
<1>8. NoPanic' /\ PushedInv'
  BY <1>1, <1>6, <1>7 DEF NoPanic, PushedInv
<1>9. \A t \in Topics : Active(t)' = Len(subs[t])
  BY <1>1, <1>6 DEF Active
<1>10. CASE closed' = closed /\ forRemove' = forRemove
  <2>1. RememberedInv'
    <3>1. pos' >= 1 /\ pos' <= Len(subs[cur]) + 1
      BY <1>2, <1>4, <1>6
    <3>2. \A k \in 1 .. Len(forRemove) : forRemove[k] + (Len(forRemove) - k) < pos'
      BY <1>1, <1>2, <1>4, <1>6 DEF RememberedInv
    <3> QED
      BY <1>1, <1>2, <1>4, <1>6, <1>10, <3>1, <3>2 DEF RememberedInv
  <2>2. \A t, i : Marked(t, i)' <=> Marked(t, i)
    BY <1>1, <1>6, <1>10 DEF Marked, Unhandled
  <2>3. SliceInv'
    BY <1>1, <1>3, <1>9, <1>10, <2>2 DEF SliceInv
  <2> QED
    BY <1>8, <2>1, <2>3
<1>11. CASE closed' = closed \union {c} /\ forRemove' = Append(forRemove, pos)
  <2>1. /\ Len(forRemove') = Len(forRemove) + 1
        /\ \A k \in 1 .. Len(forRemove) : forRemove'[k] = forRemove[k]
        /\ forRemove'[Len(forRemove) + 1] = pos
        /\ \A k \in 1 .. Len(forRemove) + 1 :
             k \in 1 .. Len(forRemove) \/ k = Len(forRemove) + 1
    BY <1>2, <1>4, <1>11
  <2>2. RememberedInv'
    <3>1. \A k \in 1 .. Len(forRemove) + 1 :
             /\ forRemove'[k] >= 1
             /\ forRemove'[k] + (Len(forRemove) + 1 - k) < pos + 1
      <4>1. \A k \in 1 .. Len(forRemove) :
               forRemove[k] >= 1 /\ forRemove[k] + (Len(forRemove) - k) < pos
        BY <1>1 DEF RememberedInv
      <4> QED
        BY <1>2, <1>4, <2>1, <4>1
    <3>2. \A k, l \in 1 .. Len(forRemove) + 1 : k < l => forRemove'[k] < forRemove'[l]
      <4>1. \A k, l \in 1 .. Len(forRemove) : k < l => forRemove[k] < forRemove[l]
        BY <1>1 DEF RememberedInv
      <4> QED
        BY <1>2, <1>4, <2>1, <4>1
    <3> QED
      BY <1>1, <1>2, <1>4, <1>6, <2>1, <3>1, <3>2 DEF RememberedInv
  <2>3. \A t, i : Marked(t, i)' <=> (Marked(t, i) \/ (t = cur /\ i = pos))
    BY <1>1, <1>4, <1>6, <2>1 DEF Marked, Unhandled
  <2>4. SliceInv'
    <3> SUFFICES ASSUME NEW t \in Topics
                 PROVE  /\ \A i \in 1 .. Len(subs[t]) :
                             /\ topicOf[subs[t][i]] = t
                             /\ subs[t][i] \in closed' <=> Marked(t, i)'
                        /\ \A i, j \in 1 .. Len(subs[t]) : subs[t][i] = subs[t][j] => i = j
                        /\ \A d \in Clients : topicOf[d] = t /\ d \notin closed' =>
                             \E i \in 1 .. Len(subs[t]) : subs[t][i] = d
      BY <1>1, <1>9 DEF SliceInv
    <3>1. /\ \A i \in 1 .. Len(subs[t]) : topicOf[subs[t][i]] = t
          /\ \A i \in 1 .. Len(subs[t]) : subs[t][i] \in closed <=> Marked(t, i)
          /\ \A i, j \in 1 .. Len(subs[t]) : subs[t][i] = subs[t][j] => i = j
          /\ \A d \in Clients : topicOf[d] = t /\ d \notin closed =>
               \E i \in 1 .. Len(subs[t]) : subs[t][i] = d
      BY <1>3 DEF SliceInv
    <3>2. \A i \in 1 .. Len(subs[t]) : subs[t][i] = c <=> (t = cur /\ i = pos)
      BY <1>2, <1>7, <3>1
    <3>3. \A i \in 1 .. Len(subs[t]) : subs[t][i] \in closed' <=> Marked(t, i)'
      BY <1>11, <2>3, <3>1, <3>2
    <3> QED
      BY <1>11, <3>1, <3>3
  <2> QED
    BY <1>8, <2>2, <2>4
<1> QED
  BY <1>6, <1>10, <1>11

\* An iteration of the second loop overwrites a marked entry with the last one
\* that counts, and the part that counts loses its last entry.
LEMMA SwapStep ==
    ASSUME SubInv, SubTypeOK', SwapNext
    PROVE  SubInv'
<1> USE DEF SubInv
<1> DEFINE A == Active(cur)
           f == forRemove[pos]
           s == subs[cur]
           s2 == [s EXCEPT ![f] = s[A]]
<1>1. /\ pc = "swap" /\ pc' = "swap" /\ pos > 0 /\ pos' = pos - 1
      /\ UNCHANGED <<topicOf, closed, reader, rcvd, cur, forRemove>>
  BY DEF SwapNext, clientVars
<1>2. /\ cur \in Topics /\ s \in Seq(Clients) /\ Len(s) \in Nat /\ pos \in Nat
      /\ forRemove \in Seq(Nat) /\ Len(forRemove) \in Nat
  BY <1>1 DEF SubTypeOK
<1>3. f \in 1 .. A /\ A \in 1 .. Len(s) /\ s[A] \in Clients
  BY <1>1, <1>2, SwapInBounds
<1>4. subs' = [subs EXCEPT ![cur] = s2]
  BY <1>1, SwapInBounds DEF SwapNext
<1>5. /\ subs'[cur] = s2
      /\ Len(s2) = Len(s)
      /\ \A i \in 1 .. Len(s) : s2[i] = IF i = f THEN s[A] ELSE s[i]
      /\ \A t \in Topics : t # cur => subs'[t] = subs[t]
  <2>1. \A t \in Topics : t # cur => subs'[t] = subs[t]
    BY <1>4 DEF SubTypeOK
  <2>2. subs'[cur] = s2
    BY <1>2, <1>4 DEF SubTypeOK
  <2> HIDE DEF s
  <2>3. f \in 1 .. Len(s)
    BY <1>2, <1>3
  <2> QED
    BY <1>2, <1>3, <2>1, <2>2, <2>3, SeqUpdate
<1>6. /\ pos <= Len(forRemove) /\ Len(forRemove) <= Len(s)
      /\ \A k \in 1 .. Len(forRemove) : forRemove[k] \in Nat
      /\ \A k, l \in 1 .. Len(forRemove) : k < l => forRemove[k] < forRemove[l]
  BY <1>1, <1>2 DEF RememberedInv
<1>7. A = Len(s) - Len(forRemove) + pos /\ Active(cur)' = A - 1
  BY <1>1, <1>2, <1>5, <1>6 DEF Active
<1>8. NoPanic' /\ PushedInv'
  BY <1>1 DEF NoPanic, PushedInv
<1>9. RememberedInv'
  BY <1>1, <1>2, <1>5, <1>6 DEF RememberedInv
<1>10. /\ Marked(cur, f)
       /\ \A i : Marked(cur, i)' <=> (Marked(cur, i) /\ i # f)
       /\ \A i : Marked(cur, i) => i <= f
  <2>1. \A i : Marked(cur, i) <=> \E k \in 1 .. pos : forRemove[k] = i
    BY <1>1 DEF Marked, Unhandled
  <2>2. \A i : Marked(cur, i)' <=> \E k \in 1 .. pos - 1 : forRemove[k] = i
    BY <1>1 DEF Marked, Unhandled
  <2>3. pos \in 1 .. pos /\ \A k \in 1 .. pos : k = pos \/ k \in 1 .. pos - 1
    BY <1>1, <1>2
  <2>4. \A k \in 1 .. pos - 1 : k \in 1 .. pos /\ forRemove[k] < f /\ forRemove[k] \in Nat
    BY <1>1, <1>2, <1>6
  <2>5. f \in Nat
    BY <1>1, <1>2, <1>6
  <2> HIDE DEF f
  <2>6. f = forRemove[pos]
    BY DEF f
  <2> QED
    BY <2>1, <2>2, <2>3, <2>4, <2>5, <2>6
<1>11. \A t, i : t # cur => ~Marked(t, i) /\ ~Marked(t, i)'
  BY <1>1 DEF Marked
<1>12. ASSUME NEW t \in Topics, t # cur
       PROVE  /\ \A i \in 1 .. Active(t)' :
                   /\ topicOf'[subs'[t][i]] = t
                   /\ subs'[t][i] \in closed' <=> Marked(t, i)'
              /\ \A i, j \in 1 .. Active(t)' : subs'[t][i] = subs'[t][j] => i = j
              /\ \A d \in Clients : topicOf'[d] = t /\ d \notin closed' =>
                   \E i \in 1 .. Active(t)' : subs'[t][i] = d
  <2>1. subs'[t] = subs[t] /\ Active(t) = Len(subs[t]) /\ Active(t)' = Len(subs[t])
    BY <1>1, <1>5, <1>12 DEF Active
  <2>2. topicOf' = topicOf /\ closed' = closed
    BY <1>1
  <2>3. \A i : ~Marked(t, i) /\ ~Marked(t, i)'
    BY <1>11, <1>12
  <2> QED
    BY <2>1, <2>2, <2>3 DEF SliceInv
<1>13. /\ \A i \in 1 .. A - 1 :
            /\ topicOf[s2[i]] = cur
            /\ s2[i] \in closed <=> Marked(cur, i)'
       /\ \A i, j \in 1 .. A - 1 : s2[i] = s2[j] => i = j
       /\ \A d \in Clients : topicOf[d] = cur /\ d \notin closed =>
            \E i \in 1 .. A - 1 : s2[i] = d
  <2>1. /\ \A i \in 1 .. A : topicOf[s[i]] = cur
        /\ \A i \in 1 .. A : s[i] \in closed <=> Marked(cur, i)
        /\ \A i, j \in 1 .. A : s[i] = s[j] => i = j
        /\ \A d \in Clients : topicOf[d] = cur /\ d \notin closed =>
             \E i \in 1 .. A : s[i] = d
    BY <1>2 DEF SliceInv
  <2>2. \A i \in 1 .. A - 1 : i \in 1 .. A /\ i # A /\ s2[i] = IF i = f THEN s[A] ELSE s[i]
    BY <1>3, <1>5
  <2>3. f # A => ~Marked(cur, A) /\ f \in 1 .. A - 1
    BY <1>3, <1>10
  <2> HIDE DEF A, f, s, s2
  <2>4. \A i \in 1 .. A - 1 : i = f => f # A
    BY <2>2
  <2>5. A \in 1 .. A /\ f \in 1 .. A
    BY <1>3
  <2>6. \A i \in 1 .. A - 1 :
            /\ topicOf[s2[i]] = cur
            /\ s2[i] \in closed <=> Marked(cur, i)'
    BY <1>10, <2>1, <2>2, <2>3, <2>4, <2>5
  <2>7. \A i, j \in 1 .. A - 1 : s2[i] = s2[j] => i = j
    BY <2>1, <2>2, <2>5
  <2>8. \A i \in 1 .. A : i = A \/ i \in 1 .. A - 1
    BY <1>3
  <2>9. \A d \in Clients : topicOf[d] = cur /\ d \notin closed =>
            \E i \in 1 .. A - 1 : s2[i] = d
    BY <1>10, <2>1, <2>2, <2>3, <2>5, <2>8
  <2> QED
    BY <2>6, <2>7, <2>9
<1>14. SliceInv'
  <2> HIDE DEF A, f, s, s2
  <2>1. topicOf' = topicOf /\ closed' = closed /\ cur' = cur
    BY <1>1
  <2> SUFFICES ASSUME NEW t \in Topics
               PROVE  /\ \A i \in 1 .. Active(t)' :
                           /\ topicOf'[subs'[t][i]] = t
                           /\ subs'[t][i] \in closed' <=> Marked(t, i)'
                      /\ \A i, j \in 1 .. Active(t)' : subs'[t][i] = subs'[t][j] => i = j
                      /\ \A d \in Clients : topicOf'[d] = t /\ d \notin closed' =>
                           \E i \in 1 .. Active(t)' : subs'[t][i] = d
    BY DEF SliceInv
  <2>2. CASE t = cur
    BY <1>5, <1>7, <1>13, <2>1, <2>2
  <2> QED
    BY <1>12, <2>2
<1> QED
  BY <1>8, <1>9, <1>14

\* The reslice keeps exactly the part that counts, where nothing is marked.
LEMMA TruncateStep ==
    ASSUME SubInv, SubTypeOK', Truncate
    PROVE  SubInv'
<1> USE DEF SubInv
<1>1. /\ pc = "swap" /\ pc' = "idle" /\ pos = 0
      /\ subs' = [subs EXCEPT ![cur] = SubSeq(@, 1, Len(@) - Len(forRemove))]
      /\ UNCHANGED <<topicOf, closed, reader, rcvd>>
  BY DEF Truncate, clientVars
<1>2. /\ cur \in Topics /\ subs[cur] \in Seq(Clients) /\ Len(subs[cur]) \in Nat
      /\ Len(forRemove) \in Nat /\ Len(forRemove) <= Len(subs[cur])
  BY <1>1 DEF SubTypeOK, RememberedInv
<1>3. Active(cur) = Len(subs[cur]) - Len(forRemove)
  BY <1>1, <1>2 DEF Active
<1>4. subs'[cur] = SubSeq(subs[cur], 1, Active(cur))
  BY <1>1, <1>2, <1>3 DEF SubTypeOK
<1>5. /\ Len(subs'[cur]) = Active(cur)
      /\ \A i \in 1 .. Active(cur) : subs'[cur][i] = subs[cur][i]
  BY <1>2, <1>3, <1>4
<1>6. \A t \in Topics : t # cur => subs'[t] = subs[t]
  BY <1>1 DEF SubTypeOK
<1>7. \A t, i : ~Marked(t, i) /\ ~Marked(t, i)'
  BY <1>1 DEF Marked, Unhandled
<1>8. ASSUME NEW t \in Topics
      PROVE  Active(t)' = Active(t) /\ \A i \in 1 .. Active(t) : subs'[t][i] = subs[t][i]
  BY <1>1, <1>5, <1>6 DEF Active
<1>9. topicOf' = topicOf /\ closed' = closed
  BY <1>1
<1>10. SliceInv'
  BY <1>7, <1>8, <1>9 DEF SliceInv
<1>11. NoPanic' /\ PushedInv' /\ RememberedInv'
  BY <1>1 DEF NoPanic, PushedInv, RememberedInv
<1> QED
  BY <1>10, <1>11

-----------------------------------------------------------------------------
(***************************************************************************)
(* The theorems.                                                           *)
(***************************************************************************)

\* SubInv is inductive.
LEMMA NextInv == SubInv /\ [SubNext]_subVars => SubInv'
<1> SUFFICES ASSUME SubInv, [SubNext]_subVars PROVE SubInv'
  OBVIOUS
<1>1. SubTypeOK'
  BY TypeStep
<1>2. CASE UNCHANGED subVars
  BY <1>2 DEF subVars, SubInv, SubTypeOK, NoPanic, PushedInv, SliceInv, RememberedInv,
              Active, Marked, Unhandled
<1> QED
  BY <1>1, <1>2, PushStep, ReaderStep, SendStep, CleanStep, ScanStep, SwapStep, TruncateStep
  DEF SubNext, ClientNext, DispatcherStep, DispatcherCall

\* Every reachable state of the registries satisfies the invariant.
THEOREM SubInvariant == SubSpec => []SubInv
  BY InitInv, NextInv, PTL DEF SubSpec

\* The registries' state is always well typed (in particular the second loop
\* of CleanDone never leaves the slice).
THEOREM SubTypeCorrect == SubSpec => []SubTypeOK
<1>1. SubInv => SubTypeOK
  BY DEF SubInv
<1> QED
  BY <1>1, SubInvariant, PTL

\* However clients come and go and whenever their contexts are cancelled,
\* SendAll never sends on a closed channel and CleanDone never closes one
\* twice.
THEOREM SubNoPanic == SubSpec => []NoPanic
<1>1. SubInv => NoPanic
  BY DEF SubInv
<1> QED
  BY <1>1, SubInvariant, PTL

\* CleanDone's swap-and-truncate removal neither loses a live subscriber nor
\* keeps a removed one, for slices of any length.
THEOREM SubRegistryIntact == SubSpec => []RegistryIntact
<1>1. SubInv => RegistryIntact
  <2> SUFFICES ASSUME SubInv, NEW t \in Topics, ~Locked(t)
               PROVE  /\ {subs[t][i] : i \in DOMAIN subs[t]} = Members(t)
                      /\ \A i, j \in DOMAIN subs[t] : subs[t][i] = subs[t][j] => i = j
    BY DEF RegistryIntact
  <2>1. Active(t) = Len(subs[t]) /\ DOMAIN subs[t] = 1 .. Len(subs[t])
    BY DEF Active, Locked, SubInv, SubTypeOK
  <2>2. \A i : ~Marked(t, i)
    BY DEF Marked, Locked
  <2>3. \A i \in 1 .. Len(subs[t]) : subs[t][i] \in Clients
    BY <2>1, ActiveBound
  <2> QED
    BY <2>1, <2>2, <2>3 DEF SubInv, SliceInv, Members
<1> QED
  BY <1>1, SubInvariant, PTL

-----------------------------------------------------------------------------
(***************************************************************************)
(* Delivery.  What a client has received is what was broadcast since it    *)
(* joined; the one entry that may be missing is the message under way.     *)
(***************************************************************************)

\* The message SendAll is delivering is the last one broadcast on its topic.
OnAir ==
    pc = "send" => /\ Len(sent[cur]) >= 1
                   /\ sent[cur][Len(sent[cur])] = msg

\* Inductive together with SubInv.
DeliveryInv == OnAir /\ DeliveredInOrder

\* DeliveredInOrder for one client.
Delivered(c) ==
    /\ Len(rcvd[c]) <= SinceJoined(c)
    /\ \A i \in 1 .. Len(rcvd[c]) : rcvd[c][i] = sent[topicOf[c]][base[c] + i]
    /\ c \notin closed =>
         Len(rcvd[c]) = SinceJoined(c) - (IF Awaited(c) THEN 1 ELSE 0)

LEMMA DeliveredEach == DeliveredInOrder <=> \A c \in Clients : topicOf[c] # NoTopic => Delivered(c)
  BY DEF DeliveredInOrder, Delivered

\* A step that broadcasts and delivers nothing keeps what c was promised.
LEMMA DeliveredKept ==
    ASSUME NEW c \in Clients, Delivered(c),
           topicOf'[c] = topicOf[c], base'[c] = base[c], rcvd'[c] = rcvd[c], sent' = sent,
           c \notin closed' => c \notin closed /\ (Awaited(c)' <=> Awaited(c))
    PROVE  Delivered(c)'
  BY DEF Delivered, SinceJoined

\* Where the history of a client's topic ends.
LEMMA HistoryTypes ==
    ASSUME SubTypeOK, NEW c \in Clients, topicOf[c] # NoTopic
    PROVE  /\ topicOf[c] \in Topics
           /\ sent[topicOf[c]] \in Seq(Messages) /\ Len(sent[topicOf[c]]) \in Nat
           /\ rcvd[c] \in Seq(Messages) /\ Len(rcvd[c]) \in Nat
           /\ base[c] \in Nat
  BY DEF SubTypeOK

\* Push starts a client's account at the end of the history.
LEMMA PushDelivery ==
    ASSUME SubInv, SubInv', DeliveryInv, NEW c \in Clients, NEW t \in Topics, Push(c, t)
    PROVE  DeliveryInv'
<1> USE SubscribersAssumption
<1>1. /\ SubTypeOK /\ SubTypeOK' /\ PushedInv
      /\ reader[c] = "new" /\ ~(pc # "idle" /\ cur = t)
      /\ subs' = [subs EXCEPT ![t] = Append(@, c)]
      /\ topicOf' = [topicOf EXCEPT ![c] = t]
      /\ base' = [base EXCEPT ![c] = Len(sent[t])]
      /\ closed' = closed /\ rcvd' = rcvd /\ pc' = pc /\ cur' = cur /\ msg' = msg
      /\ pos' = pos /\ sent' = sent
  BY DEF SubInv, Push, Locked
<1>2. OnAir'
  BY <1>1 DEF DeliveryInv, OnAir
<1>3. Delivered(c)'
  <2>1. topicOf'[c] = t /\ base'[c] = Len(sent[t]) /\ rcvd'[c] = << >>
    BY <1>1 DEF PushedInv, SubTypeOK
  <2>2. ~Awaited(c)'
    BY <1>1, <2>1 DEF Awaited
  <2>3. Len(sent[t]) \in Nat
    BY <1>1 DEF SubTypeOK
  <2>4. SinceJoined(c)' = 0
    BY <1>1, <2>1, <2>3 DEF SinceJoined
  <2>5. Len(rcvd'[c]) = 0 /\ ~\E i \in 1 .. Len(rcvd'[c]) : TRUE
    BY <2>1
  <2> DEFINE lag == IF Awaited(c)' THEN 1 ELSE 0
  <2>6. lag = 0
    BY <2>2
  <2> HIDE DEF lag
  <2>7. Len(rcvd'[c]) = SinceJoined(c)' - lag /\ Len(rcvd'[c]) <= SinceJoined(c)'
    BY <2>4, <2>5, <2>6
  <2> QED
    BY <2>5, <2>7 DEF Delivered, lag
<1>4. ASSUME NEW d \in Clients, d # c, topicOf'[d] # NoTopic
      PROVE  Delivered(d)'
  <2>1. topicOf'[d] = topicOf[d] /\ base'[d] = base[d]
    BY <1>1, <1>4 DEF SubTypeOK
  <2>2. pc = "send" => cur \in Topics /\ subs'[cur] = subs[cur]
    BY <1>1 DEF SubTypeOK
  <2>3. Awaited(d)' <=> Awaited(d)
    BY <1>1, <2>1, <2>2 DEF Awaited
  <2> QED
    BY <1>1, <1>4, <2>1, <2>3, DeliveredKept, DeliveredEach DEF DeliveryInv
<1>5. \A d \in Clients : topicOf'[d] # NoTopic => Delivered(d)'
  BY <1>3, <1>4
<1>6. DeliveredInOrder'
  BY <1>5 DEF DeliveredInOrder, Delivered
<1> QED
  BY <1>2, <1>6 DEF DeliveryInv

\* Every member owes its delivery to the broadcast that begins: it is in the
\* slice the loop is about to walk.
LEMMA SendAllDelivery ==
    ASSUME SubInv, SubInv', DeliveryInv, NEW t \in Topics, NEW m \in Messages, SendAll(t, m)
    PROVE  DeliveryInv'
<1> USE SubscribersAssumption
<1>1. /\ SubTypeOK /\ SliceInv
      /\ pc = "idle" /\ pc' = "send" /\ cur' = t /\ msg' = m /\ pos' = 1
      /\ sent' = [sent EXCEPT ![t] = Append(@, m)]
      /\ subs' = subs /\ topicOf' = topicOf /\ closed' = closed
      /\ rcvd' = rcvd /\ base' = base
  BY DEF SubInv, SendAll, clientVars
<1>2. /\ sent'[t] = Append(sent[t], m)
      /\ \A u \in Topics : u # t => sent'[u] = sent[u]
      /\ sent[t] \in Seq(Messages) /\ Len(sent[t]) \in Nat
  BY <1>1 DEF SubTypeOK
<1>3. /\ Len(sent'[t]) = Len(sent[t]) + 1
      /\ \A i \in 1 .. Len(sent[t]) : sent'[t][i] = sent[t][i]
      /\ sent'[t][Len(sent[t]) + 1] = m
  BY <1>2
<1>4. OnAir'
  BY <1>1, <1>2, <1>3 DEF OnAir
<1>5. ASSUME NEW c \in Clients, topicOf[c] # NoTopic
      PROVE  Delivered(c)'
  <2>1. Delivered(c) /\ ~Awaited(c)
    BY <1>1, <1>5, DeliveredEach DEF DeliveryInv, Awaited
  <2>2. /\ topicOf[c] \in Topics /\ Len(sent[topicOf[c]]) \in Nat
        /\ Len(rcvd[c]) \in Nat /\ base[c] \in Nat
    BY <1>1, <1>5, HistoryTypes
  <2>3. CASE topicOf[c] # t
    <3>1. ~Awaited(c)' /\ sent'[topicOf[c]] = sent[topicOf[c]]
      BY <1>1, <1>2, <2>2, <2>3 DEF Awaited
    <3>2. SinceJoined(c)' = SinceJoined(c)
      BY <1>1, <3>1 DEF SinceJoined
    <3> QED
      BY <1>1, <2>1, <3>1, <3>2 DEF Delivered
  <2>4. CASE topicOf[c] = t
    <3>1. SinceJoined(c)' = SinceJoined(c) + 1 /\ SinceJoined(c) = Len(sent[t]) - base[c]
      BY <1>1, <1>3, <2>2, <2>4 DEF SinceJoined
    <3>2. Len(rcvd[c]) <= Len(sent[t]) - base[c]
      BY <2>1, <3>1 DEF Delivered
    <3>3. \A i \in 1 .. Len(rcvd[c]) : rcvd[c][i] = sent'[t][base[c] + i]
      <4>1. \A i \in 1 .. Len(rcvd[c]) : base[c] + i \in 1 .. Len(sent[t])
        BY <1>2, <2>2, <3>2
      <4>2. \A i \in 1 .. Len(rcvd[c]) : rcvd[c][i] = sent[t][base[c] + i]
        BY <2>1, <2>4 DEF Delivered
      <4> QED
        BY <1>3, <4>1, <4>2
    <3>4. c \notin closed => Awaited(c)'
      <4>1. Active(t) = Len(subs[t])
        BY <1>1 DEF Active
      <4>2. c \notin closed => \E i \in 1 .. Len(subs[t]) : subs[t][i] = c
        BY <1>1, <2>4, <4>1 DEF SliceInv
      <4> QED
        BY <1>1, <2>4, <4>2 DEF Awaited
    <3>5. c \notin closed => Len(rcvd[c]) = SinceJoined(c)
      BY <1>2, <2>1, <2>2, <3>1 DEF Delivered
    <3>6. c \notin closed =>
            Len(rcvd[c]) = SinceJoined(c)' - (IF Awaited(c)' THEN 1 ELSE 0)
      BY <1>2, <2>2, <3>1, <3>4, <3>5
    <3>7. Len(rcvd[c]) <= SinceJoined(c)'
      BY <1>2, <2>2, <3>1, <3>2
    <3> QED
      BY <1>1, <2>4, <3>3, <3>6, <3>7 DEF Delivered
  <2> QED
    BY <2>3, <2>4
<1>6. DeliveredInOrder'
  BY <1>1, <1>5 DEF DeliveredInOrder, Delivered
<1> QED
  BY <1>4, <1>6 DEF DeliveryInv

\* The client the loop stands at lacks exactly the message on the air, and is
\* not met again in the rest of the loop.
LEMMA SendNextDelivery ==
    ASSUME SubInv, SubInv', DeliveryInv, SendNext
    PROVE  DeliveryInv'
<1> USE SubscribersAssumption
<1>1. /\ SubTypeOK /\ SliceInv /\ NoPanic'
      /\ pc = "send" /\ pos <= Len(subs[cur])
      /\ subs' = subs /\ topicOf' = topicOf /\ closed' = closed /\ cur' = cur
      /\ msg' = msg /\ sent' = sent /\ base' = base
  BY DEF SubInv, SendNext
<1>0. subs[cur][pos] \in Clients
  BY <1>1, EntryAtPos
<1> PICK c \in Clients : c = subs[cur][pos]
  BY <1>0
<1>2. cur \in Topics /\ pos \in 1 .. Len(subs[cur]) /\ c \in Clients /\ c = subs[cur][pos]
  BY <1>1, EntryAtPos
<1>3. c \notin closed /\ rcvd' = [rcvd EXCEPT ![c] = Append(@, msg)] /\ pos' = pos + 1 /\ pc' = pc
  BY <1>1, <1>2 DEF SendNext, NoPanic
<1>4. OnAir'
  BY <1>1, <1>3 DEF DeliveryInv, OnAir
<1>5. /\ Len(subs[cur]) \in Nat /\ Active(cur) = Len(subs[cur])
      /\ \A i, j \in 1 .. Len(subs[cur]) : subs[cur][i] = subs[cur][j] => i = j
      /\ topicOf[c] = cur
  <2>1. Len(subs[cur]) \in Nat /\ Active(cur) = Len(subs[cur])
    BY <1>1, <1>2 DEF Active, SubTypeOK
  <2>2. /\ \A i \in 1 .. Active(cur) : topicOf[subs[cur][i]] = cur
        /\ \A i, j \in 1 .. Active(cur) : subs[cur][i] = subs[cur][j] => i = j
    BY <1>1, <1>2 DEF SliceInv
  <2> QED
    BY <1>2, <2>1, <2>2
<1>6. Awaited(c) /\ ~Awaited(c)'
  <2>1. \A i \in pos + 1 .. Len(subs[cur]) : i \in 1 .. Len(subs[cur]) /\ i # pos
    BY <1>2, <1>5
  <2>2. ~\E i \in pos + 1 .. Len(subs[cur]) : subs[cur][i] = c
    BY <1>2, <1>5, <2>1
  <2>3. pos \in pos .. Len(subs[cur])
    BY <1>2, <1>5
  <2> QED
    BY <1>1, <1>3, <1>5, <2>2, <2>3 DEF Awaited
<1>7. Delivered(c)'
  <2>1. Delivered(c) /\ topicOf[c] # NoTopic
    BY <1>2, <1>5, DeliveredEach DEF DeliveryInv
  <2>2. /\ sent[cur] \in Seq(Messages) /\ Len(sent[cur]) \in Nat
        /\ rcvd[c] \in Seq(Messages) /\ Len(rcvd[c]) \in Nat
        /\ base[c] \in Nat /\ msg \in Messages
    BY <1>1, <1>2, <1>5, <2>1, HistoryTypes DEF SubTypeOK
  <2>3. SinceJoined(c) = Len(sent[cur]) - base[c] /\ SinceJoined(c)' = SinceJoined(c)
    BY <1>1, <1>5 DEF SinceJoined
  <2>4. Len(rcvd[c]) + 1 = Len(sent[cur]) - base[c]
    <3>1. (IF Awaited(c) THEN 1 ELSE 0) = 1
      BY <1>6, Zenon
    <3>2. Len(rcvd[c]) = SinceJoined(c) - (IF Awaited(c) THEN 1 ELSE 0)
      BY <1>3, <2>1, Zenon DEF Delivered
    <3> QED
      BY <2>2, <2>3, <3>1, <3>2
  <2>5. rcvd'[c] = Append(rcvd[c], msg)
    BY <1>1, <1>2, <1>3 DEF SubTypeOK
  <2>6. sent[cur][Len(sent[cur])] = msg
    BY <1>1 DEF DeliveryInv, OnAir
  <2>7. \A i \in 1 .. Len(rcvd[c]) : rcvd[c][i] = sent[cur][base[c] + i]
    BY <1>5, <2>1 DEF Delivered
  <2>8. /\ Len(rcvd'[c]) = Len(rcvd[c]) + 1
        /\ \A i \in 1 .. Len(rcvd[c]) : rcvd'[c][i] = rcvd[c][i]
        /\ rcvd'[c][Len(rcvd[c]) + 1] = msg
    BY <2>2, <2>5
  <2>9. \A i \in 1 .. Len(rcvd'[c]) : rcvd'[c][i] = sent[cur][base[c] + i]
    <3>1. \A i \in 1 .. Len(rcvd'[c]) : i \in 1 .. Len(rcvd[c]) \/ i = Len(rcvd[c]) + 1
      BY <2>2, <2>8
    <3>2. base[c] + (Len(rcvd[c]) + 1) = Len(sent[cur])
      BY <2>2, <2>4
    <3> QED
      BY <2>6, <2>7, <2>8, <3>1, <3>2
  <2>10. Len(rcvd'[c]) = SinceJoined(c)' /\ Len(rcvd'[c]) <= SinceJoined(c)'
    BY <2>2, <2>3, <2>4, <2>8
  <2> QED
    BY <1>1, <1>5, <1>6, <2>2, <2>9, <2>10 DEF Delivered
<1>8. ASSUME NEW d \in Clients, d # c, topicOf[d] # NoTopic
      PROVE  Delivered(d)'
  <2>1. Delivered(d)
    BY <1>8, DeliveredEach DEF DeliveryInv
  <2>2. rcvd'[d] = rcvd[d]
    BY <1>1, <1>2, <1>3, <1>8 DEF SubTypeOK
  <2>3. Awaited(d)' <=> Awaited(d)
    <3>1. \A i : i \in pos .. Len(subs[cur]) <=> i = pos \/ i \in pos + 1 .. Len(subs[cur])
      BY <1>2, <1>5
    <3> QED
      BY <1>1, <1>3, <1>8, <3>1 DEF Awaited
  <2> QED
    BY <1>1, <2>1, <2>2, <2>3, DeliveredKept
<1>9. \A d \in Clients : topicOf'[d] # NoTopic => Delivered(d)'
  BY <1>1, <1>7, <1>8
<1>10. DeliveredInOrder'
  BY <1>9 DEF DeliveredInOrder, Delivered
<1> QED
  BY <1>4, <1>10 DEF DeliveryInv

\* No other step broadcasts or delivers, and none of them takes an open
\* channel out of the part of the slice that SendAll has left to walk.
LEMMA OtherDelivery ==
    ASSUME SubInv, DeliveryInv,
           \/ \E c \in Clients : Cancel(c) \/ AwaitNext(c) \/ StopReading(c)
           \/ SendReturn \/ ScanNext \/ ScanEnd \/ SwapNext \/ Truncate
           \/ \E t \in Topics : CleanDone(t)
           \/ UNCHANGED subVars
    PROVE  DeliveryInv'
<1>1. /\ topicOf' = topicOf /\ base' = base /\ rcvd' = rcvd /\ sent' = sent
      /\ closed \subseteq closed'
  BY DEF Cancel, AwaitNext, StopReading, SendReturn, ScanNext, ScanEnd, SwapNext, Truncate,
         CleanDone, clientVars, subVars
<1>2. \/ UNCHANGED <<pc, cur, msg, pos, subs>>
      \/ pc # "send" /\ pc' # "send"
      \/ SendReturn
  BY DEF Cancel, AwaitNext, StopReading, ScanNext, ScanEnd, SwapNext, Truncate,
         CleanDone, subVars
<1>3. OnAir'
  BY <1>1, <1>2 DEF DeliveryInv, OnAir, SendReturn
<1>4. \A c \in Clients : Awaited(c)' <=> Awaited(c)
  <2>1. CASE UNCHANGED <<pc, cur, msg, pos, subs>>
    BY <1>1, <2>1 DEF Awaited
  <2>2. CASE pc # "send" /\ pc' # "send"
    BY <2>2 DEF Awaited
  <2>3. CASE SendReturn
    <3>1. pc' # "send" /\ pos > Len(subs[cur]) /\ pos \in Nat /\ Len(subs[cur]) \in Nat
      BY <2>3 DEF SendReturn, SubInv, SubTypeOK
    <3>2. ~\E i \in pos .. Len(subs[cur]) : TRUE
      BY <3>1
    <3> QED
      BY <3>1, <3>2 DEF Awaited
  <2> QED
    BY <1>2, <2>1, <2>2, <2>3
<1>5. \A c \in Clients : topicOf'[c] # NoTopic => Delivered(c)'
  BY <1>1, <1>4, DeliveredKept, DeliveredEach DEF DeliveryInv
<1>6. DeliveredInOrder'
  BY <1>5 DEF DeliveredInOrder, Delivered
<1> QED
  BY <1>3, <1>6 DEF DeliveryInv

\* A subscriber whose channel is open has received, once and in order, every
\* message SendAll was called with on its topic since Push, except the one
\* under way; a removed one has received a prefix.
THEOREM SubDelivered == SubSpec => []DeliveredInOrder
<1>1. SubInit => DeliveryInv
  BY DEF SubInit, DeliveryInv, OnAir, DeliveredInOrder
<1>2. SubInv /\ SubInv' /\ DeliveryInv /\ [SubNext]_subVars => DeliveryInv'
  BY PushDelivery, SendAllDelivery, SendNextDelivery, OtherDelivery
  DEF SubNext, ClientNext, DispatcherStep, DispatcherCall
<1>3. DeliveryInv => DeliveredInOrder
  BY DEF DeliveryInv
<1> QED
  BY <1>1, <1>2, <1>3, SubInvariant, PTL DEF SubSpec

-----------------------------------------------------------------------------
(***************************************************************************)
(* The registries implement Broadcast.                                     *)
(***************************************************************************)

\* Every entry of a slice, also those behind the part that counts, is a client
\* of the slice's topic: so the open channels found anywhere in it are the
\* members, even between two iterations of the swap loop.
SliceTopics == \A t \in Topics : \A i \in 1 .. Len(subs[t]) : topicOf[subs[t][i]] = t

LEMMA SliceTopicsInit == SubInit => SliceTopics
  BY DEF SubInit, SliceTopics

LEMMA SliceTopicsStep == SubInv /\ SubInv' /\ SliceTopics /\ [SubNext]_subVars => SliceTopics'
<1> SUFFICES ASSUME SubInv, SubInv', SliceTopics, [SubNext]_subVars
             PROVE  SliceTopics'
  OBVIOUS
<1>1. SubTypeOK /\ PushedInv /\ SliceInv'
  BY DEF SubInv
<1>2. CASE UNCHANGED <<subs, topicOf>>
  BY <1>2 DEF SliceTopics
<1>3. CASE SwapNext
  <2>1. /\ pc = "swap" /\ pos > 0 /\ topicOf' = topicOf
        /\ subs' = [subs EXCEPT ![cur][forRemove[pos]] = subs[cur][Active(cur)]]
    BY <1>3, SwapInBounds DEF SwapNext, clientVars
  <2>2. cur \in Topics /\ subs[cur] \in Seq(Clients) /\ subs[cur][Active(cur)] \in Clients
    BY <1>1, <2>1, SwapInBounds DEF SubTypeOK
  <2>3. forRemove[pos] \in 1 .. Len(subs[cur]) /\ Active(cur) \in 1 .. Len(subs[cur])
    BY <1>1, <2>1, <2>2, SwapInBounds
  <2> DEFINE s == subs[cur]
             s2 == [s EXCEPT ![forRemove[pos]] = s[Active(cur)]]
  <2>4. subs'[cur] = s2 /\ \A t \in Topics : t # cur => subs'[t] = subs[t]
    BY <1>1, <2>1, <2>2 DEF SubTypeOK
  <2>5. \A i \in 1 .. Len(s) : topicOf[s[i]] = cur
    BY <2>2 DEF SliceTopics
  <2> HIDE DEF s
  <2>6. /\ Len(s2) = Len(s)
        /\ \A i \in 1 .. Len(s) : s2[i] = IF i = forRemove[pos] THEN s[Active(cur)] ELSE s[i]
    BY <2>2, <2>3, SeqUpdate DEF s
  <2>7. Active(cur) \in 1 .. Len(s)
    BY <2>3 DEF s
  <2> HIDE DEF s2
  <2>8. \A i \in 1 .. Len(s2) : topicOf[s2[i]] = cur
    BY <2>5, <2>6, <2>7
  <2> QED
    BY <2>1, <2>4, <2>8 DEF SliceTopics
<1>4. CASE pc' # "swap"
  <2>1. \A t \in Topics : Active(t)' = Len(subs'[t])
    BY <1>4 DEF Active
  <2> QED
    BY <1>1, <2>1 DEF SliceInv, SliceTopics
<1>5. ASSUME NEW c \in Clients, NEW t \in Topics, Push(c, t)
      PROVE  SliceTopics'
  <2>1. /\ topicOf[c] = NoTopic
        /\ subs' = [subs EXCEPT ![t] = Append(@, c)]
        /\ topicOf' = [topicOf EXCEPT ![c] = t]
    BY <1>1, <1>5 DEF Push, PushedInv
  <2>2. \A u \in Topics : \A i \in 1 .. Len(subs[u]) :
           subs[u][i] \in Clients /\ topicOf'[subs[u][i]] = u
    <3>1. \A u \in Topics : \A i \in 1 .. Len(subs[u]) : subs[u][i] \in Clients
      BY <1>1 DEF SubTypeOK
    <3>2. topicOf \in [Clients -> Topics \union {NoTopic}] /\ NoTopic \notin Topics
      BY <1>1, SubscribersAssumption DEF SubTypeOK
    <3>3. \A d \in Clients : d # c => topicOf'[d] = topicOf[d]
      BY <2>1, <3>2
    <3>4. SUFFICES ASSUME NEW u \in Topics, NEW i \in 1 .. Len(subs[u])
                   PROVE  topicOf'[subs[u][i]] = u
      BY <3>1
    <3>5. topicOf[subs[u][i]] = u
      BY DEF SliceTopics
    <3>6. subs[u][i] # c
      BY <2>1, <3>2, <3>5
    <3> QED
      BY <3>1, <3>3, <3>5, <3>6
  <2>3. \A u \in Topics : u # t => subs'[u] = subs[u]
    BY <1>1, <2>1 DEF SubTypeOK
  <2>4. subs'[t] = Append(subs[t], c) /\ subs[t] \in Seq(Clients) /\ topicOf'[c] = t
    BY <1>1, <2>1 DEF SubTypeOK
  <2>5. \A i \in 1 .. Len(subs'[t]) : topicOf'[subs'[t][i]] = t
    BY <2>2, <2>4
  <2> QED
    BY <2>2, <2>3, <2>5 DEF SliceTopics
<1> QED
  BY <1>2, <1>3, <1>4, <1>5
  DEF SubNext, ClientNext, DispatcherStep, DispatcherCall, subVars, clientVars, Cancel,
      AwaitNext, StopReading, SendAll, SendNext, SendReturn, CleanDone, ScanNext, ScanEnd,
      Truncate

\* What the mapping calls the members of a topic are its members.
MembersMapped ==
    [t \in Topics |-> {subs[t][i] : i \in DOMAIN subs[t]} \ closed]
      = [t \in Topics |-> Members(t)]

LEMMA MappedMembers == SubInv /\ SliceTopics => MembersMapped
<1> SUFFICES ASSUME SubInv, SliceTopics, NEW t \in Topics
             PROVE  {subs[t][i] : i \in DOMAIN subs[t]} \ closed = Members(t)
  BY DEF MembersMapped
<1>1. subs[t] \in Seq(Clients) /\ DOMAIN subs[t] = 1 .. Len(subs[t]) /\ Len(subs[t]) \in Nat
  BY DEF SubInv, SubTypeOK
<1>2. \A i \in 1 .. Len(subs[t]) : subs[t][i] \in Clients /\ topicOf[subs[t][i]] = t
  BY <1>1 DEF SliceTopics
<1>3. \A c \in Members(t) : \E i \in 1 .. Len(subs[t]) : subs[t][i] = c
  <2>1. Active(t) \in 0 .. Len(subs[t])
    BY ActiveBound
  <2>2. \A i \in 1 .. Active(t) : i \in 1 .. Len(subs[t])
    BY <1>1, <2>1
  <2> QED
    BY <2>2 DEF SubInv, SliceInv, Members
<1> QED
  BY <1>1, <1>2, <1>3 DEF Members

\* The invariant under which every step is an abstract one.
RefInv == SubInv /\ MembersMapped

LEMMA RefInvariant == SubSpec => []RefInv
<1>1. SubSpec => []SliceTopics
  BY SliceTopicsInit, SliceTopicsStep, SubInvariant, PTL DEF SubSpec
<1>2. SubInv /\ SliceTopics => RefInv
  BY MappedMembers DEF RefInv
<1> QED
  BY <1>1, <1>2, SubInvariant, PTL

\* A step that moves no client in or out of a topic leaves the mapped members alone.
LEMMA MembersKept ==
    ASSUME MembersMapped, MembersMapped', topicOf' = topicOf, closed' = closed
    PROVE  [t \in Topics |-> {subs'[t][i] : i \in DOMAIN subs'[t]} \ closed']
             = [t \in Topics |-> {subs[t][i] : i \in DOMAIN subs[t]} \ closed]
<1>1. [t \in Topics |-> Members(t)'] = [t \in Topics |-> Members(t)]
  BY DEF Members
<1> QED
  BY <1>1, Zenon DEF MembersMapped

\* A push joins, under a lock that keeps it out of a broadcast on its topic.
LEMMA PushJoins ==
    ASSUME RefInv, RefInv', NEW c \in Clients, NEW t \in Topics, Push(c, t)
    PROVE  Abstract!Join(c, t)
<1> USE SubscribersAssumption
<1>1. /\ SubTypeOK /\ PushedInv /\ reader[c] = "new" /\ ~(pc # "idle" /\ cur = t)
      /\ topicOf' = [topicOf EXCEPT ![c] = t]
      /\ subs' = [subs EXCEPT ![t] = Append(@, c)]
      /\ UNCHANGED <<ctxDone, closed, rcvd, pc, cur, msg, pos>>
  BY DEF Push, RefInv, SubInv, Locked
<1>2. topicOf[c] = NoTopic /\ c \notin closed
  BY <1>1 DEF PushedInv
<1>3. \A u \in Topics : Members(u)' = IF u = t THEN Members(u) \union {c} ELSE Members(u)
  BY <1>1, <1>2 DEF Members, SubTypeOK
<1>4. [u \in Topics |-> Members(u)'] =
        [[u \in Topics |-> Members(u)] EXCEPT ![t] = @ \union {c}]
  BY <1>3
<1>5. [u \in Topics |-> {subs'[u][i] : i \in DOMAIN subs'[u]} \ closed'] =
        [[u \in Topics |-> {subs[u][i] : i \in DOMAIN subs[u]} \ closed]
           EXCEPT ![t] = @ \union {c}]
  BY <1>4, Zenon DEF RefInv, MembersMapped
<1>6. (IF pc = "send" THEN cur ELSE NoTopic) # t
  BY <1>1
<1>7. (IF pc' = "send" THEN cur' ELSE NoTopic) = IF pc = "send" THEN cur ELSE NoTopic
  BY <1>1
<1>8. (IF pc' = "send" THEN {subs'[cur'][i] : i \in pos' .. Len(subs'[cur'])} ELSE {}) =
        IF pc = "send" THEN {subs[cur][i] : i \in pos .. Len(subs[cur])} ELSE {}
  <2>1. pc = "send" => subs'[cur] = subs[cur]
    BY <1>1 DEF SubTypeOK
  <2> QED
    BY <1>1, <2>1
<1> QED
  BY <1>1, <1>2, <1>5, <1>6, <1>7, <1>8 DEF Abstract!Join

\* A broadcast begins with every member pending: they all are in the slice,
\* and no closed channel is.
LEMMA SendAllAnnounces ==
    ASSUME RefInv, RefInv', NEW t \in Topics, NEW m \in Messages, SendAll(t, m)
    PROVE  Abstract!Announce(t, m)
<1>1. /\ SubTypeOK /\ SliceInv
      /\ pc = "idle" /\ pc' = "send" /\ cur' = t /\ msg' = m /\ pos' = 1
      /\ UNCHANGED <<subs, topicOf, ctxDone, closed, rcvd>>
  BY DEF SendAll, RefInv, SubInv, clientVars
<1>2. {subs[t][i] : i \in 1 .. Len(subs[t])} = {subs[t][i] : i \in DOMAIN subs[t]} \ closed
  <2>1. DOMAIN subs[t] = 1 .. Len(subs[t]) /\ Active(t) = Len(subs[t])
    BY <1>1 DEF Active, SubTypeOK
  <2>2. \A i \in 1 .. Len(subs[t]) : subs[t][i] \notin closed
    BY <1>1, <2>1 DEF SliceInv, Marked
  <2> QED
    BY <2>1, <2>2
<1>3. [u \in Topics |-> {subs[u][i] : i \in DOMAIN subs[u]} \ closed][t]
        = {subs[t][i] : i \in DOMAIN subs[t]} \ closed
  OBVIOUS
<1> QED
  BY <1>1, <1>2, <1>3 DEF Abstract!Announce

\* One iteration of the send loop delivers to one pending member: the entry is
\* met once, so the rest of the slice no longer holds it.
LEMMA SendNextDelivers ==
    ASSUME RefInv, RefInv', SendNext
    PROVE  \E c \in Clients : Abstract!Deliver(c)
<1>1. /\ SubInv /\ SubTypeOK /\ SliceInv /\ NoPanic'
      /\ pc = "send" /\ pos <= Len(subs[cur])
      /\ UNCHANGED <<subs, topicOf, ctxDone, closed, cur, msg>>
  BY DEF SendNext, RefInv, SubInv
<1>2. cur \in Topics /\ pos \in 1 .. Len(subs[cur]) /\ subs[cur][pos] \in Clients
  BY <1>1, EntryAtPos
<1> PICK c \in Clients : c = subs[cur][pos]
  BY <1>2
<1>3. rcvd' = [rcvd EXCEPT ![c] = Append(@, msg)] /\ pos' = pos + 1 /\ pc' = pc
  BY <1>1 DEF SendNext, NoPanic
<1>4. /\ Len(subs[cur]) \in Nat
      /\ \A i, j \in 1 .. Len(subs[cur]) : subs[cur][i] = subs[cur][j] => i = j
  BY <1>1, <1>2 DEF SliceInv, Active, SubTypeOK
<1>5. \A i : i \in pos .. Len(subs[cur]) <=> i = pos \/ i \in pos + 1 .. Len(subs[cur])
  BY <1>2, <1>4
<1>6. \A i \in pos + 1 .. Len(subs[cur]) : i \in 1 .. Len(subs[cur]) /\ i # pos
  BY <1>2, <1>4
<1>7. \A i \in pos + 1 .. Len(subs[cur]) : subs[cur][i] # c
  BY <1>2, <1>4, <1>6
<1>8. {subs[cur][i] : i \in pos + 1 .. Len(subs[cur])}
        = {subs[cur][i] : i \in pos .. Len(subs[cur])} \ {c}
  BY <1>5, <1>7
<1>9. c \in {subs[cur][i] : i \in pos .. Len(subs[cur])}
  BY <1>5
<1>10. Abstract!Deliver(c)
  <2>1. c \in (IF pc = "send" THEN {subs[cur][i] : i \in pos .. Len(subs[cur])} ELSE {})
    BY <1>1, <1>9
  <2>2. (IF pc' = "send" THEN {subs'[cur'][i] : i \in pos' .. Len(subs'[cur'])} ELSE {})
          = {subs[cur][i] : i \in pos + 1 .. Len(subs[cur])}
    BY <1>1, <1>3
  <2>3. (IF pc = "send" THEN {subs[cur][i] : i \in pos .. Len(subs[cur])} ELSE {})
          = {subs[cur][i] : i \in pos .. Len(subs[cur])}
    BY <1>1
  <2>4. (IF pc' = "send" THEN {subs'[cur'][i] : i \in pos' .. Len(subs'[cur'])} ELSE {})
          = (IF pc = "send" THEN {subs[cur][i] : i \in pos .. Len(subs[cur])} ELSE {}) \ {c}
    BY <1>8, <2>2, <2>3, Zenon
  <2>5. [t \in Topics |-> {subs'[t][i] : i \in DOMAIN subs'[t]} \ closed']
          = [t \in Topics |-> {subs[t][i] : i \in DOMAIN subs[t]} \ closed]
    BY <1>1
  <2>6. (IF pc' = "send" THEN cur' ELSE NoTopic) = IF pc = "send" THEN cur ELSE NoTopic
    BY <1>1, <1>3
  <2>7. topicOf' = topicOf /\ ctxDone' = ctxDone /\ msg' = msg
    BY <1>1
  <2> QED
    BY <1>3, <2>1, <2>4, <2>5, <2>6, <2>7, Zenon DEF Abstract!Deliver
<1> QED
  BY <1>10

\* SendAll returns when nobody is pending.
LEMMA SendReturnFinishes ==
    ASSUME RefInv, RefInv', SendReturn
    PROVE  Abstract!Finish
<1>1. /\ SubTypeOK /\ pc = "send" /\ pos > Len(subs[cur])
      /\ pc' = "idle" /\ msg' = NoMessage
      /\ UNCHANGED <<subs, topicOf, ctxDone, closed, rcvd>>
  BY DEF SendReturn, RefInv, SubInv, clientVars
<1>2. cur \in Topics /\ cur # NoTopic /\ pos \in Nat /\ Len(subs[cur]) \in Nat
  BY <1>1, SubscribersAssumption DEF SubTypeOK
<1>3. {subs[cur][i] : i \in pos .. Len(subs[cur])} = {}
  BY <1>1, <1>2
<1> QED
  BY <1>1, <1>2, <1>3 DEF Abstract!Finish

\* An iteration of the scan loop that closes a channel evicts a client whose
\* context is done; one that does not is a stuttering step.
LEMMA ScanNextEvicts ==
    ASSUME RefInv, RefInv', ScanNext
    PROVE  (\E c \in Clients : Abstract!Evict(c)) \/ UNCHANGED Abstract!vars
<1>1. /\ SubInv /\ SubTypeOK /\ SliceInv /\ NoPanic'
      /\ pc = "scan" /\ pos <= Len(subs[cur])
      /\ UNCHANGED <<subs, topicOf, ctxDone, rcvd, cur, msg>>
  BY DEF ScanNext, RefInv, SubInv
<1>2. pc' = "scan"
  BY <1>1 DEF ScanNext, NoPanic
<1>3. cur \in Topics /\ pos \in 1 .. Len(subs[cur]) /\ subs[cur][pos] \in Clients
  BY <1>1, EntryAtPos
<1> PICK c \in Clients : c = subs[cur][pos]
  BY <1>3
<1>4. CASE closed' = closed
  BY <1>1, <1>2, <1>4 DEF Abstract!vars
<1>5. CASE c \in ctxDone /\ c \notin closed /\ closed' = closed \union {c}
  <2>1. topicOf[c] = cur
    BY <1>1, <1>3 DEF SliceInv, Active
  <2>2. \A u \in Topics : Members(u)' = IF u = cur THEN Members(u) \ {c} ELSE Members(u)
    BY <1>1, <1>5, <2>1 DEF Members
  <2>3. [u \in Topics |-> Members(u)'] =
          [[u \in Topics |-> Members(u)] EXCEPT ![cur] = @ \ {c}]
    BY <1>3, <2>2
  <2>4. [u \in Topics |-> {subs'[u][i] : i \in DOMAIN subs'[u]} \ closed'] =
          [[u \in Topics |-> {subs[u][i] : i \in DOMAIN subs[u]} \ closed]
             EXCEPT ![cur] = @ \ {c}]
    BY <2>3, Zenon DEF RefInv, MembersMapped
  <2>5. c \in [u \in Topics |-> Members(u)][cur]
    BY <1>3, <1>5, <2>1 DEF Members
  <2>6. c \in [u \in Topics |-> {subs[u][i] : i \in DOMAIN subs[u]} \ closed][cur]
    BY <2>5, Zenon DEF RefInv, MembersMapped
  <2>7. PICK t \in Topics : t = cur
    BY <1>3
  <2>8. Abstract!Evict(c)
    BY <1>1, <1>2, <1>5, <2>4, <2>6, <2>7 DEF Abstract!Evict
  <2> QED
    BY <2>8
<1> QED
  BY <1>1, <1>2, <1>4, <1>5 DEF ScanNext

\* A cancelled context gives up; the readers' own steps, and the steps of
\* CleanDone that close nothing, are invisible.
LEMMA OtherSteps ==
    ASSUME RefInv, RefInv'
    PROVE  /\ \A c \in Clients : Cancel(c) => Abstract!GiveUp(c)
           /\ \A c \in Clients : AwaitNext(c) \/ StopReading(c) => UNCHANGED Abstract!vars
           /\ ScanEnd \/ SwapNext \/ Truncate => UNCHANGED Abstract!vars
           /\ \A t \in Topics : CleanDone(t) => UNCHANGED Abstract!vars
           /\ UNCHANGED subVars => UNCHANGED Abstract!vars
<1>1. \A c \in Clients : Cancel(c) => Abstract!GiveUp(c)
  BY DEF Cancel, Abstract!GiveUp
<1>2. \A c \in Clients : AwaitNext(c) \/ StopReading(c) => UNCHANGED Abstract!vars
  <2> SUFFICES ASSUME NEW c \in Clients, AwaitNext(c) \/ StopReading(c)
               PROVE  UNCHANGED Abstract!vars
    OBVIOUS
  <2>1. UNCHANGED <<subs, topicOf, ctxDone, closed, rcvd, pc, cur, msg, pos>>
    BY DEF AwaitNext, StopReading
  <2> QED
    BY <2>1 DEF Abstract!vars
<1>3. ScanEnd => UNCHANGED Abstract!vars
  BY DEF ScanEnd, clientVars, Abstract!vars
<1>4. SwapNext \/ Truncate => UNCHANGED Abstract!vars
  <2> SUFFICES ASSUME SwapNext \/ Truncate PROVE UNCHANGED Abstract!vars
    OBVIOUS
  <2>1. /\ topicOf' = topicOf /\ closed' = closed /\ ctxDone' = ctxDone /\ rcvd' = rcvd
        /\ msg' = msg /\ pc # "send" /\ pc' # "send"
    BY DEF SwapNext, Truncate, clientVars
  <2>2. [t \in Topics |-> {subs'[t][i] : i \in DOMAIN subs'[t]} \ closed']
          = [t \in Topics |-> {subs[t][i] : i \in DOMAIN subs[t]} \ closed]
    BY <2>1, MembersKept DEF RefInv
  <2> QED
    BY <2>1, <2>2 DEF Abstract!vars
<1>5. \A t \in Topics : CleanDone(t) => UNCHANGED Abstract!vars
  BY DEF CleanDone, clientVars, Abstract!vars
<1>6. UNCHANGED subVars => UNCHANGED Abstract!vars
  BY DEF subVars, Abstract!vars
<1> QED
  BY <1>1, <1>2, <1>3, <1>4, <1>5, <1>6

\* SendAll, Push and CleanDone implement Broadcast, for any number of clients
\* and topics: no member is skipped, served twice or evicted while its context
\* is live, and a broadcast is over only when every member has it.
THEOREM SubImplementsBroadcast == SubSpec => ImplementsBroadcast
<1>1. SubInit => Abstract!Init
  BY DEF SubInit, Abstract!Init
<1>2. RefInv /\ RefInv' /\ [SubNext]_subVars => [Abstract!Next]_Abstract!vars
  <2> SUFFICES ASSUME RefInv, RefInv', [SubNext]_subVars
               PROVE  Abstract!Next \/ UNCHANGED Abstract!vars
    OBVIOUS
  <2>1. ASSUME NEW c \in Clients, NEW t \in Topics, Push(c, t) PROVE Abstract!Next
    BY <2>1, PushJoins DEF Abstract!Next
  <2>2. ASSUME NEW t \in Topics, NEW m \in Messages, SendAll(t, m) PROVE Abstract!Next
    BY <2>2, SendAllAnnounces DEF Abstract!Next
  <2>3. CASE SendNext
    BY <2>3, SendNextDelivers DEF Abstract!Next
  <2>4. CASE SendReturn
    BY <2>4, SendReturnFinishes DEF Abstract!Next
  <2>5. CASE ScanNext
    BY <2>5, ScanNextEvicts DEF Abstract!Next
  <2>6. ASSUME NEW c \in Clients, Cancel(c) PROVE Abstract!Next
    BY <2>6, OtherSteps DEF Abstract!Next
  <2> QED
    BY <2>1, <2>2, <2>3, <2>4, <2>5, <2>6, OtherSteps
    DEF SubNext, ClientNext, DispatcherStep, DispatcherCall
<1> QED
  BY <1>1, <1>2, RefInvariant, PTL DEF SubSpec, ImplementsBroadcast, Abstract!Spec

=============================================================================
