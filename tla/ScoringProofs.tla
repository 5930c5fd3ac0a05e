--------------------------- MODULE ScoringProofs ---------------------------
(***************************************************************************)
(* Proofs about Scoring, for any number of teas and records and any        *)
(* values of the inputs: the types, the highest total, and the tie-break.  *)
(***************************************************************************)
EXTENDS Scoring, TLAPS

\* The selection loop has kept the highest total of the candidates before
\* "next", and its position.
RunningBest ==
    /\ phase = "gather" => best = 0
    /\ phase = "select" => next <= Len(candidates) + 1
    /\ phase = "select" /\ next > 1 => best # 0
    /\ phase = "done" /\ candidates # << >> => best # 0
    /\ best # 0 => bestScore = Total(candidates[best])
    /\ phase = "select" =>
         \A i \in 1 .. (next - 1) : Total(candidates[i]) <= bestScore
    /\ phase = "done" =>
         \A i \in 1 .. Len(candidates) : Total(candidates[i]) <= bestScore

\* There are no more candidates than records read.
FewCandidates ==
    /\ Len(candidates) <= Len(records)
    /\ phase = "gather" => Len(candidates) < next

\* Every record has an expiration date.
AllDated == \A j \in 1 .. Len(records) : records[j].exp # 0

\* If every record has a date, so has every candidate, and no candidate before
\* "next" is preferred to the best so far.
RunningUnbeaten ==
    AllDated =>
        /\ \A i \in 1 .. Len(candidates) : candidates[i].exp # 0
        /\ phase = "select" =>
             \A i \in 1 .. (next - 1) :
                 ~betterCandidate(candidates[i], Total(candidates[i]), candidates[best], bestScore)
        /\ phase = "done" =>
             \A i \in 1 .. Len(candidates) :
                 ~betterCandidate(candidates[i], Total(candidates[i]), candidates[best], bestScore)

\* The inductive invariant.
ScoringInv == ScoringTypeOK /\ FewCandidates /\ RunningBest /\ RunningUnbeaten

-----------------------------------------------------------------------------

\* A candidate's total is an integer.
LEMMA TotalInt ==
    ASSUME ScoringTypeOK, NEW c \in Candidates
    PROVE  Total(c) \in Int
<1>1. clampedAIScore(c.id) \in Int
  <2>1. aiScores[c.id] \in ContextScores \union {NoScore}
    BY DEF ScoringTypeOK, Candidates
  <2>2. aiScores[c.id] = NoScore \/ aiScores[c.id] \in Int
    BY <2>1, ScoringAssumption
  <2> QED BY <2>2 DEF clampedAIScore
<1>2. recentPenalty(c.id) \in Int
  BY DEF recentPenalty
<1>3. expirationBonus(c.exp) \in Int
  BY DEF expirationBonus
<1> QED BY <1>1, <1>2, <1>3 DEF Total

\* The records a user may have form a sequence.
LEMMA InitRecords == ScoringInit => records \in Seq(Records)
<1> SUFFICES ASSUME ScoringInit PROVE records \in Seq(Records)
  OBVIOUS
<1>1. PICK n \in 0 .. MaxRecords : records \in [1 .. n -> Records]
  BY DEF ScoringInit
<1>2. n \in Nat
  BY ScoringAssumption
<1> QED BY <1>1, <1>2

\* The invariant holds initially.
LEMMA ScoringInvInit == ScoringInit => ScoringInv
<1> SUFFICES ASSUME ScoringInit PROVE ScoringInv
  OBVIOUS
<1>1. records \in Seq(Records)
  BY InitRecords
<1>2. Len(records) \in Nat
  BY <1>1
<1>3. initialBestScore \in Int
  BY DEF initialBestScore
<1>4. ScoringTypeOK
  BY <1>1, <1>2, <1>3 DEF ScoringInit, ScoringTypeOK
<1>5. FewCandidates
  BY <1>2 DEF ScoringInit, FewCandidates
<1>6. RunningBest
  BY DEF ScoringInit, RunningBest
<1>7. RunningUnbeaten
  BY DEF ScoringInit, RunningUnbeaten
<1> QED BY <1>4, <1>5, <1>6, <1>7 DEF ScoringInv

\* Merging a record into a candidate gives a candidate, dated if both are.
LEMMA MergedCandidate ==
    ASSUME NEW c \in Candidates, NEW rec \in Records
    PROVE  /\ Merged(c, rec) \in Candidates
           /\ c.exp # 0 /\ rec.exp # 0 => Merged(c, rec).exp # 0
<1>1. CASE c.id = rec.tea /\ rec.exp < c.exp
  <2>1. Merged(c, rec) = [c EXCEPT !.exp = rec.exp]
    BY <1>1 DEF Merged
  <2> QED BY <2>1 DEF Candidates, Records
<1>2. CASE ~(c.id = rec.tea /\ rec.exp < c.exp)
  BY <1>2 DEF Merged
<1> QED BY <1>1, <1>2

\* A step of the gathering loop keeps the invariant if it keeps the candidates
\* well typed, adds at most one, and adds no date-less one.
LEMMA GatherTail ==
    ASSUME ScoringInv, Gather,
           candidates' \in Seq(Candidates), Len(candidates') <= Len(candidates) + 1,
           (\A i \in 1 .. Len(candidates) : candidates[i].exp # 0) /\ records[next].exp # 0 =>
               \A i \in 1 .. Len(candidates') : candidates'[i].exp # 0
    PROVE  ScoringInv'
<1>1. Len(records) \in Nat /\ Len(candidates) \in Nat /\ Len(candidates') \in Nat
  BY DEF ScoringInv, ScoringTypeOK
<1>2. ScoringTypeOK'
  BY <1>1 DEF Gather, inputs, ScoringInv, ScoringTypeOK, RunningBest
<1>3. FewCandidates'
  BY <1>1 DEF Gather, inputs, ScoringInv, ScoringTypeOK, FewCandidates
<1>4. RunningBest'
  BY DEF Gather, ScoringInv, RunningBest
<1>5. RunningUnbeaten'
  <2>1. phase' = "gather" /\ records' = records /\ next \in 1 .. Len(records)
    BY <1>1 DEF Gather, inputs, ScoringInv, ScoringTypeOK
  <2>2. AllDated' => AllDated
    BY <2>1 DEF AllDated
  <2>3. AllDated => records[next].exp # 0
    BY <2>1 DEF AllDated
  <2>4. AllDated => \A i \in 1 .. Len(candidates) : candidates[i].exp # 0
    BY DEF ScoringInv, RunningUnbeaten
  <2> QED BY <2>1, <2>2, <2>3, <2>4 DEF RunningUnbeaten
<1> QED BY <1>2, <1>3, <1>4, <1>5 DEF ScoringInv

\* Gathering a record keeps the invariant: it changes candidates while there
\* is no best one yet.
LEMMA GatherInv == ScoringInv /\ Gather => ScoringInv'
<1> SUFFICES ASSUME ScoringInv, Gather PROVE ScoringInv'
  OBVIOUS
<1> DEFINE rec == records[next]
<1>1. rec \in Records /\ next \in Nat /\ Len(records) \in Nat /\ Len(candidates) \in Nat
  BY DEF ScoringInv, ScoringTypeOK, Gather
<1>2. rec.tea \in TeaIds /\ rec.exp \in Expirations
  BY <1>1 DEF Records
<1> DEFINE c == [id |-> rec.tea, name |-> name[rec.tea], exp |-> rec.exp]
<1> HIDE DEF rec, c
<1>3. CASE Seen(rec.tea)
  <2>1. candidates' = [i \in DOMAIN candidates |-> Merged(candidates[i], rec)]
    BY <1>3 DEF Gather, rec
  <2>2. \A i \in 1 .. Len(candidates) : candidates[i] \in Candidates
    BY DEF ScoringInv, ScoringTypeOK
  <2>3. \A i \in 1 .. Len(candidates) : Merged(candidates[i], rec) \in Candidates
    BY <1>1, <2>2, MergedCandidate
  <2>4. candidates' \in [1 .. Len(candidates) -> Candidates]
    BY <2>1, <2>3 DEF ScoringInv, ScoringTypeOK
  <2>5. candidates' \in Seq(Candidates) /\ Len(candidates') = Len(candidates)
    BY <1>1, <2>4
  <2>6. (\A i \in 1 .. Len(candidates) : candidates[i].exp # 0) /\ rec.exp # 0 =>
            \A i \in 1 .. Len(candidates') : candidates'[i].exp # 0
    BY <1>1, <2>1, <2>2, <2>4, <2>5, MergedCandidate
  <2> QED BY <1>1, <2>5, <2>6, GatherTail DEF rec
<1>4. CASE ~Seen(rec.tea)
  <2>1. candidates' = Append(candidates, c)
    BY <1>4 DEF Gather, rec, c
  <2>2. c \in Candidates
    BY <1>2 DEF c, Candidates, ScoringInv, ScoringTypeOK
  <2>3. candidates' \in Seq(Candidates) /\ Len(candidates') = Len(candidates) + 1
    BY <1>1, <2>1, <2>2 DEF ScoringInv, ScoringTypeOK
  <2>4. c.exp = rec.exp
    BY DEF c
  <2>5. (\A i \in 1 .. Len(candidates) : candidates[i].exp # 0) /\ rec.exp # 0 =>
            \A i \in 1 .. Len(candidates') : candidates'[i].exp # 0
    BY <1>1, <2>1, <2>2, <2>3, <2>4 DEF ScoringInv, ScoringTypeOK
  <2> QED BY <1>1, <2>3, <2>5, GatherTail DEF rec
<1> QED BY <1>3, <1>4

-----------------------------------------------------------------------------

\* The end of the records keeps the invariant.
LEMMA GatheredInv == ScoringInv /\ Gathered => ScoringInv'
<1> SUFFICES ASSUME ScoringInv, Gathered PROVE ScoringInv'
  OBVIOUS
<1> USE DEF Gathered, inputs, ScoringInv
<1>1. Len(records) \in Nat /\ Len(candidates) \in Nat
  BY DEF ScoringTypeOK
<1>2. \A c : Total(c)' = Total(c)
  BY DEF Total, clampedAIScore, recentPenalty, expirationBonus
<1>3. ScoringTypeOK'
  BY <1>1 DEF ScoringTypeOK
<1>4. FewCandidates'
  BY <1>1 DEF FewCandidates
<1>5. candidates # << >> => Len(candidates) > 0
  BY DEF ScoringTypeOK
<1>6. candidates = << >> => Len(candidates) = 0
  OBVIOUS
<1>7. RunningBest'
  BY <1>1, <1>6 DEF RunningBest
<1>8. RunningUnbeaten'
  BY <1>1, <1>6 DEF RunningUnbeaten, AllDated
<1> QED BY <1>3, <1>4, <1>7, <1>8

\* Among dated candidates the preference is a strict order in which two
\* candidates compare as their totals, expirations and names do.
LEMMA DatedPreference ==
    ASSUME NEW a \in Candidates, NEW b \in Candidates, NEW c \in Candidates,
           NEW x \in Int, NEW y \in Int, NEW z \in Int,
           a.exp # 0, b.exp # 0, c.exp # 0,
           ~betterCandidate(a, x, b, y), betterCandidate(c, z, b, y)
    PROVE  ~betterCandidate(a, x, c, z)
<1>1. /\ a.exp \in Nat /\ b.exp \in Nat /\ c.exp \in Nat
      /\ a.name \in Nat /\ b.name \in Nat /\ c.name \in Nat
  BY ScoringAssumption DEF Candidates
<1> QED BY <1>1 DEF betterCandidate

\* No candidate is preferred to itself.
LEMMA Irreflexive ==
    ASSUME NEW a \in Candidates, NEW x \in Int
    PROVE  ~betterCandidate(a, x, a, x)
<1>1. a.exp \in Nat /\ a.name \in Nat
  BY ScoringAssumption DEF Candidates
<1> QED BY <1>1 DEF betterCandidate

\* An iteration of the selection keeps the invariant.
LEMMA ConsiderInv == ScoringInv /\ Consider => ScoringInv'
<1> SUFFICES ASSUME ScoringInv, Consider PROVE ScoringInv'
  OBVIOUS
<1> DEFINE c == candidates[next]
           b == candidates[best]
           wins == best = 0 \/ betterCandidate(c, Total(c), b, bestScore)
<1>1. /\ Len(records) \in Nat /\ Len(candidates) \in Nat
      /\ phase = "select" /\ phase' = "select"
      /\ next \in 1 .. Len(candidates) /\ next' = next + 1
      /\ candidates' = candidates /\ records' = records
      /\ Len(candidates) <= Len(records)
  BY DEF ScoringInv, ScoringTypeOK, FewCandidates, Consider, inputs
<1>2. \A d : Total(d)' = Total(d)
  BY DEF Consider, inputs, Total, clampedAIScore, recentPenalty, expirationBonus
<1>3. \A i \in 1 .. Len(candidates) : candidates[i] \in Candidates
  BY DEF ScoringInv, ScoringTypeOK
<1>4. \A i \in 1 .. Len(candidates) : Total(candidates[i]) \in Int
  BY <1>3, TotalInt DEF ScoringInv
<1>5. IF wins THEN best' = next /\ bestScore' = Total(c)
              ELSE best' = best /\ bestScore' = bestScore
  BY DEF Consider
<1>6. best \in 0 .. Len(candidates) /\ bestScore \in Int
  BY DEF ScoringInv, ScoringTypeOK
<1>7. ScoringTypeOK'
  BY <1>1, <1>4, <1>5, <1>6 DEF ScoringInv, ScoringTypeOK, Consider, inputs
<1>8. FewCandidates'
  BY <1>1 DEF ScoringInv, FewCandidates
<1>9. best # 0 => bestScore = Total(b)
  BY DEF ScoringInv, RunningBest
<1>10. ~wins => Total(c) <= bestScore
  BY <1>1, <1>4, <1>6 DEF betterCandidate
<1>11. wins /\ best # 0 => Total(c) >= bestScore
  BY <1>1, <1>4, <1>6 DEF betterCandidate
<1>12. best = 0 => next = 1
  BY <1>1 DEF ScoringInv, RunningBest
<1>13. \A i \in 1 .. (next - 1) : Total(candidates[i]) <= bestScore
  BY <1>1 DEF ScoringInv, RunningBest
<1>14. RunningBest'
  <2>1. best' # 0
    BY <1>1, <1>5, <1>6
  <2>2. bestScore' = Total(candidates[best'])
    BY <1>1, <1>5, <1>9
  <2>3. \A i \in 1 .. next : Total(candidates[i]) <= bestScore'
    BY <1>1, <1>4, <1>5, <1>6, <1>10, <1>11, <1>12, <1>13
  <2> QED BY <1>1, <1>2, <2>1, <2>2, <2>3 DEF RunningBest
<1>15. RunningUnbeaten'
  <2> SUFFICES ASSUME AllDated PROVE
          /\ \A i \in 1 .. Len(candidates) : candidates[i].exp # 0
          /\ \A i \in 1 .. next :
               ~betterCandidate(candidates[i], Total(candidates[i]), candidates[best'], bestScore')
    BY <1>1, <1>2 DEF RunningUnbeaten, AllDated, betterCandidate
  <2>1. \A i \in 1 .. Len(candidates) : candidates[i].exp # 0
    BY DEF ScoringInv, RunningUnbeaten
  <2>2. \A i \in 1 .. (next - 1) : ~betterCandidate(candidates[i], Total(candidates[i]), b, bestScore)
    BY <1>1 DEF ScoringInv, RunningUnbeaten
  <2>3. ASSUME NEW i \in 1 .. next
        PROVE  ~betterCandidate(candidates[i], Total(candidates[i]), candidates[best'], bestScore')
    <3>1. i \in 1 .. Len(candidates)
      BY <1>1
    <3>2. CASE i = next /\ wins
      BY <1>1, <1>3, <1>4, <1>5, <3>1, <3>2, Irreflexive
    <3>3. CASE i = next /\ ~wins
      BY <1>5, <3>3
    <3>4. CASE i # next /\ ~wins
      BY <1>1, <1>5, <2>2, <3>4
    <3>5. CASE i # next /\ wins
      <4>1. best # 0 /\ i \in 1 .. (next - 1) /\ betterCandidate(c, Total(c), b, bestScore)
        BY <1>1, <1>12, <3>5
      <4>2. best \in 1 .. Len(candidates)
        BY <1>6, <4>1
      <4> DEFINE a == candidates[i]
      <4>3. a \in Candidates /\ b \in Candidates /\ c \in Candidates
        BY <1>1, <1>3, <3>1, <4>2
      <4>4. a.exp # 0 /\ b.exp # 0 /\ c.exp # 0
        BY <1>1, <2>1, <3>1, <4>2
      <4>5. Total(a) \in Int /\ Total(c) \in Int
        BY <1>1, <1>4, <3>1
      <4>6. ~betterCandidate(a, Total(a), b, bestScore)
        BY <2>2, <4>1
      <4>7. ~betterCandidate(a, Total(a), c, Total(c))
        BY <1>6, <4>1, <4>3, <4>4, <4>5, <4>6, DatedPreference
      <4> QED BY <1>5, <3>5, <4>7
    <3> QED BY <3>2, <3>3, <3>4, <3>5
  <2> QED BY <2>1, <2>3
<1> QED BY <1>7, <1>8, <1>14, <1>15 DEF ScoringInv

\* The end of the selection keeps the invariant.
LEMMA SelectedInv == ScoringInv /\ Selected => ScoringInv'
<1> SUFFICES ASSUME ScoringInv, Selected PROVE ScoringInv'
  OBVIOUS
<1>1. \A d : Total(d)' = Total(d)
  BY DEF Selected, inputs, Total, clampedAIScore, recentPenalty, expirationBonus
<1>2. Len(candidates) \in Nat /\ next \in Nat
  BY DEF ScoringInv, ScoringTypeOK
<1>3. phase = "select" /\ phase' = "done" /\ next = Len(candidates) + 1
  BY <1>2 DEF Selected, ScoringInv, RunningBest
<1>4. candidates # << >> => Len(candidates) > 0
  BY DEF ScoringInv, ScoringTypeOK
<1>5. ScoringTypeOK' /\ FewCandidates'
  BY DEF Selected, inputs, ScoringInv, ScoringTypeOK, FewCandidates
<1>6. RunningBest'
  BY <1>1, <1>2, <1>3, <1>4 DEF Selected, ScoringInv, RunningBest
<1>7. RunningUnbeaten'
  BY <1>1, <1>2, <1>3 DEF Selected, inputs, ScoringInv, RunningUnbeaten, AllDated, betterCandidate
<1> QED BY <1>5, <1>6, <1>7 DEF ScoringInv

\* A step that changes nothing keeps the invariant.
LEMMA StutterInv == ScoringInv /\ UNCHANGED scoringVars => ScoringInv'
  BY DEF scoringVars, inputs, ScoringInv, ScoringTypeOK, FewCandidates, RunningBest,
         RunningUnbeaten, AllDated, betterCandidate, Total, clampedAIScore,
         recentPenalty, expirationBonus

-----------------------------------------------------------------------------

\* The invariant holds throughout the gathering and the selection.
THEOREM ScoringInvariant == ScoringSpec => []ScoringInv
<1>1. ScoringInv /\ [ScoringNext]_scoringVars => ScoringInv'
  BY GatherInv, GatheredInv, ConsiderInv, SelectedInv, StutterInv DEF ScoringNext
<1> QED BY <1>1, ScoringInvInit, PTL DEF ScoringSpec

\* Both loops keep their variables in range: no candidate is looked up out of
\* bounds.
THEOREM ScoringTypeCorrect == ScoringSpec => []ScoringTypeOK
  BY ScoringInvariant, PTL DEF ScoringInv

\* For any records, context scores and consumptions, SelectBest returns a tea
\* of the highest total.
THEOREM HighestTotal == ScoringSpec => []BestHasMaxScore
<1>1. ScoringInv => BestHasMaxScore
  <2> SUFFICES ASSUME ScoringInv, phase = "done", candidates # << >>
               PROVE  /\ best # 0
                      /\ bestScore = Total(candidates[best])
                      /\ \A i \in DOMAIN candidates : Total(candidates[i]) <= bestScore
    BY DEF BestHasMaxScore
  <2>1. DOMAIN candidates = 1 .. Len(candidates)
    BY DEF ScoringInv, ScoringTypeOK
  <2> QED BY <2>1 DEF ScoringInv, RunningBest
<1> QED BY <1>1, ScoringInvariant, PTL

\* Among dated candidates, one that is not preferred is no better: what the
\* code's comparison says is what the documented order says.
LEMMA DatedOrder ==
    ASSUME NEW b \in Candidates, NEW c \in Candidates, NEW x \in Int, NEW y \in Int,
           b.exp # 0, c.exp # 0, ~betterCandidate(c, y, b, x)
    PROVE  NoWorse(b, x, c, y)
<1>1. b.exp \in Nat /\ c.exp \in Nat /\ b.name \in Nat /\ c.name \in Nat
  BY ScoringAssumption DEF Candidates
<1> QED BY <1>1 DEF betterCandidate, NoWorse

\* For any records that all have a date, SelectBest ends with the first tea by
\* total, expiration and name, whatever the order in which they were read.
THEOREM DatedChoiceUnbeaten == ScoringSpec => []UnbeatenIfDated
<1>1. ScoringInv => UnbeatenIfDated
  <2> SUFFICES ASSUME ScoringInv, \A j \in DOMAIN records : records[j].exp # 0,
                      phase = "done", best # 0,
                      NEW i \in DOMAIN candidates
               PROVE  NoWorse(candidates[best], bestScore, candidates[i], Total(candidates[i]))
    BY DEF UnbeatenIfDated
  <2>1. DOMAIN candidates = 1 .. Len(candidates) /\ DOMAIN records = 1 .. Len(records)
    BY DEF ScoringInv, ScoringTypeOK
  <2>2. AllDated
    BY <2>1 DEF AllDated
  <2>3. /\ best \in 1 .. Len(candidates)
        /\ candidates[best] \in Candidates /\ candidates[i] \in Candidates
        /\ bestScore \in Int
    BY <2>1 DEF ScoringInv, ScoringTypeOK
  <2>4. Total(candidates[i]) \in Int
    BY <2>3, TotalInt DEF ScoringInv
  <2>5. /\ candidates[best].exp # 0 /\ candidates[i].exp # 0
        /\ ~betterCandidate(candidates[i], Total(candidates[i]), candidates[best], bestScore)
    BY <2>1, <2>2, <2>3 DEF ScoringInv, RunningUnbeaten
  <2> QED BY <2>3, <2>4, <2>5, DatedOrder
<1> QED BY <1>1, ScoringInvariant, PTL

\* The clamp, the penalty and the bonus all lean one way: a tea that is no worse
\* than another in each respect has no lower total.
LEMMA TotalMonotone ==
    ASSUME ScoringTypeOK, NEW c \in Candidates, NEW b \in Candidates,
           c.exp # 0, b.exp # 0, c.exp <= b.exp,
           ScoredNoLower(c.id, b.id), DrunkNoLater(c.id, b.id)
    PROVE  Total(b) <= Total(c)
<1>1. c.exp \in Nat /\ b.exp \in Nat /\ c.id \in TeaIds /\ b.id \in TeaIds /\ Now \in Nat
  BY ScoringAssumption DEF Candidates
<1>2. clampedAIScore(b.id) <= clampedAIScore(c.id)
  <2>1. /\ aiScores[c.id] \in Int \union {NoScore}
        /\ aiScores[b.id] \in Int \union {NoScore}
    BY <1>1, ScoringAssumption DEF ScoringTypeOK
  <2> QED
    BY <2>1 DEF clampedAIScore, ScoredNoLower
<1>3. recentPenalty(b.id) <= recentPenalty(c.id)
  <2>1. /\ lastBy[c.id] \in Int \union {NoAge}
        /\ lastBy[b.id] \in Int \union {NoAge}
    BY <1>1, ScoringAssumption DEF ScoringTypeOK
  <2> QED
    BY <2>1 DEF recentPenalty, DrunkNoLater
<1>4. expirationBonus(b.exp) <= expirationBonus(c.exp)
  BY <1>1 DEF expirationBonus
<1>5. clampedAIScore(b.id) \in Int /\ clampedAIScore(c.id) \in Int
  <2>1. /\ aiScores[c.id] \in Int \union {NoScore}
        /\ aiScores[b.id] \in Int \union {NoScore}
    BY <1>1, ScoringAssumption DEF ScoringTypeOK
  <2> QED
    BY <2>1 DEF clampedAIScore
<1>6. recentPenalty(b.id) \in Int /\ recentPenalty(c.id) \in Int
  BY DEF recentPenalty
<1>7. expirationBonus(b.exp) \in Int /\ expirationBonus(c.exp) \in Int
  BY DEF expirationBonus
<1> QED
  BY <1>2, <1>3, <1>4, <1>5, <1>6, <1>7 DEF Total

\* For any records that all have a date, the tea chosen is not one that another
\* tea beats in every respect.
THEOREM DatedChoiceUndominated == ScoringSpec => []Undominated
<1>1. ScoringInv /\ BestHasMaxScore /\ UnbeatenIfDated => Undominated
  <2> SUFFICES ASSUME ScoringInv, BestHasMaxScore, UnbeatenIfDated,
                      \A j \in DOMAIN records : records[j].exp # 0,
                      phase = "done", best # 0,
                      NEW i \in DOMAIN candidates,
                      candidates[i].exp < candidates[best].exp,
                      ScoredNoLower(candidates[i].id, candidates[best].id),
                      DrunkNoLater(candidates[i].id, candidates[best].id)
               PROVE  FALSE
    BY DEF Undominated
  <2> DEFINE c == candidates[i]
             b == candidates[best]
  <2>1. DOMAIN candidates = 1 .. Len(candidates) /\ DOMAIN records = 1 .. Len(records)
    BY DEF ScoringInv, ScoringTypeOK
  <2>2. best \in DOMAIN candidates /\ c \in Candidates /\ b \in Candidates /\ ScoringTypeOK
    BY <2>1 DEF ScoringInv, ScoringTypeOK
  <2>3. c.exp # 0 /\ b.exp # 0 /\ c.exp \in Nat /\ b.exp \in Nat
    BY <2>1, <2>2, ScoringAssumption DEF ScoringInv, RunningUnbeaten, AllDated, Candidates
  <2>4. Total(b) <= Total(c)
    BY <2>2, <2>3, TotalMonotone
  <2>5. bestScore = Total(b) /\ NoWorse(b, bestScore, c, Total(c))
    BY <2>1, <2>2 DEF BestHasMaxScore, UnbeatenIfDated
  <2>6. Total(b) \in Int /\ Total(c) \in Int
    BY <2>2, TotalInt
  <2> QED
    BY <2>3, <2>4, <2>5, <2>6 DEF NoWorse
<1> QED
  BY <1>1, ScoringInvariant, HighestTotal, DatedChoiceUnbeaten, PTL

-----------------------------------------------------------------------------
(***************************************************************************)
(* Gathering.                                                              *)
(***************************************************************************)

\* The records the gathering loop has read.
Read == 1 .. (IF phase = "gather" THEN next - 1 ELSE Len(records))

\* The candidates stand for the records read: every tea of them once, with the
\* earliest of its expirations.
Gathering ==
    /\ \A j \in Read : \E i \in 1 .. Len(candidates) : candidates[i].id = records[j].tea
    /\ \A i, k \in 1 .. Len(candidates) : candidates[i].id = candidates[k].id => i = k
    /\ \A i \in 1 .. Len(candidates) : \A j \in Read :
         records[j].tea = candidates[i].id => candidates[i].exp <= records[j].exp
    /\ \A i \in 1 .. Len(candidates) : \E j \in Read :
         records[j].tea = candidates[i].id /\ candidates[i].exp = records[j].exp

\* What merging a record does to a candidate.
LEMMA MergedFields ==
    ASSUME NEW c \in Candidates, NEW rec \in Records
    PROVE  /\ Merged(c, rec).id = c.id
           /\ Merged(c, rec).exp = IF c.id = rec.tea /\ rec.exp < c.exp THEN rec.exp ELSE c.exp
<1>1. CASE c.id = rec.tea /\ rec.exp < c.exp
  <2>1. Merged(c, rec) = [c EXCEPT !.exp = rec.exp]
    BY <1>1 DEF Merged
  <2> QED BY <1>1, <2>1 DEF Candidates
<1>2. CASE ~(c.id = rec.tea /\ rec.exp < c.exp)
  BY <1>2 DEF Merged
<1> QED BY <1>1, <1>2

\* One record more: it is merged into the candidate of its tea, or becomes one.
LEMMA GatherGathers == ScoringInv /\ Gathering /\ Gather => Gathering'
<1> SUFFICES ASSUME ScoringInv, Gathering, Gather PROVE Gathering'
  OBVIOUS
<1>1. /\ phase = "gather" /\ phase' = "gather" /\ next' = next + 1 /\ records' = records
      /\ next \in Nat /\ next >= 1 /\ next <= Len(records) /\ Len(records) \in Nat
      /\ records \in Seq(Records) /\ candidates \in Seq(Candidates) /\ Len(candidates) \in Nat
  BY DEF Gather, inputs, ScoringInv, ScoringTypeOK
<1>2. PICK rec \in Records : rec = records[next]
  BY <1>1
<1>3. rec.tea \in TeaIds /\ rec.exp \in Nat
  BY ScoringAssumption DEF Records
<1>4. Read = 1 .. next - 1 /\ Read' = 1 .. next
  BY <1>1 DEF Read
<1>5. \A j \in 1 .. next : j \in 1 .. next - 1 \/ j = next
  BY <1>1
<1>6. \A j \in 1 .. next - 1 : j \in 1 .. next /\ j \in 1 .. Len(records)
  BY <1>1
<1>7. next \in 1 .. next
  BY <1>1
<1>8. \A j \in 1 .. Len(records) : records[j] \in Records /\ records[j].exp \in Nat
  <2>1. \A j \in 1 .. Len(records) : records[j] \in Records
    BY <1>1
  <2>2. \A x \in Records : x.exp \in Nat
    BY ScoringAssumption DEF Records
  <2> QED BY <2>1, <2>2
<1>9. \A i \in 1 .. Len(candidates) : candidates[i] \in Candidates /\ candidates[i].exp \in Nat
  <2>1. \A i \in 1 .. Len(candidates) : candidates[i] \in Candidates
    BY <1>1
  <2>2. \A x \in Candidates : x.exp \in Nat
    BY ScoringAssumption DEF Candidates
  <2> QED BY <2>1, <2>2
<1>10. /\ \A j \in 1 .. next - 1 : \E i \in 1 .. Len(candidates) : candidates[i].id = records[j].tea
       /\ \A i, k \in 1 .. Len(candidates) : candidates[i].id = candidates[k].id => i = k
       /\ \A i \in 1 .. Len(candidates) : \A j \in 1 .. next - 1 :
            records[j].tea = candidates[i].id => candidates[i].exp <= records[j].exp
       /\ \A i \in 1 .. Len(candidates) : \E j \in 1 .. next - 1 :
            records[j].tea = candidates[i].id /\ candidates[i].exp = records[j].exp
  BY <1>4 DEF Gathering
<1>11. ASSUME NEW cs, candidates' = cs, Len(cs) \in Nat,
              \A j \in 1 .. next : \E i \in 1 .. Len(cs) : cs[i].id = records[j].tea,
              \A i, k \in 1 .. Len(cs) : cs[i].id = cs[k].id => i = k,
              \A i \in 1 .. Len(cs) : \A j \in 1 .. next :
                 records[j].tea = cs[i].id => cs[i].exp <= records[j].exp,
              \A i \in 1 .. Len(cs) : \E j \in 1 .. next :
                 records[j].tea = cs[i].id /\ cs[i].exp = records[j].exp
       PROVE  Gathering'
  BY <1>1, <1>4, <1>11 DEF Gathering
<1>12. CASE Seen(rec.tea)
  <2> DEFINE cs == [i \in 1 .. Len(candidates) |-> Merged(candidates[i], rec)]
  <2>1. candidates' = cs
    BY <1>1, <1>2, <1>12 DEF Gather
  <2>2. cs \in Seq(Candidates) /\ Len(cs) = Len(candidates)
    <3>1. \A i \in 1 .. Len(candidates) : Merged(candidates[i], rec) \in Candidates
      BY <1>9, MergedCandidate
    <3> QED BY <1>1, <3>1
  <2>3. \A i \in 1 .. Len(candidates) :
           /\ cs[i].id = candidates[i].id
           /\ cs[i].exp = IF candidates[i].id = rec.tea /\ rec.exp < candidates[i].exp
                          THEN rec.exp ELSE candidates[i].exp
    BY <1>9, MergedFields
  <2> HIDE DEF cs
  <2>4. \A j \in 1 .. next : \E i \in 1 .. Len(cs) : cs[i].id = records[j].tea
    <3>1. \E i \in 1 .. Len(candidates) : candidates[i].id = rec.tea
      BY <1>1, <1>12 DEF Seen
    <3> QED BY <1>2, <1>5, <1>10, <2>2, <2>3, <3>1
  <2>5. \A i, k \in 1 .. Len(cs) : cs[i].id = cs[k].id => i = k
    BY <1>10, <2>2, <2>3
  <2>6. \A i \in 1 .. Len(cs) : \A j \in 1 .. next :
           records[j].tea = cs[i].id => cs[i].exp <= records[j].exp
    <3> SUFFICES ASSUME NEW i \in 1 .. Len(cs), NEW j \in 1 .. next,
                        records[j].tea = cs[i].id
                 PROVE  cs[i].exp <= records[j].exp
      OBVIOUS
    <3>1. /\ i \in 1 .. Len(candidates) /\ records[j].tea = candidates[i].id
          /\ candidates[i].exp \in Nat /\ records[j].exp \in Nat
      BY <1>1, <1>5, <1>6, <1>8, <1>9, <2>2, <2>3
    <3>2. CASE j = next
      BY <1>2, <1>3, <2>3, <3>1, <3>2
    <3>3. CASE j \in 1 .. next - 1
      <4>1. candidates[i].exp <= records[j].exp
        BY <1>10, <3>1, <3>3
      <4> QED BY <1>3, <2>3, <3>1, <4>1
    <3> QED BY <1>5, <3>2, <3>3
  <2>7. \A i \in 1 .. Len(cs) : \E j \in 1 .. next :
           records[j].tea = cs[i].id /\ cs[i].exp = records[j].exp
    <3> SUFFICES ASSUME NEW i \in 1 .. Len(cs)
                 PROVE  \E j \in 1 .. next :
                          records[j].tea = cs[i].id /\ cs[i].exp = records[j].exp
      OBVIOUS
    <3>1. i \in 1 .. Len(candidates)
      BY <2>2
    <3>2. CASE candidates[i].id = rec.tea /\ rec.exp < candidates[i].exp
      <4>1. records[next].tea = cs[i].id /\ cs[i].exp = records[next].exp
        BY <1>2, <2>3, <3>1, <3>2
      <4> QED BY <1>7, <4>1
    <3>3. CASE ~(candidates[i].id = rec.tea /\ rec.exp < candidates[i].exp)
      <4>1. cs[i].id = candidates[i].id /\ cs[i].exp = candidates[i].exp
        BY <2>3, <3>1, <3>3
      <4>2. PICK j \in 1 .. next - 1 :
              records[j].tea = candidates[i].id /\ candidates[i].exp = records[j].exp
        BY <1>10, <3>1
      <4>3. j \in 1 .. next /\ records[j].tea = cs[i].id /\ cs[i].exp = records[j].exp
        BY <1>6, <4>1, <4>2
      <4> QED BY <4>3
    <3> QED BY <3>2, <3>3
  <2> QED BY <1>1, <1>11, <2>1, <2>2, <2>4, <2>5, <2>6, <2>7
<1>13. CASE ~Seen(rec.tea)
  <2> DEFINE c == [id |-> rec.tea, name |-> name[rec.tea], exp |-> rec.exp]
             cs == Append(candidates, c)
  <2>1. candidates' = cs
    BY <1>2, <1>13 DEF Gather
  <2>2. c \in Candidates /\ c.id = rec.tea /\ c.exp = rec.exp
    BY <1>3 DEF Candidates, Records, ScoringInv, ScoringTypeOK
  <2> HIDE DEF c
  <2>3. /\ Len(cs) = Len(candidates) + 1
        /\ \A i \in 1 .. Len(candidates) : cs[i] = candidates[i]
        /\ cs[Len(candidates) + 1] = c
    BY <1>1, <2>2
  <2> HIDE DEF cs
  <2>4. /\ \A i \in 1 .. Len(cs) : i \in 1 .. Len(candidates) \/ i = Len(candidates) + 1
        /\ \A i \in 1 .. Len(candidates) : i \in 1 .. Len(cs)
        /\ Len(candidates) + 1 \in 1 .. Len(cs)
    BY <1>1, <2>3
  <2>5. \A i \in 1 .. Len(candidates) : candidates[i].id # rec.tea
    BY <1>1, <1>13 DEF Seen
  <2>6. \A j \in 1 .. next : \E i \in 1 .. Len(cs) : cs[i].id = records[j].tea
    BY <1>2, <1>5, <1>10, <2>2, <2>3, <2>4
  <2>7. \A i, k \in 1 .. Len(cs) : cs[i].id = cs[k].id => i = k
    BY <1>10, <2>2, <2>3, <2>4, <2>5
  <2>8. \A j \in 1 .. next - 1 : records[j].tea # rec.tea
    BY <1>10, <2>5
  <2>9. \A i \in 1 .. Len(cs) : \A j \in 1 .. next :
           records[j].tea = cs[i].id => cs[i].exp <= records[j].exp
    <3> SUFFICES ASSUME NEW i \in 1 .. Len(cs), NEW j \in 1 .. next,
                        records[j].tea = cs[i].id
                 PROVE  cs[i].exp <= records[j].exp
      OBVIOUS
    <3>1. CASE i = Len(candidates) + 1
      <4>1. cs[i].id = rec.tea /\ cs[i].exp = rec.exp
        BY <2>2, <2>3, <3>1
      <4>2. j = next
        BY <1>5, <2>8, <4>1
      <4> QED BY <1>2, <1>3, <4>1, <4>2
    <3>2. CASE i \in 1 .. Len(candidates)
      <4>1. cs[i] = candidates[i]
        BY <2>3, <3>2
      <4>2. j # next
        BY <1>2, <2>5, <3>2, <4>1
      <4>3. j \in 1 .. next - 1
        BY <1>5, <4>2
      <4> QED BY <1>10, <3>2, <4>1, <4>3
    <3> QED BY <2>4, <3>1, <3>2
  <2>10. \A i \in 1 .. Len(cs) : \E j \in 1 .. next :
            records[j].tea = cs[i].id /\ cs[i].exp = records[j].exp
    <3> SUFFICES ASSUME NEW i \in 1 .. Len(cs)
                 PROVE  \E j \in 1 .. next :
                          records[j].tea = cs[i].id /\ cs[i].exp = records[j].exp
      OBVIOUS
    <3>1. CASE i = Len(candidates) + 1
      <4>1. records[next].tea = cs[i].id /\ cs[i].exp = records[next].exp
        BY <1>2, <2>2, <2>3, <3>1
      <4> QED BY <1>7, <4>1
    <3>2. CASE i \in 1 .. Len(candidates)
      <4>1. PICK j \in 1 .. next - 1 :
              records[j].tea = candidates[i].id /\ candidates[i].exp = records[j].exp
        BY <1>10, <3>2
      <4>2. j \in 1 .. next /\ records[j].tea = cs[i].id /\ cs[i].exp = records[j].exp
        BY <1>6, <2>3, <3>2, <4>1
      <4> QED BY <4>2
    <3> QED BY <2>4, <3>1, <3>2
  <2>11. Len(cs) \in Nat
    BY <1>1, <2>3
  <2> QED BY <1>11, <2>1, <2>6, <2>7, <2>9, <2>10, <2>11
<1> QED BY <1>12, <1>13

\* Whatever the order and the number of the records, gathering ends with one
\* candidate for every tea the user has, with its earliest expiration.
THEOREM EveryTeaOnce == ScoringSpec => []OneCandidatePerTea
<1>1. ScoringInit => Gathering
  BY DEF ScoringInit, Gathering, Read
<1>2. ScoringInv /\ Gathering /\ [ScoringNext]_scoringVars => Gathering'
  <2> SUFFICES ASSUME ScoringInv, Gathering, [ScoringNext]_scoringVars PROVE Gathering'
    OBVIOUS
  <2>1. CASE Gather
    BY <2>1, GatherGathers
  <2>2. CASE Gathered
    <3>1. /\ phase = "gather" /\ phase' # "gather" /\ records' = records /\ candidates' = candidates
          /\ next \in 1 .. Len(records) + 1 /\ next > Len(records) /\ Len(records) \in Nat
      BY <2>2 DEF Gathered, inputs, ScoringInv, ScoringTypeOK
    <3>2. Read' = Read
      BY <3>1 DEF Read
    <3> QED BY <3>1, <3>2 DEF Gathering
  <2>3. CASE Consider \/ Selected
    <3>1. phase # "gather" /\ phase' # "gather" /\ records' = records /\ candidates' = candidates
      BY <2>3 DEF Consider, Selected, inputs
    <3>2. Read' = Read
      BY <3>1 DEF Read
    <3> QED BY <3>1, <3>2 DEF Gathering
  <2>4. CASE UNCHANGED scoringVars
    BY <2>4 DEF scoringVars, inputs, Gathering, Read
  <2> QED BY <2>1, <2>2, <2>3, <2>4 DEF ScoringNext
<1>3. ScoringInv /\ Gathering => OneCandidatePerTea
  <2> SUFFICES ASSUME ScoringInv, Gathering, phase # "gather" PROVE OneCandidatePerTea
    BY DEF OneCandidatePerTea
  <2>1. /\ DOMAIN candidates = 1 .. Len(candidates) /\ DOMAIN records = 1 .. Len(records)
        /\ Read = 1 .. Len(records)
    BY DEF ScoringInv, ScoringTypeOK, Read
  <2>2. {candidates[i].id : i \in DOMAIN candidates} = {records[j].tea : j \in DOMAIN records}
    <3>1. \A i \in 1 .. Len(candidates) : \E j \in 1 .. Len(records) :
             records[j].tea = candidates[i].id
      BY <2>1 DEF Gathering
    <3>2. \A j \in 1 .. Len(records) : \E i \in 1 .. Len(candidates) :
             candidates[i].id = records[j].tea
      BY <2>1 DEF Gathering
    <3> DEFINE ids == {candidates[i].id : i \in 1 .. Len(candidates)}
               read == {records[j].tea : j \in 1 .. Len(records)}
    <3>3. ids \subseteq read
      BY <3>1
    <3>4. read \subseteq ids
      BY <3>2
    <3>5. ids = read
      BY <3>3, <3>4
    <3> QED BY <2>1, <3>5
  <2> QED BY <2>1, <2>2 DEF Gathering, OneCandidatePerTea
<1> QED BY <1>1, <1>2, <1>3, ScoringInvariant, PTL DEF ScoringSpec

=============================================================================
