------------------------------ MODULE Scoring ------------------------------
(***************************************************************************)
(* How the tea of the day is chosen: the resolver gathers one candidate    *)
(* per tea, with the earliest expiration among the user's records          *)
(* (schema.resolvers.go), and internal/scoring runs through the candidates *)
(* once, keeping the best so far.                                          *)
(*                                                                         *)
(* Both loops are modelled step by step.  Time is counted in hours; the    *)
(* zero time.Time, which the code reads as "no expiration", is 0, before   *)
(* every other time.  Names are numbers in lexical order.                  *)
(***************************************************************************)
EXTENDS Integers, Sequences

CONSTANTS TeaIds, Names,  \* Names: numbers, in the order strings.Compare gives
          Expirations,    \* expiration times of records, 0 for the zero time
          ContextScores,  \* values the language model may give a tea
          Ages,           \* hours since a tea was last drunk, negative for a time still to come
          MaxRecords,     \* bound on the records of a user
          Now,            \* the time of the request
          NoScore,        \* a tea the language model did not score
          NoAge           \* a tea that was not drunk lately

ASSUME ScoringAssumption ==
    /\ Names \subseteq Nat
    /\ Expirations \subseteq Nat
    /\ ContextScores \subseteq Int
    /\ Ages \subseteq Int
    /\ MaxRecords \in Nat
    /\ Now \in Nat
    /\ NoScore \notin Int
    /\ NoAge \notin Int

VARIABLES
    records,    \* the records of the user's collections, in the order read
    name,       \* name[x]: the name of tea x
    aiScores,   \* aiScores[x]: its context score
    lastBy,     \* lastBy[x]: hours since it was last drunk
    next,       \* the loop variable
    candidates, \* the candidates gathered
    phase,      \* "gather", "select" or "done"
    best,       \* position in candidates of the best so far, 0 for none
    bestScore   \* its total

inputs == <<records, name, aiScores, lastBy>>
scoringVars == <<inputs, next, candidates, phase, best, bestScore>>

Records == [tea : TeaIds, exp : Expirations]
Candidates == [id : TeaIds, name : Names, exp : Expirations]
initialBestScore == -(2^30)

ScoringTypeOK ==
    /\ records \in Seq(Records)
    /\ name \in [TeaIds -> Names]
    /\ aiScores \in [TeaIds -> ContextScores \union {NoScore}]
    /\ lastBy \in [TeaIds -> Ages \union {NoAge}]
    /\ next \in 1 .. (Len(records) + 1)
    /\ candidates \in Seq(Candidates)
    /\ phase \in {"gather", "select", "done"}
    /\ best \in 0 .. Len(candidates)
    /\ bestScore \in Int

ScoringInit ==
    /\ records \in UNION {[1 .. n -> Records] : n \in 0 .. MaxRecords}
    /\ name \in [TeaIds -> Names]
    /\ aiScores \in [TeaIds -> ContextScores \union {NoScore}]
    /\ lastBy \in [TeaIds -> Ages \union {NoAge}]
    /\ next = 1
    /\ candidates = << >>
    /\ phase = "gather"
    /\ best = 0
    /\ bestScore = initialBestScore

-----------------------------------------------------------------------------
(***************************************************************************)
(* Gathering.                                                              *)
(***************************************************************************)

\* Tea x has a candidate already (idToIdx).
Seen(x) == \E i \in DOMAIN candidates : candidates[i].id = x

\* Mutant: the latest expiration is kept.
MergedLatest(c, rec) ==
    IF c.id = rec.tea /\ rec.exp > c.exp THEN [c EXCEPT !.exp = rec.exp] ELSE c

\* Candidate c once rec has been read: an earlier expiration of the same tea
\* replaces the one it has.
Merged(c, rec) ==
    IF c.id = rec.tea /\ rec.exp < c.exp THEN [c EXCEPT !.exp = rec.exp] ELSE c

\* One record: a new candidate, or an earlier expiration of a known one.
Gather ==
    /\ phase = "gather"
    /\ next <= Len(records)
    /\ LET rec == records[next] IN
         candidates' =
             IF Seen(rec.tea)
             THEN [i \in DOMAIN candidates |-> Merged(candidates[i], rec)]
             ELSE Append(candidates,
                         [id |-> rec.tea, name |-> name[rec.tea], exp |-> rec.exp])
    /\ next' = next + 1
    /\ UNCHANGED <<inputs, phase, best, bestScore>>

\* All records read.  With no candidate the resolver returns ErrNoTeas and
\* does not select.
Gathered ==
    /\ phase = "gather"
    /\ next > Len(records)
    /\ phase' = IF candidates = << >> THEN "done" ELSE "select"
    /\ next' = 1
    /\ UNCHANGED <<inputs, candidates, best, bestScore>>

-----------------------------------------------------------------------------
(***************************************************************************)
(* Scoring.                                                                *)
(***************************************************************************)

clampedAIScore(x) ==
    LET v == aiScores[x] IN
    IF v = NoScore THEN 0 ELSE IF v < 0 THEN 0 ELSE IF v > 15 THEN 15 ELSE v

recentPenalty(x) ==
    LET age == lastBy[x] IN
    IF age = NoAge THEN 0 ELSE IF age <= 24 THEN -5 ELSE IF age <= 48 THEN -3 ELSE 0

\* Mutant: the amounts of the two brackets are exchanged.
expirationBonusSwapped(exp) ==
    IF exp = 0 THEN 0
    ELSE IF exp - Now <= 7 * 24 THEN 1
    ELSE IF exp - Now <= 30 * 24 THEN 3
    ELSE 0

expirationBonus(exp) ==
    IF exp = 0 THEN 0
    ELSE IF exp - Now <= 7 * 24 THEN 3
    ELSE IF exp - Now <= 30 * 24 THEN 1
    ELSE 0

Total(c) == clampedAIScore(c.id) + recentPenalty(c.id) + expirationBonus(c.exp)

\* Mutant: a tie is decided by the names alone.
betterCandidateByName(c, cScore, b, bScore) ==
    cScore > bScore \/ (cScore = bScore /\ c.name < b.name)

\* Candidate c, of total cScore, is preferred to b, of total bScore.
betterCandidate(c, cScore, b, bScore) ==
    \/ cScore > bScore
    \/ /\ cScore = bScore
       /\ \/ c.exp # 0 /\ (b.exp = 0 \/ c.exp < b.exp)
          \/ ~(c.exp # 0 /\ c.exp > b.exp) /\ c.name < b.name

\* Mutant: the running total is not kept with the best candidate.
ConsiderForgetsScore ==
    /\ phase = "select"
    /\ next <= Len(candidates)
    /\ LET c == candidates[next] IN
         best' = IF best = 0 \/ betterCandidate(c, Total(c), candidates[best], bestScore)
                 THEN next ELSE best
    /\ next' = next + 1
    /\ UNCHANGED <<inputs, candidates, phase, bestScore>>

\* One iteration of SelectBest, and of SelectBestWithLogging.
Consider ==
    /\ phase = "select"
    /\ next <= Len(candidates)
    /\ LET c == candidates[next] IN
         IF best = 0 \/ betterCandidate(c, Total(c), candidates[best], bestScore)
         THEN best' = next /\ bestScore' = Total(c)
         ELSE UNCHANGED <<best, bestScore>>
    /\ next' = next + 1
    /\ UNCHANGED <<inputs, candidates, phase>>

Selected ==
    /\ phase = "select"
    /\ next > Len(candidates)
    /\ phase' = "done"
    /\ UNCHANGED <<inputs, next, candidates, best, bestScore>>

ScoringNext == Gather \/ Gathered \/ Consider \/ Selected

ScoringSpec == ScoringInit /\ [][ScoringNext]_scoringVars

-----------------------------------------------------------------------------
(***************************************************************************)
(* What the choice must get right.                                         *)
(***************************************************************************)

\* Gathering keeps one candidate for every tea the user has, with the earliest
\* expiration among the records of that tea.
OneCandidatePerTea ==
    phase # "gather" =>
        /\ {candidates[i].id : i \in DOMAIN candidates} =
               {records[j].tea : j \in DOMAIN records}
        /\ \A i, k \in DOMAIN candidates : candidates[i].id = candidates[k].id => i = k
        /\ \A i \in DOMAIN candidates :
             /\ \A j \in DOMAIN records :
                  records[j].tea = candidates[i].id => candidates[i].exp <= records[j].exp
             /\ \E j \in DOMAIN records :
                  records[j].tea = candidates[i].id /\ candidates[i].exp = records[j].exp

\* The selection ends with a tea whenever there is a candidate; its total is
\* the score reported, and no candidate has a greater one.
BestHasMaxScore ==
    phase = "done" /\ candidates # << >> =>
        /\ best # 0
        /\ bestScore = Total(candidates[best])
        /\ \A i \in DOMAIN candidates : Total(candidates[i]) <= bestScore

\* The order documented for the choice: the greater total, then the earlier
\* expiration, then the first name.
NoWorse(b, bScore, c, cScore) ==
    \/ bScore > cScore
    \/ bScore = cScore /\ b.exp < c.exp
    \/ bScore = cScore /\ b.exp = c.exp /\ b.name <= c.name

\* When every record has an expiration date, the single pass of SelectBest ends
\* with the first candidate of that order, whatever the order of the records:
\* betterCandidate, which also has rules for candidates without a date, never
\* lets an earlier winner hide a better one.
UnbeatenIfDated ==
    /\ \A j \in DOMAIN records : records[j].exp # 0
    /\ phase = "done"
    /\ best # 0
    => \A i \in DOMAIN candidates :
           NoWorse(candidates[best], bestScore, candidates[i], Total(candidates[i]))

\* Tea x was scored no lower than y by the language model (absent counts least).
ScoredNoLower(x, y) ==
    aiScores[y] = NoScore \/ (aiScores[x] # NoScore /\ aiScores[x] >= aiScores[y])

\* Tea x was drunk no more recently than y (not lately counts longest ago).
DrunkNoLater(x, y) ==
    lastBy[x] = NoAge \/ (lastBy[y] # NoAge /\ lastBy[x] >= lastBy[y])

\* When every record has a date, the tea chosen is not one that another tea beats
\* in every respect: no other expires earlier, was scored no lower and was drunk
\* no more recently.  The brackets of the penalty and of the bonus, the clamp of
\* the score and the tie-break must all lean the same way for that.
Undominated ==
    /\ \A j \in DOMAIN records : records[j].exp # 0
    /\ phase = "done"
    /\ best # 0
    => \A i \in DOMAIN candidates :
           LET c == candidates[i]
               b == candidates[best]
           IN ~ (c.exp < b.exp /\ ScoredNoLower(c.id, b.id) /\ DrunkNoLater(c.id, b.id))

=============================================================================
