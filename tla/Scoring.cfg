\* Up to three records of three teas: no expiration, one in the past, one on the
\* week's threshold, one in the second week and one beyond a month; drunk not
\* lately, or on one of the two thresholds of the penalty.
CONSTANTS
    TeaIds = {x1, x2, x3}
    Names = {1, 2}
    Expirations = {0, 99, 268, 269, 900}
    ContextScores = {3}
    Ages = {24, 48}
    MaxRecords = 3
    Now = 100
    NoScore = NoScore
    NoAge = NoAge
SYMMETRY MCSymmetry
SPECIFICATION ScoringSpec
INVARIANTS
    OneCandidatePerTea
    BestHasMaxScore
    UnbeatenIfDated
    Undominated
CHECK_DEADLOCK FALSE
