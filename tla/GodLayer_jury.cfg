\* Three verdicts, one bot judged twice: the benchmark matures.  The judges may leave an
\* objection of the Devil's Advocate standing.
SPECIFICATION Spec
CONSTANTS
    b1 = b1
    b2 = b2
    b3 = b3
    s1 = s1
    s2 = s2
    c1 = c1
    Bots = {b1, b2}
    Souls = {s1}
    Categories = {c1}
    NoSoul = NoSoul
    NoRow = NoRow
    Free = Free
    Unknown = Unknown
    SoulOf <- MCSoulOf
    CategoryOf <- MCCategoryOf
    ScoreOf <- MCScoreOf
    Judgements <- PromotionOrDisputed
    MaxVerdicts = 3
    Workers = 2
    Attempts = 3
    CouncilAttempts = 2
    MaxDecisions = 1
    MaxFaults = 0
    MaxRejudged = 1
    MaxLapses = 0
INVARIANTS
    CategoryMutex
    RunsCounted
    CountersMatchVerdicts
