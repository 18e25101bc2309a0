\* A soul with and a soul without a category, either bot judged twice; a fault anywhere, and a lock that lapses under its holder.
SPECIFICATION Spec
CONSTANTS
    b1 = b1
    b2 = b2
    b3 = b3
    s1 = s1
    s2 = s2
    c1 = c1
    Bots = {b1, b3}
    Souls = {s1, s2}
    Categories = {c1}
    NoSoul = NoSoul
    NoRow = NoRow
    Free = Free
    Unknown = Unknown
    SoulOf <- MCTwoSouls
    CategoryOf <- MCCategoryOf
    ScoreOf <- MCScoreOf
    Judgements <- JustRetirement
    MaxVerdicts = 2
    Workers = 2
    Attempts = 3
    CouncilAttempts = 2
    MaxDecisions = 1
    MaxFaults = 1
    MaxRejudged = 1
    MaxLapses = 1
INVARIANTS
    TypeOK
    AppliedAtMostOnce
    DnaLineageComplete
    RetirementSignalled
PROPERTY
    BaselinePermanent
