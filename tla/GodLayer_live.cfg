\* Two bots contend for a category; a duplicate job; one fault.
SPECIFICATION FairSpec
CONSTANTS
    b1 = b1
    b2 = b2
    b3 = b3
    s1 = s1
    s2 = s2
    c1 = c1
    Bots = {b1, b2}
    Souls = {s1}
    Categories = {c1}
    NoSoul = NoSoul
    NoRow = NoRow
    Free = Free
    Unknown = Unknown
    SoulOf <- MCSoulOf
    CategoryOf <- MCCategoryOf
    ScoreOf <- MCScoreOf
    Judgements <- JustPromotion
    MaxVerdicts = 2
    Workers = 2
    Attempts = 2
    CouncilAttempts = 2
    MaxDecisions = 1
    MaxFaults = 1
    MaxRejudged = 0
    MaxLapses = 0
PROPERTIES
    JobsEnd
    LocksEnd
