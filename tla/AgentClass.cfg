\* Enough runs for every class, a demotion and a second promotion.
SPECIFICATION Spec
CONSTANTS
    Verdicts <- MCVerdicts
    MaxRuns = 11
INVARIANTS
    ClassEarned
    DemotedNeverArtisan
PROPERTY
    ClassMovesByRung
