SPECIFICATION Spec
CONSTANTS
    a1 = a1
    b1 = b1
    c1 = c1
    c2 = c2
    c3 = c3
    Packs <- MCPacks
    Newest = 2
    StageAt <- MCStageAt
    Milestones <- MCMilestones
    FirstDay = 7
    MaxDepth = 10
    MaxPending = 2
    MaxMishaps = 2
\* The bounds end every behaviour; the app itself always has a key to press.
CHECK_DEADLOCK FALSE
INVARIANTS
    AppTypeOK
    ProgressIsEarned
    QuietMeansSaved
    ShownIsTrue
    TrailCoherent
PROPERTIES
    SavedNeverShrinks
    EarnedUntilDaySkipped
