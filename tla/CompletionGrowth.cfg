\* A companion, a session, a completion that fails after RecordMastery, its retry.
CONSTANTS
    h1 = h1  h2 = h2  k1 = k1  w1 = w1  w2 = w2  fox = fox  owl = owl
    Handlers = {h1, h2}
    Words = {w1, w2}
    Keys = {k1}
    NoKey = NoKey
    Species = {fox, owl}
    Lessons <- MCLessons
    StageAt <- MCStageAt
    Requests <- MCFewRequests
    MaxTime = 0
    MaxRequests = 4
    MaxFaults = 1
SPECIFICATION Spec
INVARIANT
    GrowthIsReported
