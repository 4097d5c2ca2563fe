\* One session completed twice, an attempt folded in between, no fault.
CONSTANTS
    h1 = h1  h2 = h2  k1 = k1  w1 = w1  w2 = w2  fox = fox  owl = owl
    Handlers = {h1, h2}
    Words = {w1, w2}
    Keys = {k1}
    NoKey = NoKey
    Species = {fox, owl}
    Lessons <- MCLessons
    StageAt <- MCStageAt
    Requests <- MCFewRequests
    MaxTime = 0
    MaxRequests = 3
    MaxFaults = 0
SPECIFICATION Spec
INVARIANT
    DeltaIsDeterministic
