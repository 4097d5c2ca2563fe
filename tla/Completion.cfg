\* Two handlers, four requests to one session and one companion, one fault.
CONSTANTS
    h1 = h1  h2 = h2  k1 = k1  w1 = w1  w2 = w2  fox = fox  owl = owl
    Handlers = {h1, h2}
    Words = {w1, w2}
    Keys = {k1}
    NoKey = NoKey
    Species = {fox, owl}
    Lessons <- MCLessons
    StageAt <- MCStageAt
    Requests <- MCRequests
    MaxTime = 1
    MaxRequests = 4
    MaxFaults = 1
SPECIFICATION Spec
SYMMETRY HandlerSymmetry
INVARIANTS
    CompletionTypeOK
    AnswersUseStoredWindow
    SummaryHolds
    GrowthBacked
    GrowthReportedUnlessFault
PROPERTIES
    RowsFrozen
