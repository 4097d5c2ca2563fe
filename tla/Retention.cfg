\* Two utterances, two sweeps with batches of up to two rows, two faults; a recording
\* made at 0 expires when the clock reads 2, one made later does not.
CONSTANTS
    h1 = h1  h2 = h2  v1 = v1  v2 = v2
    c1 = c1  s1 = s1  k1 = k1  k2 = k2  w1 = w1
    Handlers = {h1}
    Sweepers = {v1, v2}
    Children = {c1}
    Sessions = {s1}
    Keys = {k1, k2}
    Words = {w1}
    Phonemes = {}
    NoSound = NoSound
    NoDraft = NoDraft
    SessionChild <- MCSessionChild
    LessonWords <- MCLessonWords
    LessonSound <- MCLessonSound
    Items <- MCItems
    Scores <- MCScores
    MasteryThreshold = 75
    WeakThreshold = 50
    MaxBatch = 1
    MaxItems = 2
    MaxFaults = 2
    MaxTime = 2
    AudioRetention = 1
    SweepBatchSize = 2
SPECIFICATION RetentionSpec
INVARIANTS
    RetentionTypeOK
    RecordingsMatchRows
PROPERTY
    ExpiredIsRemoved
