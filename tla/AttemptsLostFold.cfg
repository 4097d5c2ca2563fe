\* One handler, one live item at a time, one fault.
CONSTANTS
    h1 = h1  h2 = h2  c1 = c1  s1 = s1  s2 = s2
    k1 = k1  k2 = k2  w1 = w1  w2 = w2  p1 = p1
    Handlers = {h1}
    Children = {c1}
    Sessions = {s1, s2}
    Keys = {k1, k2}
    Words = {w1, w2}
    Phonemes = {p1}
    NoSound = NoSound
    NoDraft = NoDraft
    SessionChild <- MCSessionChild
    LessonWords <- MCLessonWords
    LessonSound <- MCLessonSound
    Items <- MCItems
    Scores <- MCScores
    MasteryThreshold = 75
    WeakThreshold = 50
    MaxBatch = 1
    MaxItems = 2
    MaxFaults = 1
    MaxTime = 0
SPECIFICATION Spec
INVARIANT
    AnsweredIsCounted
