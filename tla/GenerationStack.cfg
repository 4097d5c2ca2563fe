\* Two triggers of one child, no fault: the race of two workers alone.
CONSTANTS
    w1 = w1  w2 = w2  t1 = t1  t2 = t2  c1 = c1
    base = base  sky = sky  garden = garden  sun = sun  bee = bee  hello = hello  blue = blue
    Workers = {w1, w2}
    Triggers = {t1, t2}
    NoTrigger = NoTrigger
    Children = {c1}
    Shared = Shared
    TriggerChild <- MCOneChild
    LessonIds = {base, sky, garden}
    WordIds = {hello, sun, bee}
    Tokens = {}
    Drafts <- MCStackDrafts
    NoDraft = NoDraft
    Curriculum <- MCCurriculum
    MinNewWords = 1
    MaxNewWords = 1
    MaxReviews = 0
    MaxFaults = 0
SPECIFICATION GenerationSpec
INVARIANT NoStacking
