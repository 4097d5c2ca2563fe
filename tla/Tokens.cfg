\* Two faults of any kind, a relaunch among them.
CONSTANTS
    q1 = q1  q2 = q2
    Requests = {q1, q2}
    MaxSignIns = 2
    MaxCalls = 2
    MaxFaults = 2
SPECIFICATION Spec
INVARIANTS
    TokensTypeOK
    SessionSurvives
    SessionIsWanted
    SpentOnce
PROPERTIES
    RequestsSettle
\* The bounds on sign-ins and calls end every behaviour.
CHECK_DEADLOCK FALSE
