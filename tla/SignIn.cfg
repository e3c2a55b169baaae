SPECIFICATION FairSpec

CONSTANTS
    Requests = {q1, q2, q3}

INVARIANTS
    TypeOK
    NilMeansQuiet
    NilHasACause
    PortIsFree

PROPERTIES
    Returns
    SomebodyIsAnswered

\* The call returns and its handlers may all be done or stuck for ever.
CHECK_DEADLOCK FALSE
