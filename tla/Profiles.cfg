SPECIFICATION FairSpec

CONSTANTS
    None = None
    Default = default
    Ids = {i1, i2, i3, i4}
    Names = {default, other}
    Values = {v1, v2}
    Callers = {p1, p2}
    Runs = {t1, t2}
    Env = {"store", "lost"}
    MaxChanges = 3

INVARIANTS
    TypeOK
    SettledNames
    NoStrays

PROPERTIES
    RunsSettle

\* Every run is done and the application makes no more changes.
CHECK_DEADLOCK FALSE
