SPECIFICATION Spec

CONSTANTS
    None = None
    Profiles = {a, b}
    States = {st1, st2}
    Characters = {c1}
    Hosts = {h1}
    Offset <- OneAhead
    Requests = {q1, q2}
    Env = {"store", "sso", "lost", "verify", "crash", "delete"}
    Window = 1
    Slack = 0
    MaxAge = 2
    MaxCodes = 2

SYMMETRY Symmetry

INVARIANTS
    TypeOK
    LandsInItsProfile
    StateIsSpentFirst
    NoGrantLost

PROPERTIES
    DataIsWriteOnce
    KeepsVault
