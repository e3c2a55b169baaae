SPECIFICATION FairSpec

CONSTANTS
    None = None
    Profiles = {a}
    States = {st1}
    Characters = {c1}
    Hosts = {h1, h2}
    Offset <- OneAhead
    Requests = {q1, q2}
    Env = {"lost", "verify"}
    Window = 2
    Slack = 1
    MaxAge = 5
    MaxCodes = 2

INVARIANTS
    NoStateWasted

PROPERTIES
    ExchangeIsFresh
    SweepSparesFindable
    RequestsAnswered
    RowsGo
