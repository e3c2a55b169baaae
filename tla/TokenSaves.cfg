SPECIFICATION FairSpec

CONSTANTS
    None = None
    Characters = {c1}
    Sources = {s1}
    Callers = {p1, p2}
    Wanted <- AllWanted
    Saved <- AllSaves
    Env = {"store", "verify", "outage", "lost", "crash", "revoke"}
    MaxTokens = 3

INVARIANTS
    NoSilentLoss
    VerifiedTokens

PROPERTIES
    CallsReturn
