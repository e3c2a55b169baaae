SPECIFICATION Spec

CONSTANTS
    None = None
    Characters = {c1}
    Sources = {s1, s2}
    Callers = {p1, p2}
    Wanted <- AllWanted
    Saved <- NoSaves
    Env = {"store", "verify", "outage", "lost", "crash", "delete"}
    MaxTokens = 3

SYMMETRY Symmetry

INVARIANTS
    TypeOK
    VerifiedTokens
    GrantInv
    NoSilentLoss

PROPERTIES
    MonotoneStore
    KeepsVault
