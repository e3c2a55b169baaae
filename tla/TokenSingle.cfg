SPECIFICATION Spec

CONSTANTS
    None = None
    Characters = {c1, c2}
    Sources = {s1}
    Callers = {p1, p2}
    Wanted <- AllWanted
    Saved <- NoSaves
    Env = {"store", "verify", "lost", "crash", "revoke", "delete"}
    MaxTokens = 3

SYMMETRY Symmetry

INVARIANTS
    InactiveHasACause
    OwnTokens
