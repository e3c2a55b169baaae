SPECIFICATION Spec

CONSTANTS
    None = None
    Characters = {c1}
    Sources = {s1, s2}
    Callers = {p1, p2}
    Wanted <- AllWanted
    Saved <- NoSaves
    Env <- NoEnv
    MaxTokens = 2

INVARIANTS
    InactiveMeansRevoked
