SPECIFICATION Spec

CONSTANTS
    None = None
    Characters = {c1, c2}
    Sources = {s1}
    Callers = {p1}
    Wanted <- AllWanted
    Saved <- NoSaves
    Env <- NoEnv
    MaxTokens = 3

INVARIANTS
    SatisfyingCharacterIsFound
