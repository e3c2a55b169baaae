SPECIFICATION Spec

CONSTANTS
    None = None
    Characters = {c1}
    Sources = {s1}
    Callers = {p1}
    Wanted <- AllWanted
    Saved <- AllSaves
    Env <- NoEnv
    MaxTokens = 3

INVARIANTS
    RefreshHasARow
