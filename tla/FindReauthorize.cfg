SPECIFICATION Spec

CONSTANTS
    None = None
    Characters = {c1}
    Sources = {s1}
    Callers = {p1}
    Wanted <- AllWanted
    Saved <- NoSaves
    Env = {"revoke"}
    MaxTokens = 3

PROPERTIES
    AuthorizationActivates
