CONSTANTS
    Projects = {"p1", "p2"}
    Configs = {"c1", "c2"}
    Malformed = {"bad"}
    MaxWrites = 3

SPECIFICATION Spec

INVARIANT StoreMatchesDBWhenQuiet

CHECK_DEADLOCK FALSE
