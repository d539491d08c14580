CONSTANTS
    Projects = {"p1", "p2"}
    Configs = {"c1", "c2"}
    Malformed = {"bad"}
    MaxWrites = 3

SPECIFICATION FairSpec

INVARIANT TypeOK
INVARIANT LoadedWhenUnraced
PROPERTY LoaderSettles

\* The loader returns and the table stops changing after MaxWrites changes;
\* the states after that have no successor.
CHECK_DEADLOCK FALSE
