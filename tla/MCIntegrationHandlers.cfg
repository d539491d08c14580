CONSTANTS
    Reqs = {1, 2}
    Tokens = {"admin", "scoped"}
    Rules <- MC_Rules
    Integrations = {"i1", "i2"}
    Hooks = {"h1", "h2"}

SPECIFICATION Spec

INVARIANT TypeOK
INVARIANT ListedOnlyWhenGranted
PROPERTY ModifiedOnlyWhenGranted

\* Each request ends once its handler has written a response.
CHECK_DEADLOCK FALSE
