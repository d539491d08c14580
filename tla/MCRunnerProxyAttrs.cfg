CONSTANTS
    Handlers <- MC_Handlers
    MaxLines = 2
    MaxWrites = 4

SPECIFICATION Spec

INVARIANT AbsentFiltersAreWildcards

\* A handler returns after its response; the states where it has returned
\* have no successor.
CHECK_DEADLOCK FALSE
