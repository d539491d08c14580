CONSTANTS
    d1 = d1
    d2 = d2
    d3 = d3
    w1 = w1
    w2 = w2
    Docs <- MC_Docs
    Wheres <- MC_Wheres
    DB <- MC_DB
    Match <- MC_Match
    MaxBatch = 3

SPECIFICATION Spec

INVARIANT TypeOK
INVARIANT AnswerMatchesKey
INVARIANT EveryKeyAnswered
PROPERTY NoResultOverwritten
PROPERTY Termination

\* The batch function returns: a finished call has no further step.
CHECK_DEADLOCK FALSE
