\* Two runs of produce and two of consume, started in any order, as a user
\* runs them one session after another.
CONSTANTS
    p1 = p1
    p2 = p2
    c1 = c1
    c2 = c2
    Produces = {p1, p2}
    Consumes = {c1, c2}
SPECIFICATION Spec
\* Every run exits or blocks in sem_wait() for good.
CHECK_DEADLOCK FALSE
PROPERTY PassOnFreshPost
