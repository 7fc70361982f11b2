\* Two consumers, four items through a one-slot buffer, so the producer
\* waits on sem_1 for every item after the first.  `finished` starts false
\* and consumers clear is_full when they post sem_1 (see README: with
\* consumers that never clear it, `in` passes BUF_SIZE).
CONSTANTS
    k1 = k1
    k2 = k2
    Consumers = {k1, k2}
    NumItems = 4
    BUF_SIZE = 1
    MAX_NUM_CONSUMERS = 2
    FinishedInit = {FALSE}
    ConsumerClearsFull = TRUE
SPECIFICATION FairSpec
\* Both programs exit; a producer no consumer ever serves waits for good.
CHECK_DEADLOCK FALSE
INVARIANT TypeOK
PROPERTY ConsumersReleased
