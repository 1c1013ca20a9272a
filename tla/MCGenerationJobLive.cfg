CONSTANTS
    Jobs = {j1, j2}
    Neighbour = j2
    Workers = {w1}
    NoJob = NoJob
    MAX_GENERATION_ATTEMPTS = 2
    MaxRequeues = 1
SPECIFICATION LiveSpec
PROPERTIES
    EveryJobTerminates
    QueuedIsDelivered
CHECK_DEADLOCK FALSE
