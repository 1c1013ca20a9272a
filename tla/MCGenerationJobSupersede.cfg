CONSTANTS
    Jobs = {j1}
    Workers = {w1}
    NoJob = NoJob
    MAX_GENERATION_ATTEMPTS = 2
    MaxRequeues = 0
SPECIFICATION Spec
PROPERTIES
    SucceededIsImmutable
CHECK_DEADLOCK FALSE
