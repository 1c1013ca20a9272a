CONSTANTS
    Jobs = {j1}
    Workers = {w1}
    NoJob = NoJob
    MAX_GENERATION_ATTEMPTS = 2
    MaxRequeues = 1
SPECIFICATION Spec
INVARIANTS
    VanishedLeaseIsRequeued
CHECK_DEADLOCK FALSE
