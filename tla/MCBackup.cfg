SPECIFICATION FairBackupSpec
CHECK_DEADLOCK FALSE
CONSTANTS
    k1 = k1  k2 = k2  api = api  worker = worker
    Keys = {k1, k2}
    StoredKeys = {k1}
    WriterOf <- MCWriterOf
    Services = {api, worker}
    Recoveries = {r1, r2}
    BackupRecovery = r1
    NoToken = NoToken
    MaxBoots = 2
    PausedServices <- MCPaused
    WORKER_SERVICES <- MCWorkers
    MaxFaults = 1
INVARIANTS
    RecoveryGateHolds RestoresToAgreement AllOrNothingRuns
PROPERTIES StrayBytesAreNoticed
