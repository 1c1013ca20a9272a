SPECIFICATION Spec
CHECK_DEADLOCK FALSE
CONSTANTS
    r1 = r1  r2 = r2  r3 = r3  t1 = t1  t2 = t2  a1 = a1  a2 = a2  k1 = k1  k2 = k2
    Requests = {r1, r2, r3}
    Tenants = {t1, t2}
    Replicas = {a1, a2}
    LockKeys = {k1, k2}
    TenantOf <- MCTenantOf
    ReplicaOf <- MCReplicaOf
    KeyOf <- MCKeyOf
    Limit = 1
    NoRequest = NoRequest
    MaxOrgs = 3
    Workers = {a1}
    GlobalLimit = 2
    TenantLimit = 1
    MaxBacklog = 1
    MaxFaults = 1
    CursorCycle = 6
INVARIANTS
    GuardLayersAgree
PROPERTIES
    SerialOperations NothingStranded NobodyStarves
