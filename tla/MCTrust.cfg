SPECIFICATION Spec
CHECK_DEADLOCK FALSE
SYMMETRY Symmetry
CONSTANTS
    mk = mk  ck = ck  sk = sk  p1 = p1  p2 = p2  p3 = p3
    Runs = {run1, run2}
    ThisRun = run1
    Keys = {mk, ck, sk}
    Registries <- MCRegistries
    Setups = {s1, s2}
    UsualSetup = s1
    OtherSetup = s3
    CalibrationEnds = 3
    AttestationValidity = 3
    ChainDuration = 3
    EvidenceAge = 1
    MaxTime = 4
    MaxSerial = 3
    MaxGeneration = 2
    MaxSlips = 1
    i1 = i1  i2 = i2  m1 = m1  m2 = m2
    Issuers = {i1, i2}
    Materials = {m1, m2}
    Statements = {e1}
    Designs = {d1}
    Processes = {a1}
    KeyEnds <- MCKeyEnds
    NoIssuer = NoIssuer
    MaxRetentionTime = 1
    MaxEpoch = 3
INVARIANTS
    WorkHappenedInOrder AcceptedChainIsGenuine
    AssertedStaysActivated KeyMaterialHasOneOwner RevokedBindsNothing
