SPECIFICATION Spec
CONSTANTS
    Processes = {p1, p2}
    Users = {u1, u2}
    Reviews = {v1}
    Requests = {q1}
    FourEyes = TRUE
    MaxRevision = 2
    MaxJobs = 2
    MaxBuilds = 2
    MaxDrafts = 2
SYMMETRY Symmetry
CHECK_DEADLOCK FALSE
INVARIANTS
    OldRevisionsAreClosed
    ApprovedSourceIsSaved
    ReleaseIsWhatWasReviewed
    ApprovedIsCorroborated
PROPERTY
    ImmutableIsFrozen
