SPECIFICATION Spec
CHECK_DEADLOCK FALSE
CONSTANTS
    MIN_VALIDATION_CONTOUR_KERF = 1
    MinRemainingWall = 1
    MaximumOvercut = 0
    MinimumEdgeDistance = 0
    DiameterTolerance = 0
    Requests <- MCRequests
    Spliced <- MCSpliced
    ReferenceMachines <- MCReferenceMachines
    MaxExchanged = 5
    LibraryMachines = {1}
    Reviews <- MCReviews
    Edits <- MCEdits
    MaxSlips = 2
    HandWritten <- MCHandWritten
    Identities <- MCIdentities
    LocalSource <- MCLocalSource
    Siblings <- MCSiblings
    MaxSubstituted = 2
    Jobs <- MCJobs
    EditedJobs <- MCEditedJobs
    MaxEdits = 1
    UnluckyJobs <- MCUnluckyJobs
    MaxIncidents = 1
INVARIANTS
    BuilderMeetsVerifier AcceptedIsOfOneBuild PlannedSheetIsSound
     WorkshopRunsWhatWasReviewed
    SafeMotion MachinedAsDesigned GeneratedIsAccepted
