CONSTANTS
    Requests = {q1, q2}
    Keys = {"a1", "b1"}
    Person <- PersonOf
    MaxProposals = 2
    MaxDocuments = 3
    MaxFaults = 1
    Uploads = {r1, r2, r3}
    Nobody = Nobody
    MaxFailures = 3
SYMMETRY Interchangeable
SPECIFICATION ProposalsSpec
INVARIANTS
    SignedSafety
    SubmissionsHold
PROPERTIES
    RetryIsNoConflict
\* Every upload was answered, and no failure is left to make room for another.
CHECK_DEADLOCK FALSE
