CONSTANTS
    d1 = d1
    d2 = d2
    t1 = t1
    t2 = t2
    NoDocument = NoDocument
    Documents <- TwoDocuments
    Runs <- TwoRuns
    Limit = 2
    MaxWait = 2
    AttemptsCap = 1
    MaxFaults = 1
    Poison = {}
    Prompt = FALSE
SPECIFICATION Spec
INVARIANTS
    TypeOK
    LiveIsReadable
    DoneIsErased
    StuckByFault
    ForgottenByFault
SYMMETRY Interchangeable
