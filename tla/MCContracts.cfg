CONSTANTS
    Categories = {"identidade", "conjuge_documentos"}
    Kinds <- UploadedKinds
    Loads <- ReviewLoads
    Joined = "joined"
    Bare = "bare"
SPECIFICATION ContractsSpec
INVARIANTS
    PartiesHold
PROPERTIES
    ReviewsAreOrderly
\* An approved contract with all its documents waits for the rest of its life.
CHECK_DEADLOCK FALSE
