CONSTANTS
    Requests = {"q1", "q2"}
    Keys = {"a1", "b1"}
    Person <- PersonOf
    MaxProposals = 2
    MaxDocuments = 2
    MaxFaults = 1
SPECIFICATION RetriesSpec
PROPERTIES
    EveryRequestEnds
    RemovedIsErased
