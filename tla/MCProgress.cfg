CONSTANTS
    Handlers = {"h1", "h2", "h3", "h4"}
    LockedRows = {"r1", "r2"}
    NoHandler = "none"
    Shape <- EachShape
    Row <- TwoRows
    Limit = 3
SPECIFICATION ProgressSpec
INVARIANTS
    PoolIsSound
PROPERTIES
    RequestsEnd
    CodesServe
    DraftIsClosed
    PdfsEnd
\* Each waiting for another, the handlers stop; so do jobs that have ended.
CHECK_DEADLOCK FALSE
