CONSTANTS
    Calls = {c1, c2, c3}
    MaxFaults = 2
    Processes = {p1, p2}
    Columns = {"a", "b", "c", "d"}
    EnsureOrder <- TwoEnsured
    FileOrder <- TwoFiles
    Adds <- ColumnsOfFiles
    Guarded = {"f1", "f2"}
    MaxFailures = 1
    MaxRollbacks = 1
    u1 = u1
    u2 = u2
    Users = {u1, u2}
    AdminIds = {}
    Favourites = {u1, u2}
    Dispatches = {"d1", "d2"}
    Prices = {9, 10}
    Null = Null
    MaxNotices = 3
    MaxUpdates = 3
    MaxChanges = 1
    NoticeLoads <- WaysToTell
    Requests = {"q1", "q2", "q3", "q4"}
    AtOnce = 2
    MaxDays = 1
SPECIFICATION PlatformSpec
INVARIANTS
    CompleteUnlessDisturbed
    SchemaHolds
PROPERTIES
    NoticesHold
SYMMETRY Twins
\* Calls end, and the updates of an instance are used up.
CHECK_DEADLOCK FALSE
