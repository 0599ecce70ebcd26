CONSTANTS
    d1 = d1  d2 = d2
    r1 = r1  r2 = r2
    f1 = f1  f2 = f2
    Requests = {r1, r2}
    SaleIds = {s1, s2, s3}
    Loads <- DealLoads
    Listings = {l1, l2}
    Files = {f1, f2, f3, f4}
    NoFile = NoFile
    MediaRequests = {r1, r2}
    MediaLoads <- WorkOnMedia
    MaxCode = 3
    MaxImages = 2
    MaxCrashes = 1
    Edits = {d1, d2}
    UpdateRequests = {r1, r2}
    EditLoads <- WorkOnEdits
    Prices = {2, 4}
    PromoPrices = {1, 3}
    Percentages = {50}
    Areas = {1}
    Units = {1, 2}
SPECIFICATION ListingsSpec
INVARIANTS
    EditsHold
    MediaHold
PROPERTIES
    DealsHold
\* Once its files are used up or its listing is deleted, nobody asks for more.
CHECK_DEADLOCK FALSE
