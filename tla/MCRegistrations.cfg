CONSTANTS
    e1 = e1  e2 = e2
    d1 = d1  d2 = d2
    f1 = f1
    r1 = r1  r2 = r2
    Addresses = {e1, e2}
    Drafts = {d1, d2}
    Files = {f1}
    DraftRequests = {r1, r2}
    MaxStops = 1
    DraftLoads <- WaysToRegister
    NoFile = NoFile  NoDraft = NoDraft  NoAddress = NoAddress
    u1 = u1  u2 = u2
    l1 = l1
    g1 = g1  g2 = g2
    NoUser = NoUser  NoScan = NoScan
    Users = {u1, u2}
    Listings = {l1}
    Scans = {g1, g2}
    BrokerRequests = {r1, r2}
    MaxHalts = 1
    BrokerLoads <- Applicants
SPECIFICATION Spec
INVARIANTS
    AccountsAreWhole
    BrokersHold
PROPERTIES
    AccountKeepsOrigin
SYMMETRY Symmetric
