CONSTANTS
    s1 = s1  s2 = s2  s3 = s3
    r1 = r1  r2 = r2
    Slots = {s1, s2, s3}
    CodeRequests = {r1, r2}
    Kinds = {"account", "draft", "reset"}
    DailyLimit = 1
    Window = 2
    CodeTtl = 1
    SessionTtl = 1
    MaxFailed = 1
    MaxCrashes = 1
    Accounts = {a1}
    Emails = {e1}
    Requests = {q1}
    MaxVersion = 2
    Admin = Admin  Nobody = Nobody  NoEmail = NoEmail
SPECIFICATION AccountsSpec
INVARIANTS
    CodesHold
    SessionsHold
SYMMETRY Symmetric
