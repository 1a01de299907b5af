CONSTANTS
    cap = cap  sub = sub  v1 = v1
    aCap = aCap  aSub = aSub  a1 = a1  aNew = aNew
    r1 = r1  r2 = r2
    Member = {cap, sub, v1}
    Account = {aCap, aSub, a1, aNew}
    Admins = {}
    Duty = {1, 2}
    KindOf <- OwnKinds
    NoMember = NoMember
    NoAccount = NoAccount
    InitialHolder <- Claimants
    InitialCaptain = cap
    Window = 1
    MaxTime = 1
    MaxEvidence = 2
    Subject = sub
    Submitted = {1, 2}
    Request = {r1, r2}
    Kinds = {"read", "void", "submit", "respond", "review", "decide", "release", "withdraw", "claim"}
SPECIFICATION TxSpec
CHECK_DEADLOCK FALSE
SYMMETRY Requests
INVARIANTS
    CarriedInTime
PROPERTIES
    LedgerSteps
    BallotsOnlyHarden
