CONSTANTS
    cap = cap  sub = sub  v1 = v1  v2 = v2
    aCap = aCap  aSub = aSub  a1 = a1  a2 = a2  adm = adm
    d1 = d1  d2 = d2
    Member = {cap, sub, v1}
    Account = {aCap, aSub, a1, adm}
    Admins = {adm}
    Duty = {d1, d2}
    KindOf <- OneKind
    NoMember = NoMember
    NoAccount = NoAccount
    InitialHolder <- AllClaimed
    InitialCaptain = cap
    Window = 1
    MaxTime = 1
    MaxEvidence = 1
SPECIFICATION FairVoting
CHECK_DEADLOCK FALSE
PROPERTIES
    EveryCaseCloses
