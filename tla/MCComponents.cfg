CONSTANTS
    None = None
    Me = Me
    s1 = s1  s2 = s2
    t1 = t1  t2 = t2  t3 = t3
    u1 = u1  u2 = u2
    Places = {s1, s2}
    Actors = {t1, t2, t3}
    People = {Me, u1}
    Messages = {u2}
    Squad = {Me, u1, s1, s2}  Tasks = {u2}  Movers = {u1}
    SampleWindow = 1  SampleLinks = 2  SampleTime = 1
    LoadFetches = 3  LoadWrites = 2  KickoffRefreshes = 4
    ReadAhead = 2  ReadKeys = 1  ReadTime = 2  ReadSaves = 2
    PushAttempts = 2  PushLease = 1  PushRetry = 2  PushExpires = 3  PushBatch = 1  PushBatches = 1  PushTime = 4
    SessionLease = 2  SessionSlow = 1  SessionDispatches = 2  SessionSaves = 2  SessionPublished = 0  SessionKickoff = 3  SessionTime = 3
    CardVersions = 4  DeskChanges = 1
    FeedStart = 1  FeedTtl = 1  FeedTime = 2  FeedAnswers = 3
    ResultsTtl = 2  ResultsFailed = 1  ResultsStale = 2  ResultsTime = 3
    MarkWeek = 2  MarkTime = 3
    Games = {u1, u2}
    FormMargin = 1  FormReach = 1
    LeagueNames = {1}  LeagueRows = 1  LeagueMembers = 2  LeagueEdits = 7
    DialogChanges = 1  ManageRounds = 2  ManageChanges = 1  ProfileVisits = 1  ProfileSaves = 1
    SheetWrites = 2  SheetChanges = 1
    PanelTurns = 2  PanelReads = 4
    Numbers = {"1", "2"}  Conversations <- ChatContexts  TurnMessages = 3  TurnText = 5
SPECIFICATION Spec
SYMMETRY Interchangeable
CHECK_DEADLOCK FALSE
INVARIANTS
    TypesOK
    PendingMeansVoting
    RecordsHaveNames
    RefreshedOfChosen
    KickoffWatched
    ShownWasAccepted
    PoolIsFair
    
    DeliveriesBounded
    HeldByOne
    ClaimsApart
    ToldStaysTrue
    FormsAreWhole
    SavesOnlyEdits
    RulingsWereMeant
    NavigationEnds
PROPERTIES
    ReadStaysRead
    NewsIsUnread
