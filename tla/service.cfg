SPECIFICATION Spec
CONSTANTS
    NoSource = NoSource
    Sources = {a1, a2}
    FileRequests = {c1, c2, c3}
    NoKey = NoKey
    None = None
    Saves = {c1, c2, c3}
    Texts = {a1, a2}
    Hints = {b1, b2}
    NoSession = NoSession
    Sessions = {a1, a2}
    SessionRequests = {b1, b2}
    TTL = 2
    MaxTime = 4
    Names = {lower, mixed}
    LowerCase = {lower}
    Invented = Invented
    NoService = NoService
    Minimum = 72
    Confidences = {71, 72}
    first = first
    second = second
    other = other
    Companies <- MCCompanies
    Titles <- MCTitles
    Own <- MCOwn
    Lengths = {1, 3}
    Newest = 3
    Budget = 4
    MaxSources = 4
    Starters = {p1, p2}
    SeedEmails = {e1, e2}
    NoEmail = NoEmail
    Connections = {n1, n2}
    RowIds = {i1, i2}
SYMMETRY Symmetry
INVARIANTS
    TypesOK
    FilesAgree
    SettingsAgree
    ReplyIsSafe
    RepliesWhateverTheModel
    KnowledgeIsExact
    SeedAgrees
    TenantsApart
PROPERTY ImplementsSessionStore
CHECK_DEADLOCK FALSE
