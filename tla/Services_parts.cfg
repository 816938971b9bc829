SPECIFICATION Spec
CONSTANTS
    x = x
    y = y
    p = p
    q = q
    r = r
    s = s
    user = user
    admin = admin
    shared = shared
    none = none
    gone = gone
    Accounts = {x, y}
    RouteIds = {p, q}
    Users = {user}
    Admin = admin
    Deployment = shared
    Requests = {r, s}
    Nothing = none
    Removed = gone
    Addresses = {"private", "public"}
    MaxChain = 2
    MaxAccounts = 2
    MaxEdits = 3
    UserNetworks = TRUE
    MaxCalls = 2
    MaxFragments = 2
    MaxTexts = 2
    MaxMessages = 6
    MaxAsked = 2
    Alphabet <- MCAlphabet
    MaxBody = 5
    MaxLineBytes = 3
    MaxStreamBytes = 4
    NodeRows <- MCRows
    Registered = 2
    Tasks <- MCTasks
    Margin = 1
    SilentAfter = 15
    Catalog <- MCCatalog
    CloudModels = {"remote"}
    MaxPieces = 3
    MaxText = 6
    MaxExtracted = 7
    Size = 4
    Overlap = 1
SYMMETRY Symmetry
INVARIANTS OwnKeysOnly PrivacyKept RowsSound AnswerFaithful RequestFaithful LinesOfBody PlacementSafe ChunksFaithful
PROPERTIES ImplementsContract
CHECK_DEADLOCK FALSE
