SPECIFICATION AccountsSpec
CONSTANTS
    x = x
    p = p
    q = q
    r = r
    s = s
    user = user
    admin = admin
    shared = shared
    none = none
    gone = gone
    Accounts = {x}
    RouteIds = {p, q}
    Users = {user}
    Admin = admin
    Deployment = shared
    Requests = {r, s}
    Nothing = none
    Removed = gone
    Addresses = {"private"}
    MaxChain = 1
    MaxAccounts = 1
    MaxEdits = 3
    UserNetworks = TRUE
INVARIANT OneRoute
CHECK_DEADLOCK FALSE
