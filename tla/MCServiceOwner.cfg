SPECIFICATION MCSpec
CONSTANTS
    Parts = {"membership"}
    o = o
    a1 = a1
    a2 = a2
    b1 = b1
    b2 = b2
    c1 = c1
    c2 = c2
    Accounts = {o, a1, a2}
    Owner = o
    Invites = {b1, b2}
    InviteRequests = {c1, c2}
    PermChoices <- MCPermChoices
    MaxInvites = 1
    MaxChannelGeneration = 4
    NoOne = NoOne
    Users = {owner}
    Admins = {owner}
    ClientIds = {k}
    Emojis = {b1, b2}
    MaxDistinct = 1
    Requests = {a1, a2}
    MaxMessages = 2
    MaxEdits = 1
    Unset = Unset
    Sockets = {s1}
    MaxEvents = 2
    MaxGeneration = 4
    None = None
    MaxHistory = 5
    PageLimit = 2
    AroundLimit = 1
    Sessions = {a1, a2}
    AuthRequests = {b1, b2}
    IdleTTL = 2
    AbsoluteTTL = 3
    MaxToken = 2
    MaxPassword = 2
    NoRow = NoRow
    People = {a1, a2}
    Mailboxes = {b1, b2}
    NoMailbox = NoMailbox
    EmailRequests = {c1, c2}
    MaxChallenges = 2
    MaxMoves = 1
    NoToken = NoToken
    LimitKeys = {a1, a2}
    HitLimit = 1
    Window = 2
    MaxKeys = 1
    Capacity = 3
    RefillRate = 2
    Costs = {1, 3}
    Horizon = 12
    MaxFlips = 1
    NoHint = NoHint
SYMMETRY MCSymmetry
INVARIANT
    OwnerKept
CHECK_DEADLOCK FALSE
