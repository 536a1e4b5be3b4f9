SPECIFICATION MCSpec
CONSTANTS
    Parts = {"presence", "fanout"}
    u1 = u1
    c1 = c1
    c2 = c2
    Users = {u1}
    Conns = {c1, c2}
    Owner <- MCOwner
    Lease = 3
    Skew = 1
    Batch = 1
    NEvents = 2
    MaxLength = 1
    MaxTries = 2
    MaxOutages = 1
INVARIANTS
    OnlineTracked
    FanoutLossless
PROPERTIES
    LeaseKept
    PresenceConverges
    FanoutServes
CHECK_DEADLOCK FALSE
