\* The smallest groups, chains, documents and queues in which each case occurs.
SPECIFICATION VerificationSpec
CONSTANTS
    x = x
    b1 = b1
    k1 = k1
    k2 = k2
    s1 = s1
    h1 = h1
    h2 = h2
    h3 = h3
    None = None
    Orders = {o1, o2}
    Sessions = {s1}
    SessionOf <- MCSessionOf
    MaxOrders = 2
    MaxPerSession = 1
    MaxFaults = 1
    Visitors = {h1, h2, h3}
    Validators = {w1}
    MaxRunning = 1
    MaxWaiting = 1
    OrderRefs = {d1}
    Calls = {k1, k2}
    RequestTimeout = 1
    ConnectTimeout = 1
    TotalTimeout = 2
    RetryDelay = 1
    ConnectRetries = 1
    MaintenanceRetries = 1
    OrderLifetime = 2
    MaxTime = 4
    P = 7
    PrivateKey = 2
    Choice = 2
    Options = 2
    Places = {"here", "there"}
    Made = "here"
    Digits = 4
    Windows = 2
    MaxOdd = 1
    BallotIds = {b1, b2}
    Hashes = {x, y}
    HashOrder <- MCHashOrder
    MaxRows = 3
    Roots <- MCRoots
    Limits = {0, 1, 9}
    Periods <- MCPeriods
    SignedDuring <- MCSignedDuring
    MaxFlaws = 1
    Persons = {v1, v2}
    Contents = {x, y}
    Texts = {text}
    Services = {own, other}
    Own = own
    MaxSigned = 2
    MaxParts = 1
    Parts = {"ballot", "powers", "tree", "chain", "document", "bankid", "queue", "signing"}
SYMMETRY MCAlike
INVARIANTS OrdersHold QueueHolds BankHolds EvidenceHolds ProofsHold PowersAgree
PROPERTIES RefusedOnlyForValidators
CHECK_DEADLOCK FALSE
