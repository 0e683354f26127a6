\* An order of a voter and one call; two logins and one place; three writers; two
\* tabs; a tally of one ballot and two certifications.
SPECIFICATION FairSpec
CONSTANTS
    None = None
    Off = Off
    Parts = {"signing", "login", "audit", "device", "check"}
    MaxFaults = 1
    Orders = {o1}
    Sessions = {s1}
    SessionOf <- MCSessionOf
    MaxOrders = 1
    MaxPerSession = 1
    Visitors = {h1}
    Validators = {w1}
    MaxRunning = 1
    MaxWaiting = 1
    x = x
    s1 = s1
    b1 = b1
    l1 = l1
    l2 = l2
    p1 = p1
    p2 = p2
    v1 = v1
    v2 = v2
    h1 = h1
    h2 = h2
    w1 = w1
    w2 = w2
    w3 = w3
    root = root
    Tabs = {i, j}
    Votes = {x, y}
    Elsewhere = {y}
    Trustees = {t1}
    k1 = k1
    k2 = k2
PROPERTIES AnswersCome EveryWriterEnds EndedIsForgotten OrdersGo CertifiedOnce
CHECK_DEADLOCK FALSE
