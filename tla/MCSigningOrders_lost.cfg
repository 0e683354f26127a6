\* One order, one call, and one lost answer.
SPECIFICATION Spec
CONSTANTS
    o1 = o1
    o2 = o2
    s1 = s1
    None = None
    Orders = {o1, o2}
    Sessions = {s1}
    SessionOf <- MCSessionOf
    MaxOrders = 2
    MaxPerSession = 1
    MaxFaults = 1
    Visitors = {h1, h2}
    Validators = {w1}
    MaxRunning = 1
    MaxWaiting = 1
INVARIANTS FailedIsAlwaysTrue
CHECK_DEADLOCK FALSE
