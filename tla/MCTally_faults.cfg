\* Two ballots, two trustees, two calls at once, a fault between any two steps.
SPECIFICATION InsideSpec
CONSTANTS
    Ballots = {b1, b2}
    Trustees = {t1, t2}
    Threshold = 2
    Calls = {c1, c2}
    None = None
    MaxFaults = 1
    MaxOutside = 0
INVARIANTS EveryRowIsPosted TallyIsSettled
PROPERTIES KeepsThePromise TallyRecovers
CHECK_DEADLOCK FALSE
