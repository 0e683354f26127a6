\* One certification that begins before the tally is complete.
SPECIFICATION CheckSpec
CONSTANTS
    Ballots = {b1}
    Trustees = {t1, t2}
    Threshold = 2
    Calls = {c1}
    Certifications = {k1}
    None = None
    MaxFaults = 0
    MaxOutside = 0
INVARIANTS TooEarlyIsHarmless
CHECK_DEADLOCK FALSE
