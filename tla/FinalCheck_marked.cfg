\* Two certifications, of which one began before the tally was complete.
SPECIFICATION CheckSpec
CONSTANTS
    Ballots = {b1}
    Trustees = {t1, t2}
    Threshold = 2
    Calls = {c1}
    Certifications = {k1, k2}
    None = None
    MaxFaults = 0
    MaxOutside = 0
PROPERTIES MarkedIsNotCertified
CHECK_DEADLOCK FALSE
