\* Three trustees of which two are enough, and two calls at once.
SPECIFICATION Spec
CONSTANTS
    Ballots = {b1}
    Trustees = {t1, t2, t3}
    Threshold = 2
    Calls = {c1, c2}
    None = None
    MaxFaults = 0
    MaxOutside = 0
PROPERTIES NoContributionOnceTallied
CHECK_DEADLOCK FALSE
