\* One certification over a tally with two calls and a trustee too many; over one
\* of two ballots with a write past the application at any point; and over one
\* that two trustees open together, with two such writes. The key of three trustees
\* over the smallest group that has room for them, and the smallest ballots.
SPECIFICATION ElectionsSpec
CONSTANTS
    None = None
    b1 = b1
    b2 = b2
    b3 = b3
    x = x
    y = y
    c1 = c1
    c2 = c2
    p1 = p1
    p2 = p2
    t2 = t2
    t3 = t3
    lateTrustees = {l1, l2, l3}
    lateCalls = {k1, k2}
    Ballots = {b1, b2}
    Trustees = {t1}
    Threshold = 1
    Calls = {k3}
    MaxFaults = 0
    MaxOutside = 1
    Certifications = {f1}
    P = 11
    TrusteeCount = 3
    TrusteeThreshold = 2
    MaxVotes = 2
    VoteCounts = {0, 2}
    Random = {1, 3}
    HashValues = {4}
    Sums = {x, y}
    ClaimedShares = {2}
    PartyIds = {p1, p2}
    CandidateIds = {c1, c2}
    AnswerIds = {x, y}
    MaxPlace = 2
SYMMETRY MCAlike
INVARIANTS FindsNothingOnceTallied SumsAreTheVotes
PROPERTIES FalsifiedIsNotCertified OnlyTheMovedSumIsOpened CountersAreTheMovedVotes
CHECK_DEADLOCK FALSE
