\* Two voters and two ballots, and a day that ends while an envelope is cast.
SPECIFICATION AppSpec
CONSTANTS
    None = None
    Off = Off
    Parts = {"validation"}
    MaxFaults = 1
    s1 = s1
    b1 = b1
    b2 = b2
    b3 = b3
    x = x
    y = y
    Slots = {s1}
    Ballots = {b1}
    BallotOf <- MCBallotOf
    Ciphers = {x, y}
    NoEnvelope = NoEnvelope
    Requests = {r1, r2, r3}
    MaxSequence = 2
    Tasks = {h1, h2, t1}
    MaxConcurrent = 1
    MaxQueued = 1
    Logins = {o1, o2, o3}
    Pages = {p1, p2}
    OtherDevice = {o1}
    Eligible = {v1, v2}
    Calls = {h1, h2}
    PageOf <- MCPageOf
    VoterOf <- MCVoterOf
    o1 = o1
    o2 = o2
    o3 = o3
    p1 = p1
    p2 = p2
    v1 = v1
    v2 = v2
    h1 = h1
    h2 = h2
    Nothing = Nothing
    Absent = Absent
    MaxMishaps = 1
    Writers = {w1, w2, w3}
    InTransaction = {w1, w2}
    Roots = {root}
    RootOf <- MCRootOf
    MaxFailures = 1
    MaxTampering = 2
    w1 = w1
    w2 = w2
    w3 = w3
    root = root
    Envelopes = {e1}
    Resets = {q1, q2}
    q2 = q2
    Closings = {c1, c2}
    Counts = {t1, t2}
    Checks = {k1, k2}
    k2 = k2
    Tabs = {i, j}
    Votes = {x, y, z}
    Elsewhere = {z}
    MaxLost = 1
    NoVote = NoVote
    Servers = {h1, h2}
    RootFiles <- MCRootFiles
    Unset = Unset
    Voters = {v1, v2}
    BallotIds = {b1, b2}
    MayVoteOn <- InTheArea
    Other = b3
    MaxCast = 2
    MaxChanges = 2
    MaxDay = 1
    MAX_STALE_LOOKBACK = 1
    MAX_TOTAL_STALE_PROBES = 1
    Unread = Unread
    BallotCount = 2
    TrusteeCount = 3
    Threshold = 2
    Sums <- MCSums
    MovedVotes <- MCMoved
    MaxOutside = 1
    MaxAltered = 1
    Keys = {x, y}
    MaxTrackedKeys = 1
    Limit <- MCLimit
    WindowMs <- MCWindowMs
    MaxTime = 5
INVARIANT RecordedIsNotBad
CHECK_DEADLOCK FALSE
