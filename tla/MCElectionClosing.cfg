\* Two closings, a lost lock or a crash at any step, two voters with copies,
\* and a request that may come a second time.
SPECIFICATION Spec
CONSTANTS
    s1 = s1
    s2 = s2
    b1 = b1
    NoEnvelope = NoEnvelope
    NoCloser = NoCloser
    NoRoot = NoRoot
    Slots = {s1, s2}
    Ballots = {b1}
    BallotOf <- MCBallotOf
    Ciphers = {x}
    MaxSequence = 2
    Requests = {r1}
    Closers = {c1, c2}
    MaxFaults = 2
    MaxOutside = 0
INVARIANTS UrnIsTheReceipts ClosingIsSafe
PROPERTIES KeepsThePromise ClosingRecovers EveryClosingAnswers
\* With every call answered and every closing over, nothing is left to do.
CHECK_DEADLOCK FALSE
