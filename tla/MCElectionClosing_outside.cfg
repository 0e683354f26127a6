\* Two closings, one write past the application, one fault.
SPECIFICATION Spec
CONSTANTS
    s1 = s1
    s2 = s2
    b1 = b1
    NoEnvelope = NoEnvelope
    NoCloser = NoCloser
    NoRoot = NoRoot
    Slots = {s1}
    Ballots = {b1}
    BallotOf <- MCOneSlot
    Ciphers = {x, y}
    MaxSequence = 1
    Requests = {r1}
    Closers = {c1, c2}
    MaxFaults = 1
    MaxOutside = 1
INVARIANTS ErasedIsWhatWasMoved
PROPERTIES AnswersAreTrue RemovalIsAlarmed
\* With every call answered and every closing over, nothing is left to do.
CHECK_DEADLOCK FALSE
