SPECIFICATION Spec
CONSTANTS
    p1 = p1
    p2 = p2
    b1 = b1
    b2 = b2
    v1 = v1
    Report = {p1}
    Genuine = {p1}
    Batch = {}
    BatchSize = 0
    OnlineVote = {}
    BallotOf <- MCBallotOf
    Request = {r1, r2}
    None = None
    MaxRetries = 2
    MaxAttempts = 3
    MaxSends = 1
    MaxLog = 2
    MaxCrashes = 1
INVARIANT
    DuplicateWasAccepted
CHECK_DEADLOCK FALSE
