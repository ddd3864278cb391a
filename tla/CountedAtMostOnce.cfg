SPECIFICATION Spec
CONSTANTS
    p1 = p1
    p2 = p2
    b1 = b1
    b2 = b2
    v1 = v1
    Report = {}
    Genuine = {}
    Batch = {}
    BatchSize = 0
    OnlineVote = {v1}
    BallotOf <- MCBallotOf
    Request = {r1}
    None = None
    MaxRetries = 2
    MaxAttempts = 3
    MaxSends = 2
    MaxLog = 2
    MaxCrashes = 1
INVARIANT
    CountedAtMostOnce
CHECK_DEADLOCK FALSE
