SPECIFICATION Spec
CONSTANTS
    p1 = p1
    p2 = p2
    b1 = b1
    b2 = b2
    v1 = v1
    Report = {p1, p2}
    Genuine = {p1}
    Batch = {}
    BatchSize = 0
    OnlineVote = {}
    BallotOf <- MCBallotOf
    Request = {r1, r2}
    None = None
    MaxRetries = 2
    MaxAttempts = 3
    MaxSends = 2
    MaxLog = 3
    MaxCrashes = 1
INVARIANTS
    TypeOK
    PhysicalCountedOnce
    OnlyGenuineCounted
    NoSilentSkip
CHECK_DEADLOCK FALSE
