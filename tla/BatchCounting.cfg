SPECIFICATION FairSpec
CONSTANTS
    p1 = p1
    p2 = p2
    b1 = b1
    b2 = b2
    v1 = v1
    Report = {}
    Genuine = {}
    Batch = {b1, b2}
    BatchSize = 1
    OnlineVote = {v1}
    BallotOf <- MCBallotOf
    Request = {r1}
    None = None
    MaxRetries = 2
    MaxAttempts = 3
    MaxSends = 2
    MaxLog = 2
    MaxCrashes = 1
INVARIANTS
    CountedIsRecorded
    RedisWithinSends
PROPERTIES
    PublishedIsSettled
    ImplementsTallySheet
CHECK_DEADLOCK FALSE
