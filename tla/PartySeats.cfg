SPECIFICATION FairSpec
CONSTANTS
    Party = {p1, p2}
    TotalPartyListSeats = 100
    Contender = {q1, q2, q3, q4}
    MaxVotes = 18
    VoteCount = {1}
    Consumer = {party_list}
    Task = {k1, k2}
    Request = {r1}
    None = None
    MaxUpdates = 2
    MaxFailures = 1
INVARIANTS
    TypeOK
    ReadersSeeAllocations
    AllocationIsLargestRemainder
    VotesCostNoSeat
PROPERTIES
    SeatsSettle
    CacheSettles
CHECK_DEADLOCK FALSE
