SPECIFICATION FairSpec
CONSTANTS
    p1 = p1
    p2 = p2
    v1 = v1
    v2 = v2
    Reader = {r1, r2}
    MaxRequests = 2
    ConsecutiveLimit = 2
    VolumeLimit = 3
    MaxInGeneration = 3
    Summarizer = {r1}
    Province = {p1, p2}
    Vote = {v1, v2}
    ProvinceOf <- MCProvinceOf
    Consumer = {c1}
    None = None
    MaxOutages = 1
    MaxCancels = 1
INVARIANTS
    TypeOK
    CountsAgree
    HalfOpenDecides
    NationalWithinProvinces
PROPERTIES
    ReadsAnswered
    AnswersRecover
CHECK_DEADLOCK FALSE
