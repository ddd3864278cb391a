SPECIFICATION Spec
CONSTANTS
    u1 = u1
    u2 = u2
    u3 = u3
    u4 = u4
    c1 = c1
    c2 = c2
    c3 = c3
    p1 = p1
    p2 = p2
    Voter = {u1, u3, u4}
    Eligible = {u1, u3}
    Constituency = {c1, c3}
    Province = {p1, p2}
    RegisteredIn <- MCRegisteredIn
    ProvinceOf <- MCProvinceOf
    Session = {s1, s2}
    Token = {t1, t2}
    Ballot = {"CONSTITUENCY", "PARTY_LIST"}
    Choice = {c1, c3, None}
    Request = {r1, r2}
    None = None
SYMMETRY Symmetry
INVARIANTS
    TypeOK
    PapersOfOwnProvince
    VotesCountAtHome
    VotesWithinSessions
    CastIsVoted
CHECK_DEADLOCK FALSE
