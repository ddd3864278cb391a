CONSTANTS
    Session = {s1}
    Ballot = {constituency}
    Choice = {c1}
    Otp = {o1, o2}
    Token = {t1}
    Request = {r1, r2}
    None = None
    MaxOtpAttempts = 1
    AttemptBound = 2
SPECIFICATION FairSpec
PROPERTIES RequestsReturn LocksAreFreed
CHECK_DEADLOCK FALSE
