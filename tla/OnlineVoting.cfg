CONSTANTS
    Session = {s1}
    Ballot = {constituency}
    Choice = {c1}
    Otp = {o1, o2}
    Token = {t1, t2}
    Request = {r1, r2, r3}
    None = None
    MaxOtpAttempts = 2
    AttemptBound = 2
SPECIFICATION Spec
SYMMETRY Symmetry
INVARIANTS TypeOK OneVotePerBallot RightsMatchVotes AcceptedIsRecorded OnlineIsRecorded ReceiptsProveVotes GuessesBounded TokensTakeGuesses
PROPERTIES ImplementsBallotBox
CHECK_DEADLOCK FALSE
