------------------------------ MODULE OtpProofs ------------------------------
(***************************************************************************)
(* Proofs about the one-time passwords of OnlineVoting: how many guesses   *)
(* and how many tokens a session can have, for any number of concurrent    *)
(* requests and any limit.                                                 *)
(*                                                                         *)
(* A guess takes an attempt that CountAttempt let pass, and a token takes  *)
(* a guess. Between taking and using, the request itself stands for what   *)
(* it has taken: the invariant counts the requests in between.             *)
(***************************************************************************)
EXTENDS OnlineVotingProofs, FiniteSetTheorems

\* The requests of session s at one of the steps S.
AtFor(S, s) == {r \in Request : req[r].step \in S /\ req[r].session = s}

WinningSteps == {"consumeOtp", "activate", "signToken"}
Guessing(s) == AtFor({"readOtp"}, s)
Winning(s) == AtFor(WinningSteps, s)
TokensOf(s) == {t \in Token : issuedTo[t] = s}

GuessesTaken ==
    \A s \in Session :
        /\ guesses[s] + Cardinality(Guessing(s)) <= attempts[s]
        /\ guesses[s] + Cardinality(Guessing(s)) <= MaxOtpAttempts

TokensTaken ==
    \A s \in Session :
        /\ IsFiniteSet(TokensOf(s))
        /\ Cardinality(TokensOf(s)) + Cardinality(Winning(s)) <= guesses[s]

\* A request that is to compare an OTP has one.
OtpKnown == \A r \in Request : req[r].step \in {"countAttempt", "readOtp"} => req[r].otp \in Otp

OtpInv == GuessesTaken /\ TokensTaken /\ OtpKnown

-----------------------------------------------------------------------------
(* Counting requests                                                       *)

LEMMA AtForIsFinite ==
  ASSUME NEW S, NEW s
  PROVE  IsFiniteSet(AtFor(S, s)) /\ Cardinality(AtFor(S, s)) \in Nat
<1>1. AtFor(S, s) \subseteq Request
  BY DEF AtFor
<1> QED BY <1>1, OnlineVotingAssumption, FS_Subset, FS_CardinalityType

LEMMA FewerRequests ==
  ASSUME NEW S, NEW s, AtFor(S, s)' \subseteq AtFor(S, s)
  PROVE  IsFiniteSet(AtFor(S, s)') /\ Cardinality(AtFor(S, s)') <= Cardinality(AtFor(S, s))
         /\ Cardinality(AtFor(S, s)') \in Nat
<1>1. IsFiniteSet(AtFor(S, s))
  BY AtForIsFinite
<1> HIDE DEF AtFor
<1> QED BY <1>1, FS_Subset, FS_CardinalityType

\* One request enters or leaves.
LEMMA RequestEnters ==
  ASSUME NEW S, NEW s, NEW r \in Request, r \notin AtFor(S, s),
         AtFor(S, s)' = AtFor(S, s) \cup {r}
  PROVE  Cardinality(AtFor(S, s)') = Cardinality(AtFor(S, s)) + 1
  BY AtForIsFinite, FS_AddElement

LEMMA RequestLeaves ==
  ASSUME NEW S, NEW s, NEW r \in AtFor(S, s), AtFor(S, s)' = AtFor(S, s) \ {r}
  PROVE  Cardinality(AtFor(S, s)') = Cardinality(AtFor(S, s)) - 1
  BY AtForIsFinite, FS_RemoveElement

-----------------------------------------------------------------------------
(* Calm steps: nobody comes to guess or wins, and no guess or token is made.*)

Calm ==
    /\ UNCHANGED <<guesses, issuedTo>>
    /\ \A r \in Request :
          \/ req'[r] = req[r]
          \/ req'[r].step \in {"countAttempt", "readOtp"} => req'[r].otp \in Otp
    /\ \A s \in Session :
          /\ attempts'[s] \in Nat
          /\ attempts'[s] >= attempts[s]
          /\ Guessing(s)' \subseteq Guessing(s)
          /\ Winning(s)' \subseteq Winning(s)

LEMMA CalmKeeps ==
  ASSUME TypeOK, OtpInv, Calm
  PROVE  OtpInv'
<1>o. OtpKnown'
  BY DEF OtpInv, OtpKnown, Calm
<1> SUFFICES ASSUME NEW s \in Session
             PROVE  /\ guesses'[s] + Cardinality(Guessing(s)') <= attempts'[s]
                    /\ guesses'[s] + Cardinality(Guessing(s)') <= MaxOtpAttempts
                    /\ IsFiniteSet(TokensOf(s)')
                    /\ Cardinality(TokensOf(s)') + Cardinality(Winning(s)') <= guesses'[s]
  BY <1>o DEF OtpInv, GuessesTaken, TokensTaken
<1>1. /\ guesses'[s] = guesses[s] /\ guesses[s] \in Nat
      /\ attempts[s] \in Nat /\ attempts'[s] \in Nat /\ attempts'[s] >= attempts[s]
  BY DEF TypeOK, Calm
<1>2. TokensOf(s)' = TokensOf(s) /\ IsFiniteSet(TokensOf(s)) /\ Cardinality(TokensOf(s)) \in Nat
  BY FS_CardinalityType DEF Calm, TokensOf, OtpInv, TokensTaken
<1>3. /\ Cardinality(Guessing(s)') <= Cardinality(Guessing(s))
      /\ Cardinality(Guessing(s)) \in Nat /\ Cardinality(Guessing(s)') \in Nat
  BY AtForIsFinite, FewerRequests DEF Guessing, Calm
<1>4. /\ Cardinality(Winning(s)') <= Cardinality(Winning(s))
      /\ Cardinality(Winning(s)) \in Nat /\ Cardinality(Winning(s)') \in Nat
  BY AtForIsFinite, FewerRequests DEF Winning, Calm
<1>5. /\ guesses[s] + Cardinality(Guessing(s)) <= attempts[s]
      /\ guesses[s] + Cardinality(Guessing(s)) <= MaxOtpAttempts
      /\ Cardinality(TokensOf(s)) + Cardinality(Winning(s)) <= guesses[s]
  BY DEF OtpInv, GuessesTaken, TokensTaken
<1> QED BY <1>1, <1>2, <1>3, <1>4, <1>5, OnlineVotingAssumption

-----------------------------------------------------------------------------
(* The steps                                                               *)

\* What a step of request r does to the sets of requests.
LEMMA OthersStay ==
  ASSUME NEW r \in Request, \A q \in Request \ {r} : req'[q] = req[q], NEW S, NEW s
  PROVE  /\ AtFor(S, s)' \ {r} = AtFor(S, s) \ {r}
         /\ r \in AtFor(S, s)' <=> req'[r].step \in S /\ req'[r].session = s
         /\ r \in AtFor(S, s) <=> req[r].step \in S /\ req[r].session = s
  BY DEF AtFor

\* A request that does not come to guess or win is calm.
LEMMA CalmRequest ==
  ASSUME TypeOK, NEW r \in Request, \A q \in Request \ {r} : req'[q] = req[q],
         \/ req'[r].step \notin {"readOtp"} \cup WinningSteps
         \/ /\ req[r].step \in WinningSteps /\ req'[r].step \in WinningSteps
            /\ req'[r].session = req[r].session,
         req'[r].step = "countAttempt" => req'[r].otp \in Otp,
         UNCHANGED <<guesses, issuedTo>>,
         \A s \in Session : attempts'[s] \in Nat /\ attempts'[s] >= attempts[s]
  PROVE  Calm
  BY DEF Calm, Guessing, Winning, AtFor, WinningSteps

LEMMA CalmSteps ==
  ASSUME TypeOK, LocalsSet, [Next]_vars
  PROVE  \/ Calm
         \/ \E r \in Request : CountAttempt(r) \/ ReadOtp(r) \/ SignToken(r)
<1> USE DEF Step, OtpSteps, TxSteps, PostSteps, sessionVars, authVars, At
<1>0. /\ req \in [Request -> RequestState]
      /\ \A s \in Session : attempts[s] \in Nat /\ attempts[s] >= attempts[s]
  BY DEF TypeOK
<1>i. Idle.step = "idle" /\ {"idle", "storeOtp", "countAttempt", "setLock"} \cap
         ({"readOtp"} \cup WinningSteps) = {}
  BY DEF Idle, Handler, WinningSteps
<1>1. ASSUME NEW r \in Request, Authenticating(r) PROVE Calm
  <2>1. ASSUME NEW s \in Session, RequestOtp(r, s) PROVE Calm
    <3>1. Handler("storeOtp", s, None, None, None, None) \in RequestState
      BY DEF Handler, RequestState
    <3> QED BY <1>0, <1>i, <2>1, <3>1, StartFacts, CalmRequest DEF RequestOtp, Handler
  <2>2. ASSUME NEW s \in Session, NEW o \in Otp, VerifyOtp(r, s, o) PROVE Calm
    <3>1. Handler("countAttempt", s, None, None, None, o) \in RequestState
      BY DEF Handler, RequestState
    <3> QED BY <1>0, <1>i, <2>2, <3>1, StartFacts, CalmRequest DEF VerifyOtp, Handler
  <2> QED BY <1>1, <2>1, <2>2 DEF Authenticating
<1>2. ASSUME NEW r \in Request, NEW t \in Token, NEW b \in Ballot, NEW c \in Choice,
             CastVote(r, t, b, c)
      PROVE Calm
  <2>1. Handler("setLock", issuedTo[t], b, c, t, None) \in RequestState
    BY <1>2 DEF Handler, RequestState, TypeOK
  <2> QED BY <1>0, <1>i, <1>2, <2>1, StartFacts, CalmRequest DEF CastVote, Handler
<1>3. ASSUME NEW r \in Request, AuthStep(r) PROVE Calm \/ CountAttempt(r) \/ ReadOtp(r) \/ SignToken(r)
  <2>1. CASE StoreOtp(r) \/ LockOut(r)
    BY <1>0, <1>i, <2>1, FinishFacts, CalmRequest DEF StoreOtp, LockOut
  <2>2. CASE ConsumeOtp(r) \/ Activate(r)
    BY <1>0, <2>2, GotoFacts, CalmRequest DEF ConsumeOtp, Activate, WinningSteps
  <2> QED BY <1>3, <2>1, <2>2 DEF AuthStep
<1>4. ASSUME NEW r \in Request, CastStep(r) PROVE Calm
  <2>1. UNCHANGED <<guesses, issuedTo, attempts>>
    BY <1>4 DEF CastStep, SetLock, InsertVoteEvent, InsertVoterRightsUsed, Commit, MarkVoting,
                PublishVote, EnqueueReceipt, ReleaseLock
  <2>2. Finish(r) \/ \E l \in TxSteps \cup PostSteps \cup {"releaseRefused"} : Goto(r, l)
    BY <1>4 DEF CastStep, SetLock, InsertVoteEvent, InsertVoterRightsUsed, Commit,
                AfterCommitError, MarkVoting, PublishVote, EnqueueReceipt, ReleaseLock
  <2> QED BY <1>0, <1>i, <2>1, <2>2, GotoFacts, FinishFacts, CalmRequest DEF WinningSteps
<1>5. ASSUME NEW r \in Request, Fail(r) PROVE Calm
  <2>1. Finish(r) \/ Goto(r, "releaseRefused")
    BY <1>5 DEF Fail
  <2> QED BY <1>0, <1>i, <1>5, <2>1, GotoFacts, FinishFacts, CalmRequest DEF Fail, WinningSteps
<1>6. ASSUME NEW r \in Request, LostAnswer(r) PROVE Calm
  <2>1. req[r].session \in Session
    BY <1>6, SessionOf DEF LostAnswer
  <2>2. \A s \in Session : attempts'[s] \in Nat /\ attempts'[s] >= attempts[s]
    BY <1>6, <2>1 DEF LostAnswer, TypeOK
  <2> QED BY <1>0, <1>i, <1>6, <2>2, FinishFacts, CalmRequest DEF LostAnswer
<1>7. CASE Background
  <2>1. UNCHANGED <<guesses, issuedTo, attempts>>
    BY <1>7 DEF Background, LockExpires, OtpExpires, SessionDeadline, TokenExpires,
                IssueReceipt, CleanupSessions, Crash
  <2>2. UNCHANGED req \/ req' = [r \in Request |-> Idle]
    BY <1>7 DEF Background, LockExpires, OtpExpires, SessionDeadline, TokenExpires,
                IssueReceipt, CleanupSessions, Crash
  <2> QED BY <1>0, <1>i, <2>1, <2>2 DEF Calm, Guessing, Winning, AtFor
<1>8. ASSUME NEW s \in Session, VerifyID(s) PROVE Calm
  BY <1>0, <1>8 DEF VerifyID, Calm, Guessing, Winning, AtFor
<1>9. CASE UNCHANGED vars
  BY <1>0, <1>9 DEF vars, Calm, Guessing, Winning, AtFor
<1> QED BY <1>1, <1>2, <1>3, <1>4, <1>5, <1>6, <1>7, <1>8, <1>9 DEF Next

LEMMA CountAttemptKeeps ==
  ASSUME TypeOK, LocalsSet, OtpInv, NEW r \in Request, CountAttempt(r)
  PROVE  OtpInv'
<1> USE DEF Step, OtpSteps, TxSteps, PostSteps, At
<1>0. req[r].step = "countAttempt"
  BY DEF CountAttempt
<1>p. PICK s0 \in Session : s0 = req[r].session
  BY <1>0, SessionOf
<1>1. req[r].step = "countAttempt" /\ req[r].session = s0 /\ req[r].otp \in Otp
  BY <1>0, <1>p DEF OtpInv, OtpKnown
<1>2. /\ attempts' = [attempts EXCEPT ![s0] = @ + 1]
      /\ attempts[s0] \in Nat
      /\ \A s \in Session : attempts'[s] \in Nat /\ attempts'[s] >= attempts[s]
      /\ UNCHANGED <<guesses, issuedTo>>
  BY <1>1 DEF CountAttempt, TypeOK, authVars
<1>3. CASE TooManyAttempts(attempts[s0] + 1)
  <2>1. Calm
    BY <1>2, <1>3, GotoFacts, CalmRequest DEF CountAttempt, TypeOK, WinningSteps
  <2> QED BY <2>1, CalmKeeps
<1>4. CASE ~TooManyAttempts(attempts[s0] + 1)
  <2>1. /\ req'[r].step = "readOtp" /\ req'[r].session = s0 /\ req'[r].otp = req[r].otp
        /\ \A q \in Request \ {r} : req'[q] = req[q]
    <3>1. Goto(r, "readOtp") /\ req[r] \in RequestState
      BY <1>1, <1>4 DEF CountAttempt, TypeOK
    <3> QED BY <1>1, <3>1 DEF Goto, RequestState, TypeOK
  <2>2. Guessing(s0)' = Guessing(s0) \cup {r} /\ r \notin Guessing(s0)
    BY <1>1, <2>1 DEF Guessing, AtFor
  <2>3. \A s \in Session \ {s0} : Guessing(s)' = Guessing(s)
    BY <1>1, <2>1 DEF Guessing, AtFor
  <2>4. \A s \in Session : Winning(s)' = Winning(s)
    BY <1>1, <2>1 DEF Winning, AtFor, WinningSteps
  <2>5. attempts[s0] + 1 <= MaxOtpAttempts
    BY <1>2, <1>4, OnlineVotingAssumption DEF TooManyAttempts
  <2>6. Cardinality(Guessing(s0)') = Cardinality(Guessing(s0)) + 1
    BY <2>2, RequestEnters DEF Guessing
  <2>7. GuessesTaken'
    <3> SUFFICES ASSUME NEW s \in Session
                 PROVE  /\ guesses[s] + Cardinality(Guessing(s)') <= attempts'[s]
                        /\ guesses[s] + Cardinality(Guessing(s)') <= MaxOtpAttempts
      BY <1>2 DEF GuessesTaken
    <3>1. /\ guesses[s] + Cardinality(Guessing(s)) <= attempts[s]
          /\ guesses[s] + Cardinality(Guessing(s)) <= MaxOtpAttempts
          /\ guesses[s] \in Nat /\ Cardinality(Guessing(s)) \in Nat /\ attempts[s] \in Nat
      BY AtForIsFinite DEF OtpInv, GuessesTaken, TypeOK, Guessing
    <3>2. CASE s = s0
      <4>1. attempts'[s0] = attempts[s0] + 1
        BY <1>1, <1>2 DEF TypeOK
      <4> QED BY <2>5, <2>6, <3>1, <3>2, <4>1, OnlineVotingAssumption
    <3>3. CASE s # s0
      <4>1. attempts'[s] = attempts[s]
        BY <1>2, <3>3 DEF TypeOK
      <4> QED BY <2>3, <3>1, <3>3, <4>1
    <3> QED BY <3>2, <3>3
  <2>8. TokensTaken'
    BY <1>2, <2>4 DEF OtpInv, TokensTaken, TokensOf
  <2>9. OtpKnown'
    BY <1>1, <2>1 DEF OtpInv, OtpKnown
  <2> QED BY <2>7, <2>8, <2>9 DEF OtpInv
<1> QED BY <1>3, <1>4

LEMMA ReadOtpKeeps ==
  ASSUME TypeOK, LocalsSet, OtpInv, NEW r \in Request, ReadOtp(r)
  PROVE  OtpInv'
<1> USE DEF Step, OtpSteps, TxSteps, PostSteps, At
<1>0. req[r].step = "readOtp"
  BY DEF ReadOtp
<1>p. PICK s0 \in Session : s0 = req[r].session
  BY <1>0, SessionOf
<1>1. req[r].step = "readOtp" /\ req[r].session = s0 /\ req[r].otp \in Otp
  BY <1>0, <1>p DEF OtpInv, OtpKnown
<1>2. /\ UNCHANGED <<attempts, issuedTo>>
      /\ guesses \in [Session -> Nat]
      /\ guesses' = IF otp[s0] = None THEN guesses ELSE [guesses EXCEPT ![s0] = @ + 1]
  BY <1>1 DEF ReadOtp, TypeOK, authVars
<1>3. /\ req'[r].step \in {"consumeOtp", "idle"}
      /\ req'[r].step = "consumeOtp" => req'[r].session = s0 /\ OtpMatches(r)
      /\ \A q \in Request \ {r} : req'[q] = req[q]
  <2>1. CASE OtpMatches(r) /\ Goto(r, "consumeOtp")
    BY <1>1, <2>1, GotoFacts DEF TypeOK
  <2>2. CASE Finish(r)
    BY <1>1, <2>2, FinishFacts DEF TypeOK, Idle, Handler
  <2> QED BY <2>1, <2>2 DEF ReadOtp
<1>4. Guessing(s0)' = Guessing(s0) \ {r} /\ r \in Guessing(s0)
      /\ \A s \in Session \ {s0} : Guessing(s)' = Guessing(s) /\ Winning(s)' = Winning(s)
  BY <1>1, <1>3 DEF Guessing, Winning, AtFor, WinningSteps
<1>5. Cardinality(Guessing(s0)') = Cardinality(Guessing(s0)) - 1
  BY <1>4, RequestLeaves DEF Guessing
<1>6. \A s \in Session : s # s0 => guesses'[s] = guesses[s]
  BY <1>2
<1>7. guesses'[s0] \in {guesses[s0], guesses[s0] + 1}
  BY <1>1, <1>2
<1>8. GuessesTaken'
  <2> SUFFICES ASSUME NEW s \in Session
               PROVE  /\ guesses'[s] + Cardinality(Guessing(s)') <= attempts[s]
                      /\ guesses'[s] + Cardinality(Guessing(s)') <= MaxOtpAttempts
    BY <1>2 DEF GuessesTaken
  <2>1. /\ guesses[s] + Cardinality(Guessing(s)) <= attempts[s]
        /\ guesses[s] + Cardinality(Guessing(s)) <= MaxOtpAttempts
        /\ guesses[s] \in Nat /\ Cardinality(Guessing(s)) \in Nat /\ attempts[s] \in Nat
    BY AtForIsFinite DEF OtpInv, GuessesTaken, TypeOK, Guessing
  <2>2. CASE s = s0
    BY <1>5, <1>7, <2>1, <2>2, OnlineVotingAssumption
  <2>3. CASE s # s0
    BY <1>4, <1>6, <2>1, <2>3
  <2> QED BY <2>2, <2>3
<1>9. TokensTaken'
  <2> SUFFICES ASSUME NEW s \in Session
               PROVE  /\ IsFiniteSet(TokensOf(s))
                      /\ Cardinality(TokensOf(s)) + Cardinality(Winning(s)') <= guesses'[s]
    BY <1>2 DEF TokensTaken, TokensOf
  <2>1. /\ IsFiniteSet(TokensOf(s)) /\ Cardinality(TokensOf(s)) \in Nat
        /\ Cardinality(Winning(s)) \in Nat /\ guesses[s] \in Nat
        /\ Cardinality(TokensOf(s)) + Cardinality(Winning(s)) <= guesses[s]
    BY AtForIsFinite, FS_CardinalityType DEF OtpInv, TokensTaken, TypeOK, Winning
  <2>2. CASE s # s0
    BY <1>4, <1>6, <2>1, <2>2
  <2>3. CASE s = s0 /\ req'[r].step = "consumeOtp"
    <3>1. guesses'[s0] = guesses[s0] + 1
      BY <1>1, <1>2, <1>3, <2>3, OnlineVotingAssumption DEF OtpMatches
    <3>2. Winning(s0)' = Winning(s0) \cup {r} /\ r \notin Winning(s0)
      BY <1>1, <1>3, <2>3 DEF Winning, AtFor, WinningSteps
    <3>3. Cardinality(Winning(s0)') = Cardinality(Winning(s0)) + 1
      BY <3>2, RequestEnters DEF Winning
    <3> QED BY <2>1, <2>3, <3>1, <3>3
  <2>4. CASE s = s0 /\ req'[r].step = "idle"
    <3>1. Winning(s0)' = Winning(s0)
      BY <1>1, <1>3, <2>4 DEF Winning, AtFor, WinningSteps
    <3> QED BY <1>7, <2>1, <2>4, <3>1
  <2> QED BY <1>3, <2>2, <2>3, <2>4
<1>10. OtpKnown'
  BY <1>3 DEF OtpInv, OtpKnown
<1> QED BY <1>8, <1>9, <1>10 DEF OtpInv

LEMMA SignTokenKeeps ==
  ASSUME TypeOK, LocalsSet, OtpInv, NEW r \in Request, SignToken(r)
  PROVE  OtpInv'
<1> USE DEF Step, OtpSteps, TxSteps, PostSteps, At
<1>0. req[r].step = "signToken"
  BY DEF SignToken
<1>p. PICK s0 \in Session : s0 = req[r].session
  BY <1>0, SessionOf
<1>1. /\ req[r].step = "signToken" /\ req[r].session = s0
      /\ UNCHANGED <<attempts, guesses>>
  BY <1>0, <1>p DEF SignToken, sessionVars
<1>2. PICK t \in Token : issuedTo[t] = None /\ issuedTo' = [issuedTo EXCEPT ![t] = s0]
  BY <1>1 DEF SignToken
<1>3. req'[r].step = "idle" /\ \A q \in Request \ {r} : req'[q] = req[q]
  BY FinishFacts DEF SignToken, TypeOK, Idle, Handler
<1>4. \A s \in Session : Guessing(s)' = Guessing(s)
  BY <1>1, <1>3 DEF Guessing, AtFor
<1>5. Winning(s0)' = Winning(s0) \ {r} /\ r \in Winning(s0)
      /\ \A s \in Session \ {s0} : Winning(s)' = Winning(s)
  BY <1>1, <1>3 DEF Winning, AtFor, WinningSteps
<1>6. Cardinality(Winning(s0)') = Cardinality(Winning(s0)) - 1
  BY <1>5, RequestLeaves DEF Winning
<1>7. TokensOf(s0)' = TokensOf(s0) \cup {t} /\ t \notin TokensOf(s0)
      /\ \A s \in Session \ {s0} : TokensOf(s)' = TokensOf(s)
  BY <1>1, <1>2, OnlineVotingAssumption DEF TokensOf, TypeOK
<1>8. GuessesTaken'
  BY <1>1, <1>4 DEF OtpInv, GuessesTaken
<1>9. TokensTaken'
  <2> SUFFICES ASSUME NEW s \in Session
               PROVE  /\ IsFiniteSet(TokensOf(s)')
                      /\ Cardinality(TokensOf(s)') + Cardinality(Winning(s)') <= guesses[s]
    BY <1>1 DEF TokensTaken
  <2>1. /\ IsFiniteSet(TokensOf(s)) /\ Cardinality(TokensOf(s)) \in Nat
        /\ Cardinality(Winning(s)) \in Nat /\ guesses[s] \in Nat
        /\ Cardinality(TokensOf(s)) + Cardinality(Winning(s)) <= guesses[s]
    BY AtForIsFinite, FS_CardinalityType DEF OtpInv, TokensTaken, TypeOK, Winning
  <2>2. CASE s # s0
    BY <1>5, <1>7, <2>1, <2>2
  <2>3. CASE s = s0
    <3>1. IsFiniteSet(TokensOf(s)') /\ Cardinality(TokensOf(s)') = Cardinality(TokensOf(s)) + 1
      BY <1>7, <2>1, <2>3, FS_AddElement
    <3> QED BY <1>6, <2>1, <2>3, <3>1
  <2> QED BY <2>2, <2>3
<1>10. OtpKnown'
  BY <1>3 DEF OtpInv, OtpKnown
<1> QED BY <1>8, <1>9, <1>10 DEF OtpInv

-----------------------------------------------------------------------------
(* The theorems                                                            *)

LEMMA OtpInit ==
  ASSUME Init
  PROVE  OtpInv
<1>1. \A r \in Request : req[r].step = "idle"
  BY DEF Init, Idle, Handler
<1>2. \A s \in Session : Guessing(s) = {} /\ Winning(s) = {} /\ TokensOf(s) = {}
  BY <1>1, OnlineVotingAssumption DEF Init, Guessing, Winning, AtFor, WinningSteps, TokensOf
<1>3. IsFiniteSet({}) /\ Cardinality({}) = 0
  BY FS_EmptySet
<1>4. \A s \in Session : guesses[s] = 0 /\ attempts[s] = 0
  BY DEF Init
<1>5. GuessesTaken /\ TokensTaken
  <2>1. \A s \in Session : Cardinality(Guessing(s)) = 0 /\ Cardinality(Winning(s)) = 0
                           /\ Cardinality(TokensOf(s)) = 0 /\ IsFiniteSet(TokensOf(s))
    BY <1>2, <1>3
  <2> QED BY <1>4, <2>1, OnlineVotingAssumption DEF GuessesTaken, TokensTaken
<1> QED BY <1>1, <1>5 DEF OtpInv, OtpKnown

LEMMA OtpNext ==
  ASSUME IInv, OtpInv, [Next]_vars
  PROVE  OtpInv'
  BY CalmSteps, CalmKeeps, CountAttemptKeeps, ReadOtpKeeps, SignTokenKeeps DEF IInv

LEMMA OtpInvariance == Spec => []OtpInv
  BY OtpInit, OtpNext, Invariance, PTL DEF Spec

\* However many requests verify at once, at most MaxOtpAttempts OTPs of a
\* session are compared, for any limit.
THEOREM GuessesAreBounded == Spec => []GuessesBounded
<1>1. TypeOK /\ OtpInv => GuessesBounded
  <2> SUFFICES ASSUME TypeOK, OtpInv, NEW s \in Session PROVE guesses[s] <= MaxOtpAttempts
    BY DEF GuessesBounded
  <2>1. Cardinality(Guessing(s)) \in Nat /\ guesses[s] \in Nat
    BY AtForIsFinite DEF Guessing, TypeOK
  <2> QED BY <2>1, OnlineVotingAssumption DEF OtpInv, GuessesTaken
<1> QED BY <1>1, OtpInvariance, TypeCorrect, PTL

\* A session never has more tokens than guesses, also when requests with the
\* same OTP overtake its deletion.
THEOREM TokensAreBounded == Spec => []TokensTakeGuesses
<1>1. TypeOK /\ OtpInv => TokensTakeGuesses
  <2> SUFFICES ASSUME TypeOK, OtpInv, NEW s \in Session
               PROVE  Cardinality(TokensOf(s)) <= guesses[s]
    BY DEF TokensTakeGuesses, TokensOf
  <2>1. /\ Cardinality(Winning(s)) \in Nat /\ Cardinality(TokensOf(s)) \in Nat
        /\ guesses[s] \in Nat
    BY AtForIsFinite, FS_CardinalityType DEF Winning, TypeOK, OtpInv, TokensTaken
  <2> QED BY <2>1 DEF OtpInv, TokensTaken
<1> QED BY <1>1, OtpInvariance, TypeCorrect, PTL
==============================================================================
