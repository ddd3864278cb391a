------------------------- MODULE OnlineVotingProofs -------------------------
(***************************************************************************)
(* Proofs about OnlineVoting for any number of sessions, requests, ballots *)
(* and tokens.                                                             *)
(*                                                                         *)
(* The safety properties follow from an inductive invariant with two ideas.*)
(* While a transaction is open, its right is held: no other transaction    *)
(* holds the same event key (HoldersDiffer), and the right is not used yet *)
(* (HeldIsUnused). After the commit, the vote of the request is recorded   *)
(* (DoneIsRecorded), and everything that leaves the handler, the message,  *)
(* the receipt task and the answer, is derived from that vote.             *)
(***************************************************************************)
EXTENDS OnlineVoting, TLAPS

CastSteps == {"setLock", "releaseRefused"} \cup TxSteps \cup PostSteps

\* A request in an OTP handler knows its session; one in CastVote knows its vote.
LocalsSet ==
    \A r \in Request :
        /\ ~At(r, "idle") => req[r].session \in Session
        /\ req[r].step \in CastSteps => VoteOf(r) \in Vote

\* Only a token that was issued to a session is presented.
LiveIsIssued == \A t \in liveTokens : issuedTo[t] \in Session

\* Two open transactions never hold the same event key.
HoldersDiffer ==
    \A r, q \in Request :
        (/\ req[r].step \in EventHolders
         /\ req[q].step \in EventHolders
         /\ RightOf(r) = RightOf(q)) => r = q

\* The right a transaction has passed the event index for is not used yet.
HeldIsUnused ==
    \A r \in Request : req[r].step \in EventHolders => RightOf(r) \notin rightsUsed

\* A handler beyond its commit has its vote in vote_events.
DoneIsRecorded ==
    \A r \in Request : req[r].step \in PostSteps => VoteOf(r) \in voteEvents

\* What the transaction and the steps after it maintain.
Core ==
    /\ HoldersDiffer /\ HeldIsUnused /\ DoneIsRecorded
    /\ OneVotePerBallot /\ RightsMatchVotes
    /\ AcceptedIsRecorded /\ OnlineIsRecorded /\ ReceiptsProveVotes

IInv == TypeOK /\ LocalsSet /\ LiveIsIssued /\ Core

-----------------------------------------------------------------------------
(* What the three ways a request moves do to it and to the others.         *)

LEMMA StartFacts ==
  ASSUME req \in [Request -> RequestState], NEW r \in Request,
         NEW h \in RequestState, Start(r, h)
  PROVE  /\ req' \in [Request -> RequestState]
         /\ req'[r] = h
         /\ \A q \in Request \ {r} : req'[q] = req[q]
  BY DEF Start

LEMMA FinishFacts ==
  ASSUME req \in [Request -> RequestState], NEW r \in Request, Finish(r)
  PROVE  /\ req' \in [Request -> RequestState]
         /\ req'[r] = Idle
         /\ \A q \in Request \ {r} : req'[q] = req[q]
  BY DEF Finish, Idle, Handler, RequestState, Step

LEMMA GotoFacts ==
  ASSUME req \in [Request -> RequestState], NEW r \in Request,
         NEW l \in Step, Goto(r, l)
  PROVE  /\ req' \in [Request -> RequestState]
         /\ req'[r].step = l
         /\ req'[r].session = req[r].session
         /\ req'[r].ballot = req[r].ballot
         /\ req'[r].choice = req[r].choice
         /\ req'[r].token = req[r].token
         /\ \A q \in Request \ {r} : req'[q] = req[q]
<1>1. req[r] \in RequestState
  OBVIOUS
<1>2. [req[r] EXCEPT !.step = l] \in RequestState
  BY <1>1 DEF RequestState
<1>3. req' = [req EXCEPT ![r] = [req[r] EXCEPT !.step = l]]
  BY DEF Goto
<1> QED BY <1>1, <1>2, <1>3 DEF RequestState

-----------------------------------------------------------------------------
\* The variables of every handler keep their types, whatever call comes next.
LEMMA TypeInit == Init => TypeOK
  BY DEF Init, TypeOK, Idle, Handler, RequestState, Step

\* A request beyond "idle" belongs to a session.
LEMMA SessionOf ==
  ASSUME LocalsSet, NEW r \in Request, req[r].step # "idle"
  PROVE  req[r].session \in Session
  BY DEF LocalsSet, At

LEMMA TypeNext ==
  ASSUME TypeOK, LocalsSet, [Next]_vars
  PROVE  TypeOK'
<1> USE DEF TypeOK, Step, OtpSteps, TxSteps, PostSteps, Status,
            sessionVars, authVars, voteVars, outVars, At
<1>1. ASSUME NEW s \in Session, VerifyID(s) PROVE TypeOK'
  BY <1>1 DEF VerifyID
<1>2. ASSUME NEW r \in Request, Authenticating(r) PROVE TypeOK'
  <2>1. ASSUME NEW s \in Session, RequestOtp(r, s) PROVE TypeOK'
    <3>1. Handler("storeOtp", s, None, None, None, None) \in RequestState
      BY DEF Handler, RequestState
    <3> QED BY <2>1, <3>1, StartFacts DEF RequestOtp
  <2>2. ASSUME NEW s \in Session, NEW o \in Otp, VerifyOtp(r, s, o) PROVE TypeOK'
    <3>1. Handler("countAttempt", s, None, None, None, o) \in RequestState
      BY DEF Handler, RequestState
    <3> QED BY <2>2, <3>1, StartFacts DEF VerifyOtp
  <2> QED BY <1>2, <2>1, <2>2 DEF Authenticating
<1>3. ASSUME NEW r \in Request, AuthStep(r) PROVE TypeOK'
  <2>1. CASE StoreOtp(r)
    BY <2>1, FinishFacts DEF StoreOtp
  <2>2. CASE CountAttempt(r)
    <3>1. attempts' \in [Session -> Nat]
      BY <2>2, SessionOf DEF CountAttempt
    <3>2. req' \in [Request -> RequestState]
      BY <2>2, GotoFacts DEF CountAttempt
    <3> QED BY <2>2, <3>1, <3>2 DEF CountAttempt
  <2>3. CASE LockOut(r)
    BY <2>3, FinishFacts DEF LockOut
  <2>4. CASE ReadOtp(r)
    <3>1. guesses' \in [Session -> Nat]
      BY <2>4, SessionOf DEF ReadOtp
    <3>2. req' \in [Request -> RequestState]
      BY <2>4, GotoFacts, FinishFacts DEF ReadOtp
    <3> QED BY <2>4, <3>1, <3>2 DEF ReadOtp
  <2>5. CASE ConsumeOtp(r)
    BY <2>5, GotoFacts DEF ConsumeOtp
  <2>6. CASE Activate(r)
    BY <2>6, GotoFacts DEF Activate
  <2>7. CASE SignToken(r)
    BY <2>7, SessionOf, FinishFacts DEF SignToken
  <2> QED BY <1>3, <2>1, <2>2, <2>3, <2>4, <2>5, <2>6, <2>7 DEF AuthStep
<1>4. ASSUME NEW r \in Request, NEW t \in Token, NEW b \in Ballot, NEW c \in Choice,
             CastVote(r, t, b, c)
      PROVE TypeOK'
  <2>1. Handler("setLock", issuedTo[t], b, c, t, None) \in RequestState
    BY DEF Handler, RequestState
  <2> QED BY <1>4, <2>1, StartFacts DEF CastVote
<1>5. ASSUME NEW r \in Request, CastStep(r) PROVE TypeOK'
  <2>v. req[r].step \in CastSteps => /\ VoteOf(r) \in Vote
                                    /\ RightOf(r) \in Session \X Ballot
                                    /\ ReceiptOf(r) \in Receipt
    BY DEF LocalsSet, VoteOf, RightOf, ReceiptOf, Vote, Receipt
  <2>1. CASE SetLock(r)
    BY <2>1, SessionOf, GotoFacts, FinishFacts DEF SetLock
  <2>2. CASE InsertVoteEvent(r)
    BY <2>2, GotoFacts DEF InsertVoteEvent
  <2>3. CASE InsertVoterRightsUsed(r)
    BY <2>3, GotoFacts DEF InsertVoterRightsUsed
  <2>4. CASE Commit(r)
    BY <2>4, <2>v, GotoFacts DEF Commit, CommitRows, AfterCommitError, CastSteps
  <2>5. CASE MarkVoting(r)
    BY <2>5, GotoFacts DEF MarkVoting
  <2>6. CASE PublishVote(r)
    BY <2>6, <2>v, GotoFacts DEF PublishVote, CastSteps
  <2>7. CASE EnqueueReceipt(r)
    BY <2>7, <2>v, GotoFacts DEF EnqueueReceipt, CastSteps
  <2>8. CASE ReleaseLock(r)
    BY <2>8, <2>v, FinishFacts DEF ReleaseLock, DeleteLock, CastSteps
  <2> QED BY <1>5, <2>1, <2>2, <2>3, <2>4, <2>5, <2>6, <2>7, <2>8 DEF CastStep
<1>6. ASSUME NEW r \in Request, Fail(r) PROVE TypeOK'
  BY <1>6, GotoFacts, FinishFacts DEF Fail
<1>7. CASE Background
  <2>1. ASSUME NEW s \in Session, LockExpires(s) PROVE TypeOK'
    BY <2>1 DEF LockExpires
  <2>2. ASSUME NEW s \in Session, OtpExpires(s) PROVE TypeOK'
    BY <2>2 DEF OtpExpires
  <2>3. ASSUME NEW s \in Session, SessionDeadline(s) PROVE TypeOK'
    BY <2>3 DEF SessionDeadline
  <2>4. ASSUME NEW t \in Token, TokenExpires(t) PROVE TypeOK'
    BY <2>4 DEF TokenExpires
  <2>5. ASSUME NEW rc \in Receipt, IssueReceipt(rc) PROVE TypeOK'
    BY <2>5 DEF IssueReceipt
  <2>6. CASE CleanupSessions
    BY <2>6 DEF CleanupSessions
  <2>7. CASE Crash
    BY <2>7 DEF Crash, Idle, Handler, RequestState
  <2> QED BY <1>7, <2>1, <2>2, <2>3, <2>4, <2>5, <2>6, <2>7 DEF Background
<1>8. ASSUME NEW r \in Request, LostAnswer(r) PROVE TypeOK'
  <2>1. req[r].session \in Session /\ req' \in [Request -> RequestState]
    BY <1>8, SessionOf, FinishFacts DEF LostAnswer
  <2>2. attempts' \in [Session -> Nat]
    BY <1>8, <2>1 DEF LostAnswer
  <2> QED BY <1>8, <2>1, <2>2 DEF LostAnswer
<1>9. CASE UNCHANGED vars
  BY <1>9 DEF vars
<1> QED BY <1>1, <1>2, <1>3, <1>4, <1>5, <1>6, <1>7, <1>8, <1>9 DEF Next

-----------------------------------------------------------------------------
(* Locals: a request keeps the session and the vote it was started with.   *)

LEMMA LocalsFinish ==
  ASSUME TypeOK, LocalsSet, NEW r \in Request, Finish(r)
  PROVE  LocalsSet'
<1>1. req[r] \in RequestState /\ Idle.step = "idle" /\ "idle" \notin CastSteps
  BY DEF TypeOK, Idle, Handler, CastSteps, TxSteps, PostSteps
<1> QED BY <1>1, FinishFacts DEF TypeOK, LocalsSet, VoteOf, At

LEMMA LocalsGoto ==
  ASSUME TypeOK, LocalsSet, NEW r \in Request, NEW l \in Step, Goto(r, l),
         ~At(r, "idle"), l \in CastSteps => req[r].step \in CastSteps
  PROVE  LocalsSet'
  BY GotoFacts DEF TypeOK, LocalsSet, VoteOf, At

LEMMA LocalsNext ==
  ASSUME TypeOK, LocalsSet, LiveIsIssued, [Next]_vars
  PROVE  LocalsSet'
<1> USE DEF Step, CastSteps, OtpSteps, TxSteps, PostSteps, At
<1>1. ASSUME NEW r \in Request, Authenticating(r) PROVE LocalsSet'
  <2>1. ASSUME NEW s \in Session, RequestOtp(r, s) PROVE LocalsSet'
    <3>1. Handler("storeOtp", s, None, None, None, None) \in RequestState
      BY DEF Handler, RequestState
    <3> QED BY <2>1, <3>1, StartFacts DEF RequestOtp, TypeOK, LocalsSet, VoteOf, Handler
  <2>2. ASSUME NEW s \in Session, NEW o \in Otp, VerifyOtp(r, s, o) PROVE LocalsSet'
    <3>1. Handler("countAttempt", s, None, None, None, o) \in RequestState
      BY DEF Handler, RequestState
    <3> QED BY <2>2, <3>1, StartFacts DEF VerifyOtp, TypeOK, LocalsSet, VoteOf, Handler
  <2> QED BY <1>1, <2>1, <2>2 DEF Authenticating
<1>2. ASSUME NEW r \in Request, AuthStep(r) PROVE LocalsSet'
  BY <1>2, LocalsFinish, LocalsGoto
  DEF AuthStep, StoreOtp, CountAttempt, LockOut, ReadOtp, ConsumeOtp, Activate, SignToken
<1>3. ASSUME NEW r \in Request, NEW t \in Token, NEW b \in Ballot, NEW c \in Choice,
             CastVote(r, t, b, c)
      PROVE LocalsSet'
  <2>1. issuedTo[t] \in Session
    BY <1>3 DEF CastVote, LiveIsIssued
  <2>2. Handler("setLock", issuedTo[t], b, c, t, None) \in RequestState
    BY <2>1 DEF Handler, RequestState
  <2> QED BY <1>3, <2>1, <2>2, StartFacts DEF CastVote, TypeOK, LocalsSet, VoteOf, Vote, Handler
<1>4. ASSUME NEW r \in Request, CastStep(r) PROVE LocalsSet'
  BY <1>4, LocalsFinish, LocalsGoto
  DEF CastStep, SetLock, InsertVoteEvent, InsertVoterRightsUsed, Commit, AfterCommitError,
      MarkVoting, PublishVote, EnqueueReceipt, ReleaseLock
<1>5. ASSUME NEW r \in Request, Fail(r) \/ LostAnswer(r) PROVE LocalsSet'
  BY <1>5, LocalsFinish, LocalsGoto DEF Fail, LostAnswer
<1>6. CASE Crash
  BY <1>6 DEF Crash, Idle, Handler, LocalsSet
<1>7. CASE UNCHANGED req
  BY <1>7 DEF LocalsSet, VoteOf
<1>8. ASSUME Background PROVE Crash \/ UNCHANGED req
  BY <1>8 DEF Background, LockExpires, OtpExpires, SessionDeadline, TokenExpires,
              IssueReceipt, CleanupSessions
<1>9. ASSUME NEW s \in Session, VerifyID(s) PROVE UNCHANGED req
  BY <1>9 DEF VerifyID
<1> QED BY <1>1, <1>2, <1>3, <1>4, <1>5, <1>6, <1>7, <1>8, <1>9 DEF Next, vars

LEMMA LiveNext ==
  ASSUME TypeOK, LocalsSet, LiveIsIssued, [Next]_vars
  PROVE  LiveIsIssued'
<1> USE DEF LiveIsIssued, authVars
<1>1. ASSUME NEW r \in Request, SignToken(r) PROVE LiveIsIssued'
  BY <1>1, SessionOf DEF SignToken, TypeOK, At
<1>2. ASSUME NEW t \in Token, TokenExpires(t) PROVE LiveIsIssued'
  BY <1>2 DEF TokenExpires
<1>3. CASE UNCHANGED <<issuedTo, liveTokens>>
  BY <1>3
<1>4. ASSUME NEW r \in Request, AuthStep(r)
      PROVE  SignToken(r) \/ UNCHANGED <<issuedTo, liveTokens>>
  BY <1>4 DEF AuthStep, StoreOtp, CountAttempt, LockOut, ReadOtp, ConsumeOtp, Activate
<1>5. ASSUME NEW r \in Request, CastStep(r) \/ Fail(r) \/ LostAnswer(r) \/ Authenticating(r)
      PROVE  UNCHANGED <<issuedTo, liveTokens>>
  BY <1>5 DEF CastStep, SetLock, InsertVoteEvent, InsertVoterRightsUsed, Commit, MarkVoting,
              PublishVote, EnqueueReceipt, ReleaseLock, Fail, LostAnswer, Authenticating,
              RequestOtp, VerifyOtp
<1>6. ASSUME Background
      PROVE  \/ \E t \in Token : TokenExpires(t)
             \/ UNCHANGED <<issuedTo, liveTokens>>
  BY <1>6 DEF Background, LockExpires, OtpExpires, SessionDeadline, IssueReceipt,
              CleanupSessions, Crash
<1> QED
  BY <1>1, <1>2, <1>3, <1>4, <1>5, <1>6 DEF Next, vars, VerifyID, CastVote

-----------------------------------------------------------------------------
(* Most steps are quiet: they write neither the vote tables nor what leaves*)
(* the handlers, and bring no request into a transaction or beyond one.    *)

Quiet ==
    /\ UNCHANGED <<voteVars, outVars>>
    /\ req' \in [Request -> RequestState]
    /\ \A r \in Request :
          \/ req'[r] = req[r]
          \/ req'[r].step \notin EventHolders \cup PostSteps

LEMMA QuietNext ==
  ASSUME Quiet, Core
  PROVE  Core'
<1> USE DEF Core, Quiet, voteVars, outVars
<1>1. HoldersDiffer'
  BY DEF HoldersDiffer, EventHolders, RightOf
<1>2. HeldIsUnused'
  BY DEF HeldIsUnused, EventHolders, RightOf
<1>3. DoneIsRecorded'
  BY DEF DoneIsRecorded, PostSteps, VoteOf
<1>4. OneVotePerBallot' /\ RightsMatchVotes' /\ AcceptedIsRecorded' /\ OnlineIsRecorded'
  BY DEF OneVotePerBallot, RightsMatchVotes, AcceptedIsRecorded, OnlineIsRecorded
<1>5. ReceiptsProveVotes'
  BY DEF ReceiptsProveVotes
<1> QED BY <1>1, <1>2, <1>3, <1>4, <1>5

\* Which steps are not quiet: the transaction, what follows its commit, and
\* the receipt task.
LEMMA QuietSteps ==
  ASSUME TypeOK, LocalsSet, LiveIsIssued, [Next]_vars
  PROVE  \/ Quiet
         \/ \E r \in Request :
               \/ InsertVoteEvent(r) \/ InsertVoterRightsUsed(r) \/ Commit(r)
               \/ MarkVoting(r) \/ PublishVote(r) \/ EnqueueReceipt(r) \/ ReleaseLock(r)
         \/ \E rc \in Receipt : IssueReceipt(rc)
<1> USE DEF Quiet, TypeOK, Step, OtpSteps, TxSteps, PostSteps, EventHolders
<1>1. ASSUME NEW r \in Request, Authenticating(r) PROVE Quiet
  <2>1. ASSUME NEW s \in Session, RequestOtp(r, s) PROVE Quiet
    <3>1. Handler("storeOtp", s, None, None, None, None) \in RequestState
      BY DEF Handler, RequestState
    <3> QED BY <2>1, <3>1, StartFacts DEF RequestOtp, Handler
  <2>2. ASSUME NEW s \in Session, NEW o \in Otp, VerifyOtp(r, s, o) PROVE Quiet
    <3>1. Handler("countAttempt", s, None, None, None, o) \in RequestState
      BY DEF Handler, RequestState
    <3> QED BY <2>2, <3>1, StartFacts DEF VerifyOtp, Handler
  <2> QED BY <1>1, <2>1, <2>2 DEF Authenticating
<1>2. ASSUME NEW r \in Request, NEW t \in Token, NEW b \in Ballot, NEW c \in Choice,
             CastVote(r, t, b, c)
      PROVE Quiet
  <2>1. Handler("setLock", issuedTo[t], b, c, t, None) \in RequestState
    BY <1>2 DEF Handler, RequestState
  <2> QED BY <1>2, <2>1, StartFacts DEF CastVote, Handler
<1>3. ASSUME NEW r \in Request, AuthStep(r) PROVE Quiet
  <2>1. Idle.step = "idle"
    BY DEF Idle, Handler
  <2> QED
    BY <1>3, <2>1, GotoFacts, FinishFacts
    DEF AuthStep, StoreOtp, CountAttempt, LockOut, ReadOtp, ConsumeOtp, Activate, SignToken
<1>4. ASSUME NEW r \in Request, Fail(r) \/ LostAnswer(r) \/ SetLock(r) PROVE Quiet
  <2>1. Idle.step = "idle"
    BY DEF Idle, Handler
  <2> QED BY <1>4, <2>1, GotoFacts, FinishFacts DEF Fail, LostAnswer, SetLock
<1>5. CASE Crash
  BY <1>5 DEF Crash, Idle, Handler, RequestState
<1>6. CASE UNCHANGED <<voteVars, outVars, req>>
  BY <1>6
<1>7. ASSUME Background
      PROVE  \/ Crash \/ UNCHANGED <<voteVars, outVars, req>>
             \/ \E rc \in Receipt : IssueReceipt(rc)
  BY <1>7 DEF Background, LockExpires, OtpExpires, SessionDeadline, TokenExpires, CleanupSessions
<1> QED
  BY <1>1, <1>2, <1>3, <1>4, <1>5, <1>6, <1>7 DEF Next, vars, VerifyID, CastStep

-----------------------------------------------------------------------------
(* The steps that are not quiet, one lemma each.                           *)

LEMMA InsertEventNext ==
  ASSUME TypeOK, LocalsSet, Core, NEW r \in Request, InsertVoteEvent(r)
  PROVE  Core'
<1> USE DEF Core, voteVars, outVars, At
<1>1. CASE EventKeyTaken(r)
  <2>1. Goto(r, "releaseRefused") /\ UNCHANGED <<voteVars, outVars>>
    BY <1>1 DEF InsertVoteEvent
  <2>2. Quiet
    BY <2>1, GotoFacts DEF Quiet, TypeOK, Step, EventHolders, PostSteps
  <2> QED BY <2>2, QuietNext
<1>2. CASE ~EventKeyTaken(r)
  <2>1. /\ Goto(r, "insertRights") /\ UNCHANGED <<voteVars, outVars>>
        /\ ~Awaits(r, EventHolders)
    BY <1>2 DEF InsertVoteEvent
  <2>2. /\ req'[r].step = "insertRights" /\ RightOf(r)' = RightOf(r)
        /\ \A q \in Request \ {r} : req'[q] = req[q]
    BY <2>1, GotoFacts DEF TypeOK, Step, TxSteps, RightOf
  <2>3. RightOf(r) \notin rightsUsed
    BY <1>2 DEF EventKeyTaken, RightsMatchVotes
  <2>4. HoldersDiffer'
    BY <2>1, <2>2 DEF HoldersDiffer, Awaits, RightOf
  <2>5. HeldIsUnused'
    BY <2>1, <2>2, <2>3 DEF HeldIsUnused, RightOf
  <2>6. DoneIsRecorded'
    BY <2>1, <2>2 DEF DoneIsRecorded, PostSteps, VoteOf
  <2> QED
    BY <2>1, <2>4, <2>5, <2>6
    DEF OneVotePerBallot, RightsMatchVotes, AcceptedIsRecorded, OnlineIsRecorded,
        ReceiptsProveVotes
<1> QED BY <1>1, <1>2

LEMMA InsertRightsNext ==
  ASSUME TypeOK, LocalsSet, Core, NEW r \in Request, InsertVoterRightsUsed(r)
  PROVE  Core'
<1> USE DEF Core, voteVars, outVars, At
<1>1. UNCHANGED <<voteVars, outVars>> /\ req[r].step = "insertRights"
  BY DEF InsertVoterRightsUsed
<1>2. /\ req'[r].step \in {"releaseRefused", "commit"}
      /\ RightOf(r)' = RightOf(r)
      /\ \A q \in Request \ {r} : req'[q] = req[q]
  BY GotoFacts DEF InsertVoterRightsUsed, TypeOK, Step, TxSteps, RightOf
<1>3. HoldersDiffer'
  BY <1>1, <1>2 DEF HoldersDiffer, EventHolders, RightOf
<1>4. HeldIsUnused'
  BY <1>1, <1>2 DEF HeldIsUnused, EventHolders, RightOf
<1>5. DoneIsRecorded'
  BY <1>1, <1>2 DEF DoneIsRecorded, PostSteps, VoteOf
<1> QED
  BY <1>1, <1>3, <1>4, <1>5
  DEF OneVotePerBallot, RightsMatchVotes, AcceptedIsRecorded, OnlineIsRecorded,
      ReceiptsProveVotes

LEMMA CommitNext ==
  ASSUME TypeOK, LocalsSet, Core, NEW r \in Request, Commit(r)
  PROVE  Core'
<1> USE DEF Core, outVars, At
<1>1. req[r].step = "commit" /\ UNCHANGED outVars
  BY DEF Commit
<1>2. /\ req'[r].step \in {"markVoting", "releaseRefused"}
      /\ VoteOf(r)' = VoteOf(r)
      /\ \A q \in Request \ {r} : req'[q] = req[q]
  BY GotoFacts DEF Commit, TypeOK, Step, PostSteps, AfterCommitError, VoteOf
<1>3. HoldersDiffer'
  BY <1>2 DEF HoldersDiffer, EventHolders, RightOf
<1>4. CASE CommitRows(r)
  <2>1. /\ voteEvents' = voteEvents \cup {VoteOf(r)}
        /\ rightsUsed' = rightsUsed \cup {RightOf(r)}
    BY <1>4 DEF CommitRows
  <2>2. RightOf(r) \notin rightsUsed
    BY <1>1 DEF HeldIsUnused, EventHolders
  <2>3. VoteOf(r).session = req[r].session /\ VoteOf(r).ballot = req[r].ballot
    BY DEF VoteOf
  <2>4. HeldIsUnused'
    BY <1>1, <1>2, <2>1 DEF HeldIsUnused, HoldersDiffer, EventHolders, RightOf
  <2>5. DoneIsRecorded'
    BY <1>2, <2>1 DEF DoneIsRecorded, PostSteps, VoteOf
  <2>6. OneVotePerBallot'
    BY <2>1, <2>2, <2>3 DEF OneVotePerBallot, RightsMatchVotes, RightOf
  <2>7. RightsMatchVotes'
    BY <2>1, <2>3 DEF RightsMatchVotes, RightOf
  <2>8. AcceptedIsRecorded' /\ OnlineIsRecorded' /\ ReceiptsProveVotes'
    BY <1>1, <2>1 DEF AcceptedIsRecorded, OnlineIsRecorded, ReceiptsProveVotes
  <2> QED BY <1>3, <2>4, <2>5, <2>6, <2>7, <2>8
<1>5. CASE UNCHANGED voteVars /\ Goto(r, AfterCommitError)
  <2>1. Quiet
    BY <1>1, <1>5, GotoFacts DEF Quiet, TypeOK, Step, EventHolders, PostSteps, AfterCommitError
  <2> QED BY <2>1, QuietNext
<1> QED BY <1>4, <1>5 DEF Commit

LEMMA PostCommitNext ==
  ASSUME TypeOK, LocalsSet, Core, NEW r \in Request,
         MarkVoting(r) \/ PublishVote(r) \/ EnqueueReceipt(r)
  PROVE  Core'
<1> USE DEF Core, voteVars, outVars, At
<1>1. req[r].step \in PostSteps /\ UNCHANGED voteVars
  BY DEF MarkVoting, PublishVote, EnqueueReceipt, PostSteps
<1>2. /\ req'[r].step \in PostSteps
      /\ VoteOf(r)' = VoteOf(r)
      /\ \A q \in Request \ {r} : req'[q] = req[q]
  BY GotoFacts DEF MarkVoting, PublishVote, EnqueueReceipt, TypeOK, Step, PostSteps, VoteOf
<1>3. VoteOf(r) \in voteEvents
  BY <1>1 DEF DoneIsRecorded
<1>4. HoldersDiffer' /\ HeldIsUnused'
  BY <1>1, <1>2 DEF HoldersDiffer, HeldIsUnused, EventHolders, PostSteps, RightOf
<1>5. DoneIsRecorded'
  BY <1>1, <1>2, <1>3 DEF DoneIsRecorded, VoteOf
<1>6. OneVotePerBallot' /\ RightsMatchVotes'
  BY <1>1 DEF OneVotePerBallot, RightsMatchVotes
<1>7. AcceptedIsRecorded' /\ OnlineIsRecorded'
  BY <1>1, <1>3
  DEF MarkVoting, PublishVote, EnqueueReceipt, AcceptedIsRecorded, OnlineIsRecorded
<1>8. ReceiptsProveVotes'
  <2>1. receipts' = receipts /\ receiptTasks' \subseteq receiptTasks \cup {ReceiptOf(r)}
    BY DEF MarkVoting, PublishVote, EnqueueReceipt
  <2>2. ReceiptOf(r) = [token |-> VoteOf(r).token, ballot |-> VoteOf(r).ballot]
    BY DEF ReceiptOf, VoteOf
  <2> QED BY <1>1, <1>3, <2>1, <2>2 DEF ReceiptsProveVotes
<1> QED BY <1>4, <1>5, <1>6, <1>7, <1>8

LEMMA ReleaseNext ==
  ASSUME TypeOK, LocalsSet, Core, NEW r \in Request, ReleaseLock(r)
  PROVE  Core'
<1> USE DEF Core, voteVars, outVars, At
<1>1. UNCHANGED <<voteVars, online, receiptTasks, receipts>>
  BY DEF ReleaseLock
<1>2. /\ req'[r].step = "idle"
      /\ \A q \in Request \ {r} : req'[q] = req[q]
  BY FinishFacts DEF ReleaseLock, TypeOK, Idle, Handler
<1>3. HoldersDiffer' /\ HeldIsUnused'
  BY <1>1, <1>2 DEF HoldersDiffer, HeldIsUnused, EventHolders, RightOf
<1>4. DoneIsRecorded'
  BY <1>1, <1>2 DEF DoneIsRecorded, PostSteps, VoteOf
<1>5. AcceptedIsRecorded'
  BY <1>1 DEF ReleaseLock, AcceptedIsRecorded, DoneIsRecorded, PostSteps
<1> QED
  BY <1>1, <1>3, <1>4, <1>5
  DEF OneVotePerBallot, RightsMatchVotes, OnlineIsRecorded, ReceiptsProveVotes

LEMMA IssueNext ==
  ASSUME Core, NEW rc \in Receipt, IssueReceipt(rc)
  PROVE  Core'
<1> USE DEF Core, voteVars, outVars
<1>1. UNCHANGED <<voteVars, online, accepted, req>>
  BY DEF IssueReceipt
<1>2. ReceiptsProveVotes'
  BY <1>1 DEF IssueReceipt, ReceiptsProveVotes
<1> QED
  BY <1>1, <1>2
  DEF HoldersDiffer, HeldIsUnused, DoneIsRecorded, OneVotePerBallot, RightsMatchVotes,
      AcceptedIsRecorded, OnlineIsRecorded, RightOf, VoteOf

-----------------------------------------------------------------------------
LEMMA IInvInit == Init => IInv
<1> SUFFICES ASSUME Init PROVE IInv
  OBVIOUS
<1>1. TypeOK
  BY TypeInit
<1>2. \A r \in Request : req[r].step = "idle"
  BY DEF Init, Idle, Handler
<1>3. LocalsSet /\ HoldersDiffer /\ HeldIsUnused /\ DoneIsRecorded
  BY <1>2 DEF LocalsSet, HoldersDiffer, HeldIsUnused, DoneIsRecorded, At,
              CastSteps, EventHolders, TxSteps, PostSteps
<1>4. LiveIsIssued
  BY DEF Init, LiveIsIssued
<1>5. /\ OneVotePerBallot /\ RightsMatchVotes
      /\ AcceptedIsRecorded /\ OnlineIsRecorded /\ ReceiptsProveVotes
  BY DEF Init, OneVotePerBallot, RightsMatchVotes, AcceptedIsRecorded, OnlineIsRecorded,
         ReceiptsProveVotes
<1> QED BY <1>1, <1>3, <1>4, <1>5 DEF IInv, Core

LEMMA IInvNext == IInv /\ [Next]_vars => IInv'
<1> SUFFICES ASSUME IInv, [Next]_vars PROVE IInv'
  OBVIOUS
<1>1. TypeOK' /\ LocalsSet' /\ LiveIsIssued'
  BY TypeNext, LocalsNext, LiveNext DEF IInv
<1>2. Core'
  BY QuietSteps, QuietNext, InsertEventNext, InsertRightsNext, CommitNext, PostCommitNext,
     ReleaseNext, IssueNext
  DEF IInv
<1> QED BY <1>1, <1>2 DEF IInv

LEMMA Invariance == Spec => []IInv
  BY IInvInit, IInvNext, PTL DEF Spec

\* Every variable keeps its type in every behaviour of the handlers.
THEOREM TypeCorrect == Spec => []TypeOK
<1>1. IInv => TypeOK
  BY DEF IInv
<1> QED BY <1>1, Invariance, PTL

\* For any number of concurrent requests, lock expiries and crashes, a session
\* has at most one recorded vote per ballot (CastVote and its unique indexes).
THEOREM NoDoubleVote == Spec => []OneVotePerBallot
<1>1. IInv => OneVotePerBallot
  BY DEF IInv, Core
<1> QED BY <1>1, Invariance, PTL

\* The transaction of CastVote is all or nothing: rights and votes agree.
THEOREM RightsAndVotesAgree == Spec => []RightsMatchVotes
<1>1. IInv => RightsMatchVotes
  BY DEF IInv, Core
<1> QED BY <1>1, Invariance, PTL

\* A 202 answer stands for a committed vote with the choice that was sent, also
\* when the lock expired under the request or its answer raced a retry.
THEOREM AnswersAreTrue == Spec => []AcceptedIsRecorded
<1>1. IInv => AcceptedIsRecorded
  BY DEF IInv, Core
<1> QED BY <1>1, Invariance, PTL

\* The message published after the commit never carries a vote that was rolled
\* back.
THEOREM MessagesAreTrue == Spec => []OnlineIsRecorded
<1>1. IInv => OnlineIsRecorded
  BY DEF IInv, Core
<1> QED BY <1>1, Invariance, PTL

\* A receipt that the worker has issued, or will, is that of a committed vote.
THEOREM ReceiptsAreTrue == Spec => []ReceiptsProveVotes
<1>1. IInv => ReceiptsProveVotes
  BY DEF IInv, Core
<1> QED BY <1>1, Invariance, PTL

-----------------------------------------------------------------------------
(* Waiting                                                                 *)

\* Request r waits for the open transaction of request q.
WaitsFor(r, q) ==
    /\ r # q /\ RightOf(r) = RightOf(q)
    /\ \/ At(r, "insertEvent") /\ req[q].step \in EventHolders
       \/ At(r, "insertRights") /\ req[q].step \in RightHolders

WaitsEnd ==
    /\ \A r, q, p \in Request : WaitsFor(r, q) => ~WaitsFor(q, p)
    /\ \A r \in Request : At(r, "insertRights") =>
          ~Awaits(r, RightHolders) /\ RightOf(r) \notin rightsUsed

\* PostgreSQL never sees a deadlock: whoever is waited for waits for nobody.
\* And the index of the event alone decides: a transaction that has passed it
\* is neither held up nor refused at the index of rights, so that no vote is
\* rolled back after its event was inserted because of another one
\* (CastVote, online_voting.go:487-543).
THEOREM NoDeadlock == Spec => []WaitsEnd
<1>1. IInv => WaitsEnd
  <2> SUFFICES ASSUME IInv PROVE WaitsEnd
    OBVIOUS
  <2> USE DEF IInv, Core, EventHolders, RightHolders, At
  <2>1. ASSUME NEW r \in Request, req[r].step = "insertRights"
        PROVE  ~Awaits(r, RightHolders) /\ RightOf(r) \notin rightsUsed
    BY <2>1 DEF HoldersDiffer, HeldIsUnused, Awaits
  <2>2. ASSUME NEW r \in Request, NEW q \in Request, NEW p \in Request,
               WaitsFor(r, q), WaitsFor(q, p)
        PROVE  FALSE
    <3>1. req[q].step = "insertRights" /\ req[p].step = "commit" /\ q # p
          /\ RightOf(q) = RightOf(p)
      BY <2>2 DEF WaitsFor
    <3> QED BY <3>1 DEF HoldersDiffer
  <2> QED BY <2>1, <2>2 DEF WaitsEnd
<1> QED BY <1>1, Invariance, PTL

-----------------------------------------------------------------------------
(* Refinement: commits are Record steps, the receipt task takes Issue steps,*)
(* and every other step leaves the box alone.                              *)

LEMMA BoxInitial == Init => Box!BoxInit
  BY DEF Init, Box!BoxInit

LEMMA BoxStep == IInv /\ [Next]_vars => [Box!BoxNext]_(Box!boxVars)
<1> SUFFICES ASSUME IInv, [Next]_vars PROVE [Box!BoxNext]_(Box!boxVars)
  OBVIOUS
<1> USE DEF Box!boxVars, voteVars, outVars
<1>1. CASE Quiet
  BY <1>1 DEF Quiet
<1>2. ASSUME NEW r \in Request, Commit(r) PROVE [Box!BoxNext]_(Box!boxVars)
  <2>1. CASE CommitRows(r)
    <3>1. /\ req[r].step = "commit"
          /\ voteEvents' = voteEvents \cup {VoteOf(r)}
          /\ rightsUsed' = rightsUsed \cup {RightOf(r)}
          /\ receipts' = receipts
      BY <1>2, <2>1 DEF Commit, CommitRows, At
    <3>2. RightOf(r) \notin rightsUsed
      BY <3>1 DEF IInv, Core, HeldIsUnused, EventHolders
    <3>3. VoteOf(r) \in Vote
      BY <3>1 DEF IInv, LocalsSet, CastSteps, TxSteps
    <3>4. Box!RightOf(VoteOf(r)) = RightOf(r)
      BY DEF Box!RightOf, VoteOf, RightOf
    <3>5. Box!Record(VoteOf(r))
      BY <3>1, <3>2, <3>4 DEF Box!Record
    <3> QED BY <3>3, <3>5 DEF Box!BoxNext, Box!Vote, Vote
  <2>2. CASE UNCHANGED voteVars
    BY <1>2, <2>2 DEF Commit
  <2> QED BY <1>2, <2>1, <2>2 DEF Commit
<1>3. ASSUME NEW r \in Request,
             \/ InsertVoteEvent(r) \/ InsertVoterRightsUsed(r) \/ MarkVoting(r)
             \/ PublishVote(r) \/ EnqueueReceipt(r) \/ ReleaseLock(r)
      PROVE  [Box!BoxNext]_(Box!boxVars)
  BY <1>3 DEF InsertVoteEvent, InsertVoterRightsUsed, MarkVoting, PublishVote,
              EnqueueReceipt, ReleaseLock
<1>4. ASSUME NEW rc \in Receipt, IssueReceipt(rc) PROVE [Box!BoxNext]_(Box!boxVars)
  <2>1. CASE receipts' = receipts
    BY <1>4, <2>1 DEF IssueReceipt
  <2>2. CASE receipts' = receipts \cup {rc}
    <3>1. PICK e \in voteEvents : rc = [token |-> e.token, ballot |-> e.ballot]
      BY <1>4 DEF IssueReceipt, IInv, Core, ReceiptsProveVotes
    <3>2. Box!Issue(e)
      BY <1>4, <2>2, <3>1 DEF IssueReceipt, Box!Issue, Box!ReceiptOf
    <3>3. e \in Vote
      BY DEF IInv, TypeOK
    <3> QED BY <3>2, <3>3 DEF Box!BoxNext, Box!Vote, Vote
  <2> QED BY <1>4, <2>1, <2>2 DEF IssueReceipt
<1> QED BY <1>1, <1>2, <1>3, <1>4, QuietSteps DEF IInv

\* The handlers, tables and the receipt worker implement the ballot box: each
\* right is spent once, in the step that records its vote, and receipts are
\* issued only for recorded votes.
THEOREM Implementation == Spec => ImplementsBallotBox
<1>1. Init /\ [][Next]_vars /\ []IInv => Box!BoxSpec
  BY BoxInitial, BoxStep, PTL DEF Box!BoxSpec
<1> QED BY <1>1, Invariance, PTL DEF Spec, ImplementsBallotBox
=============================================================================
