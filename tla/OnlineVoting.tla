---------------------------- MODULE OnlineVoting ----------------------------
(***************************************************************************)
(* The online voting handlers of the API server                            *)
(* (internal/api/handlers/online_voting.go) with the state they share:     *)
(* voter_sessions, vote_events, voter_rights_used and vote_receipts in     *)
(* PostgreSQL, the OTP and vote-lock keys in Redis, the votes.online topic *)
(* and the receipt tasks of the worker.                                    *)
(*                                                                         *)
(* Requests are processes. A handler is split at every call that leaves    *)
(* the process, so that the steps of concurrent requests interleave as     *)
(* they do on the server; a request slot is reused when its handler        *)
(* returns. Every call may fail, and the process may crash between calls.  *)
(***************************************************************************)
EXTENDS Integers, FiniteSets

CONSTANTS
    Session,        \* the session ids voter_sessions may come to hold
    Ballot,         \* the ballot types
    Choice,         \* what can be marked on a ballot
    Otp,            \* the one-time passwords
    Token,          \* the anonymous tokens uuid.New may return
    Request,        \* the request slots: how many handlers run at once
    None,           \* no value: an absent Redis key, an unset field
    MaxOtpAttempts, \* 5 in VerifyOTP
    AttemptBound    \* model bound: clients stop trying OTPs after this many

ASSUME OnlineVotingAssumption ==
    /\ IsFiniteSet(Request)
    /\ MaxOtpAttempts \in Nat
    /\ AttemptBound \in Nat
    /\ None \notin Session \cup Ballot \cup Choice \cup Otp \cup Token

VARIABLES
    status,         \* voter_sessions.status; None before the row exists
    overdue,        \* voter_sessions.expires_at < NOW()
    attempts,       \* voter_sessions.otp_attempts
    otp,            \* Redis otp:{session}
    issuedTo,       \* session of the JWT that carries the anonymous token
    liveTokens,     \* tokens whose JWT has not expired
    voteLock,       \* sessions whose Redis key vote_lock:{session} exists
    voteEvents,     \* committed rows of vote_events (source online)
    rightsUsed,     \* committed rows of voter_rights_used
    online,         \* messages on the topic votes.online
    receiptTasks,   \* queued voter:receipt:issue tasks
    receipts,       \* rows of vote_receipts
    accepted,       \* votes for which a client got 202 and a receipt hash
    guesses,        \* history: OTPs compared with the stored one, per session
    req             \* the handler each request slot runs, and its locals

sessionVars == <<status, overdue, attempts, guesses>>
authVars == <<otp, issuedTo, liveTokens>>
voteVars == <<voteEvents, rightsUsed>>
outVars == <<online, receiptTasks, receipts, accepted>>
vars == <<sessionVars, authVars, voteLock, voteVars, outVars, req>>

-----------------------------------------------------------------------------
Status == {"otp_pending", "authenticated", "voting", "expired"}

\* The call each handler is about to make.
OtpSteps == {"storeOtp", "countAttempt", "lockOut", "readOtp", "consumeOtp",
             "activate", "signToken"}
TxSteps == {"insertEvent", "insertRights", "commit"}
PostSteps == {"markVoting", "publish", "enqueue", "releaseAccepted"}
Step == {"idle", "setLock", "releaseRefused"} \cup OtpSteps \cup TxSteps \cup PostSteps

Vote == [session : Session, ballot : Ballot, choice : Choice, token : Token]
Receipt == [token : Token, ballot : Ballot]

RequestState ==
    [step : Step,
     session : Session \cup {None},
     ballot : Ballot \cup {None},
     choice : Choice \cup {None},
     token : Token \cup {None},
     otp : Otp \cup {None}]

\* A handler about to make call l, with the locals it has by then.
Handler(l, s, b, c, t, o) ==
    [step |-> l, session |-> s, ballot |-> b, choice |-> c, token |-> t, otp |-> o]

Idle == Handler("idle", None, None, None, None, None)

TypeOK ==
    /\ status \in [Session -> Status \cup {None}]
    /\ overdue \in [Session -> BOOLEAN]
    /\ attempts \in [Session -> Nat]
    /\ otp \in [Session -> Otp \cup {None}]
    /\ issuedTo \in [Token -> Session \cup {None}]
    /\ liveTokens \subseteq Token
    /\ voteLock \subseteq Session
    /\ voteEvents \subseteq Vote
    /\ rightsUsed \subseteq Session \X Ballot
    /\ online \subseteq Vote
    /\ receiptTasks \subseteq Receipt
    /\ receipts \subseteq Receipt
    /\ accepted \subseteq Vote
    /\ guesses \in [Session -> Nat]
    /\ req \in [Request -> RequestState]

Init ==
    /\ status = [s \in Session |-> None]
    /\ overdue = [s \in Session |-> FALSE]
    /\ attempts = [s \in Session |-> 0]
    /\ otp = [s \in Session |-> None]
    /\ issuedTo = [t \in Token |-> None]
    /\ liveTokens = {}
    /\ voteLock = {}
    /\ voteEvents = {}
    /\ rightsUsed = {}
    /\ online = {}
    /\ receiptTasks = {}
    /\ receipts = {}
    /\ accepted = {}
    /\ guesses = [s \in Session |-> 0]
    /\ req = [r \in Request |-> Idle]

-----------------------------------------------------------------------------
(* Requests                                                                *)

At(r, l) == req[r].step = l
Start(r, h) == req' = [req EXCEPT ![r] = h]
Goto(r, l) == req' = [req EXCEPT ![r].step = l]
Finish(r) == req' = [req EXCEPT ![r] = Idle]

\* The vote a CastVote request is about, the right it spends and its receipt.
VoteOf(r) == [session |-> req[r].session, ballot |-> req[r].ballot,
              choice |-> req[r].choice, token |-> req[r].token]
RightOf(r) == <<req[r].session, req[r].ballot>>
ReceiptOf(r) == [token |-> req[r].token, ballot |-> req[r].ballot]

-----------------------------------------------------------------------------
(* Authentication                                                          *)

\* VerifyID: the voter exists, is eligible and DOPA confirms the identity.
\* The only write is the new session row; every refusal changes nothing.
VerifyID(s) ==
    /\ status[s] = None
    /\ status' = [status EXCEPT ![s] = "otp_pending"]
    /\ UNCHANGED <<overdue, attempts, guesses, authVars, voteLock, voteVars, outVars, req>>

\* The session row as RequestOTP and VerifyOTP read it before they go on.
AcceptsOtp(s) == status[s] = "otp_pending" /\ ~overdue[s]

RequestOtp(r, s) ==
    /\ At(r, "idle")
    /\ AcceptsOtp(s)
    /\ Start(r, Handler("storeOtp", s, None, None, None, None))
    /\ UNCHANGED <<sessionVars, authVars, voteLock, voteVars, outVars>>

\* SET otp:{session}: a later OTP replaces an earlier one.
StoreOtp(r) ==
    /\ At(r, "storeOtp")
    /\ \E o \in Otp : otp' = [otp EXCEPT ![req[r].session] = o]
    /\ Finish(r)
    /\ UNCHANGED <<sessionVars, issuedTo, liveTokens, voteLock, voteVars, outVars>>

VerifyOtp(r, s, o) ==
    /\ At(r, "idle")
    /\ AcceptsOtp(s)
    /\ attempts[s] < AttemptBound
    /\ Start(r, Handler("countAttempt", s, None, None, None, o))
    /\ UNCHANGED <<sessionVars, authVars, voteLock, voteVars, outVars>>

\* The attempt check: which attempt of a session is one too many. n is what
\* UPDATE .. RETURNING gave this request.
TooManyAttemptsOffByOne(n) == n > MaxOtpAttempts + 1
TooManyAttempts(n) == n > MaxOtpAttempts

\* IncrementOTPAttempts: one UPDATE .. RETURNING, so no two requests of a
\* session see the same count.
CountAttempt(r) ==
    LET s == req[r].session IN
    /\ At(r, "countAttempt")
    /\ attempts' = [attempts EXCEPT ![s] = @ + 1]
    /\ Goto(r, IF TooManyAttempts(attempts[s] + 1) THEN "lockOut" ELSE "readOtp")
    /\ UNCHANGED <<status, overdue, guesses, authVars, voteLock, voteVars, outVars>>

\* Too many attempts: the status update's error is ignored.
LockOut(r) ==
    /\ At(r, "lockOut")
    /\ \/ status' = [status EXCEPT ![req[r].session] = "expired"]
       \/ UNCHANGED status
    /\ Finish(r)
    /\ UNCHANGED <<overdue, attempts, guesses, authVars, voteLock, voteVars, outVars>>

\* GET otp:{session} and the constant-time compare. A missing or different
\* OTP ends the request.
OtpMatchesIfAny(r) == otp[req[r].session] \in {None, req[r].otp}
OtpMatches(r) == otp[req[r].session] = req[r].otp

ReadOtp(r) ==
    LET s == req[r].session IN
    /\ At(r, "readOtp")
    /\ guesses' = IF otp[s] = None THEN guesses ELSE [guesses EXCEPT ![s] = @ + 1]
    /\ \/ OtpMatches(r) /\ Goto(r, "consumeOtp")
       \/ ~OtpMatches(r) /\ Finish(r)
    /\ UNCHANGED <<status, overdue, attempts, authVars, voteLock, voteVars, outVars>>

\* DEL otp:{session}, its error ignored.
ConsumeOtp(r) ==
    /\ At(r, "consumeOtp")
    /\ \/ otp' = [otp EXCEPT ![req[r].session] = None]
       \/ UNCHANGED otp
    /\ Goto(r, "activate")
    /\ UNCHANGED <<sessionVars, issuedTo, liveTokens, voteLock, voteVars, outVars>>

\* UpdateVoterSessionStatus(authenticated), whatever the status is by now.
Activate(r) ==
    /\ At(r, "activate")
    /\ status' = [status EXCEPT ![req[r].session] = "authenticated"]
    /\ Goto(r, "signToken")
    /\ UNCHANGED <<overdue, attempts, guesses, authVars, voteLock, voteVars, outVars>>

\* A fresh anonymous token, signed into the JWT of the session.
SignToken(r) ==
    /\ At(r, "signToken")
    /\ \E t \in Token :
          /\ issuedTo[t] = None
          /\ issuedTo' = [issuedTo EXCEPT ![t] = req[r].session]
          /\ liveTokens' = liveTokens \cup {t}
    /\ Finish(r)
    /\ UNCHANGED <<sessionVars, otp, voteLock, voteVars, outVars>>

-----------------------------------------------------------------------------
(* Casting a vote                                                          *)

\* VoterJWT and HasVoterCastBallot: an unexpired token whose session has not
\* used this right. The session's status and expiry are not looked at.
CastVote(r, t, b, c) ==
    /\ At(r, "idle")
    /\ t \in liveTokens
    /\ <<issuedTo[t], b>> \notin rightsUsed
    /\ Start(r, Handler("setLock", issuedTo[t], b, c, t, None))
    /\ UNCHANGED <<sessionVars, authVars, voteLock, voteVars, outVars>>

\* SET vote_lock:{session} NX EX 10: an existing key ends the request with 429.
SetLock(r) ==
    LET s == req[r].session IN
    /\ At(r, "setLock")
    /\ \/ /\ s \notin voteLock
          /\ voteLock' = voteLock \cup {s}
          /\ Goto(r, "insertEvent")
       \/ /\ s \in voteLock
          /\ Finish(r)
          /\ UNCHANGED voteLock
    /\ UNCHANGED <<sessionVars, authVars, voteVars, outVars>>

\* The unique index of a table as an INSERT of request r meets it: rows of
\* committed transactions are a violation, rows of running ones (those of
\* requests at the steps held) are waited for.
AwaitsNobody(r, held) == FALSE
Awaits(r, held) ==
    \E q \in Request \ {r} : req[q].step \in held /\ RightOf(q) = RightOf(r)

\* idx_vote_events_idempotency: the key is session|ballot.
EventKeyTaken(r) == \E e \in voteEvents : <<e.session, e.ballot>> = RightOf(r)

\* The requests whose open transaction holds the event row, resp. the right.
EventHoldersAll == {"insertEvent", "insertRights", "commit"}
EventHolders == {"insertRights", "commit"}
RightHolders == {"commit"}

InsertVoteEvent(r) ==
    /\ At(r, "insertEvent")
    /\ ~Awaits(r, EventHolders)
    /\ Goto(r, IF EventKeyTaken(r) THEN "releaseRefused" ELSE "insertRights")
    /\ UNCHANGED <<sessionVars, authVars, voteLock, voteVars, outVars>>

\* idx_voter_rights_session_ballot.
InsertVoterRightsUsed(r) ==
    /\ At(r, "insertRights")
    /\ ~Awaits(r, RightHolders)
    /\ Goto(r, IF RightOf(r) \in rightsUsed THEN "releaseRefused" ELSE "commit")
    /\ UNCHANGED <<sessionVars, authVars, voteLock, voteVars, outVars>>

\* What a commit of the transaction of request r does to the two tables.
CommitEventOnly(r) ==
    /\ voteEvents' = voteEvents \cup {VoteOf(r)}
    /\ UNCHANGED rightsUsed
CommitWithoutToken(r) ==
    /\ voteEvents' = voteEvents \cup {[VoteOf(r) EXCEPT !.token = None]}
    /\ rightsUsed' = rightsUsed \cup {RightOf(r)}
CommitRows(r) ==
    /\ voteEvents' = voteEvents \cup {VoteOf(r)}
    /\ rightsUsed' = rightsUsed \cup {RightOf(r)}

\* The handler returns when COMMIT answers with an error.
AfterCommitErrorGoOn == "markVoting"
AfterCommitError == "releaseRefused"

\* COMMIT succeeds, fails, or takes effect although its answer is an error.
Commit(r) ==
    /\ At(r, "commit")
    /\ \/ CommitRows(r) /\ Goto(r, "markVoting")
       \/ CommitRows(r) /\ Goto(r, AfterCommitError)
       \/ UNCHANGED voteVars /\ Goto(r, AfterCommitError)
    /\ UNCHANGED <<sessionVars, authVars, voteLock, outVars>>

\* UpdateVoterSessionStatus(voting), whatever the status is; errors ignored.
MarkVoting(r) ==
    /\ At(r, "markVoting")
    /\ \/ status' = [status EXCEPT ![req[r].session] = "voting"]
       \/ UNCHANGED status
    /\ Goto(r, "publish")
    /\ UNCHANGED <<overdue, attempts, guesses, authVars, voteLock, voteVars, outVars>>

\* The message for the read models; a failed publish is only logged.
PublishVote(r) ==
    /\ At(r, "publish")
    /\ \/ online' = online \cup {VoteOf(r)}
       \/ UNCHANGED online
    /\ Goto(r, "enqueue")
    /\ UNCHANGED <<sessionVars, authVars, voteLock, voteVars,
                   receiptTasks, receipts, accepted>>

\* The receipt task; a failed enqueue is only logged.
EnqueueReceipt(r) ==
    /\ At(r, "enqueue")
    /\ \/ receiptTasks' = receiptTasks \cup {ReceiptOf(r)}
       \/ UNCHANGED receiptTasks
    /\ Goto(r, "releaseAccepted")
    /\ UNCHANGED <<sessionVars, authVars, voteLock, voteVars, online, receipts, accepted>>

\* The deferred DEL of vote_lock:{session}. It deletes the key whoever holds
\* it, and its error is ignored. The response goes out as the handler returns.
DeleteLock(s) == voteLock' = voteLock \ {s}

ReleaseLock(r) ==
    /\ req[r].step \in {"releaseAccepted", "releaseRefused"}
    /\ DeleteLock(req[r].session) \/ UNCHANGED voteLock
    /\ accepted' = IF At(r, "releaseAccepted") THEN accepted \cup {VoteOf(r)} ELSE accepted
    /\ Finish(r)
    /\ UNCHANGED <<sessionVars, authVars, voteVars, online, receiptTasks, receipts>>

-----------------------------------------------------------------------------
(* Failures, expiry and background jobs                                    *)

\* A call fails where the handler gives up on the first error: it answers
\* with an error, rolls its transaction back and lets its deferred calls run.
Fail(r) ==
    /\ \/ /\ req[r].step \in OtpSteps \cup {"setLock"}
          /\ Finish(r)
       \/ /\ req[r].step \in {"insertEvent", "insertRights"}
          /\ Goto(r, "releaseRefused")
    /\ UNCHANGED <<sessionVars, authVars, voteLock, voteVars, outVars>>

\* A write takes effect although its answer is an error, and the handler
\* gives up as after a failed call: the attempt is counted, the session is
\* authenticated without a token, the lock is set and nobody deletes it.
LostAnswer(r) ==
    LET s == req[r].session IN
    /\ \/ /\ At(r, "countAttempt")
          /\ attempts' = [attempts EXCEPT ![s] = @ + 1]
          /\ UNCHANGED <<status, voteLock>>
       \/ /\ At(r, "activate")
          /\ status' = [status EXCEPT ![s] = "authenticated"]
          /\ UNCHANGED <<attempts, voteLock>>
       \/ /\ At(r, "setLock")
          /\ voteLock' = voteLock \cup {s}
          /\ UNCHANGED <<status, attempts>>
    /\ Finish(r)
    /\ UNCHANGED <<overdue, guesses, authVars, voteVars, outVars>>

\* The API process dies: no handler goes on and no deferred call runs.
Crash ==
    /\ \E r \in Request : ~At(r, "idle")
    /\ req' = [r \in Request |-> Idle]
    /\ UNCHANGED <<sessionVars, authVars, voteLock, voteVars, outVars>>

\* The 10 s of KeyTTLVoteLock pass; a request may still be running.
LockTtlNever(s) == FALSE
LockTtlPasses(s) == s \in voteLock

LockExpires(s) ==
    /\ LockTtlPasses(s)
    /\ voteLock' = voteLock \ {s}
    /\ UNCHANGED <<sessionVars, authVars, voteVars, outVars, req>>

OtpExpires(s) ==
    /\ otp[s] # None
    /\ otp' = [otp EXCEPT ![s] = None]
    /\ UNCHANGED <<sessionVars, issuedTo, liveTokens, voteLock, voteVars, outVars, req>>

TokenExpires(t) ==
    /\ t \in liveTokens
    /\ liveTokens' = liveTokens \ {t}
    /\ UNCHANGED <<sessionVars, otp, issuedTo, voteLock, voteVars, outVars, req>>

SessionDeadline(s) ==
    /\ status[s] # None
    /\ ~overdue[s]
    /\ overdue' = [overdue EXCEPT ![s] = TRUE]
    /\ UNCHANGED <<status, attempts, guesses, authVars, voteLock, voteVars, outVars, req>>

\* The job that runs every minute: one UPDATE over all overdue sessions.
CleanupSessions ==
    /\ \E s \in Session : overdue[s] /\ status[s] # "expired"
    /\ status' = [s \in Session |-> IF overdue[s] THEN "expired" ELSE status[s]]
    /\ UNCHANGED <<overdue, attempts, guesses, authVars, voteLock, voteVars, outVars, req>>

\* The receipt task inserts the row, or swallows the error of the insert. A
\* worker that dies before asynq sees the task done gets it again.
IssueReceipt(rc) ==
    /\ rc \in receiptTasks
    /\ \/ receipts' = receipts \cup {rc} /\ receiptTasks' = receiptTasks \ {rc}
       \/ receipts' = receipts \cup {rc} /\ UNCHANGED receiptTasks
       \/ UNCHANGED receipts /\ receiptTasks' = receiptTasks \ {rc}
    /\ UNCHANGED <<sessionVars, authVars, voteLock, voteVars, online, accepted, req>>

-----------------------------------------------------------------------------
Authenticating(r) ==
    \/ \E s \in Session : RequestOtp(r, s)
    \/ \E s \in Session, o \in Otp : VerifyOtp(r, s, o)

AuthStep(r) ==
    \/ StoreOtp(r) \/ CountAttempt(r) \/ LockOut(r) \/ ReadOtp(r)
    \/ ConsumeOtp(r) \/ Activate(r) \/ SignToken(r)

CastStep(r) ==
    \/ SetLock(r) \/ InsertVoteEvent(r) \/ InsertVoterRightsUsed(r) \/ Commit(r)
    \/ MarkVoting(r) \/ PublishVote(r) \/ EnqueueReceipt(r) \/ ReleaseLock(r)

Background ==
    \/ \E s \in Session : LockExpires(s) \/ OtpExpires(s) \/ SessionDeadline(s)
    \/ \E t \in Token : TokenExpires(t)
    \/ \E rc \in Receipt : IssueReceipt(rc)
    \/ CleanupSessions
    \/ Crash

Next ==
    \/ \E s \in Session : VerifyID(s)
    \/ \E r \in Request :
          \/ Authenticating(r) \/ AuthStep(r)
          \/ \E t \in Token, b \in Ballot, c \in Choice : CastVote(r, t, b, c)
          \/ CastStep(r) \/ Fail(r) \/ LostAnswer(r)
    \/ Background

Spec == Init /\ [][Next]_vars

\* Handlers run until they return: each call ends, in success or in failure.
\* PostgreSQL queues the transactions that wait for a row, so an INSERT that
\* may go on again and again does so. Redis drops an expired key, and the
\* worker takes queued tasks.
FairSpec ==
    /\ Spec
    /\ \A r \in Request : /\ WF_vars(AuthStep(r) \/ CastStep(r))
                         /\ SF_vars(InsertVoteEvent(r))
                         /\ SF_vars(InsertVoterRightsUsed(r))
    /\ \A s \in Session : WF_vars(LockExpires(s))
    /\ \A rc \in Receipt : WF_vars(IssueReceipt(rc))

-----------------------------------------------------------------------------
(* What must hold                                                          *)

\* However requests race, expire or crash, a session has at most one recorded
\* vote per ballot (idempotency key and rights index, online_voting.go:487-543).
OneVotePerBallot ==
    \A e, f \in voteEvents : <<e.session, e.ballot>> = <<f.session, f.ballot>> => e = f

\* The right to a ballot is used if and only if its vote is recorded: the
\* transaction of CastVote never leaves one without the other.
RightsMatchVotes == rightsUsed = {<<e.session, e.ballot>> : e \in voteEvents}

\* A client told "recorded" (202 with a receipt hash) has its own vote, with
\* the choice and the token it sent, in vote_events.
AcceptedIsRecorded == accepted \subseteq voteEvents

\* The read models hear only of votes that are committed.
OnlineIsRecorded == online \subseteq voteEvents

\* A receipt that verifies, or will once its task has run, belongs to a
\* recorded vote of its token and ballot.
ReceiptsProveVotes ==
    \A rc \in receipts \cup receiptTasks :
        \E e \in voteEvents : rc = [token |-> e.token, ballot |-> e.ballot]

\* At most MaxOtpAttempts OTPs of a session are ever compared with the stored
\* one, however many requests verify at once and whether or not the lockout
\* update succeeds (the counter is increased before the check, VerifyOTP).
GuessesBounded == \A s \in Session : guesses[s] <= MaxOtpAttempts

\* Every token of a session took a guess of its own, so that however many
\* requests present the same OTP before it is deleted, a session never gets
\* more tokens than guesses ("consume it (one-time use)", VerifyOTP: the GET
\* and the DEL are two calls, and one OTP may yield several tokens).
TokensTakeGuesses ==
    \A s \in Session : Cardinality({t \in Token : issuedTo[t] = s}) <= guesses[s]

\* The handlers and the tables implement the ballot box.
Box == INSTANCE BallotBox WITH votes <- voteEvents, spent <- rightsUsed
ImplementsBallotBox == Box!BoxSpec

\* A handler that was started returns: no two transactions wait for each
\* other at the unique indexes.
RequestsReturn == \A r \in Request : ~At(r, "idle") ~> At(r, "idle")

\* A vote lock disappears, also one whose request crashed or whose DEL failed
\* ("TTL is the safety net", online_voting.go:483).
LocksAreFreed == \A s \in Session : s \in voteLock ~> s \notin voteLock
=============================================================================
