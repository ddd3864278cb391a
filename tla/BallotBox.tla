------------------------------ MODULE BallotBox ------------------------------
(***************************************************************************)
(* What online voting promises, without the requests, locks, transactions  *)
(* and workers that bring it about: a box of votes that only grows, in     *)
(* which the right of a session to cast a ballot is spent in the same step *)
(* that records the vote, and receipts that are issued only for votes that *)
(* are in the box.                                                         *)
(*                                                                         *)
(* OnlineVoting.tla implements this specification.                         *)
(***************************************************************************)

CONSTANTS Session, Ballot, Choice, Token

VARIABLES
    votes,      \* the votes recorded so far
    spent,      \* the pairs <<session, ballot>> whose right has been used
    receipts    \* the receipts that can be verified

boxVars == <<votes, spent, receipts>>

Vote == [session : Session, ballot : Ballot, choice : Choice, token : Token]
Receipt == [token : Token, ballot : Ballot]

RightOf(v) == <<v.session, v.ballot>>
ReceiptOf(v) == [token |-> v.token, ballot |-> v.ballot]

BoxTypeOK ==
    /\ votes \subseteq Vote
    /\ spent \subseteq Session \X Ballot
    /\ receipts \subseteq Receipt

BoxInit ==
    /\ votes = {}
    /\ spent = {}
    /\ receipts = {}

\* A vote is recorded and its right is spent, once and together.
RecordAgain(v) ==
    /\ votes' = votes \cup {v}
    /\ spent' = spent \cup {RightOf(v)}
    /\ UNCHANGED receipts

Record(v) ==
    /\ RightOf(v) \notin spent
    /\ votes' = votes \cup {v}
    /\ spent' = spent \cup {RightOf(v)}
    /\ UNCHANGED receipts

\* A receipt becomes verifiable for a vote that is in the box.
Issue(v) ==
    /\ v \in votes
    /\ receipts' = receipts \cup {ReceiptOf(v)}
    /\ UNCHANGED <<votes, spent>>

BoxNext == \E v \in Vote : Record(v) \/ Issue(v)

BoxSpec == BoxInit /\ [][BoxNext]_boxVars

-----------------------------------------------------------------------------
\* No right yields two different votes in the box.
OneVotePerRight ==
    \A v, w \in votes : RightOf(v) = RightOf(w) => v = w

\* A right is spent exactly when a vote was recorded under it.
SpentIsVoted == spent = {RightOf(v) : v \in votes}

\* A verifiable receipt belongs to a vote in the box.
ReceiptsAreBacked == \A rc \in receipts : \E v \in votes : rc = ReceiptOf(v)
=============================================================================
