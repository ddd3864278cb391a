----------------------------- MODULE Electorate -----------------------------
(***************************************************************************)
(* The voters above the ballot box: which session and which token belongs  *)
(* to whom, which ballot paper GetBallot shows to whom from the cache that *)
(* all voters share, and what comes of it in the box                       *)
(* (internal/api/handlers/online_voting.go, internal/domain/voting/jwt.go, *)
(* internal/cache/redis.go).                                               *)
(*                                                                         *)
(* The steps of authentication and of CastVote are in OnlineVoting.tla,    *)
(* which implements the BallotBox used here.                               *)
(***************************************************************************)
EXTENDS BallotBox, Naturals, FiniteSets

CONSTANTS
    Voter,          \* voter_registry
    Eligible,       \* those of them with is_eligible
    Constituency,
    Province,
    RegisteredIn,   \* the constituency of each voter
    ProvinceOf,     \* the province of each constituency
    Request,        \* the browser tabs that show ballot papers
    None            \* no value: an absent row or key, an unset field

Claims == [session : Session, province : Province, constituency : Constituency]

\* A ballot paper: the options of a ballot, for one constituency or for all.
Paper == [ballot : Ballot, of : Choice]

\* The choice of a constituency ballot is a candidate, of whom only the
\* constituency matters here; other ballots have the same options everywhere.
ASSUME ElectorateAssumption ==
    /\ IsFiniteSet(Session)
    /\ Eligible \subseteq Voter
    /\ RegisteredIn \in [Voter -> Constituency]
    /\ ProvinceOf \in [Constituency -> Province]
    /\ Choice = Constituency \cup {None}
    /\ Ballot \subseteq {"CONSTITUENCY", "PARTY_LIST", "REFERENDUM"}
    /\ None \notin Voter \cup Session \cup Constituency \cup Token \cup Claims \cup Paper

VARIABLES
    voterOf,        \* voter_sessions.voter_registry_id
    claims,         \* the JWT of each anonymous token
    liveTokens,     \* tokens whose JWT has not expired
    cache,          \* redis-cache cache:ballot:{province}:{ballot type}
    req,            \* the ballot each tab fetches or shows
    remaining       \* the ballots that, as Eligibility said last, remain to a token

vars == <<boxVars, voterOf, claims, liveTokens, cache, req, remaining>>

Tab == [step : {"idle", "store", "shown"},
        token : Token \cup {None},
        ballot : Ballot \cup {None},
        paper : Paper \cup {None}]

Closed == [step |-> "idle", token |-> None, ballot |-> None, paper |-> None]

TypeOK ==
    /\ BoxTypeOK
    /\ voterOf \in [Session -> Voter \cup {None}]
    /\ claims \in [Token -> Claims \cup {None}]
    /\ liveTokens \subseteq {t \in Token : claims[t] # None}
    /\ cache \in [Province \X Ballot -> Paper \cup {None}]
    /\ req \in [Request -> Tab]
    /\ \A r \in Request : req[r].step # "idle" => claims[req[r].token] # None
    /\ remaining \in [Token -> (SUBSET Ballot) \cup {None}]

Init ==
    /\ BoxInit
    /\ voterOf = [s \in Session |-> None]
    /\ claims = [t \in Token |-> None]
    /\ liveTokens = {}
    /\ cache = [k \in Province \X Ballot |-> None]
    /\ req = [r \in Request |-> Closed]
    /\ remaining = [t \in Token |-> None]

-----------------------------------------------------------------------------
(* Sessions and tokens                                                     *)

\* VerifyID: an eligible voter, confirmed by DOPA, gets a new session. Neither
\* the voter's other sessions nor the ballots cast in them are looked at.
VerifyID(s, v) ==
    /\ voterOf[s] = None
    /\ v \in Eligible
    /\ voterOf' = [voterOf EXCEPT ![s] = v]
    /\ UNCHANGED <<boxVars, claims, liveTokens, cache, req, remaining>>

\* SignVoterJWT with the province and the constituency that GetVoterSession
\* joins from voter_registry.
SignVoterJWT(s) ==
    LET home == RegisteredIn[voterOf[s]] IN
    [session |-> s, province |-> ProvinceOf[home], constituency |-> home]

\* VerifyOTP in the end: the session gets a token, which may not be its first.
VerifyOtp(s, t) ==
    /\ voterOf[s] # None
    /\ claims[t] = None
    /\ claims' = [claims EXCEPT ![t] = SignVoterJWT(s)]
    /\ liveTokens' = liveTokens \cup {t}
    /\ UNCHANGED <<boxVars, voterOf, cache, req, remaining>>

TokenExpires(t) ==
    /\ t \in liveTokens
    /\ liveTokens' = liveTokens \ {t}
    /\ UNCHANGED <<boxVars, voterOf, claims, cache, req, remaining>>

\* GetVoterRightsUsed of the session, complemented.
CastByAnyone(s) == {b \in Ballot : \E q \in Session : <<q, b>> \in spent}
CastBy(s) == {b \in Ballot : <<s, b>> \in spent}

Eligibility(t) ==
    /\ t \in liveTokens
    /\ remaining' = [remaining EXCEPT ![t] = Ballot \ CastBy(claims[t].session)]
    /\ UNCHANGED <<boxVars, voterOf, claims, liveTokens, cache, req>>

-----------------------------------------------------------------------------
(* Ballot papers                                                           *)

\* The key of a ballot paper: the constituency is not part of it.
KeyWithoutType(p, b) == <<p, CHOOSE x \in Ballot : TRUE>>
KeyCacheBallot(p, b) == <<p, b>>

KeyOf(r) == KeyCacheBallot(claims[req[r].token].province, req[r].ballot)

\* ListCandidatesByConstituency with the constituency of the token,
\* ListPartyListCandidates, or the options of the referendum.
PaperOfProvince(t, b) ==
    [ballot |-> b, of |-> IF b = "CONSTITUENCY" THEN claims[t].province ELSE None]
PaperFor(t, b) ==
    [ballot |-> b, of |-> IF b = "CONSTITUENCY" THEN claims[t].constituency ELSE None]

\* GetBallot, of any ballot: rights are not looked at. GET finds a cached paper,
\* which is the answer; or it does not, or fails, and the paper is made from the
\* database, where nothing changes the candidates.
GetBallot(r, t, b) ==
    LET cached == cache[KeyCacheBallot(claims[t].province, b)] IN
    /\ req[r].step = "idle"
    /\ t \in liveTokens
    /\ \/ /\ cached # None
          /\ req' = [req EXCEPT ![r] =
                [step |-> "shown", token |-> t, ballot |-> b, paper |-> cached]]
       \/ req' = [req EXCEPT ![r] =
                [step |-> "store", token |-> t, ballot |-> b, paper |-> PaperFor(t, b)]]
    /\ UNCHANGED <<boxVars, voterOf, claims, liveTokens, cache, remaining>>

\* SET with the TTL of an hour, its error ignored, and the answer.
StoreBallot(r) ==
    /\ req[r].step = "store"
    /\ \/ cache' = [cache EXCEPT ![KeyOf(r)] = req[r].paper]
       \/ UNCHANGED cache
    /\ req' = [req EXCEPT ![r].step = "shown"]
    /\ UNCHANGED <<boxVars, voterOf, claims, liveTokens, remaining>>

\* The voter leaves the paper, with or without having voted.
Leave(r) ==
    /\ req[r].step = "shown"
    /\ req' = [req EXCEPT ![r] = Closed]
    /\ UNCHANGED <<boxVars, voterOf, claims, liveTokens, cache, remaining>>

CacheExpires(k) ==
    /\ cache[k] # None
    /\ cache' = [cache EXCEPT ![k] = None]
    /\ UNCHANGED <<boxVars, voterOf, claims, liveTokens, req, remaining>>

-----------------------------------------------------------------------------
(* Voting                                                                  *)

\* What CastVote accepts as a choice: a candidate, whom the foreign key knows,
\* of whatever constituency.
Options(b) == IF b = "CONSTITUENCY" THEN Constituency ELSE {None}

\* A vote with a live token. It need not be for an option of a paper that was
\* fetched with it, nor for a candidate of the token's constituency.
CastVote(t, b, c) ==
    /\ t \in liveTokens
    /\ c \in Options(b)
    /\ Record([session |-> claims[t].session, ballot |-> b, choice |-> c, token |-> t])
    /\ UNCHANGED <<voterOf, claims, liveTokens, cache, req, remaining>>

\* Where a vote counts: the row of vote_events has the province of the token
\* and, on a constituency ballot, the token's constituency.
PlaceOfCandidate(v) ==
    [province |-> claims[v.token].province, constituency |-> v.choice]
PlaceOf(v) ==
    [province |-> claims[v.token].province,
     constituency |-> IF v.ballot = "CONSTITUENCY" THEN claims[v.token].constituency ELSE None]

-----------------------------------------------------------------------------
Next ==
    \/ \E s \in Session, v \in Voter : VerifyID(s, v)
    \/ \E s \in Session, t \in Token : VerifyOtp(s, t)
    \/ \E t \in Token : TokenExpires(t) \/ Eligibility(t)
    \/ \E r \in Request :
          \/ \E t \in Token, b \in Ballot : GetBallot(r, t, b)
          \/ StoreBallot(r) \/ Leave(r)
    \/ \E t \in Token, b \in Ballot, c \in Choice : CastVote(t, b, c)
    \/ \E k \in Province \X Ballot : CacheExpires(k)

Spec == Init /\ [][Next]_vars

-----------------------------------------------------------------------------
(* What must hold                                                          *)

\* However fetches race for the shared cache, a voter is shown the ballot he
\* asked for, and never one of another province.
PapersOfOwnProvince ==
    \A r \in Request : req[r].step = "shown" =>
        /\ req[r].paper.ballot = req[r].ballot
        /\ req[r].ballot = "CONSTITUENCY" =>
              ProvinceOf[req[r].paper.of] = claims[req[r].token].province

\* Whichever of a session's tokens casts a vote, and whatever candidate it is
\* for, the vote counts in the province and, on a constituency ballot, in the
\* constituency where the voter of the session is registered.
VotesCountAtHome ==
    \A v \in votes :
        LET home == RegisteredIn[voterOf[v.session]] IN
        /\ PlaceOf(v).province = ProvinceOf[home]
        /\ v.ballot = "CONSTITUENCY" => PlaceOf(v).constituency = home

\* Rights belong to sessions: a voter has no more votes on a ballot than
\* sessions, however many tokens and tabs these have.
VotesWithinSessions ==
    \A u \in Voter, b \in Ballot :
        Cardinality({v \in votes : voterOf[v.session] = u /\ v.ballot = b})
            <= Cardinality({s \in Session : voterOf[s] = u})

\* A ballot that Eligibility said is cast has a recorded vote of the session:
\* nobody is kept from a ballot by the votes of others.
CastIsVoted ==
    \A t \in Token : remaining[t] # None =>
        \A b \in Ballot \ remaining[t] :
            \E v \in votes : RightOf(v) = <<claims[t].session, b>>

-----------------------------------------------------------------------------
(* What the code's own words say, and the code does not do                 *)

\* "GetBallot returns the candidates / parties / referendum options for the
\* voter's constituency" (online_voting.go:350).
BallotOfOwnConstituency ==
    \A r \in Request : req[r].step = "shown" /\ req[r].ballot = "CONSTITUENCY" =>
        req[r].paper.of = claims[req[r].token].constituency
=============================================================================
