-------------------------- MODULE ElectorateProofs --------------------------
(***************************************************************************)
(* Proofs about Electorate for any number of voters, constituencies,       *)
(* sessions, tokens and tabs, and any map of constituencies to provinces.  *)
(*                                                                         *)
(* Two facts carry the invariant. A token's claims never change and are    *)
(* those of the voter of its session (ClaimsAreHome), so what was read from*)
(* them stays true. And every paper, in the cache, under way to it or on a *)
(* screen, is one for the province in whose name it is kept (CacheIsSound, *)
(* TabsAreSound): a paper may be of the wrong constituency but not of the  *)
(* wrong province.                                                         *)
(***************************************************************************)
EXTENDS Electorate, FiniteSetTheorems, TLAPS

\* The claims of a token are its session's voter's.
ClaimsAreHome ==
    \A t \in Token : claims[t] # None =>
        /\ voterOf[claims[t].session] \in Voter
        /\ claims[t] = SignVoterJWT(claims[t].session)

\* Paper p is an option of ballot b in province q.
FitsIn(p, b, q) ==
    /\ p \in Paper
    /\ p.ballot = b
    /\ b = "CONSTITUENCY" => p.of \in Constituency /\ ProvinceOf[p.of] = q

CacheIsSound ==
    \A q \in Province, b \in Ballot :
        cache[<<q, b>>] # None => FitsIn(cache[<<q, b>>], b, q)

TabIsSound(r) ==
    /\ req[r].token \in Token
    /\ req[r].ballot \in Ballot
    /\ claims[req[r].token] # None
    /\ FitsIn(req[r].paper, req[r].ballot, claims[req[r].token].province)

TabsAreSound == \A r \in Request : req[r].step # "idle" => TabIsSound(r)

\* A vote in the box is that of its token's session.
VotesAreSound ==
    \A v \in votes :
        /\ claims[v.token] # None
        /\ claims[v.token].session = v.session

RemainingIsTold ==
    \A t \in Token : remaining[t] # None =>
        /\ claims[t] # None
        /\ \A b \in Ballot \ remaining[t] : <<claims[t].session, b>> \in spent

IInv ==
    /\ TypeOK /\ OneVotePerRight /\ SpentIsVoted
    /\ ClaimsAreHome /\ CacheIsSound /\ TabsAreSound /\ VotesAreSound /\ RemainingIsTold

-----------------------------------------------------------------------------
(* Claims and the papers made from them                                    *)

LEMMA SignedClaims ==
  ASSUME NEW s \in Session, voterOf[s] \in Voter
  PROVE  /\ SignVoterJWT(s) \in Claims
         /\ SignVoterJWT(s).session = s
         /\ SignVoterJWT(s).constituency = RegisteredIn[voterOf[s]]
         /\ SignVoterJWT(s).province = ProvinceOf[RegisteredIn[voterOf[s]]]
  BY ElectorateAssumption DEF SignVoterJWT, Claims

LEMMA HomeOf ==
  ASSUME TypeOK, ClaimsAreHome, NEW t \in Token, claims[t] # None
  PROVE  /\ claims[t] \in Claims
         /\ claims[t].session \in Session
         /\ claims[t].province \in Province
         /\ claims[t].constituency \in Constituency
         /\ claims[t].constituency = RegisteredIn[voterOf[claims[t].session]]
         /\ claims[t].province = ProvinceOf[claims[t].constituency]
<1>1. claims[t] \in Claims
  BY DEF TypeOK
<1>2. claims[t].session \in Session /\ claims[t].province \in Province
      /\ claims[t].constituency \in Constituency
  BY <1>1 DEF Claims
<1>3. voterOf[claims[t].session] \in Voter /\ claims[t] = SignVoterJWT(claims[t].session)
  BY DEF ClaimsAreHome
<1> QED BY <1>1, <1>2, <1>3, SignedClaims

LEMMA FreshPaperFits ==
  ASSUME TypeOK, ClaimsAreHome, NEW t \in Token, claims[t] # None, NEW b \in Ballot
  PROVE  FitsIn(PaperFor(t, b), b, claims[t].province)
  BY HomeOf, ElectorateAssumption DEF FitsIn, PaperFor, Paper

-----------------------------------------------------------------------------
LEMMA InitHolds == Init => IInv
<1> SUFFICES ASSUME Init PROVE IInv
  OBVIOUS
<1> USE DEF Init, BoxInit
<1>1. \A r \in Request : req[r].step = "idle"
  BY DEF Closed
<1>2. TypeOK
  <2>1. Closed \in Tab
    BY DEF Closed, Tab
  <2>2. BoxTypeOK
    BY DEF BoxTypeOK
  <2>3. /\ voterOf \in [Session -> Voter \cup {None}]
        /\ claims \in [Token -> Claims \cup {None}]
        /\ cache \in [Province \X Ballot -> Paper \cup {None}]
        /\ remaining \in [Token -> (SUBSET Ballot) \cup {None}]
    OBVIOUS
  <2>4. req \in [Request -> Tab]
    BY <2>1
  <2> QED BY <1>1, <2>2, <2>3, <2>4 DEF TypeOK
<1>3. OneVotePerRight /\ SpentIsVoted /\ VotesAreSound
  BY DEF OneVotePerRight, SpentIsVoted, VotesAreSound
<1>4. ClaimsAreHome /\ CacheIsSound /\ RemainingIsTold
  BY DEF ClaimsAreHome, CacheIsSound, RemainingIsTold
<1>5. TabsAreSound
  BY <1>1 DEF TabsAreSound
<1> QED BY <1>2, <1>3, <1>4, <1>5 DEF IInv

\* The parts of the invariant that only read what a step leaves alone.
LEMMA BoxKept ==
  ASSUME IInv, UNCHANGED boxVars, \A t \in Token : claims[t] # None => claims'[t] = claims[t]
  PROVE  OneVotePerRight' /\ SpentIsVoted' /\ VotesAreSound'
<1>1. \A v \in votes : v.token \in Token
  BY DEF IInv, TypeOK, BoxTypeOK, Vote
<1> QED BY <1>1 DEF IInv, boxVars, OneVotePerRight, SpentIsVoted, VotesAreSound, RightOf

LEMMA VerifyIDKeeps ==
  ASSUME IInv, NEW s \in Session, NEW v \in Voter, VerifyID(s, v)
  PROVE  IInv'
<1> USE DEF VerifyID, boxVars
<1>1. TypeOK'
  BY DEF IInv, TypeOK, BoxTypeOK
<1>2. ClaimsAreHome'
  <2> SUFFICES ASSUME NEW t \in Token, claims[t] # None
               PROVE  /\ voterOf'[claims[t].session] \in Voter
                      /\ claims[t] = SignVoterJWT(claims[t].session)'
    BY DEF ClaimsAreHome
  <2>1. claims[t].session \in Session /\ voterOf[claims[t].session] \in Voter
        /\ claims[t] = SignVoterJWT(claims[t].session)
    BY HomeOf DEF IInv, ClaimsAreHome
  <2>2. claims[t].session # s
    BY <2>1, ElectorateAssumption
  <2>3. voterOf'[claims[t].session] = voterOf[claims[t].session]
    BY <2>1, <2>2 DEF IInv, TypeOK
  <2> QED BY <2>1, <2>3 DEF SignVoterJWT
<1>3. CacheIsSound' /\ TabsAreSound' /\ RemainingIsTold'
  BY DEF IInv, CacheIsSound, TabsAreSound, TabIsSound, RemainingIsTold
<1> QED BY <1>1, <1>2, <1>3, BoxKept DEF IInv

LEMMA VerifyOtpKeeps ==
  ASSUME IInv, NEW s \in Session, NEW t \in Token, VerifyOtp(s, t)
  PROVE  IInv'
<1> USE DEF VerifyOtp, boxVars
<1>1. /\ claims' = [claims EXCEPT ![t] = SignVoterJWT(s)]
      /\ voterOf[s] \in Voter /\ claims[t] = None
  BY DEF IInv, TypeOK
<1>2. /\ claims'[t] = SignVoterJWT(s) /\ SignVoterJWT(s) \in Claims
      /\ SignVoterJWT(s).session = s /\ SignVoterJWT(s) # None
  BY <1>1, SignedClaims, ElectorateAssumption DEF IInv, TypeOK
<1>3. \A x \in Token : x # t => claims'[x] = claims[x]
  BY <1>1 DEF IInv, TypeOK
<1>4. \A x \in Token : claims[x] # None => claims'[x] = claims[x] /\ x # t
  BY <1>1, <1>3
<1>5. TypeOK'
  <2>1. claims' \in [Token -> Claims \cup {None}]
    BY <1>1, <1>2 DEF IInv, TypeOK
  <2>2. liveTokens' \subseteq {x \in Token : claims'[x] # None}
    BY <1>2, <1>3 DEF IInv, TypeOK
  <2>3. \A r \in Request : req[r].step # "idle" => claims'[req[r].token] # None
    BY <1>4 DEF IInv, TabsAreSound, TabIsSound
  <2> QED BY <2>1, <2>2, <2>3 DEF IInv, TypeOK, BoxTypeOK
<1>6. ClaimsAreHome'
  <2>1. voterOf' = voterOf /\ \A q \in Session : SignVoterJWT(q)' = SignVoterJWT(q)
    BY DEF SignVoterJWT
  <2>2. SUFFICES ASSUME NEW x \in Token, claims'[x] # None
                 PROVE  /\ voterOf[claims'[x].session] \in Voter
                        /\ claims'[x] = SignVoterJWT(claims'[x].session)
    <3> HIDE DEF VerifyOtp
    <3> QED BY <2>1 DEF ClaimsAreHome, SignVoterJWT
  <2>3. CASE x = t
    BY <1>1, <1>2, <2>3
  <2>4. CASE x # t
    BY <1>3, <2>2, <2>4 DEF IInv, ClaimsAreHome
  <2> QED BY <2>3, <2>4
<1>7. TabsAreSound'
  BY <1>4 DEF IInv, TabsAreSound, TabIsSound
<1>8. CacheIsSound' /\ RemainingIsTold'
  BY <1>4 DEF IInv, CacheIsSound, RemainingIsTold
<1> QED BY <1>4, <1>5, <1>6, <1>7, <1>8, BoxKept DEF IInv

LEMMA TokenExpiresKeeps ==
  ASSUME IInv, NEW t \in Token, TokenExpires(t)
  PROVE  IInv'
<1> USE DEF TokenExpires, boxVars
<1>1. TypeOK'
  BY DEF IInv, TypeOK, BoxTypeOK
<1>2. ClaimsAreHome' /\ CacheIsSound' /\ TabsAreSound' /\ RemainingIsTold'
  BY DEF IInv, ClaimsAreHome, SignVoterJWT, CacheIsSound, TabsAreSound, TabIsSound, RemainingIsTold
<1> QED BY <1>1, <1>2, BoxKept DEF IInv

LEMMA EligibilityKeeps ==
  ASSUME IInv, NEW t \in Token, Eligibility(t)
  PROVE  IInv'
<1> USE DEF Eligibility, boxVars
<1>1. claims[t] # None
  BY DEF IInv, TypeOK
<1>2. TypeOK'
  BY DEF IInv, TypeOK, BoxTypeOK, CastBy
<1>3. ClaimsAreHome' /\ CacheIsSound' /\ TabsAreSound'
  BY DEF IInv, ClaimsAreHome, SignVoterJWT, CacheIsSound, TabsAreSound, TabIsSound
<1>4. RemainingIsTold'
  <2> SUFFICES ASSUME NEW x \in Token, remaining'[x] # None
               PROVE  /\ claims[x] # None
                      /\ \A b \in Ballot \ remaining'[x] : <<claims[x].session, b>> \in spent
    BY DEF RemainingIsTold
  <2>1. CASE x = t
    <3>1. remaining'[t] = Ballot \ CastBy(claims[t].session)
      BY DEF IInv, TypeOK
    <3> QED BY <1>1, <2>1, <3>1 DEF CastBy
  <2>2. CASE x # t
    <3>1. remaining'[x] = remaining[x]
      BY <2>2 DEF IInv, TypeOK
    <3> QED BY <3>1 DEF IInv, RemainingIsTold
  <2> QED BY <2>1, <2>2
<1> QED BY <1>2, <1>3, <1>4, BoxKept DEF IInv
LEMMA GetBallotKeeps ==
  ASSUME IInv, NEW r \in Request, NEW t \in Token, NEW b \in Ballot, GetBallot(r, t, b)
  PROVE  IInv'
<1> USE DEF boxVars
<1>1. UNCHANGED <<boxVars, voterOf, claims, liveTokens, cache, remaining>>
  BY DEF GetBallot
<1>2. claims[t] # None /\ claims[t].province \in Province
  BY HomeOf DEF GetBallot, IInv, TypeOK
<1>3. PICK l \in {"store", "shown"}, p \in Paper :
         /\ req' = [req EXCEPT ![r] = [step |-> l, token |-> t, ballot |-> b, paper |-> p]]
         /\ FitsIn(p, b, claims[t].province)
  <2>1. FitsIn(PaperFor(t, b), b, claims[t].province)
    BY <1>2, FreshPaperFits DEF IInv
  <2>2. cache[<<claims[t].province, b>>] # None =>
           FitsIn(cache[<<claims[t].province, b>>], b, claims[t].province)
    BY <1>2 DEF IInv, CacheIsSound
  <2> QED BY <2>1, <2>2 DEF GetBallot, KeyCacheBallot, FitsIn
<1>4. /\ req'[r] = [step |-> l, token |-> t, ballot |-> b, paper |-> p]
      /\ \A q \in Request \ {r} : req'[q] = req[q]
      /\ req'[r] \in Tab
      /\ req' \in [Request -> Tab]
  BY <1>3 DEF IInv, TypeOK, Tab, FitsIn
<1>5. TypeOK'
  BY <1>1, <1>2, <1>4 DEF IInv, TypeOK, BoxTypeOK
<1>6. TabsAreSound'
  BY <1>1, <1>2, <1>3, <1>4 DEF IInv, TabsAreSound, TabIsSound
<1>7. ClaimsAreHome' /\ CacheIsSound' /\ RemainingIsTold'
  BY <1>1 DEF IInv, ClaimsAreHome, SignVoterJWT, CacheIsSound, RemainingIsTold
<1> QED BY <1>1, <1>5, <1>6, <1>7, BoxKept DEF IInv

LEMMA StoreBallotKeeps ==
  ASSUME IInv, NEW r \in Request, StoreBallot(r)
  PROVE  IInv'
<1> USE DEF boxVars
<1>1. /\ UNCHANGED <<boxVars, voterOf, claims, liveTokens, remaining>>
      /\ req' = [req EXCEPT ![r].step = "shown"]
      /\ req[r].step = "store" /\ req[r] \in Tab
  BY DEF StoreBallot, IInv, TypeOK
<1>2. TabIsSound(r)
  BY <1>1 DEF IInv, TabsAreSound
<1>3. /\ req'[r] \in Tab /\ req' \in [Request -> Tab]
      /\ req'[r].token = req[r].token /\ req'[r].ballot = req[r].ballot
      /\ req'[r].paper = req[r].paper
      /\ \A q \in Request \ {r} : req'[q] = req[q]
  BY <1>1 DEF IInv, TypeOK, Tab
<1>4. claims[req[r].token].province \in Province
  BY <1>2, HomeOf DEF IInv, TabIsSound
<1>5. \/ cache' = [cache EXCEPT ![<<claims[req[r].token].province, req[r].ballot>>] = req[r].paper]
      \/ cache' = cache
  BY DEF StoreBallot, KeyOf, KeyCacheBallot
<1>6. /\ cache' \in [Province \X Ballot -> Paper \cup {None}]
      /\ CacheIsSound'
  <2>1. cache \in [Province \X Ballot -> Paper \cup {None}] /\ req[r].paper \in Paper
    BY <1>2 DEF IInv, TypeOK, TabIsSound, FitsIn
  <2> SUFFICES ASSUME NEW q \in Province, NEW b \in Ballot, cache'[<<q, b>>] # None
               PROVE  FitsIn(cache'[<<q, b>>], b, q)
    BY <1>5, <2>1 DEF CacheIsSound
  <2>2. CASE q = claims[req[r].token].province /\ b = req[r].ballot
            /\ cache'[<<q, b>>] = req[r].paper
    BY <1>2, <2>2 DEF TabIsSound
  <2>3. CASE cache'[<<q, b>>] = cache[<<q, b>>]
    BY <2>3 DEF IInv, CacheIsSound
  <2> QED BY <1>5, <2>1, <2>2, <2>3
<1>7. TypeOK'
  BY <1>1, <1>2, <1>3, <1>6 DEF IInv, TypeOK, BoxTypeOK, TabIsSound
<1>8. TabsAreSound'
  BY <1>1, <1>2, <1>3 DEF IInv, TabsAreSound, TabIsSound
<1>9. ClaimsAreHome' /\ RemainingIsTold'
  BY <1>1 DEF IInv, ClaimsAreHome, SignVoterJWT, RemainingIsTold
<1> QED BY <1>1, <1>6, <1>7, <1>8, <1>9, BoxKept DEF IInv

LEMMA CacheExpiresKeeps ==
  ASSUME IInv, NEW k \in Province \X Ballot, CacheExpires(k)
  PROVE  IInv'
<1> USE DEF CacheExpires, boxVars
<1>1. TypeOK'
  BY DEF IInv, TypeOK, BoxTypeOK
<1>2. CacheIsSound'
  BY DEF IInv, TypeOK, CacheIsSound
<1>3. ClaimsAreHome' /\ TabsAreSound' /\ RemainingIsTold'
  BY DEF IInv, ClaimsAreHome, SignVoterJWT, TabsAreSound, TabIsSound, RemainingIsTold
<1> QED BY <1>1, <1>2, <1>3, BoxKept DEF IInv

LEMMA LeaveKeeps ==
  ASSUME IInv, NEW r \in Request, Leave(r)
  PROVE  IInv'
<1> USE DEF Leave, boxVars
<1>1. Closed \in Tab /\ Closed.step = "idle"
  BY DEF Closed, Tab
<1>2. TypeOK' /\ TabsAreSound'
  BY <1>1 DEF IInv, TypeOK, BoxTypeOK, TabsAreSound, TabIsSound
<1>3. ClaimsAreHome' /\ CacheIsSound' /\ RemainingIsTold'
  BY DEF IInv, ClaimsAreHome, SignVoterJWT, CacheIsSound, RemainingIsTold
<1> QED BY <1>2, <1>3, BoxKept DEF IInv

\* What CastVote puts into the box: a vote of its token's session.
LEMMA CastIsVote ==
  ASSUME IInv, NEW t \in Token, NEW b \in Ballot, NEW c \in Choice, CastVote(t, b, c)
  PROVE  \E v \in Vote :
            /\ Record(v)
            /\ claims[v.token] # None /\ claims[v.token].session = v.session
<1> DEFINE v == [session |-> claims[t].session, ballot |-> b, choice |-> c, token |-> t]
<1>1. Record(v) /\ claims[t] # None
  BY DEF CastVote, IInv, TypeOK
<1>2. claims[t].session \in Session
  BY <1>1, HomeOf DEF IInv
<1>3. v \in Vote /\ v.token = t /\ v.session = claims[t].session
  BY <1>2 DEF Vote
<1> HIDE DEF v
<1> QED BY <1>1, <1>3

LEMMA CastVoteKeeps ==
  ASSUME IInv, NEW t \in Token, NEW b \in Ballot, NEW c \in Choice, CastVote(t, b, c)
  PROVE  IInv'
<1>1. PICK v \in Vote : /\ Record(v)
                       /\ claims[v.token] # None /\ claims[v.token].session = v.session
  BY CastIsVote
<1>2. /\ UNCHANGED <<receipts, voterOf, claims, liveTokens, cache, req, remaining>>
      /\ votes' = votes \cup {v} /\ spent' = spent \cup {RightOf(v)}
      /\ RightOf(v) \notin spent
  BY <1>1 DEF CastVote, Record
<1>3. TypeOK'
  <2>1. BoxTypeOK'
    BY <1>2 DEF IInv, TypeOK, BoxTypeOK, Vote, RightOf
  <2> QED BY <1>2, <2>1 DEF IInv, TypeOK
<1>4. OneVotePerRight'
  BY <1>2 DEF IInv, OneVotePerRight, SpentIsVoted, RightOf
<1>5. SpentIsVoted'
  BY <1>2 DEF IInv, SpentIsVoted, RightOf
<1>6. VotesAreSound'
  BY <1>1, <1>2 DEF IInv, VotesAreSound
<1>7. ClaimsAreHome' /\ CacheIsSound' /\ TabsAreSound' /\ RemainingIsTold'
  BY <1>2 DEF IInv, ClaimsAreHome, SignVoterJWT, CacheIsSound, TabsAreSound, TabIsSound,
              RemainingIsTold
<1> QED BY <1>3, <1>4, <1>5, <1>6, <1>7 DEF IInv

-----------------------------------------------------------------------------
LEMMA NextKeeps == IInv /\ [Next]_vars => IInv'
<1> SUFFICES ASSUME IInv, [Next]_vars PROVE IInv'
  OBVIOUS
<1>1. CASE UNCHANGED vars
  <2>1. TypeOK' /\ TabsAreSound'
    BY <1>1 DEF vars, boxVars, IInv, TypeOK, BoxTypeOK, TabsAreSound, TabIsSound
  <2>2. ClaimsAreHome' /\ CacheIsSound' /\ RemainingIsTold'
    BY <1>1 DEF vars, boxVars, IInv, ClaimsAreHome, SignVoterJWT, CacheIsSound, RemainingIsTold
  <2> QED BY <1>1, <2>1, <2>2, BoxKept DEF vars, IInv
<1> QED
  BY <1>1, VerifyIDKeeps, VerifyOtpKeeps, TokenExpiresKeeps, EligibilityKeeps, GetBallotKeeps,
     StoreBallotKeeps, CacheExpiresKeeps, CastVoteKeeps, LeaveKeeps
  DEF Next

LEMMA Invariance == Spec => []IInv
  BY InitHolds, NextKeeps, PTL DEF Spec

\* Sessions, tokens, papers, cache and box keep their types.
THEOREM TypeCorrect == Spec => []TypeOK
<1>1. IInv => TypeOK
  BY DEF IInv
<1> QED BY <1>1, Invariance, PTL

\* Whatever races for the shared cache, nobody is shown another ballot or the
\* candidates of another province (GetBallot, KeyCacheBallot).
THEOREM PapersAreOfProvince == Spec => []PapersOfOwnProvince
<1>1. IInv => PapersOfOwnProvince
  BY DEF IInv, TabsAreSound, TabIsSound, FitsIn, PapersOfOwnProvince
<1> QED BY <1>1, Invariance, PTL

\* A vote counts where the voter of its session is registered, whatever its
\* token and its candidate (CastVote, GetVoterSession, SignVoterJWT).
THEOREM VotesAreOfHome == Spec => []VotesCountAtHome
<1>1. ASSUME IInv, NEW v \in votes
      PROVE  LET home == RegisteredIn[voterOf[v.session]] IN
             /\ PlaceOf(v).province = ProvinceOf[home]
             /\ v.ballot = "CONSTITUENCY" => PlaceOf(v).constituency = home
  <2>1. v.token \in Token /\ claims[v.token] # None /\ claims[v.token].session = v.session
    BY <1>1 DEF IInv, TypeOK, BoxTypeOK, Vote, VotesAreSound
  <2>2. /\ claims[v.token].province = ProvinceOf[RegisteredIn[voterOf[v.session]]]
        /\ claims[v.token].constituency = RegisteredIn[voterOf[v.session]]
    BY <1>1, <2>1, HomeOf DEF IInv
  <2> QED BY <2>2 DEF PlaceOf
<1>2. IInv => VotesCountAtHome
  BY <1>1 DEF VotesCountAtHome
<1> QED BY <1>2, Invariance, PTL

\* A voter's votes on a ballot are bounded by the voter's sessions (VerifyID
\* opens any number of them, CastVote checks the rights of one).
THEOREM VotesAreWithinSessions == Spec => []VotesWithinSessions
<1>1. ASSUME IInv, NEW u \in Voter, NEW b \in Ballot
      PROVE  Cardinality({v \in votes : voterOf[v.session] = u /\ v.ballot = b})
                <= Cardinality({s \in Session : voterOf[s] = u})
  <2> DEFINE V == {v \in votes : voterOf[v.session] = u /\ v.ballot = b}
             S == {s \in Session : voterOf[s] = u}
             f == [v \in V |-> v.session]
  <2>1. IsFiniteSet(S)
    BY ElectorateAssumption, FS_Subset
  <2>2. f \in [V -> S]
    BY <1>1 DEF IInv, TypeOK, BoxTypeOK, Vote
  <2>3. \A v, w \in V : f[v] = f[w] => v = w
    BY <1>1 DEF IInv, OneVotePerRight, RightOf
  <2>4. f \in Injection(V, S)
    BY <2>2, <2>3 DEF Injection, IsInjective
  <2> HIDE DEF V, S, f
  <2>5. Cardinality(V) <= Cardinality(S)
    BY <2>1, <2>4, FS_Injection
  <2> QED BY <2>5 DEF V, S
<1>2. IInv => VotesWithinSessions
  BY <1>1 DEF VotesWithinSessions
<1> QED BY <1>2, Invariance, PTL

\* A ballot that Eligibility reported as cast was cast in that session.
THEOREM CastBallotsAreVoted == Spec => []CastIsVoted
<1>1. IInv => CastIsVoted
  BY DEF IInv, RemainingIsTold, SpentIsVoted, CastIsVoted
<1> QED BY <1>1, Invariance, PTL

\* Tokens, tabs and cached papers reach the ballot box only through its own
\* steps: whatever voters are shown, each right is spent once and with its vote
\* (CastVote).
THEOREM VotersUseBallotBox == Spec => BoxSpec
<1>1. Init => BoxInit
  BY DEF Init
<1>2. IInv /\ [Next]_vars => [BoxNext]_boxVars
  <2> SUFFICES ASSUME IInv, [Next]_vars PROVE [BoxNext]_boxVars
    OBVIOUS
  <2>1. ASSUME NEW t \in Token, NEW b \in Ballot, NEW c \in Choice, CastVote(t, b, c)
        PROVE  BoxNext
    BY <2>1, CastIsVote DEF BoxNext
  <2> QED
    BY <2>1 DEF Next, vars, VerifyID, VerifyOtp, TokenExpires, Eligibility, GetBallot,
                StoreBallot, Leave, CacheExpires
<1> QED BY <1>1, <1>2, Invariance, PTL DEF Spec, BoxSpec
=============================================================================
