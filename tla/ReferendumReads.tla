--------------------------- MODULE ReferendumReads ---------------------------
(***************************************************************************)
(* How the referendum's result is read (ReferendumSummary, NationalSummary *)
(* and getReferendumNational in internal/api/handlers/reporting.go) while  *)
(* it grows (internal/worker/atomic_updater.go) and Redis comes and goes.  *)
(*                                                                         *)
(* The national result is a hash in redis-persistent, read through the     *)
(* circuit breaker; the results of the provinces are rows in PostgreSQL.   *)
(* When the breaker refuses, the call fails or the hash is missing, the    *)
(* national result comes from referendum_national_summary, a row that is   *)
(* zero from migration 000008 on and that no code updates.                 *)
(***************************************************************************)
EXTENDS CircuitBreaker

CONSTANTS
    Summarizer,     \* the readers that run ReferendumSummary, the others NationalSummary
    Province,
    Vote,           \* the referendum votes
    ProvinceOf,     \* the province of each
    Consumer,       \* the consumers that handle referendum votes
    None,           \* no vote
    MaxOutages,     \* model bound: failures of Redis
    MaxCancels      \* model bound: clients that go away

ASSUME ReferendumReadsAssumption ==
    /\ Summarizer \subseteq Reader
    /\ Province # {}
    /\ ProvinceOf \in [Vote -> Province]
    /\ None \notin Vote
    /\ MaxOutages \in Nat
    /\ MaxCancels \in Nat

VARIABLES
    redisUp,        \* redis-persistent answers
    committed,      \* the votes added up in referendum_province_summaries
    national,       \* the votes added up in the hash election:national:referendum
    updating,       \* the vote of each consumer between its commit and its HINCRBY
    read,           \* the handlers of the readers, and their locals
    outages,        \* failures of Redis so far
    cancels         \* clients gone so far

tallyVars == <<committed, national, updating>>
faultVars == <<redisUp, outages, cancels>>
vars == <<breakerVars, tallyVars, faultVars, read>>

Steps == {"idle", "hgetall", "fallback", "list", "provinces", "answer"}

\* national and provinces are the votes in the results read so far, left the
\* provinces not read yet; skipped says that one of them is left out.
Read == [step : Steps, national : SUBSET Vote, provinces : SUBSET Vote,
         left : SUBSET Province, skipped : BOOLEAN]

NoRead == [step |-> "idle", national |-> {}, provinces |-> {}, left |-> {},
           skipped |-> FALSE]

TypeOK ==
    /\ BreakerTypeOK
    /\ redisUp \in BOOLEAN
    /\ committed \subseteq Vote
    /\ national \subseteq Vote
    /\ updating \in [Consumer -> Vote \cup {None}]
    /\ read \in [Reader -> Read]
    /\ calling = {r \in Reader : read[r].step = "hgetall"}
    /\ outages \in 0..MaxOutages
    /\ cancels \in 0..MaxCancels

Init ==
    /\ BreakerInit
    /\ redisUp = TRUE
    /\ committed = {}
    /\ national = {}
    /\ updating = [c \in Consumer |-> None]
    /\ read = [r \in Reader |-> NoRead]
    /\ outages = 0
    /\ cancels = 0

-----------------------------------------------------------------------------
(* Counting. Results are sums of votes; here they are the sets of the votes *)
(* they add up. A HINCRBY that the client library sends twice changes the   *)
(* sum and not the set.                                                     *)

\* The transaction with applyReferendum commits ...
CountBeforeCommit(c, v) ==
    /\ updating[c] = None
    /\ v \notin committed
    /\ national' = IF redisUp THEN national \cup {v} ELSE national
    /\ updating' = [updating EXCEPT ![c] = v]
    /\ UNCHANGED <<breakerVars, faultVars, read, committed>>

ApplyReferendum(c, v) ==
    /\ updating[c] = None
    /\ v \notin committed
    /\ committed' = committed \cup {v}
    /\ updating' = [updating EXCEPT ![c] = v]
    /\ UNCHANGED <<breakerVars, faultVars, read, national>>

\* ... and updateRedis increments the hash, past the breaker and with its error
\* ignored. The worker may die before.
UpdateRedis(c) ==
    /\ updating[c] # None
    /\ \/ redisUp /\ national' = national \cup {updating[c]}
       \/ UNCHANGED national
    /\ updating' = [updating EXCEPT ![c] = None]
    /\ UNCHANGED <<breakerVars, faultVars, read, committed>>

-----------------------------------------------------------------------------
(* Redis                                                                   *)

\* Redis stops answering. With appendfsync everysec a crash loses the last
\* increments.
RedisFails ==
    /\ redisUp
    /\ outages < MaxOutages
    /\ outages' = outages + 1
    /\ redisUp' = FALSE
    /\ national' \in SUBSET national
    /\ UNCHANGED <<breakerVars, read, committed, updating, cancels>>

RedisReturns ==
    /\ ~redisUp
    /\ redisUp' = TRUE
    /\ UNCHANGED <<breakerVars, tallyVars, read, outages, cancels>>

-----------------------------------------------------------------------------
(* Readers                                                                 *)

At(r, step) == read[r].step = step
Goto(r, step) == read' = [read EXCEPT ![r].step = step]
Respond(r) == read' = [read EXCEPT ![r] = NoRead]

\* getReferendumNational, at the start of ReferendumSummary and after the
\* parties of NationalSummary (PartySeats.tla): HGETALL is on its way to Redis,
\* or the breaker refuses with ErrCircuitOpen.
StartRead(r) ==
    /\ At(r, "idle")
    /\ \/ BeforeRequest(r) /\ Goto(r, "hgetall")
       \/ Refuse(r) /\ Goto(r, "fallback")
    /\ UNCHANGED <<tallyVars, faultVars>>

\* The national result is known. ReferendumSummary goes on to the provinces,
\* NationalSummary answers.
Know(r, n) ==
    read' = [read EXCEPT ![r].national = n,
                         ![r].step = IF r \in Summarizer THEN "list" ELSE "answer"]

\* HGETALL returns, in time or after ReadTimeout. A missing hash is an empty map
\* and no error.
ReturnedWhenUp(r) ==
    /\ At(r, "hgetall")
    /\ redisUp
    /\ AfterRequest(r, TRUE)
    /\ IF national # {} THEN Know(r, national) ELSE Goto(r, "fallback")
    /\ UNCHANGED <<tallyVars, faultVars>>

Returned(r) ==
    /\ At(r, "hgetall")
    /\ AfterRequest(r, redisUp)
    /\ IF redisUp /\ national # {} THEN Know(r, national) ELSE Goto(r, "fallback")
    /\ UNCHANGED <<tallyVars, faultVars>>

\* GetReferendumNationalSummary: the row of zeros.
FallBack(r) ==
    /\ At(r, "fallback")
    /\ Know(r, {})
    /\ UNCHANGED <<breakerVars, tallyVars, faultVars>>

ListProvinces(r) ==
    /\ At(r, "list")
    /\ read' = [read EXCEPT ![r].step = "provinces", ![r].left = Province]
    /\ UNCHANGED <<breakerVars, tallyVars, faultVars>>

\* GetReferendumProvinceSummary, one province at a time. A province without a
\* row, or whose query fails, is left out of the answer; without a row it has no
\* votes.
ResultOf(p) == {v \in committed : ProvinceOf[v] = p}

ReadProvince(r) ==
    /\ At(r, "provinces")
    /\ \E p \in read[r].left, fails \in BOOLEAN :
          /\ fails => ResultOf(p) # {}
          /\ read' = [read EXCEPT ![r] =
                [step |-> IF @.left = {p} THEN "answer" ELSE "provinces",
                 national |-> @.national,
                 provinces |-> IF fails THEN @.provinces ELSE @.provinces \cup ResultOf(p),
                 left |-> @.left \ {p},
                 skipped |-> @.skipped \/ fails]]
    /\ UNCHANGED <<breakerVars, tallyVars, faultVars>>

\* The answer is sent, or a query failed and the answer is an error.
Reply(r) ==
    /\ At(r, "answer")
    /\ Respond(r)
    /\ UNCHANGED <<breakerVars, tallyVars, faultVars>>

QueryFails(r) ==
    /\ read[r].step \in {"fallback", "list"}
    /\ Respond(r)
    /\ UNCHANGED <<breakerVars, tallyVars, faultVars>>

\* The client goes away, which cancels the context of its request: HGETALL
\* fails although Redis is up, and the breaker counts that as a failure.
Cancel(r) ==
    /\ cancels < MaxCancels
    /\ cancels' = cancels + 1
    /\ At(r, "hgetall")
    /\ AfterRequest(r, FALSE)
    /\ Respond(r)
    /\ UNCHANGED <<tallyVars, redisUp, outages>>

ApiRestart ==
    /\ Restart
    /\ read' = [r \in Reader |-> NoRead]
    /\ UNCHANGED <<tallyVars, faultVars>>

-----------------------------------------------------------------------------
Tick == (IntervalEnds \/ TimeoutEnds) /\ UNCHANGED <<tallyVars, faultVars, read>>

Serve(r) ==
    \/ Returned(r) \/ FallBack(r) \/ ListProvinces(r) \/ ReadProvince(r)
    \/ Reply(r) \/ QueryFails(r)

Next ==
    \/ \E c \in Consumer : UpdateRedis(c) \/ \E v \in Vote : ApplyReferendum(c, v)
    \/ RedisFails \/ RedisReturns
    \/ \E r \in Reader : StartRead(r) \/ Serve(r) \/ Cancel(r)
    \/ Tick
    \/ ApiRestart

Spec == Init /\ [][Next]_vars

\* The pages poll, handlers run, queries and calls return, and time passes.
\* Redis need not come back.
FairSpec ==
    /\ Spec
    /\ \A r \in Reader : WF_vars(StartRead(r)) /\ WF_vars(Serve(r))
    /\ \A c \in Consumer : WF_vars(UpdateRedis(c))
    /\ WF_vars(Tick)

-----------------------------------------------------------------------------
(* What must hold                                                          *)

\* Every vote in the national result of an answer is in the results of its
\* provinces, although they are read one after the other from two stores: a
\* vote is committed for its province before it is added to the hash, and is
\* never taken back. (Unless the query of a province failed.)
NationalWithinProvinces ==
    \A r \in Summarizer :
        At(r, "answer") /\ ~read[r].skipped => read[r].national \subseteq read[r].provinces

\* Every read is answered, also when Redis is down and the breaker is open,
\* closed or probing.
ReadsAnswered == \A r \in Reader : ~At(r, "idle") ~> At(r, "idle")

\* When Redis stays up, then in the end every answer has the national result
\* that Redis has: the breaker closes again, whatever failures it saw and
\* whichever calls come back late, and readers stop falling back to zeros.
AnswersRecover ==
    <>[]redisUp => <>[](\A r \in Reader : At(r, "answer") => read[r].national = national)
=============================================================================
