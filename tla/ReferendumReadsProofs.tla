------------------------ MODULE ReferendumReadsProofs ------------------------
(***************************************************************************)
(* Proofs about the circuit breaker and the referendum reads, for any      *)
(* thresholds and any sets of readers, votes and provinces.                *)
(*                                                                         *)
(* The breaker decides because its counts agree with the calls that are    *)
(* still counted, whatever late results come in; the answers agree because *)
(* a read never finds a vote in the hash that is not committed yet.        *)
(***************************************************************************)
EXTENDS ReferendumReads, FiniteSetTheorems, TLAPS

\* While probes decide, none of them has failed and too few have succeeded.
Undecided ==
    breaker = "halfOpen" =>
        /\ counts.failures = 0
        /\ counts.successes = counts.successesInRow
        /\ counts.successesInRow < MaxRequests

BreakerInv == BreakerTypeOK /\ CountsAgree /\ Undecided

\* The hash, and whatever was read from it, holds only committed votes.
HashIsCommitted ==
    /\ national \subseteq committed
    /\ \A c \in Consumer : updating[c] # None => updating[c] \in committed
    /\ \A r \in Reader : read[r].national \subseteq committed

\* A summary has, or has still to read, the province of every vote in its
\* national result, unless the query of a province failed.
Complete(x) ==
    /\ x.step = "provinces" /\ ~x.skipped =>
          \A v \in x.national : v \in x.provinces \/ ProvinceOf[v] \in x.left
    /\ x.step = "answer" /\ ~x.skipped => x.national \subseteq x.provinces

ReadOrLeft == \A r \in Summarizer : Complete(read[r])

IInv == TypeOK /\ BreakerInv /\ HashIsCommitted /\ ReadOrLeft

-----------------------------------------------------------------------------
(* The breaker                                                             *)

LEMMA CountedIsFinite ==
  ASSUME BreakerTypeOK
  PROVE  IsFiniteSet(counted) /\ Cardinality(counted) \in Nat
<1>1. counted \subseteq Reader
  BY DEF BreakerTypeOK
<1> QED BY <1>1, CircuitBreakerAssumption, FS_Subset, FS_CardinalityType

LEMMA NewGeneration ==
  ASSUME NEW state \in {"closed", "open", "halfOpen"}, SetState(state),
         calling' \subseteq Reader
  PROVE  BreakerInv'
<1>1. counts' = NoCounts /\ counted' = {} /\ breaker' = state
  BY DEF SetState
<1>2. Cardinality({}) = 0
  BY FS_EmptySet
<1> QED BY <1>1, <1>2, CircuitBreakerAssumption
        DEF BreakerInv, BreakerTypeOK, CountsAgree, Undecided, NoCounts, Counts

LEMMA BeforeRequestKeeps ==
  ASSUME BreakerInv, NEW r \in Reader, BeforeRequest(r)
  PROVE  BreakerInv'
<1>1. BreakerTypeOK
  BY DEF BreakerInv
<1>2. /\ counts' = [counts EXCEPT !.requests = @ + 1]
      /\ calling' = calling \cup {r}
      /\ counted' = counted \cup {r}
      /\ breaker' = breaker
      /\ r \notin counted
  BY <1>1 DEF BeforeRequest, BreakerTypeOK
<1>3. Cardinality(counted') = Cardinality(counted) + 1
  BY <1>1, <1>2, CountedIsFinite, FS_AddElement
<1>4. BreakerTypeOK'
  BY <1>1, <1>2 DEF BreakerTypeOK, Counts
<1>5. CountsAgree'
  BY <1>1, <1>2, <1>3, CountedIsFinite DEF BreakerInv, BreakerTypeOK, CountsAgree, Counts
<1>6. Undecided'
  BY <1>1, <1>2 DEF BreakerInv, BreakerTypeOK, Undecided, Counts
<1> QED BY <1>4, <1>5, <1>6 DEF BreakerInv

\* A result adds one success or one failure, and no request.
LEMMA CountsStayCounts ==
  ASSUME counts \in Counts
  PROVE  /\ Succeeded \in Counts
         /\ Succeeded.requests = counts.requests
         /\ Succeeded.successes = counts.successes + 1
         /\ Succeeded.failures = counts.failures
         /\ Failed \in Counts
         /\ Failed.requests = counts.requests
         /\ Failed.successes = counts.successes
         /\ Failed.failures = counts.failures + 1
BY DEF Counts, Succeeded, Failed

\* A result that is counted without a change of state.
LEMMA ResultCounted ==
  ASSUME BreakerInv, NEW r \in counted,
         counts' = Succeeded \/ counts' = Failed,
         counted' = counted \ {r}, calling' = calling \ {r}, breaker' = breaker
  PROVE  BreakerTypeOK' /\ CountsAgree'
<1>1. BreakerTypeOK
  BY DEF BreakerInv
<1>2. Cardinality(counted') = Cardinality(counted) - 1 /\ Cardinality(counted) \in Nat
  BY <1>1, CountedIsFinite, FS_RemoveElement
<1>3. counts' \in Counts /\ counts'.requests = counts.requests
      /\ counts'.successes + counts'.failures = counts.successes + counts.failures + 1
  <2>1. counts \in Counts
    BY <1>1 DEF BreakerTypeOK
  <2>2. Succeeded \in Counts /\ Failed \in Counts
    BY <2>1, CountsStayCounts
  <2>3. Succeeded.requests = counts.requests /\ Failed.requests = counts.requests
    BY <2>1, CountsStayCounts
  <2>4. /\ Succeeded.successes + Succeeded.failures = counts.successes + counts.failures + 1
        /\ Failed.successes + Failed.failures = counts.successes + counts.failures + 1
    BY <2>1, CountsStayCounts DEF Counts
  <2> QED BY <2>2, <2>3, <2>4
<1>4. BreakerTypeOK'
  BY <1>1, <1>3 DEF BreakerTypeOK
<1>5. CountsAgree'
  BY <1>1, <1>2, <1>3 DEF BreakerInv, BreakerTypeOK, CountsAgree, Counts
<1> QED BY <1>4, <1>5

LEMMA AfterRequestKeeps ==
  ASSUME BreakerInv, NEW r \in Reader, NEW ok \in BOOLEAN, AfterRequest(r, ok)
  PROVE  BreakerInv'
<1>1. BreakerTypeOK /\ r \in calling /\ calling' = calling \ {r} /\ calling' \subseteq Reader
  BY DEF BreakerInv, BreakerTypeOK, AfterRequest
<1>2. CASE r \notin counted
  BY <1>1, <1>2 DEF AfterRequest, OfThisGeneration, BreakerInv, BreakerTypeOK, CountsAgree, Undecided
<1>3. CASE r \in counted /\ ok
  <2>1. OnSuccess(r)
    BY <1>3 DEF AfterRequest, OfThisGeneration
  <2>2. CASE breaker = "halfOpen" /\ Succeeded.successesInRow >= MaxRequests
    BY <1>1, <2>1, <2>2, NewGeneration DEF OnSuccess
  <2>3. CASE ~(breaker = "halfOpen" /\ Succeeded.successesInRow >= MaxRequests)
    <3>1. counts' = Succeeded /\ counted' = counted \ {r} /\ breaker' = breaker
      BY <2>1, <2>3 DEF OnSuccess
    <3>2. BreakerTypeOK' /\ CountsAgree'
      BY <1>1, <1>3, <3>1, ResultCounted
    <3>3. Undecided'
      BY <1>1, <2>3, <3>1, CircuitBreakerAssumption
      DEF BreakerInv, BreakerTypeOK, Undecided, Counts, Succeeded
    <3> QED BY <3>2, <3>3 DEF BreakerInv
  <2> QED BY <2>2, <2>3
<1>4. CASE r \in counted /\ ~ok
  <2>1. OnFailure(r)
    BY <1>4 DEF AfterRequest, OfThisGeneration
  <2>2. CASE breaker = "halfOpen" \/ ReadyToTrip(Failed)
    BY <1>1, <2>1, <2>2, NewGeneration DEF OnFailure
  <2>3. CASE ~(breaker = "halfOpen" \/ ReadyToTrip(Failed))
    <3>1. counts' = Failed /\ counted' = counted \ {r} /\ breaker' = breaker
      BY <2>1, <2>3 DEF OnFailure
    <3>2. BreakerTypeOK' /\ CountsAgree'
      BY <1>1, <1>4, <3>1, ResultCounted
    <3>3. Undecided'
      BY <2>3, <3>1 DEF Undecided
    <3> QED BY <3>2, <3>3 DEF BreakerInv
  <2> QED BY <2>2, <2>3
<1> QED BY <1>2, <1>3, <1>4

LEMMA BreakerKeeps ==
  ASSUME BreakerInv, [BreakerNext]_breakerVars
  PROVE  BreakerInv'
<1>1. CASE UNCHANGED breakerVars
  BY <1>1 DEF breakerVars, BreakerInv, BreakerTypeOK, CountsAgree, Undecided
<1>2. ASSUME NEW r \in Reader, BeforeRequest(r) PROVE BreakerInv'
  BY <1>2, BeforeRequestKeeps
<1>3. ASSUME NEW r \in Reader, NEW ok \in BOOLEAN, AfterRequest(r, ok) PROVE BreakerInv'
  BY <1>3, AfterRequestKeeps
<1>4. CASE IntervalEnds \/ TimeoutEnds \/ Restart
  <2>1. calling' \subseteq Reader
    BY <1>4 DEF IntervalEnds, TimeoutEnds, Restart, BreakerInv, BreakerTypeOK
  <2> QED BY <1>4, <2>1, NewGeneration DEF IntervalEnds, TimeoutEnds, Restart
<1> QED BY <1>1, <1>2, <1>3, <1>4 DEF BreakerNext

\* A half-open breaker that is full has a counted probe on its way.
LEMMA FullHasProbe ==
  ASSUME BreakerInv
  PROVE  HalfOpenDecides
<1> SUFFICES ASSUME breaker = "halfOpen", ~Admits, counted = {} PROVE FALSE
  BY DEF HalfOpenDecides
<1>1. Cardinality(counted) = 0
  BY FS_EmptySet
<1> QED BY <1>1, CircuitBreakerAssumption
        DEF BreakerInv, BreakerTypeOK, CountsAgree, Undecided, Admits, Counts

-----------------------------------------------------------------------------
(* The reads                                                               *)

\* What a step of one reader must establish.
LEMMA ReaderStep ==
  ASSUME IInv, NEW r \in Reader, NEW x \in Read,
         read' = [read EXCEPT ![r] = x],
         BreakerInv',
         calling' = IF x.step = "hgetall" THEN calling \cup {r} ELSE calling \ {r},
         UNCHANGED <<tallyVars, redisUp, outages>>, cancels' \in 0..MaxCancels,
         x.national \subseteq committed,
         r \in Summarizer => Complete(x)
  PROVE  IInv'
<1>1. read \in [Reader -> Read] /\ calling = {q \in Reader : read[q].step = "hgetall"}
  BY DEF IInv, TypeOK
<1>2. read' \in [Reader -> Read] /\ read'[r] = x /\ \A q \in Reader \ {r} : read'[q] = read[q]
  BY <1>1
<1>3. calling' = {q \in Reader : read'[q].step = "hgetall"}
  BY <1>1, <1>2
<1>4. TypeOK'
  BY <1>2, <1>3 DEF IInv, TypeOK, BreakerInv, tallyVars
<1>5. HashIsCommitted'
  BY <1>2 DEF IInv, HashIsCommitted, tallyVars
<1>6. ReadOrLeft'
  <2> SUFFICES ASSUME NEW q \in Summarizer PROVE Complete(read'[q])
    BY DEF ReadOrLeft, Complete
  <2>1. CASE q = r
    BY <1>2, <2>1
  <2>2. CASE q # r
    BY <1>2, <2>2, ReferendumReadsAssumption DEF IInv, ReadOrLeft
  <2> QED BY <2>1, <2>2
<1> QED BY <1>4, <1>5, <1>6 DEF IInv

\* A step that leaves the readers and the breaker alone.
LEMMA OtherStep ==
  ASSUME IInv, UNCHANGED <<breakerVars, read>>, BreakerInv',
         committed \subseteq committed', committed' \subseteq Vote,
         national' \subseteq committed',
         updating' \in [Consumer -> Vote \cup {None}],
         \A c \in Consumer : updating'[c] # None => updating'[c] \in committed',
         redisUp' \in BOOLEAN, outages' \in 0..MaxOutages, UNCHANGED cancels
  PROVE  IInv'
<1>1. TypeOK'
  BY DEF IInv, TypeOK, BreakerInv, breakerVars
<1>2. HashIsCommitted'
  BY DEF IInv, HashIsCommitted
<1>3. ReadOrLeft'
  BY DEF IInv, ReadOrLeft, Complete
<1> QED BY <1>1, <1>2, <1>3 DEF IInv

\* Every step is a step of the breaker or leaves it alone.
LEMMA StepsAreBreakerSteps ==
  ASSUME redisUp \in BOOLEAN, [Next]_vars
  PROVE  [BreakerNext]_breakerVars
<1>1. CASE UNCHANGED vars
  BY <1>1 DEF vars
<1>2. ASSUME NEW r \in Reader, StartRead(r) PROVE [BreakerNext]_breakerVars
  BY <1>2 DEF StartRead, Refuse, BreakerNext
<1>3. ASSUME NEW r \in Reader, Serve(r) PROVE [BreakerNext]_breakerVars
  <2>1. CASE Returned(r)
    BY <2>1 DEF Returned, BreakerNext
  <2>2. CASE FallBack(r) \/ ListProvinces(r) \/ ReadProvince(r) \/ Reply(r) \/ QueryFails(r)
    BY <2>2 DEF FallBack, ListProvinces, ReadProvince, Reply, QueryFails
  <2> QED BY <1>3, <2>1, <2>2 DEF Serve
<1>4. ASSUME NEW r \in Reader, Cancel(r) PROVE [BreakerNext]_breakerVars
  BY <1>4 DEF Cancel, BreakerNext
<1>5. CASE Tick \/ ApiRestart
  BY <1>5 DEF Tick, ApiRestart, BreakerNext
<1>6. CASE RedisFails \/ RedisReturns
  BY <1>6 DEF RedisFails, RedisReturns
<1>7. CASE \E c \in Consumer : UpdateRedis(c) \/ \E v \in Vote : ApplyReferendum(c, v)
  BY <1>7 DEF UpdateRedis, ApplyReferendum
<1> QED BY <1>1, <1>2, <1>3, <1>4, <1>5, <1>6, <1>7 DEF Next

LEMMA InitInv ==
  ASSUME Init
  PROVE  IInv
<1>1. BreakerInv
  <2>1. Cardinality({}) = 0
    BY FS_EmptySet
  <2> QED BY <2>1, CircuitBreakerAssumption
          DEF Init, BreakerInit, BreakerInv, BreakerTypeOK, CountsAgree, Undecided, NoCounts, Counts
<1>2. NoRead \in Read
  BY DEF NoRead, Read, Steps
<1>3. TypeOK
  BY <1>1, <1>2, ReferendumReadsAssumption
  DEF Init, BreakerInit, TypeOK, BreakerInv, NoRead
<1>4. HashIsCommitted /\ ReadOrLeft
  BY ReferendumReadsAssumption DEF Init, HashIsCommitted, ReadOrLeft, Complete, NoRead
<1> QED BY <1>1, <1>3, <1>4 DEF IInv

\* The tallies and Redis change.
LEMMA TallyStepKeeps ==
  ASSUME IInv, BreakerInv'
  PROVE  /\ \A c \in Consumer, v \in Vote : ApplyReferendum(c, v) => IInv'
         /\ \A c \in Consumer : UpdateRedis(c) => IInv'
         /\ RedisFails => IInv'
         /\ RedisReturns => IInv'
<1>1. ASSUME NEW c \in Consumer, NEW v \in Vote, ApplyReferendum(c, v) PROVE IInv'
  BY <1>1, OtherStep DEF ApplyReferendum, faultVars, IInv, TypeOK, HashIsCommitted
<1>2. ASSUME NEW c \in Consumer, UpdateRedis(c) PROVE IInv'
  BY <1>2, OtherStep DEF UpdateRedis, faultVars, IInv, TypeOK, HashIsCommitted
<1>3. ASSUME RedisFails PROVE IInv'
  <2>1. outages' \in 0..MaxOutages /\ redisUp' \in BOOLEAN
    <3>1. outages \in 0..MaxOutages /\ outages < MaxOutages /\ outages' = outages + 1
      BY <1>3 DEF RedisFails, IInv, TypeOK
    <3>2. outages' \in 0..MaxOutages
      BY <3>1, ReferendumReadsAssumption
    <3> QED BY <1>3, <3>2 DEF RedisFails
  <2>2. national' \subseteq national /\ UNCHANGED <<breakerVars, read, committed, updating, cancels>>
    BY <1>3 DEF RedisFails
  <2> QED BY <2>1, <2>2, OtherStep DEF IInv, TypeOK, HashIsCommitted
<1>4. ASSUME RedisReturns PROVE IInv'
  BY <1>4, OtherStep DEF RedisReturns, tallyVars, IInv, TypeOK, HashIsCommitted
<1> QED BY <1>1, <1>2, <1>3, <1>4

\* The steps of a reader.
LEMMA ReaderStepKeeps ==
  ASSUME IInv, BreakerInv', NEW r \in Reader, StartRead(r) \/ Serve(r) \/ Cancel(r)
  PROVE  IInv'
<1> DEFINE x == read[r]
<1>1. x \in Read /\ x.national \subseteq committed /\ (r \in Summarizer => Complete(x))
      /\ (r \in calling <=> x.step = "hgetall") /\ calling \subseteq Reader
  BY DEF IInv, TypeOK, HashIsCommitted, ReadOrLeft
<1>2. committed \subseteq Vote /\ national \subseteq committed /\ redisUp \in BOOLEAN
      /\ cancels \in 0..MaxCancels
  BY DEF IInv, TypeOK, HashIsCommitted
<1>3. NoRead \in Read /\ NoRead.step = "idle" /\ NoRead.national = {} /\ Complete(NoRead)
  BY DEF NoRead, Read, Steps, Complete
<1>4. \* Only the step of the handler changes, and it is not one of the last two.
      ASSUME NEW step \in {"hgetall", "fallback", "list"}, Goto(r, step),
             calling' = IF step = "hgetall" THEN calling \cup {r} ELSE calling \ {r},
             UNCHANGED <<tallyVars, faultVars>>
      PROVE  IInv'
  <2> DEFINE y == [x EXCEPT !.step = step]
  <2>1. y \in Read /\ y.step = step /\ y.national = x.national /\ Complete(y)
    BY <1>1 DEF Read, Steps, Complete
  <2>2. read' = [read EXCEPT ![r] = y]
    BY <1>4 DEF Goto
  <2> HIDE DEF y
  <2> QED BY <1>1, <1>2, <1>4, <2>1, <2>2, ReaderStep DEF faultVars
<1>5. \* The national result is known.
      ASSUME NEW n \in SUBSET committed, Know(r, n), x.step \in {"hgetall", "fallback"},
             calling' = calling \ {r}, UNCHANGED <<tallyVars, faultVars>>
      PROVE  IInv'
  <2> DEFINE s == IF r \in Summarizer THEN "list" ELSE "answer"
             y == [[x EXCEPT !.national = n] EXCEPT !.step = s]
  <2>1. y \in Read /\ y.step = s /\ y.national = n /\ (r \in Summarizer => Complete(y))
    BY <1>1, <1>2 DEF Read, Steps, Complete
  <2>2. read' = [read EXCEPT ![r] = y]
    BY <1>5 DEF Know
  <2> HIDE DEF y
  <2> QED BY <1>1, <1>2, <1>5, <2>1, <2>2, ReaderStep DEF faultVars
<1>6. \* The handler responds.
      ASSUME Respond(r), calling' = calling \ {r},
             UNCHANGED <<tallyVars, redisUp, outages>>, cancels' \in 0..MaxCancels
      PROVE  IInv'
  BY <1>3, <1>6, ReaderStep DEF Respond
<1>7. CASE StartRead(r)
  <2>1. CASE BeforeRequest(r) /\ Goto(r, "hgetall")
    BY <1>4, <1>7, <2>1 DEF StartRead, BeforeRequest
  <2>2. CASE Refuse(r) /\ Goto(r, "fallback")
    BY <1>1, <1>4, <1>7, <2>2 DEF StartRead, Refuse, breakerVars, At
  <2> QED BY <1>7, <2>1, <2>2 DEF StartRead
<1>8. CASE Returned(r)
  <2>1. calling' = calling \ {r} /\ x.step = "hgetall" /\ UNCHANGED <<tallyVars, faultVars>>
    BY <1>8 DEF Returned, AfterRequest, At
  <2>2. CASE redisUp /\ national # {}
    BY <1>2, <1>5, <1>8, <2>1, <2>2 DEF Returned
  <2>3. CASE ~(redisUp /\ national # {})
    BY <1>4, <1>8, <2>1, <2>3 DEF Returned
  <2> QED BY <2>2, <2>3
<1>9. CASE FallBack(r)
  BY <1>1, <1>5, <1>9 DEF FallBack, breakerVars, At
<1>10. CASE ListProvinces(r)
  <2> DEFINE y == [[x EXCEPT !.step = "provinces"] EXCEPT !.left = Province]
  <2>1. /\ y \in Read /\ y.step = "provinces" /\ y.national = x.national
        /\ y.left = Province
    BY <1>1 DEF Read, Steps
  <2>2. read' = [read EXCEPT ![r] = y]
    BY <1>10 DEF ListProvinces
  <2>3. Complete(y)
    BY <1>1, <1>2, <2>1, ReferendumReadsAssumption DEF Complete
  <2> HIDE DEF y
  <2>4. calling' = calling \ {r} /\ UNCHANGED <<tallyVars, faultVars>>
    BY <1>1, <1>10 DEF ListProvinces, breakerVars, At
  <2> QED BY <1>1, <1>2, <2>1, <2>2, <2>3, <2>4, ReaderStep DEF faultVars
<1>11. CASE ReadProvince(r)
  <2> DEFINE after(p, fails) ==
               [step |-> IF x.left = {p} THEN "answer" ELSE "provinces",
                national |-> x.national,
                provinces |-> IF fails THEN x.provinces ELSE x.provinces \cup ResultOf(p),
                left |-> x.left \ {p},
                skipped |-> x.skipped \/ fails]
  <2>1. PICK p \in x.left, fails \in BOOLEAN : read' = [read EXCEPT ![r] = after(p, fails)]
    BY <1>11 DEF ReadProvince
  <2> DEFINE y == after(p, fails)
  <2>2. y \in Read /\ y.national = x.national /\ y.step # "hgetall"
    BY <1>1, <1>2 DEF Read, Steps, ResultOf
  <2>3. read' = [read EXCEPT ![r] = y]
    BY <2>1
  <2>4. r \in Summarizer => Complete(y)
    BY <1>1, <1>2, <1>11 DEF ReadProvince, At, Complete, Read, ResultOf
  <2> HIDE DEF y
  <2>5. calling' = calling \ {r} /\ UNCHANGED <<tallyVars, faultVars>>
    BY <1>1, <1>11 DEF ReadProvince, breakerVars, At
  <2> QED BY <1>1, <1>2, <2>2, <2>3, <2>4, <2>5, ReaderStep DEF faultVars
<1>12. CASE Reply(r) \/ QueryFails(r)
  <2>1. calling' = calling \ {r} /\ UNCHANGED <<tallyVars, faultVars>>
    BY <1>1, <1>12 DEF Reply, QueryFails, breakerVars, At
  <2> QED BY <1>2, <1>6, <1>12, <2>1 DEF Reply, QueryFails, faultVars
<1>13. CASE Cancel(r)
  <2>1. cancels' \in 0..MaxCancels
    BY <1>2, <1>13, ReferendumReadsAssumption DEF Cancel
  <2> QED BY <1>6, <1>13, <2>1 DEF Cancel, AfterRequest
<1> QED BY <1>7, <1>8, <1>9, <1>10, <1>11, <1>12, <1>13 DEF Serve

LEMMA NextKeepsInv ==
  ASSUME IInv, [Next]_vars
  PROVE  IInv'
<1>1. BreakerInv'
  <2>1. [BreakerNext]_breakerVars
    BY StepsAreBreakerSteps DEF IInv, TypeOK
  <2> QED BY <2>1, BreakerKeeps DEF IInv
<1>2. CASE UNCHANGED vars
  BY <1>1, <1>2 DEF vars, tallyVars, faultVars, breakerVars, IInv, TypeOK, BreakerInv,
                    HashIsCommitted, ReadOrLeft, Complete
<1>3. ASSUME NEW r \in Reader, StartRead(r) \/ Serve(r) \/ Cancel(r) PROVE IInv'
  BY <1>1, <1>3, ReaderStepKeeps
<1>4. CASE Tick
  <2>1. TypeOK'
    BY <1>1, <1>4 DEF Tick, IntervalEnds, TimeoutEnds, tallyVars, faultVars, IInv, TypeOK, BreakerInv
  <2>2. HashIsCommitted' /\ ReadOrLeft'
    BY <1>4 DEF Tick, tallyVars, IInv, HashIsCommitted, ReadOrLeft, Complete
  <2> QED BY <1>1, <2>1, <2>2 DEF IInv
<1>5. CASE ApiRestart
  <2>1. NoRead \in Read /\ NoRead.step = "idle" /\ NoRead.national = {} /\ Complete(NoRead)
    BY DEF NoRead, Read, Steps, Complete
  <2>2. \A r \in Reader : read'[r] = NoRead
    BY <1>5 DEF ApiRestart
  <2>3. TypeOK'
    BY <1>1, <1>5, <2>1 DEF ApiRestart, Restart, tallyVars, faultVars, IInv, TypeOK, BreakerInv
  <2>4. HashIsCommitted'
    BY <1>5, <2>1, <2>2 DEF ApiRestart, tallyVars, IInv, HashIsCommitted
  <2>5. ReadOrLeft'
    BY <2>1, <2>2, ReferendumReadsAssumption DEF ReadOrLeft, Complete
  <2> QED BY <1>1, <2>3, <2>4, <2>5 DEF IInv
<1> QED BY <1>1, <1>2, <1>3, <1>4, <1>5, TallyStepKeeps DEF Next

-----------------------------------------------------------------------------
(* The theorems                                                            *)

\* The strengthened invariant holds in every reachable state.
THEOREM Invariant == Spec => []IInv
<1>1. Init => IInv
  BY InitInv
<1>2. IInv /\ [Next]_vars => IInv'
  BY NextKeepsInv
<1> QED BY <1>1, <1>2, PTL DEF Spec

\* The breaker, the tallies and the handlers of the readers keep to their types.
THEOREM TypeCorrect == Spec => []TypeOK
<1>1. IInv => TypeOK
  BY DEF IInv
<1> QED BY <1>1, Invariant, PTL

\* gobreaker's counts always agree with the calls on their way, so that late
\* results of readers never count in a later generation.
THEOREM BreakerCounts == Spec => []CountsAgree
<1>1. IInv => CountsAgree
  BY DEF IInv, BreakerInv
<1> QED BY <1>1, Invariant, PTL

\* A half-open breaker that refuses waits for a probe, for any number of
\* readers and probes and any thresholds.
THEOREM BreakerDecides == Spec => []HalfOpenDecides
<1>1. IInv => HalfOpenDecides
  BY FullHasProbe DEF IInv
<1> QED BY <1>1, Invariant, PTL

\* A referendum summary never shows a national result that its provinces,
\* read after it from the other store, do not have yet.
THEOREM SummaryAddsUp == Spec => []NationalWithinProvinces
<1>1. IInv => NationalWithinProvinces
  BY DEF IInv, ReadOrLeft, Complete, NationalWithinProvinces, At
<1> QED BY <1>1, Invariant, PTL

\* The handlers use the breaker as its own specification says.
THEOREM ReadsUseBreaker == Spec => BreakerSpec
<1>1. Init => BreakerInit
  BY DEF Init
<1>2. IInv /\ [Next]_vars => [BreakerNext]_breakerVars
  BY StepsAreBreakerSteps DEF IInv, TypeOK
<1> QED BY <1>1, <1>2, Invariant, PTL DEF Spec, BreakerSpec
=============================================================================
