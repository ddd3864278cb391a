---------------------------- MODULE VoteCounting ----------------------------
(***************************************************************************)
(* From an accepted vote to the totals: the ingestion and admin-batch      *)
(* handlers of the API (internal/api/handlers/ingestion.go, admin.go), the *)
(* Kafka topics, the four consumers of the worker and the atomic updater   *)
(* (internal/worker) with vote_events, the read models and the Redis       *)
(* leaderboards.                                                           *)
(*                                                                         *)
(* The read models and leaderboards are sums to which a message adds its   *)
(* vote count. Additions commute, so instead of the sums the module keeps  *)
(* how often each message was added: the totals are right when every vote  *)
(* event was added exactly once.                                           *)
(***************************************************************************)
EXTENDS Integers, Sequences, FiniteSets, Functions

CONSTANTS
    Report,         \* tallies of polling stations, each under its own key
    Genuine,        \* those whose Ed25519 signature verifies
    Batch,          \* admin batches
    BatchSize,      \* entries per batch
    OnlineVote,     \* votes CastVote records (see OnlineVoting)
    BallotOf,       \* the ballot type of a report, batch entry or online vote
    Request,        \* slots for concurrent IngestVote handlers
    None,           \* no message
    MaxRetries,     \* 3 in baseConsumer.run and OnlineConsumer.Run
    MaxAttempts,    \* 3, how often kafka.Writer writes a message
    MaxSends,       \* 4, how often go-redis sends a command: once and 3 retries
    MaxLog,         \* model bound: messages in all topics together
    MaxCrashes      \* model bound: crashes of the worker

Ballot == {"CONSTITUENCY", "PARTY_LIST", "REFERENDUM"}
Topic == {"votes.constituency", "votes.party_list", "votes.referendum", "votes.online"}

ASSUME VoteCountingAssumption ==
    /\ Genuine \subseteq Report
    /\ BatchSize \in Nat
    /\ BallotOf \in [Report \cup (Batch \X (1..BatchSize)) \cup OnlineVote -> Ballot]
    /\ MaxRetries \in Nat \ {0}
    /\ MaxAttempts \in Nat \ {0}
    /\ MaxSends \in Nat \ {0}
    /\ MaxLog \in Nat
    /\ MaxCrashes \in Nat

-----------------------------------------------------------------------------
(* Messages                                                                *)

\* The key of a batch entry is admin_batch:{admin}:{index}; the admin is left
\* out because all batches are those of one admin.
EntryKey(b, i) == <<"admin_batch", i>>

ReportMsg(p) == [source |-> "physical", id |-> p, key |-> <<"station", p>>]
EntryMsg(b, i) == [source |-> "admin_batch", id |-> <<b, i>>, key |-> EntryKey(b, i)]
OnlineMsg(v) == [source |-> "online", id |-> v, key |-> <<"session|ballot", v>>]

Message ==
    {ReportMsg(p) : p \in Report}
        \cup {EntryMsg(b, i) : b \in Batch, i \in 1..BatchSize}
        \cup {OnlineMsg(v) : v \in OnlineVote}

IsOnline(m) == m.source = "online"

TopicFor(m) ==
    IF IsOnline(m) THEN "votes.online"
    ELSE CASE BallotOf[m.id] = "PARTY_LIST" -> "votes.party_list"
           [] BallotOf[m.id] = "REFERENDUM" -> "votes.referendum"
           [] OTHER -> "votes.constituency"

\* The Redis counters a message is added to, one command each.
Counter == {"province", "provinceTotal", "national", "nationalTotal"}
CountersOf(m) ==
    CASE BallotOf[m.id] = "CONSTITUENCY" -> {"province"}
      [] BallotOf[m.id] = "PARTY_LIST" -> {"national"}
      [] BallotOf[m.id] = "REFERENDUM" -> Counter

-----------------------------------------------------------------------------
VARIABLES
    idemKeys,       \* Redis idempotency:{key}
    req,            \* IngestVote handlers
    accepted,       \* messages answered with 202
    duplicates,     \* messages answered with 200 "vote already accepted"
    batchNext,      \* per batch, the entry BatchVotes publishes next
    castStep,       \* per online vote, how far CastVote has come
    log,            \* per topic, the messages in it
    handled,        \* per topic, how many messages the consumer is done with
    committed,      \* per topic, the offset stored in Kafka
    cons,           \* per topic, the consumer's step and attempt
    events,         \* messages with a row in vote_events
    summary,        \* how often a message was added to the read models
    redis,          \* how often a message was added to each Redis counter
    dropped,        \* messages given up after MaxRetries attempts
    crashes         \* crashes of the worker so far

apiVars == <<idemKeys, req, accepted, duplicates, batchNext, castStep>>
workerVars == <<handled, committed, cons, dropped, crashes>>
tallyVars == <<summary, redis>>
vars == <<apiVars, log, workerVars, events, tallyVars>>

IngestStep == {"idle", "setKey", "verify", "publish"}
ConsumerStep == {"fetch", "insert", "apply", "commit", "redis", "mark"}
Idle == [step |-> "idle", msg |-> None]

TypeOK ==
    /\ idemKeys \subseteq {m.key : m \in Message}
    /\ req \in [Request -> [step : IngestStep, msg : Message \cup {None}]]
    /\ accepted \subseteq Message
    /\ duplicates \subseteq Message
    /\ batchNext \in [Batch -> 1..(BatchSize + 1)]
    /\ castStep \in [OnlineVote -> {"open", "recorded", "done"}]
    /\ log \in [Topic -> Seq(Message)]
    /\ handled \in [Topic -> Nat]
    /\ committed \in [Topic -> Nat]
    /\ cons \in [Topic -> [step : ConsumerStep, attempt : 0..MaxRetries]]
    /\ events \subseteq Message
    /\ summary \in [Message -> Nat]
    /\ redis \in [Message -> [Counter -> Nat]]
    /\ dropped \subseteq Message
    /\ crashes \in 0..MaxCrashes

Init ==
    /\ idemKeys = {}
    /\ req = [r \in Request |-> Idle]
    /\ accepted = {}
    /\ duplicates = {}
    /\ batchNext = [b \in Batch |-> 1]
    /\ castStep = [v \in OnlineVote |-> "open"]
    /\ log = [t \in Topic |-> <<>>]
    /\ handled = [t \in Topic |-> 0]
    /\ committed = [t \in Topic |-> 0]
    /\ cons = [t \in Topic |-> [step |-> "fetch", attempt |-> 0]]
    /\ events = {}
    /\ summary = [m \in Message |-> 0]
    /\ redis = [m \in Message |-> [c \in Counter |-> 0]]
    /\ dropped = {}
    /\ crashes = 0

-----------------------------------------------------------------------------
(* Publishing. WriteMessages writes up to MaxAttempts times and waits for   *)
(* no acknowledgement: RequiredAcks is not set, which in kafka.Writer is    *)
(* RequireNone. How many copies are in the topic then, and whether an error *)
(* is returned, are independent of each other.                             *)

Published == SumFunction([t \in Topic |-> Len(log[t])])

Publish(m, copies) ==
    LET t == TopicFor(m) IN
    /\ Published + copies <= MaxLog
    /\ log' = [log EXCEPT ![t] = @ \o [i \in 1..copies |-> m]]

PublishSome(m) == \E copies \in 0..MaxAttempts : Publish(m, copies)

-----------------------------------------------------------------------------
(* IngestVote                                                              *)

Goto(r, l) == req' = [req EXCEPT ![r].step = l]
Finish(r) == req' = [req EXCEPT ![r] = Idle]

\* A station submits a report, or submits it again.
IngestVote(r, p) ==
    /\ req[r].step = "idle"
    /\ req' = [req EXCEPT ![r] = [step |-> "setKey", msg |-> ReportMsg(p)]]
    /\ UNCHANGED <<idemKeys, accepted, duplicates, batchNext, castStep,
                   log, workerVars, events, tallyVars>>

\* SET idempotency:{key} NX EX 86400. An existing key answers 200, also the
\* request's own key when go-redis sends the SET again because its answer came
\* late; an error of Redis is logged and the handler goes on.
SetIdempotencyKey(r) ==
    LET m == req[r].msg IN
    /\ req[r].step = "setKey"
    /\ \/ /\ m.key \notin idemKeys
          /\ idemKeys' = idemKeys \cup {m.key}
          /\ Goto(r, "verify")
          /\ UNCHANGED duplicates
       \/ /\ m.key \in idemKeys \/ MaxSends > 1
          /\ idemKeys' = idemKeys \cup {m.key}
          /\ duplicates' = duplicates \cup {m}
          /\ Finish(r)
       \/ /\ idemKeys' \in {idemKeys, idemKeys \cup {m.key}}
          /\ Goto(r, "verify")
          /\ UNCHANGED duplicates
    /\ UNCHANGED <<accepted, batchNext, castStep, log, workerVars, events, tallyVars>>

\* A signature of the station's province admits a report.
AdmitsAny(m) == TRUE
Admits(m) == m.id \in Genuine

\* GetProvinceKey and ed25519.Verify; a refusal leaves the idempotency key.
VerifySignature(r) ==
    /\ req[r].step = "verify"
    /\ \/ Admits(req[r].msg) /\ Goto(r, "publish")
       \/ Finish(r)
    /\ UNCHANGED <<idemKeys, accepted, duplicates, batchNext, castStep,
                   log, workerVars, events, tallyVars>>

\* 202, or 503 "please retry"; the idempotency key stays in either case.
PublishReport(r) ==
    LET m == req[r].msg IN
    /\ req[r].step = "publish"
    /\ PublishSome(m)
    /\ accepted' \in {accepted, accepted \cup {m}}
    /\ Finish(r)
    /\ UNCHANGED <<idemKeys, duplicates, batchNext, castStep, workerVars, events, tallyVars>>

\* The 24 h of KeyTTLIdempotency pass.
KeyExpires(k) ==
    /\ k \in idemKeys
    /\ idemKeys' = idemKeys \ {k}
    /\ UNCHANGED <<req, accepted, duplicates, batchNext, castStep,
                   log, workerVars, events, tallyVars>>

ApiCrash ==
    /\ \E r \in Request : req[r] # Idle
    /\ req' = [r \in Request |-> Idle]
    /\ UNCHANGED <<idemKeys, accepted, duplicates, batchNext, castStep,
                   log, workerVars, events, tallyVars>>

-----------------------------------------------------------------------------
(* BatchVotes and CastVote                                                 *)

\* The loop over the entries of a batch: an entry is published, or counted as
\* failed, and the loop goes on.
BatchEntry(b) ==
    LET i == batchNext[b] IN
    /\ i <= BatchSize
    /\ PublishSome(EntryMsg(b, i))
    /\ batchNext' = [batchNext EXCEPT ![b] = i + 1]
    /\ UNCHANGED <<idemKeys, req, accepted, duplicates, castStep,
                   workerVars, events, tallyVars>>

\* The transaction of CastVote commits the event of an online vote ...
RecordOnline(v) ==
    /\ castStep[v] = "open"
    /\ castStep' = [castStep EXCEPT ![v] = "recorded"]
    /\ events' = events \cup {OnlineMsg(v)}
    /\ UNCHANGED <<idemKeys, req, accepted, duplicates, batchNext,
                   log, workerVars, tallyVars>>

\* ... and its message is published after the commit, or not.
PublishableEarly(v) == castStep[v] # "done"
Publishable(v) == castStep[v] = "recorded"

PublishOnline(v) ==
    /\ Publishable(v)
    /\ castStep' = [castStep EXCEPT ![v] = "done"]
    /\ PublishSome(OnlineMsg(v))
    /\ UNCHANGED <<idemKeys, req, accepted, duplicates, batchNext,
                   workerVars, events, tallyVars>>

-----------------------------------------------------------------------------
(* The consumers: baseConsumer.run with AtomicUpdater.Process, and          *)
(* OnlineConsumer.Run with ApplyReadModels. Each topic has one consumer, a  *)
(* goroutine that handles a message to its end before it fetches the next.  *)

Current(t) == log[t][handled[t] + 1]
Continue(t, l) == cons' = [cons EXCEPT ![t].step = l]

\* Where an attempt at m begins: the event of an online vote is there already.
FirstStep(m) == IF IsOnline(m) THEN "apply" ELSE "insert"

\* FetchMessage and json.Unmarshal, which does not fail: whatever is in a
\* topic was marshalled from a VoteMessage.
Fetch(t) ==
    /\ cons[t].step = "fetch"
    /\ handled[t] < Len(log[t])
    /\ cons' = [cons EXCEPT ![t] = [step |-> FirstStep(Current(t)), attempt |-> 1]]
    /\ UNCHANGED <<apiVars, log, handled, committed, dropped, crashes, events, tallyVars>>

GivesUpLate(attempt) == attempt > MaxRetries
GivesUp(attempt) == attempt >= MaxRetries

\* An attempt ends with an error and its transaction is rolled back: the next
\* attempt, or "max retries exceeded - message dropped". A worker that shuts
\* down cancels the context, which fails all attempts that are left.
AttemptFails(t) ==
    LET n == cons[t].attempt
        m == Current(t)
    IN  IF GivesUp(n)
        THEN /\ dropped' = dropped \cup {m}
             /\ Continue(t, "mark")
        ELSE /\ cons' = [cons EXCEPT ![t] = [step |-> FirstStep(m), attempt |-> n + 1]]
             /\ UNCHANGED dropped

\* The unique index on vote_events.idempotency_key: a committed row with the
\* key of m is a violation, one of a running transaction is waited for.
KeyTakenNever(m) == FALSE
KeyTaken(m) == \E e \in events : e.key = m.key
InsertersHoldKey == {"insert", "apply", "commit"}
HoldsKey == {"apply", "commit"}
AwaitsNobody(t) == FALSE
AwaitsKey(t) ==
    \E u \in Topic \ {t} :
        /\ cons[u].step \in HoldsKey
        /\ ~IsOnline(Current(u))
        /\ Current(u).key = Current(t).key

InsertEvent(t) ==
    /\ cons[t].step = "insert"
    /\ ~AwaitsKey(t)
    /\ \/ ~KeyTaken(Current(t)) /\ Continue(t, "apply") /\ UNCHANGED dropped
       \/ AttemptFails(t)
    /\ UNCHANGED <<apiVars, log, handled, committed, crashes, events, tallyVars>>

\* applyConstituency, applyPartyList and applyReferendum: the upserts of the
\* read models, seen by nobody before COMMIT.
ApplyReadModels(t) ==
    /\ cons[t].step = "apply"
    /\ \/ Continue(t, "commit") /\ UNCHANGED dropped
       \/ AttemptFails(t)
    /\ UNCHANGED <<apiVars, log, handled, committed, crashes, events, tallyVars>>

\* What a commit makes visible: the upserts and, except for an online vote,
\* the event.
CommitRows(m) ==
    /\ summary' = [summary EXCEPT ![m] = @ + 1]
    /\ events' = IF IsOnline(m) THEN events ELSE events \cup {m}

\* An error of COMMIT ends the attempt before the leaderboards are told.
AfterFailedCommitGoOn(t) == Continue(t, "redis") /\ UNCHANGED dropped
AfterFailedCommit(t) == AttemptFails(t)

\* COMMIT succeeds, fails, or takes effect although its answer is an error.
CommitTx(t) ==
    /\ cons[t].step = "commit"
    /\ \/ CommitRows(Current(t)) /\ Continue(t, "redis") /\ UNCHANGED dropped
       \/ CommitRows(Current(t)) /\ AfterFailedCommit(t)
       \/ UNCHANGED <<events, summary>> /\ AfterFailedCommit(t)
    /\ UNCHANGED <<apiVars, log, handled, committed, crashes, redis>>

\* updateRedis: every error is ignored. go-redis sends a command again when its
\* answer does not come within ReadTimeout, so Redis executes it up to MaxSends
\* times, or never. (The broadcast and the cache of the seat calculation keep no
\* tally.)
UpdateRedis(t) ==
    LET m == Current(t) IN
    /\ cons[t].step = "redis"
    /\ \E executed \in [CountersOf(m) -> 0..MaxSends] :
          redis' = [redis EXCEPT ![m] =
              [c \in Counter |-> IF c \in CountersOf(m) THEN @[c] + executed[c] ELSE @[c]]]
    /\ Continue(t, "mark")
    /\ UNCHANGED <<apiVars, log, handled, committed, dropped, crashes, events, summary>>

\* CommitMessages: with a CommitInterval the offset is only remembered ...
MarkOffset(t) ==
    /\ cons[t].step = "mark"
    /\ handled' = [handled EXCEPT ![t] = @ + 1]
    /\ cons' = [cons EXCEPT ![t] = [step |-> "fetch", attempt |-> 0]]
    /\ UNCHANGED <<apiVars, log, committed, dropped, crashes, events, tallyVars>>

\* ... and sent to Kafka within a second.
OffsetOfFetched(t) == IF cons[t].step = "fetch" THEN handled[t] ELSE handled[t] + 1
OffsetToCommit(t) == handled[t]

FlushOffset(t) ==
    /\ committed[t] < OffsetToCommit(t)
    /\ committed' = [committed EXCEPT ![t] = OffsetToCommit(t)]
    /\ UNCHANGED <<apiVars, log, handled, cons, dropped, crashes, events, tallyVars>>

\* The worker dies and starts again: open transactions are rolled back, and
\* the consumers go on behind the committed offsets.
WorkerCrash ==
    /\ crashes < MaxCrashes
    /\ crashes' = crashes + 1
    /\ handled' = committed
    /\ cons' = [t \in Topic |-> [step |-> "fetch", attempt |-> 0]]
    /\ UNCHANGED <<apiVars, log, committed, dropped, events, tallyVars>>

-----------------------------------------------------------------------------
Ingest(r) ==
    \/ \E p \in Report : IngestVote(r, p)
    \/ SetIdempotencyKey(r) \/ VerifySignature(r) \/ PublishReport(r)

Consume(t) ==
    \/ Fetch(t) \/ InsertEvent(t) \/ ApplyReadModels(t) \/ CommitTx(t)
    \/ UpdateRedis(t) \/ MarkOffset(t)

Next ==
    \/ \E r \in Request : Ingest(r)
    \/ \E m \in Message : KeyExpires(m.key)
    \/ ApiCrash
    \/ \E b \in Batch : BatchEntry(b)
    \/ \E v \in OnlineVote : RecordOnline(v) \/ PublishOnline(v)
    \/ \E t \in Topic : Consume(t) \/ FlushOffset(t)
    \/ WorkerCrash

Spec == Init /\ [][Next]_vars

\* The consumer goroutines run, their calls end, and kafka-go's commit loop
\* ticks every second.
FairSpec ==
    /\ Spec
    /\ \A t \in Topic : WF_vars(Consume(t)) /\ WF_vars(FlushOffset(t))

-----------------------------------------------------------------------------
(* What must hold                                                          *)

Physical == {m \in Message : ~IsOnline(m)}

\* Reports and batch entries are in the read models exactly once if they have
\* a vote event and not at all otherwise, whatever is redelivered, retried or
\* committed without an answer (Process inserts the event and updates the
\* read models in one transaction, atomic_updater.go:41-91).
PhysicalCountedOnce ==
    \A m \in Physical : summary[m] = IF m \in events THEN 1 ELSE 0

\* No two vote events have the same idempotency key, also when two topics
\* carry the key at the same time (the unique index of migration 000007).
KeysUnique == \A m, n \in events : m.key = n.key => m = n

\* The totals never contain a vote without a vote event, although the two are
\* written together for reports and by two programs for online votes
\* (CastVote inserts the event, ApplyReadModels of the worker adds the vote).
CountedIsRecorded == \A m \in Message : summary[m] > 0 => m \in events

\* A leaderboard counter is ahead of the read models by resent commands at
\* most: Redis is told of a vote only after a commit of it, once for each
\* commit, whatever is retried, redelivered or committed without an answer.
SendsFor(commits) == MaxSends * commits
RedisWithinSends ==
    \A m \in Message, c \in Counter : redis[m][c] <= SendsFor(summary[m])

\* Only reports whose signature verifies get into a topic, the events or the
\* totals, or are answered with 202, on whatever path of retries and
\* duplicates (ingestion.go:99-139).
OnlyGenuineCounted ==
    \A p \in Report \ Genuine :
        /\ ReportMsg(p) \notin accepted \cup events
        /\ \A t \in Topic : \A i \in 1..Len(log[t]) : log[t][i] # ReportMsg(p)
        /\ summary[ReportMsg(p)] = 0

\* The consumer never moves past a message it did not process: it has been
\* added to the totals, or "max retries exceeded" was logged for it. A crash
\* of the worker redelivers the rest.
NoSilentSkip ==
    \A t \in Topic : \A i \in 1..handled[t] :
        summary[log[t][i]] > 0 \/ log[t][i] \in dropped

\* Every message that was published is settled for good: the offset behind it
\* is committed, although consumers wait for each other's keys, retry and
\* crash.
PublishedIsSettled ==
    \A t \in Topic : \A i \in 1..MaxLog : Len(log[t]) >= i ~> committed[t] >= i

\* The producers, consumers and the updater implement the tally sheet: nothing
\* but a commit changes the totals, each commit adds one message, a report or
\* batch entry together with its event and only if its key is free, and
\* nothing that has been counted is ever taken back.
Sheet == INSTANCE TallySheet
    WITH Admissible <- {m \in Message : m.source = "physical" => m.id \in Genuine},
         Cast <- {m \in Message : IsOnline(m)},
         KeyOf <- [m \in Message |-> m.key],
         Sends <- MaxSends,
         sheet <- summary,
         boards <- redis
ImplementsTallySheet == Sheet!SheetSpec

-----------------------------------------------------------------------------
(* What the code's own words say, and the code does not do                 *)

\* "vote already accepted" (ingestion.go:95): a report answered so has been
\* published, or is about to be by a request that is still running.
DuplicateWasAccepted ==
    \A m \in duplicates :
        \/ \E i \in 1..Len(log[TopicFor(m)]) : log[TopicFor(m)][i] = m
        \/ \E r \in Request : req[r].msg = m

\* "IdempotencyKey prevents double-processing of duplicate deliveries"
\* (kafka/message.go:33), online votes included.
CountedAtMostOnce == \A m \in Message : summary[m] <= 1
=============================================================================
