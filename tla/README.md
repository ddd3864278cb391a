# TLA+ specifications of the Thailand election system

This directory specifies the vote path of the election system: how a voter
authenticates, is shown a ballot paper and casts it, how polling stations and administrators submit
tallies, how all of them become totals and party-list seats, how the results are
read while Redis comes and goes, and how they reach the pages that show them. The modules are translated from the Go sources under
`src/backend` and the TypeScript under `src/frontend`; `PROJECT.json` maps each
definition to its lines.

## 1. The system

| Part | State | Operations |
|---|---|---|
| Online voting handlers (`internal/api/handlers/online_voting.go`) | PostgreSQL `voter_sessions`, `vote_events`, `voter_rights_used`; Redis `otp:{session}`, `vote_lock:{session}`, `cache:ballot:{province}:{type}`; the voter's JWT | VerifyID, RequestOTP, VerifyOTP, Eligibility, GetBallot, CastVote, GetReceipt |
| Ingestion (`handlers/ingestion.go`) | Redis `idempotency:{key}` | IngestVote |
| Admin (`handlers/admin.go`) | `audit_logs` | Login, BatchVotes, audit log |
| Kafka topics (`internal/kafka`) | `votes.constituency`, `votes.party_list`, `votes.referendum`, `votes.online` | Publish (three attempts, no acknowledgement) |
| Worker consumers and atomic updater (`internal/worker`) | read models (`constituency_summaries`, `party_list_national`, `referendum_province_summaries`, `province_summaries`), Redis leaderboards, consumer offsets | fetch, Process / ApplyReadModels with retries, commit of offsets |
| Background tasks (`worker/tasks.go`, `scheduler.go`) | `vote_receipts`, session status, seats, caches | receipt issue, OTP delivery, session cleanup (1 min), seats (30 s), reconciliation (5 min), audit export |
| Reporting (`handlers/reporting.go`, `cache/circuit_breaker.go`) | Redis caches, breaker state | results, seat calculation, referendum summary |
| Realtime (`internal/realtime`, `frontend/lib/ws`) | browser connection and subscriptions | publish, token, subscribe |
| Voting portal (`frontend/app/vote`, `frontend/lib/voting`) | browser session storage | the steps id, otp, ballots, receipt |
| Simulator, DOPA mock, configuration, schema | none of their own | load generation, identity check, wiring |

**How they interact.** CastVote writes the vote and the used right in one database
transaction, then publishes a message and enqueues a receipt task; both may fail
without the voter noticing. Reports and batch entries are only published: their
vote event is inserted by the worker, together with the read models, in one
transaction. One goroutine per topic consumes messages, in order and one at a time,
with up to three attempts; after the commit it increments Redis counters and
broadcasts. Kafka redelivers what was processed after the last committed offset.

**What is hard.** Requests of one session run concurrently and interleave at every
call; the vote lock can expire while its holder runs and is deleted by whoever
finishes; a COMMIT may take effect although its answer is an error; processes die
between two calls; messages are duplicated, redelivered and dropped; Redis is
updated outside any transaction and read through a breaker that several goroutines
drive; caches are shared by voters of different constituencies. `PROJECT.json` lists these under `hazards`, each at
the line where it bites and with the properties that would catch it going wrong.

**What makes each part correct.**

- *Online voting*: one vote per session and ballot; votes and used rights agree;
  what leaves the handler (answer, message, receipt) stands for a committed vote;
  the number of OTP guesses is bounded, and each token takes one; every request
  returns; locks disappear.
- *Voters and ballot papers*: a voter sees the ballot asked for, of the own province
  (the own constituency, says the code, and does not keep it); votes are counted where
  the voter is registered; a voter has no more votes than sessions; nobody is told of a
  ballot as cast that was not.
- *Reading results*: the breaker's counts are those of its generation and its probes
  decide; every read is answered; the national referendum result contains nothing
  that the provinces lack; when Redis is back, the readers use it again.
- *Counting*: each physical vote is in the totals exactly once or its loss is
  logged; idempotency keys are unique; totals contain nothing without an event, and
  leaderboards no more than the sends of the commands that follow a commit; only signed
  reports count; the consumers do not block each other.
- *Seats*: 100 seats in every case, by largest remainders; more votes never cost a
  seat; the stored seats belong together; no reader keeps outdated seats.
- *Realtime*: the banner tells the truth; every listener of a connected page is
  served; no event is lost on a request on its way; every view ends up current.

## 2. Modules

| Module | Models |
|---|---|
| `BallotBox` | what online voting promises: a right is spent in the very step that records its vote, and receipts are issued only for recorded votes |
| `OnlineVoting` | the handlers as interleaved requests, their tables, keys, messages and tasks; implements `BallotBox` |
| `OnlineVotingProofs` | the proofs about `OnlineVoting` |
| `OtpProofs` | the proofs about OTPs and tokens: counting requests |
| `Electorate` | voters above the ballot box: whose session and token it is, GetBallot with its cache, Eligibility; extends `BallotBox` |
| `ElectorateProofs` | the proofs about `Electorate` |
| `TallySheet` | what counting promises: how often each vote is added to the totals, when its event is recorded, and how far the leaderboards follow |
| `VoteCounting` | ingestion, batches, topics, consumers, updater, offsets, read models, leaderboards; implements `TallySheet` |
| `VoteCountingProofs` | the proofs about `VoteCounting` |
| `SeatCalculator` | the allocation of the party-list seats as a function of the votes |
| `SeatCalculatorProofs` | the proofs about the allocation, and about sums over finite sets |
| `PartySeats` | the stored seats, the recalculation task, the cached calculation |
| `PartySeatsProofs` | the proofs about `PartySeats` and about the tables of `MCPartySeats` |
| `CircuitBreaker` | gobreaker with the settings of `circuit_breaker.go`, a specification of its own |
| `ReferendumReads` | ReferendumSummary and NationalSummary reading the referendum through the breaker while it is counted; extends and implements `CircuitBreaker` |
| `ReferendumReadsProofs` | the proofs about both |
| `RealtimeClient` | broadcasts, the browser's clients and subscriptions, the queries of a page |
| `RealtimeClientProofs` | the proofs about `RealtimeClient` |
| `MC..` | the instances of these modules for TLC |

### OnlineVoting and the code

A request is a slot in `req`: the call its handler makes next and the local
variables it has by then. One action is one call to PostgreSQL, Redis, Kafka or
asynq, with the code between it and the next call. Thus VerifyOTP is `VerifyOtp`
(the session row is read and checked), `CountAttempt` (UPDATE .. RETURNING), `LockOut`,
`ReadOtp` (GET and compare), `ConsumeOtp` (DEL), `Activate`, `SignToken`; CastVote is
`CastVote` (JWT and HasVoterCastBallot), `SetLock`, `InsertVoteEvent`,
`InsertVoterRightsUsed`, `Commit`, `MarkVoting`, `PublishVote`, `EnqueueReceipt`,
`ReleaseLock` (the deferred DEL and the answer).

- A transaction's rows are visible at `Commit`. Until then they are *held*: the
  unique indexes make another INSERT of the same key wait (`Awaits`) and then see
  the row or not (`EventKeyTaken`). READ COMMITTED allows no more and no less for
  two inserts of the same key.
- `Fail` is an error of a call whose handler gives up; calls whose errors are
  ignored have a disjunct with no effect; `LostAnswer` and the second disjunct of
  `Commit` are writes that take effect although their answer is an error.
- `Crash` ends all handlers with no deferred call. Expiry of the lock, the OTP, the
  JWT and the session may come at any moment, so no timing is assumed: in
  particular the lock may go while its holder is in its transaction (the server's
  write timeout is longer than the lock's 10 s).
- An OTP, a choice or a token is a model value; that uuid.New does not repeat is the
  condition `issuedTo[t] = None` of `SignToken`.
- `guesses` is a history variable: it counts the comparisons that VerifyOTP makes.

### Electorate and the code

`OnlineVoting` shows that the handlers implement `BallotBox`, whose steps are per
session. `Electorate` puts the voters on top of the same box: `VerifyID` creates a
session for an eligible voter, `VerifyOtp` is the end of VerifyOTP, which signs the
session's province and constituency into the token (`SignVoterJWT`), and `CastVote` is
the box's `Record`. The calls between are in `OnlineVoting` and not repeated; that the
abstraction is sound is its theorem `Implementation`.

- A candidate is known by the constituency only; `Paper` is a ballot with the
  constituency its options are of (`None` for the ballots that are the same everywhere).
- `GetBallot` is the GET and, on a miss or an error, the query; `StoreBallot` the SET and
  the answer, so that two misses race and an older paper may overwrite. The TTL may end at
  any moment. Nothing changes the candidates, so a paper is never outdated, only misplaced.
- `CastVote` needs a live token and any candidate that exists (`Options`): neither a paper
  that was fetched with the token nor one of the token's constituency, since the handler
  compares the candidate with nothing and the simulator casts without a ballot. `PlaceOf`
  is where the row of `vote_events` says that the vote counts.
- `remaining` is what Eligibility last told a token.

### VoteCounting and the code

Totals are sums to which every message adds its vote count. The module records how
often each message was added (`summary`, and `redis` per counter) instead of the
sums: additions commute, and a total is right exactly when each event was added
once. The three `apply..` functions are one action because their upserts become
visible together, at `CommitTx`.

- A topic is one sequence. The real topics have 10 to 77 partitions, which one reader
  fetches from in turn; no property depends on the order of different messages, and
  each partition's offset behaves as `handled` and `committed` do.
- `handled` is what CommitMessages was called for, `committed` what Kafka knows: with
  `CommitInterval` the two differ for up to a second. `WorkerCrash` goes back to
  `committed`.
- An orderly shutdown cancels the context: the attempts that are left fail at once,
  the offset may or may not be sent, and the worker starts again. These are the
  steps `AttemptFails`, `MarkOffset`, `FlushOffset`, `WorkerCrash` in that order.
- `InsertEvent` waits, as in PostgreSQL, while another consumer's open transaction
  holds the same key.
- The signature is the fixed set `Genuine`; the lookup of the province key may fail
  for any report.
- `Publish` puts up to `MaxAttempts` copies into the topic, or none, and whether an error
  is returned is independent of that (`PublishSome`): the writer waits for no acknowledgement.
- `UpdateRedis` executes each command up to `MaxSends` times or never, and the SET NX of
  the idempotency key may find the key that it set itself: go-redis sends a command again
  when no answer comes within ReadTimeout.
- The branch of the consumers for a message that cannot be unmarshalled is left out: all
  messages are written by `Publish`.
- `RecordOnline` is CastVote's commit and `PublishOnline` what follows it; that the
  second only follows the first is `OnlineIsRecorded` of `OnlineVoting`.

### SeatCalculator and PartySeats and the code

`CalculatePartyListSeats(votes)` is the *set* of allocations the function may return for a
table of votes, whose domain is the parties that have a row.
Quotas are float64 in the code. The module computes with integers and leaves open
what rounding decides: a quota that is a whole number may come out just below it and
lose a base seat (`BaseSeats`), and remainders that are equal as fractions may compare
either way (`InFront`), so that any choice among them is possible. Remainders that
differ as fractions differ by at least one over the total of votes, which is far
more than the error of a float64; the parties' order (map iteration, unstable sort) is
then irrelevant.

`PartySeats` has one action per call of handleRecalcPartySeats (read, one UPDATE per
party, DEL of the cache) and of PartyListCalculation (GET, read, SET), so that two
runs of the task, votes of the updater and a caching request interleave. A party
without a row has no votes and no seats. `ApplyPartyList` is the committed upsert of the
updater, and `InvalidateSeats` the DEL that follows it if the worker lives. The
history variable `tainted` records that a step of a run failed, or that runs
overlapped, since a whole allocation was stored: only then may the rows be of no one
allocation (`ReadersSeeAllocations`). What is cached is always one.

### CircuitBreaker and ReferendumReads and the code

`CircuitBreaker` is gobreaker as the code configures it. `ReadyToTrip` is the function in
`NewCircuitBreakerClient`, with the failure rate compared without a division. gobreaker
numbers its generations and ignores results of an earlier one; the module keeps
the calls of the present generation in `counted` instead. `IntervalEnds` and `TimeoutEnds`
are the expiries that currentState notices at the next request.

`ReferendumReads` has one action per call of the two handlers: `StartRead` (the breaker
admits HGETALL or refuses), `Returned`, `FallBack` (the row of zeros), `ListProvinces`, one
`ReadProvince` per province, `Reply`. Readers in `Summarizer` run ReferendumSummary, the
others NationalSummary. On the other side `ApplyReferendum` is the commit of a vote for its
province and `UpdateRedis` the HINCRBY that follows it, past the breaker, or never.

- Results are sets of votes instead of sums. So `NationalWithinProvinces` says more than
  that one number is below another; a command that go-redis sends twice is outside the model
  (see the assumption on Redis below).
- `RedisFails` loses any of the last increments (`appendfsync everysec`); ReadTimeout ends a
  call to a dead Redis, so `Returned` needs no answer from it.
- `Cancel` is a client that goes away: its context is cancelled, HGETALL fails, and the
  breaker counts a failure of a healthy Redis.
- The interval and the timeout have no length: a closed breaker's counts may be cleared at
  any moment, and an open one probes at some time.

### RealtimeClient and the code

A component is one mounting of a React component whose effect calls
`subscribeChannel`. Its phase is the await it stands at: `import` is the dynamic
import in getOrCreate, which may take any time, `subscribe` the continuation that
is ready to run. JavaScript finishes all ready continuations before the next task, so
mounts, unmounts, events, polls and answers need `Idle`, and only `Create` and the
continuations of other components interleave with a component that is not done.

- A client has the name of the component that made it; `instance` is the singleton,
  which the last one to create has overwritten.
- `live` means that the handler is registered *and* the effect knows how to remove it.
  A component that unmounts earlier leaves its handler behind, as in the code.
- `failed` is the exception of newSubscription for a channel the client already has:
  two components of one commit with the same new channel, when the client exists.
- centrifuge-js is modelled by the three handlers the code registers, and TanStack
  Query by fetch, invalidation, cancellation and polling; both are external.
- `loaded` are the queries with data, from an answer or from the initial data that a
  `Seeded` component brings. An event gives up the request of a loaded query and starts
  another one (`Refetch`); the first request of a query without data goes on, and its answer,
  which may be older than the event, removes the mark. `Collect` is gcTime: the data of a
  query that nobody observes goes.
- `version` counts updates of what the API answers, whose tables do not go back; that
  the referendum may be answered from the row of zeros belongs to `ReferendumReads`. An answer
  is the version it was computed from. Events carry the version they announce, which the code does not read:
  it is there to say what a loaded query was told (`told`, a history variable).
- `Publish` may always reach nobody: Centrifugo is asked once and its errors are
  logged.

Definitions that stand directly before the one they vary, and that nothing uses
(`AwaitsNobody`, `KeyTakenNever`, ..), are planted errors: `PROJECT.json` names them
under `mutants`, and with one of them in place of the original TLC finds the
property violated.

## 3. Runs

| Configuration | Question | Result |
|---|---|---|
| `OnlineVoting.cfg` | three concurrent requests of a session, one ballot, two OTPs, two tokens, at most two attempts: all safety properties, OTPs and tokens, and the refinement | holds, 468 210 states |
| `OnlineVotingLive.cfg` | two requests: every request returns, every lock disappears | holds |
| `Electorate.cfg` | three voters (one not eligible), a constituency in each of two provinces, two sessions, tokens, tabs and ballots: papers, votes and rights | holds, 2 126 526 states |
| `BallotOfOwnConstituency.cfg` | "for the voter's constituency", with four voters and three constituencies | violated |
| `ReportCounting.cfg` | a genuine and a forged report, two concurrent ingest handlers, three messages in the log, two attempts, one crash | holds, 777 600 states |
| `BatchCounting.cfg` | two batches with the same key on two topics and an online vote, two messages, two attempts, one crash: the tally sheet, leaderboards, liveness | holds, 67 379 states |
| `DuplicateWasAccepted.cfg` | "vote already accepted" | violated |
| `CountedAtMostOnce.cfg` | "IdempotencyKey prevents double-processing of duplicate deliveries" | violated |
| `PartySeats.cfg` | every table of at most 18 votes for four parties, 100 seats: largest remainders, and votes cost no seat; and two runs of the task, a request, failing calls and crashes: both readers see one allocation, and end up right | holds, 32 804 states |
| `ReferendumReads.cfg` | two readers, one of them of the provinces, two votes in two provinces, one outage, one cancelled request, restarts: breaker, both stores, liveness | holds, 137 222 states |
| `RealtimeClient.cfg` | banner, panel and table of the referendum page, with or without initial data, one update, one failure: safety and liveness | holds, 860 442 states |
| `ListenersAreServed.cfg` | "delivers VoteUpdateEvent payloads to registered listeners" | violated |

**Bounds.** Everything about a vote concerns one session and one ballot: sessions
share no key, lock or index entry, so one session suffices, and three requests are
enough for a lock holder, the one that replaces it and the one whose deferred
delete frees the lock of the second. Two tokens are two authentications. `MaxOtpAttempts`
is 2 and `AttemptBound` allows the attempt beyond it; larger numbers repeat the
same step. In VoteCounting two attempts show a failing attempt with a successor and
the last one; three messages are a report, its duplicate and a resubmission; one
crash is enough because the crash brings back a state that differs from an earlier
one only in `events`, `summary` and `redis`, which the properties quantify over.
`MaxLog` counts the messages of all topics, copies included, `MaxCrashes` the crashes.
`MaxAttempts` is the code's 3; `MaxSends` is 2 instead of 4, which tells a command executed
twice from one executed once, and 1 where a resent command must not be the cause of the
violation. The votes that the runs count have one counter each; the four of a referendum
vote are in the proofs. Requests, choices, OTPs and tokens are interchangeable in the safety
run of OnlineVoting, which uses them as symmetry sets; liveness runs use no symmetry.

In Electorate a constituency in each of two provinces is what votes and papers must not
cross, and `BallotOfOwnConstituency.cfg` adds a second constituency to one province, which
the cache's key confuses; the proofs are for any number. Two tabs race for an entry, two sessions may belong to one voter, and
two ballots distinguish the papers of a constituency from those of all. Sessions, tokens
and tabs are interchangeable and only invariants are checked, so they are symmetry sets.

ReferendumReads uses the limits 2 (probes), 2 (failures in a row) and 3 (volume) instead
of 3, 5 and 10: each is reached, by both ways of tripping, and the probes are more than
one. `MaxInGeneration` bounds the requests a closed breaker counts, up to the larger limit;
`MaxOutages` and `MaxCancels` are one each. Two readers make a call that comes back late while
the other probes; a vote in each of two provinces is read before and after it counts.

Four parties are enough for ties among a quota's losers and for
two seats left to distribute; the allocation depends on the proportions of the
votes only. The referendum page has the three components that matter to one
another: two on the same channel and query, mounted together or one after the other,
with or without an earlier client, and one on another channel. One update sends two
events on two channels, before, during and after a request; one failure is a lost
connection, a terminal disconnect or a failing request.

**Deadlock** is not checked: the bounded system really stops, when a session's
attempts are used up and its tokens have expired, when the log is full and read, or
when everything is unmounted. That no request is stuck before is `RequestsReturn` and `PublishedIsSettled`.

**Fairness.** `OnlineVoting!FairSpec`: a handler that can take its next step does (Go
schedules goroutines, calls return or time out); the two INSERTs that may have to
wait get strong fairness, because PostgreSQL queues waiting transactions and a
third transaction cannot overtake for ever; Redis drops expired keys; asynq takes
queued tasks. Nothing is assumed about clients: no request has to be started.
`VoteCounting!FairSpec`: consumers run, and kafka-go sends the remembered offsets every
second. Publishing and crashes have no fairness. `PartySeats!FairSpec`: the scheduler
starts the task again every 30 s, a run that is alive goes on, and Redis drops the
cached calculation after its TTL; failures and crashes are bounded in number, since
nothing becomes right while every run fails. `RealtimeClient!FairSpec`: promises
settle, requests are answered, and the polling timer fires, as it does while the page
is visible. Nothing is assumed about connections, events or mounts.
`ReferendumReads!FairSpec`: pages poll, handlers run and calls return or time out, the
worker goes on after its commit, and time passes (the interval and the timeout end). Redis
need not come back: `ReadsAnswered` holds without, `AnswersRecover` says so in its premise.

**Redis.** A command is executed any number of times up to `MaxSends`: go-redis (v9.18.0)
sends it again, up to three times, when no answer comes within ReadTimeout, because
`cache/redis.go` leaves MaxRetries at its default. An increment may thus count more often than
its vote was committed. `RedisWithinSends` says that nothing else makes a leaderboard run
ahead; nothing puts right what did (section 5).

## 4. Proofs

`OnlineVotingProofs` proves, for any sets of sessions, ballots, requests and tokens and
from `OnlineVotingAssumption` alone: `TypeCorrect`, `NoDoubleVote`, `RightsAndVotesAgree`,
`AnswersAreTrue`, `MessagesAreTrue`, `ReceiptsAreTrue` and `Implementation` (every behaviour is
one of `BallotBox`).

*The inductive invariant.* `OneVotePerBallot` is not inductive: it says nothing about
transactions that are still open. `IInv` adds, besides types and the locals of
handlers, three facts. `HoldersDiffer`: no two open transactions hold the same event
key. This is what the wait at the unique index gives, and nothing else does: the
vote lock is not part of the argument, so its expiry and its deletion by
strangers are harmless. `HeldIsUnused`: a transaction past the event index has an
unused right, because rights and events agree. `DoneIsRecorded`: a handler past its
commit has its vote recorded, from which everything it sends follows. Most steps
are `Quiet`: they change neither tables nor output and bring no request into a
transaction; one lemma disposes of them, and each other step has its own.

*Refinement.* Votes, used rights and receipts are the variables of `BallotBox`. A
commit that takes effect is `Record`, whose guard is `HeldIsUnused`; a receipt task
that inserts is `Issue`, whose vote exists by `ReceiptsProveVotes`; all other steps
stutter.

`OtpProofs` proves `GuessesAreBounded` and `TokensAreBounded` for any finite number of
requests. Both count the requests that have taken something and not used it yet:
guesses made and requests about to compare are together no more than the attempts, nor
than the limit (`GuessesTaken`), and tokens and requests between compare and signature are no
more than the guesses (`TokensTaken`). Three steps move a request in or out of these sets
and have a lemma each; all others are `Calm`.

`ElectorateProofs` proves all properties of `Electorate` that the run checks, for any
electorate. Its invariant says that the claims of a token never change and are those of
the voter of its session (`ClaimsAreHome`), and that every paper, cached, on its way to the
cache or on a screen, is of the ballot and the province in whose name it is kept
(`CacheIsSound`, `TabsAreSound`). `VotesAreWithinSessions` maps the votes of a voter on a ballot
to their sessions, which is an injection because the box has one vote per right.
`VotesAreOfHome` follows from `ClaimsAreHome` and from what a row keeps of its token, whatever
candidate the request names.

`ReferendumReadsProofs` proves, for any readers, provinces, votes and limits, `TypeCorrect`,
`BreakerCounts`, `BreakerDecides`, `SummaryAddsUp` and that the readers drive the breaker only
through its own steps (`ReadsUseBreaker`: Spec => BreakerSpec). For the breaker: a
half-open one has counted no failure, all its successes are in a row, and there are fewer of
them than probes; so when it admits nobody, a probe is missing and `counted` is not
empty. For the summary: what Redis has, what the worker is about to add, and what a reader
has read of the nation is committed; and a reader that has read the nation finds each
of its votes in the provinces it has read or in those it has still to read.

`VoteCountingProofs` proves every safety property of `VoteCounting` that the runs check,
for any reports, batches, online votes, retries, messages and crashes and from
`VoteCountingAssumption` alone: `TypeCorrect`, `PhysicalExactlyOnce`, `OneEventPerKey`,
`TotalsAreRecorded`, `LeaderboardsWithinSends`, `GenuineOnly` and `NothingSkipped`.

*The inductive invariant* has three parts. `Producing` follows a message to its topic: a
handler that waits to publish has verified its report, and CastVote publishes only
what it recorded. `Consuming` is about the topics and offsets: every message is in the
topic of its kind (`WellPlaced`), offsets never overtake each other
(`OffsetsOrdered`), and a consumer that is about to mark a message has counted or
dropped it. `Counting` is about the transactions: as with the votes, an open one holds
its key (`HoldersDiffer`, `HeldIsFree`), so its commit adds the message for the first
time; and a consumer between its commit and the leaderboards has counted the message
once more than they know (`CommitBeforeRedis`). The last fact needs the first part: no
other consumer handles the same message, because it is in one topic only.
`GenuineOnly` then follows from `NothingForged` and `CountedIsRecorded`. Publishing is
handled once for its three callers (`PublishGrows`, `GrowingKeeps`); the steps of a
consumer are `QuietMove`, which commit nothing, `CommittedMove`, with or without an
answer, and `UpdateRedisStep`.

*Refinement.* The sheet is `summary`, its recorded votes are `events`, its boards `redis`.
The commit of an online vote is `RecordCast`; a commit of the worker that takes effect is
`Enter`, whose guard is `HeldIsFree`, or `AddCast`; `UpdateRedis` is `Announce`, whose
guard is `CommitBeforeRedis`; topics, offsets, retries and crashes stutter. `OneEventPerKey`
needs no run of its own, since a sheet with two events of one key is no behaviour of
`TallySheet`.

`OnlineVotingProofs!NoDeadlock` is the safety part of `RequestsReturn`, for any requests:
whoever another transaction waits for waits for nobody, so chains have length one; and the
index of rights never holds up or refuses a transaction that passed the index of events, because
`HoldersDiffer` keeps its right free of other holders and `HeldIsUnused` unused. It is the order
of the two inserts that makes this so. `ElectorateProofs!VotersUseBallotBox` shows that the voters
drive the ballot box only through its own steps.

`SeatCalculatorProofs` proves, for any finite number of parties, votes and seats,
`AllocatesLargestRemainders` (the set that the calculator may return *is* the set of
allocations by largest remainders), `SeatsAreGivenAway` (for a table with votes it is not
empty) and `MoreVotesKeepSeats` (any number of votes more cost no seat; the run's property is
the case of one vote).

- *Sums.* The calculator adds over the parties, and sums over sets are defined by
  recursion. The prover cannot instantiate an induction theorem; but the subsets of a finite
  set are well-founded, so a set of counterexamples has a minimal one (`MinimalSubset`), and
  it is a set like any other. From this follow that the sum exists and is unique, adds its
  parts in any order, and counts.
- *Rounding.* A party whose whole quota comes out too low loses a base seat, has the largest
  remainder there is, and wins the seat back: there are at least as many seats left as
  parties so lowered (`WinnersAre`). The fractions add up to the seats that are left and are
  below one each, so there are always enough parties with a fraction (`SeatsAreTaken`).
- *More votes.* If a party lost a seat by one vote more, another one would have gained one,
  because the sum is the same. Whole parts of quotas move the right way, so both kept theirs:
  the first was rounded up and is not now, the other the reverse. Its fraction was at
  least the other's and would now be at most that, which a vote more does not do
  (`FractionsStay`). Larger numbers follow one vote at a time, through an allocation of the
  table before the last vote.

`PartySeatsProofs` proves, for any parties, tasks, requests, consumers and failures,
`TypeCorrect`, `SeatsAreAllocated` and `SeatsAddUp`, and, from the theorems above, the two
properties of the run's tables. What tasks and requests carry and the cache holds is always one
allocation of votes counted by then (`CarriedAreAllocated`); and while nothing went wrong,
one run writes, what it has written is its allocation's, and when it has written all, all is
(`OneWriter`); a party without a row has no seats (`NoRowNoSeats`), since a run writes the rows it read.

`RealtimeClientProofs` proves, for any components, channels and queries, `TypeCorrect`,
`BannerIsTrue`, `NoEventIsForgotten` and the action property `ViewsDoNotGoBack`: no step makes
a view with data show an older update than before, but the answer of a first request. The invariant says that events are of updates
that have happened (`EventsAreOfUpdates`), and that an answer on its way to a view was given
after every event the view's query was told of, and is no older than what is shown
(`AnswersAreNewer`): an event gives up the request that is on its way. A query without data
was told of nothing, and its request is a first one (`FirstRequests`), which no event gives up;
a view goes back only when the answer of a first request follows newer initial data.

Every invariant and both refinements that the runs check are thus proved.

*Only model-checked*, because liveness under fairness, and ENABLED, are out of the prover's
reach: `RequestsReturn`, `LocksAreFreed`, `PublishedIsSettled`, `SeatsSettle`, `CacheSettles`,
`ViewsSettle`, `ReadsAnswered` and `AnswersRecover`. The four properties of section 5 are
violated, so there is nothing to prove of them.

## 5. Where the code and its words differ

1. A report that was refused or lost is "already accepted" when it is retried
   (`DuplicateWasAccepted`).
2. An online vote is counted twice after a redelivery or a repeated commit
   (`CountedAtMostOnce`); reports and batch entries are not.
3. Components that mount before the browser has a client make one client each, and
   only one connects; the listeners of the others hear nothing while the banner says
   that the page is live (`ListenersAreServed`). Polling keeps the views current.
4. The ballot cache is keyed by province, its constituency ballots are of one
   constituency: for an hour, all voters of the province see the candidates of whoever
   asked first, and CastVote accepts their votes (`BallotOfOwnConstituency`). What does
   hold, `PapersOfOwnProvince` and that votes count at home (`VotesCountAtHome`), is proved.

Noticed while reading or modelling, and not stated as a property of their own: the
producer's comments promise that all replicas acknowledge a message, but `RequiredAcks` of a
`kafka.Writer` literal is RequireNone, so that a report answered with 202 may be in no topic
(`PublishReport` allows it); the updater counts on the reconciliation task to correct a
leaderboard that is behind, or ahead by a resent command, but the task compares two totals of
the party list and logs; two
verifications that race for one OTP yield two tokens (`TokensTakeGuesses` bounds them,
"consume it (one-time use)" does not hold); equal remainders of seats do not go to the
party with more votes (10, 3 and 1 votes give 71, 22 and 7 seats, where the comment breaks
ties by votes); the fallback of the referendum is a row of zeros that nothing updates; a
voter with two sessions votes twice (`VotesWithinSessions` is what the code guarantees); a
vote for a candidate of another constituency is accepted, and counted where its voter is
registered; an event that arrives during the first request of a query without data is swallowed
until the next poll; the receipt task returns success when its insert fails, so an accepted
vote may never get its receipt; the portal
sends `party_id` and lower-case referendum answers, and expects an object where
GetBallot returns an array, so it cannot cast a ballot against this API; the
simulator's verification compares keys that nothing updates; with the seed data party-list
votes violate the foreign key of `vote_events.candidate_id` and are dropped; a
session that was locked or expired can become authenticated or voting again;
`SetConstituencyLeader` and `UpdateReferendumNationalSummary` are never called.

## 6. Not modelled

Cryptography (hashes, signatures, JWT, Argon2) beyond who can produce what; HTTP
routing, validation of request fields, CORS, logging and metrics; the content of results
pages; configuration and seed data; the admin login and the audit log, one insert each
that no code reads back into a decision.

*The voting portal* does not fit this API (section 5), so there is no flow between the two
to check. *The simulator* is a load generator: its physical votes are requests that
VoteCounting covers, its online voters are all refused, and its verification reads keys
that nothing writes. `PROJECT.json` gives a reason for each component.

## 7. Plan

Done: online voting with its abstract specification, voters and ballot papers, OTPs,
counting with its abstract specification, the reading of the referendum, seats with their
calculation and cache, and the realtime client, each with its proofs. Nothing of the plan
is left; section 6 names what lies outside it.
