------------------------- MODULE VoteCountingProofs -------------------------
(***************************************************************************)
(* Proofs about VoteCounting for any reports, batches, votes, retries and  *)
(* crashes.                                                                *)
(*                                                                         *)
(* Two ideas carry the inductive invariant. A transaction that has passed  *)
(* the unique index holds its key: no other one does (HoldersDiffer), and  *)
(* no event has it yet (HeldIsFree); so a commit adds the message for the  *)
(* first time. And every message keeps to its topic (WellPlaced), in which *)
(* offsets never overtake each other (OffsetsOrdered); so one consumer at  *)
(* most handles a message, and none is passed over.                        *)
(***************************************************************************)
EXTENDS VoteCounting, SequenceTheorems, TLAPS

\* A report whose signature does not verify.
Forged(m) == m.source = "physical" /\ m.id \notin Genuine

\* What may be in topic t: messages of that topic, online votes only after
\* their event, and no forged report.
MayBeIn(t, m) ==
    /\ TopicFor(m) = t
    /\ IsOnline(m) => m \in events
    /\ ~Forged(m)

WellPlaced == \A t \in Topic : \A i \in 1..Len(log[t]) : MayBeIn(t, log[t][i])

OffsetsOrdered ==
    \A t \in Topic :
        /\ committed[t] <= handled[t]
        /\ handled[t] <= Len(log[t])
        /\ cons[t].step # "fetch" => handled[t] < Len(log[t])

\* A handler that waits to publish has verified its report.
RequestsKnown ==
    \A r \in Request :
        /\ req[r].step # "idle" => \E p \in Report : req[r].msg = ReportMsg(p)
        /\ req[r].step = "publish" => ~Forged(req[r].msg)

NothingForged == \A m \in accepted \cup events : ~Forged(m)

CastIsRecorded == \A v \in OnlineVote : castStep[v] # "open" => OnlineMsg(v) \in events

\* The transaction of t has inserted its event and is still open.
Holds(t) == cons[t].step \in HoldsKey /\ ~IsOnline(Current(t))

HoldersDiffer ==
    \A t, u \in Topic :
        Holds(t) /\ Holds(u) /\ Current(t).key = Current(u).key => t = u

HeldIsFree == \A t \in Topic : Holds(t) => ~KeyTaken(Current(t))

\* A consumer beyond its commit has counted its message, and may still tell the
\* leaderboards as often as one command is sent; one that moves on has counted
\* or dropped it.
CommitBeforeRedis ==
    \A t \in Topic : cons[t].step = "redis" =>
        \A c \in Counter :
            redis[Current(t)][c] + MaxSends <= SendsFor(summary[Current(t)])

SettledBeforeMark ==
    \A t \in Topic : cons[t].step \in {"redis", "mark"} =>
        summary[Current(t)] > 0 \/ Current(t) \in dropped

Counting ==
    /\ PhysicalCountedOnce /\ KeysUnique /\ CountedIsRecorded /\ RedisWithinSends
    /\ HoldersDiffer /\ HeldIsFree /\ CommitBeforeRedis

Consuming == WellPlaced /\ OffsetsOrdered /\ SettledBeforeMark /\ NoSilentSkip

Producing == RequestsKnown /\ NothingForged /\ CastIsRecorded

IInv == TypeOK /\ Producing /\ Consuming /\ Counting

-----------------------------------------------------------------------------
(* Messages                                                                *)

\* Every message has one topic and counters of its own.
LEMMA MessageFacts ==
  ASSUME NEW m \in Message
  PROVE  /\ TopicFor(m) \in Topic
         /\ CountersOf(m) \subseteq Counter
         /\ m.key \in {n.key : n \in Message}
<1>1. TopicFor(m) \in Topic
  BY DEF TopicFor, Topic
<1>2. BallotOf[m.id] \in Ballot
  BY VoteCountingAssumption DEF Message, ReportMsg, EntryMsg, OnlineMsg
<1>3. CountersOf(m) \subseteq Counter
  BY <1>2 DEF CountersOf, Counter, Ballot
<1> QED BY <1>1, <1>3

\* The key of an online vote is that of no other message.
LEMMA OnlineKeys ==
  ASSUME NEW v \in OnlineVote
  PROVE  /\ OnlineMsg(v) \in Message
         /\ IsOnline(OnlineMsg(v))
         /\ ~Forged(OnlineMsg(v))
         /\ \A m \in Message : m.key = OnlineMsg(v).key => m = OnlineMsg(v)
<1>1. /\ OnlineMsg(v) \in Message
      /\ IsOnline(OnlineMsg(v))
      /\ ~Forged(OnlineMsg(v))
  BY DEF OnlineMsg, Message, IsOnline, Forged
<1>2. ASSUME NEW m \in Message, m.key = OnlineMsg(v).key
      PROVE  m = OnlineMsg(v)
  <2>1. CASE \E p \in Report : m = ReportMsg(p)
    <3>1. m.key[1] = "station" /\ OnlineMsg(v).key[1] = "session|ballot"
      BY <2>1 DEF ReportMsg, OnlineMsg
    <3> QED BY <1>2, <3>1
  <2>2. CASE \E b \in Batch, i \in 1..BatchSize : m = EntryMsg(b, i)
    <3>1. m.key[1] = "admin_batch" /\ OnlineMsg(v).key[1] = "session|ballot"
      BY <2>2 DEF EntryMsg, EntryKey, OnlineMsg
    <3> QED BY <1>2, <3>1
  <2>3. CASE \E w \in OnlineVote : m = OnlineMsg(w)
    BY <1>2, <2>3 DEF OnlineMsg
  <2> QED BY <2>1, <2>2, <2>3 DEF Message
<1> QED BY <1>1, <1>2

\* How the bound on the leaderboards grows with the commits.
LEMMA SendsFacts ==
  /\ MaxSends \in Nat \ {0}
  /\ SendsFor(0) = 0
  /\ \A n \in Nat : /\ SendsFor(n) \in Nat
                    /\ SendsFor(n + 1) = SendsFor(n) + MaxSends
<1>1. MaxSends \in Nat \ {0}
  BY VoteCountingAssumption
<1>2. ASSUME NEW n \in Nat
      PROVE  MaxSends * n \in Nat /\ MaxSends * (n + 1) = MaxSends * n + MaxSends
  BY <1>1
<1>3. MaxSends * 0 = 0
  BY <1>1
<1> QED BY <1>1, <1>2, <1>3 DEF SendsFor

LEMMA ReportFacts ==
  ASSUME NEW p \in Report
  PROVE  /\ ReportMsg(p) \in Message
         /\ ~IsOnline(ReportMsg(p))
         /\ Forged(ReportMsg(p)) <=> p \notin Genuine
  BY DEF ReportMsg, Message, IsOnline, Forged

LEMMA EntryFacts ==
  ASSUME NEW b \in Batch, NEW i \in 1..BatchSize
  PROVE  /\ EntryMsg(b, i) \in Message
         /\ ~IsOnline(EntryMsg(b, i))
         /\ ~Forged(EntryMsg(b, i))
  BY DEF EntryMsg, Message, IsOnline, Forged

-----------------------------------------------------------------------------
(* Topics                                                                  *)

\* The topics keep what they have, and what is new may be there.
LogGrows ==
    /\ log' \in [Topic -> Seq(Message)]
    /\ \A t \in Topic :
          /\ Len(log[t]) <= Len(log'[t])
          /\ \A i \in 1..Len(log[t]) : log'[t][i] = log[t][i]
          /\ \A i \in 1..Len(log'[t]) : i > Len(log[t]) => MayBeIn(t, log'[t][i])

LEMMA PublishGrows ==
  ASSUME TypeOK, NEW m \in Message, NEW copies \in 0..MaxAttempts,
         MayBeIn(TopicFor(m), m), Publish(m, copies)
  PROVE  LogGrows
<1> DEFINE new == [i \in 1..copies |-> m]
           t0 == TopicFor(m)
<1>1. t0 \in Topic
  BY MessageFacts
<1>2. log \in [Topic -> Seq(Message)]
  BY DEF TypeOK
<1>3. /\ copies \in Nat /\ new \in Seq(Message) /\ Len(new) = copies
      /\ \A i \in 1..copies : new[i] = m
  <2>1. copies \in Nat /\ new \in [1..copies -> Message]
    BY VoteCountingAssumption
  <2>2. new \in Seq(Message)
    BY <2>1, SeqDef
  <2>3. Len(new) = copies
    BY <2>1, <2>2, LenProperties
  <2> QED BY <2>1, <2>2, <2>3
<1>4. /\ log[t0] \o new \in Seq(Message)
      /\ Len(log[t0] \o new) = Len(log[t0]) + copies
      /\ \A i \in 1..(Len(log[t0]) + copies) :
            (log[t0] \o new)[i] = IF i <= Len(log[t0]) THEN log[t0][i]
                                  ELSE new[i - Len(log[t0])]
  <2> HIDE DEF new
  <2>1. log[t0] \in Seq(Message) /\ Len(log[t0]) \in Nat
    BY <1>1, <1>2, LenProperties
  <2>2. /\ log[t0] \o new \in Seq(Message)
        /\ Len(log[t0] \o new) = Len(log[t0]) + Len(new)
        /\ \A i \in 1..(Len(log[t0]) + Len(new)) :
              (log[t0] \o new)[i] = IF i <= Len(log[t0]) THEN log[t0][i]
                                    ELSE new[i - Len(log[t0])]
    BY <1>3, <2>1, ConcatProperties
  <2> QED BY <1>3, <2>2
<1>5. log' = [log EXCEPT ![t0] = log[t0] \o new]
  BY <1>1, <1>2 DEF Publish
<1>6. Len(log[t0]) \in Nat
  BY <1>1, <1>2, LenProperties
<1> HIDE DEF new
<1>7. log' \in [Topic -> Seq(Message)]
  BY <1>1, <1>2, <1>4, <1>5
<1>8. ASSUME NEW t \in Topic, t # t0
      PROVE  log'[t] = log[t] /\ Len(log[t]) \in Nat
  BY <1>2, <1>5, <1>8, LenProperties
<1>9. /\ Len(log'[t0]) = Len(log[t0]) + copies
      /\ \A i \in 1..Len(log[t0]) : log'[t0][i] = log[t0][i]
      /\ \A i \in 1..Len(log'[t0]) : i > Len(log[t0]) => log'[t0][i] = m
  <2>1. log'[t0] = log[t0] \o new
    BY <1>1, <1>2, <1>5
  <2>2. \A i \in 1..Len(log'[t0]) : i > Len(log[t0]) =>
            /\ i - Len(log[t0]) \in 1..copies
            /\ log'[t0][i] = new[i - Len(log[t0])]
    BY <2>1, <1>4, <1>6
  <2> QED BY <2>1, <2>2, <1>3, <1>4, <1>6
<1>10. ASSUME NEW t \in Topic
       PROVE  /\ Len(log[t]) <= Len(log'[t])
              /\ \A i \in 1..Len(log[t]) : log'[t][i] = log[t][i]
              /\ \A i \in 1..Len(log'[t]) : i > Len(log[t]) => MayBeIn(t, log'[t][i])
  <2>1. CASE t = t0
    BY <1>6, <1>9, <2>1
  <2>2. CASE t # t0
    BY <1>8, <2>2
  <2> QED BY <2>1, <2>2
<1> QED BY <1>7, <1>10 DEF LogGrows

\* The message a consumer handles is in its topic.
LEMMA CurrentFacts ==
  ASSUME TypeOK, WellPlaced, NEW t \in Topic, handled[t] < Len(log[t])
  PROVE  /\ handled[t] + 1 \in 1..Len(log[t])
         /\ Current(t) \in Message
         /\ MayBeIn(t, Current(t))
<1>1. log[t] \in Seq(Message) /\ handled[t] \in Nat
  BY DEF TypeOK
<1>2. Len(log[t]) \in Nat /\ handled[t] + 1 \in 1..Len(log[t])
  BY <1>1, LenProperties
<1>3. Current(t) \in Message
  BY <1>1, <1>2, ElementOfSeq DEF Current
<1> QED BY <1>2, <1>3 DEF WellPlaced, Current

-----------------------------------------------------------------------------
(* Types                                                                   *)

LEMMA InitInv == Init => IInv
<1> SUFFICES ASSUME Init PROVE IInv
  OBVIOUS
<1>1. TypeOK
  BY VoteCountingAssumption
     DEF Init, TypeOK, Idle, IngestStep, ConsumerStep
<1>2. \A t \in Topic : Len(log[t]) = 0
  BY EmptySeq DEF Init
<1>3. Producing
  BY DEF Init, Producing, RequestsKnown, NothingForged, CastIsRecorded, Idle
<1>4. Consuming
  BY <1>2 DEF Init, Consuming, WellPlaced, OffsetsOrdered, SettledBeforeMark, NoSilentSkip
<1>5. RedisWithinSends
  BY SendsFacts DEF Init, RedisWithinSends
<1>6. Counting
  BY <1>5 DEF Init, Counting, PhysicalCountedOnce, KeysUnique, CountedIsRecorded,
              HoldersDiffer, HeldIsFree, CommitBeforeRedis, Holds, HoldsKey, Physical
<1> QED BY <1>1, <1>3, <1>4, <1>6 DEF IInv

\* How the handlers of reports move.
RequestTyped == req \in [Request -> [step : IngestStep, msg : Message \cup {None}]]

LEMMA GotoFacts ==
  ASSUME TypeOK, NEW r \in Request, NEW l \in IngestStep, Goto(r, l)
  PROVE  /\ RequestTyped'
         /\ req'[r].step = l /\ req'[r].msg = req[r].msg
         /\ \A q \in Request \ {r} : req'[q] = req[q]
  BY DEF TypeOK, Goto, RequestTyped

LEMMA FinishFacts ==
  ASSUME TypeOK, NEW r \in Request, Finish(r)
  PROVE  /\ RequestTyped'
         /\ req'[r].step = "idle"
         /\ \A q \in Request \ {r} : req'[q] = req[q]
  BY DEF TypeOK, Finish, Idle, IngestStep, RequestTyped

LEMMA RequestMessage ==
  ASSUME RequestsKnown, NEW r \in Request, req[r].step # "idle"
  PROVE  req[r].msg \in Message /\ ~IsOnline(req[r].msg)
  BY ReportFacts DEF RequestsKnown

\* How a consumer moves.
ConsOf(t, l, n) == cons' = [cons EXCEPT ![t] = [step |-> l, attempt |-> n]]

LEMMA ConsFacts ==
  ASSUME TypeOK, NEW t \in Topic, NEW l \in ConsumerStep, NEW n \in 0..MaxRetries,
         ConsOf(t, l, n)
  PROVE  /\ cons' \in [Topic -> [step : ConsumerStep, attempt : 0..MaxRetries]]
         /\ cons'[t].step = l
         /\ \A u \in Topic \ {t} : cons'[u] = cons[u]
  BY DEF TypeOK, ConsOf

LEMMA ContinueFacts ==
  ASSUME TypeOK, NEW t \in Topic, NEW l \in ConsumerStep, Continue(t, l)
  PROVE  /\ cons' \in [Topic -> [step : ConsumerStep, attempt : 0..MaxRetries]]
         /\ cons'[t].step = l
         /\ \A u \in Topic \ {t} : cons'[u] = cons[u]
  BY DEF TypeOK, Continue

LEMMA AttemptFailsFacts ==
  ASSUME TypeOK, NEW t \in Topic, Current(t) \in Message, AttemptFails(t)
  PROVE  /\ cons' \in [Topic -> [step : ConsumerStep, attempt : 0..MaxRetries]]
         /\ dropped' \subseteq Message
         /\ dropped \subseteq dropped'
         /\ cons'[t].step \in {"insert", "apply", "mark"}
         /\ cons'[t].step = "apply" => IsOnline(Current(t))
         /\ cons'[t].step = "mark" => Current(t) \in dropped'
         /\ \A u \in Topic \ {t} : cons'[u] = cons[u]
<1>1. CASE GivesUp(cons[t].attempt)
  <2>1. Continue(t, "mark") /\ dropped' = dropped \cup {Current(t)}
    BY <1>1 DEF AttemptFails
  <2> QED BY <2>1, ContinueFacts DEF ConsumerStep, TypeOK
<1>2. CASE ~GivesUp(cons[t].attempt)
  <2>1. /\ ConsOf(t, FirstStep(Current(t)), cons[t].attempt + 1)
        /\ dropped' = dropped
    BY <1>2 DEF AttemptFails, ConsOf
  <2>2. cons[t].attempt + 1 \in 0..MaxRetries
    BY <1>2, VoteCountingAssumption DEF GivesUp, TypeOK
  <2>3. FirstStep(Current(t)) \in ConsumerStep
    BY DEF FirstStep, ConsumerStep
  <2>4. \/ FirstStep(Current(t)) = "insert"
        \/ FirstStep(Current(t)) = "apply" /\ IsOnline(Current(t))
    BY DEF FirstStep
  <2> QED BY <2>1, <2>2, <2>3, <2>4, ConsFacts DEF TypeOK
<1> QED BY <1>1, <1>2

-----------------------------------------------------------------------------
(* The handlers of reports, as long as nothing is published, are of no      *)
(* concern to the topics and the totals.                                    *)

Unpublished == UNCHANGED <<batchNext, castStep, log, workerVars, events, tallyVars>>

LEMMA CountingStays ==
  ASSUME IInv, UNCHANGED <<log, workerVars, events, tallyVars>>
  PROVE  Counting'
<1> USE DEF workerVars, tallyVars
<1>1. PhysicalCountedOnce' /\ KeysUnique' /\ CountedIsRecorded' /\ RedisWithinSends'
  BY DEF IInv, Counting, PhysicalCountedOnce, KeysUnique, CountedIsRecorded, RedisWithinSends
<1>2. HoldersDiffer' /\ HeldIsFree' /\ CommitBeforeRedis'
  BY DEF IInv, Counting, HoldersDiffer, HeldIsFree, CommitBeforeRedis, Holds, KeyTaken, Current
<1> QED BY <1>1, <1>2 DEF Counting

LEMMA ConsumingStays ==
  ASSUME IInv, UNCHANGED <<log, workerVars, events, tallyVars>>
  PROVE  Consuming'
<1> USE DEF workerVars, tallyVars
<1>1. WellPlaced' /\ OffsetsOrdered'
  BY DEF IInv, Consuming, WellPlaced, OffsetsOrdered, MayBeIn
<1>2. SettledBeforeMark' /\ NoSilentSkip'
  BY DEF IInv, Consuming, SettledBeforeMark, NoSilentSkip, Current
<1> QED BY <1>1, <1>2 DEF Consuming

LEMMA HandlerStep ==
  ASSUME IInv, NEW r \in Request,
         (\E p \in Report : IngestVote(r, p)) \/ SetIdempotencyKey(r) \/ VerifySignature(r)
  PROVE  IInv'
<1>1. TypeOK /\ RequestsKnown /\ NothingForged /\ CastIsRecorded
  BY DEF IInv, Producing
<1>2. Unpublished /\ UNCHANGED accepted
  BY DEF Unpublished, IngestVote, SetIdempotencyKey, VerifySignature
<1>3. NothingForged' /\ CastIsRecorded'
  BY <1>1, <1>2 DEF Unpublished, NothingForged, CastIsRecorded
<1> DEFINE Handled == /\ idemKeys \subseteq {m.key : m \in Message}
                      /\ duplicates \subseteq Message
                      /\ RequestTyped /\ RequestsKnown
<1>4. Handled'
  <2>1. ASSUME NEW p \in Report, IngestVote(r, p) PROVE Handled'
    <3>1. ReportMsg(p) \in Message
      BY ReportFacts
    <3>2. RequestTyped'
      BY <1>1, <2>1, <3>1 DEF IngestVote, TypeOK, IngestStep, RequestTyped
    <3>3. RequestsKnown'
      BY <1>1, <2>1 DEF IngestVote, TypeOK, RequestsKnown
    <3> QED BY <1>1, <2>1, <3>2, <3>3 DEF IngestVote, TypeOK
  <2>2. CASE SetIdempotencyKey(r)
    <3>1. req[r].msg \in Message
      BY <1>1, <2>2, RequestMessage DEF SetIdempotencyKey
    <3>2. idemKeys' \subseteq {m.key : m \in Message} /\ duplicates' \subseteq Message
      BY <1>1, <2>2, <3>1 DEF SetIdempotencyKey, TypeOK
    <3>3. Goto(r, "verify") \/ Finish(r)
      BY <2>2 DEF SetIdempotencyKey
    <3>4. req[r].step # "idle"
      BY <2>2 DEF SetIdempotencyKey
    <3>5. /\ RequestTyped' /\ RequestsKnown'
      BY <1>1, <3>3, <3>4, GotoFacts, FinishFacts DEF RequestsKnown, IngestStep
    <3> QED BY <3>2, <3>5
  <2>3. CASE VerifySignature(r)
    <3>1. (Goto(r, "publish") /\ ~Forged(req[r].msg)) \/ Finish(r)
      BY <2>3 DEF VerifySignature, Admits, Forged
    <3>2. req[r].step # "idle"
      BY <2>3 DEF VerifySignature
    <3>3. /\ RequestTyped' /\ RequestsKnown'
      BY <1>1, <3>1, <3>2, GotoFacts, FinishFacts DEF RequestsKnown, IngestStep
    <3> QED BY <1>1, <2>3, <3>3 DEF VerifySignature, TypeOK
  <2> QED BY <2>1, <2>2, <2>3
<1>5. TypeOK'
  BY <1>1, <1>2, <1>4 DEF TypeOK, RequestTyped, Unpublished, workerVars, tallyVars
<1>6. Consuming' /\ Counting'
  BY <1>2, ConsumingStays, CountingStays DEF Unpublished
<1> QED BY <1>3, <1>4, <1>5, <1>6 DEF IInv, Producing

\* A key that expires and an API server that stops.
LEMMA ApiEvent ==
  ASSUME IInv, (\E m \in Message : KeyExpires(m.key)) \/ ApiCrash
  PROVE  IInv'
<1>1. TypeOK /\ RequestsKnown /\ NothingForged /\ CastIsRecorded
  BY DEF IInv, Producing
<1>2. Unpublished /\ UNCHANGED <<accepted, duplicates>>
  BY DEF Unpublished, KeyExpires, ApiCrash
<1>3. req' = req \/ req' = [r \in Request |-> Idle]
  BY DEF KeyExpires, ApiCrash
<1>4. idemKeys' \subseteq idemKeys
  BY DEF KeyExpires, ApiCrash
<1>5. TypeOK'
  BY <1>1, <1>2, <1>3, <1>4
     DEF TypeOK, Unpublished, workerVars, tallyVars, Idle, IngestStep
<1>6. Producing'
  BY <1>1, <1>2, <1>3
     DEF Producing, RequestsKnown, NothingForged, CastIsRecorded, Unpublished, Idle
<1> QED BY <1>2, <1>5, <1>6, ConsumingStays, CountingStays DEF IInv, Unpublished

-----------------------------------------------------------------------------
(* Publishing                                                              *)

\* A consumer at work keeps its message while its topic grows.
LEMMA CurrentKept ==
  ASSUME TypeOK, LogGrows, UNCHANGED handled,
         NEW t \in Topic, handled[t] < Len(log[t])
  PROVE  Current(t)' = Current(t)
<1>1. handled[t] + 1 \in 1..Len(log[t])
  BY LenProperties DEF TypeOK
<1> QED BY <1>1 DEF LogGrows, Current

LEMMA GrowingKeeps ==
  ASSUME IInv, LogGrows, UNCHANGED <<workerVars, events, tallyVars>>
  PROVE  Consuming' /\ Counting'
<1>1. TypeOK /\ Consuming /\ Counting
  BY DEF IInv
<1>2. ASSUME NEW t \in Topic
      PROVE  /\ Len(log[t]) \in Nat /\ Len(log'[t]) \in Nat
             /\ Len(log[t]) <= Len(log'[t])
             /\ handled[t] \in Nat /\ handled[t] <= Len(log[t])
  BY <1>1, LenProperties DEF TypeOK, LogGrows, Consuming, OffsetsOrdered
<1>3. ASSUME NEW t \in Topic, cons[t].step # "fetch"
      PROVE  Current(t)' = Current(t)
  BY <1>1, <1>3, CurrentKept DEF Consuming, OffsetsOrdered, workerVars
<1>4. WellPlaced'
  <2> SUFFICES ASSUME NEW t \in Topic, NEW i \in 1..Len(log'[t])
               PROVE  MayBeIn(t, log[t][i])'
    BY DEF WellPlaced
  <2>1. MayBeIn(t, log'[t][i])
    <3>1. CASE i > Len(log[t])
      BY <3>1 DEF LogGrows
    <3>2. CASE i <= Len(log[t])
      <4>1. i \in 1..Len(log[t])
        BY <1>2, <3>2
      <4> QED BY <1>1, <4>1 DEF LogGrows, Consuming, WellPlaced
    <3> QED BY <1>2, <3>1, <3>2
  <2> QED BY <2>1 DEF MayBeIn
<1>5. OffsetsOrdered'
  BY <1>1, <1>2 DEF Consuming, OffsetsOrdered, workerVars
<1>6. SettledBeforeMark'
  BY <1>1, <1>3 DEF Consuming, SettledBeforeMark, workerVars, tallyVars
<1>7. NoSilentSkip'
  <2>1. ASSUME NEW t \in Topic, NEW i \in 1..handled[t]
        PROVE  log'[t][i] = log[t][i]
    <3>1. i \in 1..Len(log[t])
      BY <1>2
    <3> QED BY <3>1 DEF LogGrows
  <2> QED BY <1>1, <2>1 DEF Consuming, NoSilentSkip, workerVars, tallyVars
<1>8. ASSUME NEW t \in Topic
      PROVE  Holds(t)' => Holds(t) /\ Current(t)' = Current(t)
  BY <1>3 DEF Holds, HoldsKey, workerVars
<1>9. HoldersDiffer' /\ HeldIsFree'
  BY <1>1, <1>8 DEF Counting, HoldersDiffer, HeldIsFree, KeyTaken
<1>10. CommitBeforeRedis'
  BY <1>1, <1>3 DEF Counting, CommitBeforeRedis, workerVars, tallyVars
<1>11. PhysicalCountedOnce' /\ KeysUnique' /\ CountedIsRecorded' /\ RedisWithinSends'
  BY <1>1 DEF Counting, PhysicalCountedOnce, KeysUnique, CountedIsRecorded, RedisWithinSends,
              tallyVars
<1> QED BY <1>4, <1>5, <1>6, <1>7, <1>9, <1>10, <1>11 DEF Consuming, Counting

LEMMA PublishReportStep ==
  ASSUME IInv, NEW r \in Request, PublishReport(r)
  PROVE  IInv'
<1> DEFINE m == req[r].msg
<1>1. TypeOK /\ RequestsKnown /\ NothingForged /\ CastIsRecorded
  BY DEF IInv, Producing
<1>2. m \in Message /\ ~IsOnline(m) /\ ~Forged(m)
  BY <1>1, RequestMessage DEF PublishReport, RequestsKnown
<1>3. LogGrows
  <2>1. MayBeIn(TopicFor(m), m)
    BY <1>2 DEF MayBeIn
  <2>2. PublishSome(m)
    BY DEF PublishReport
  <2> QED BY <1>1, <1>2, <2>1, <2>2, PublishGrows DEF PublishSome
<1>4. Consuming' /\ Counting'
  BY <1>3, GrowingKeeps DEF PublishReport
<1>5. accepted' \subseteq accepted \cup {m}
  BY DEF PublishReport
<1>6. /\ RequestTyped'
      /\ req'[r].step = "idle"
      /\ \A q \in Request \ {r} : req'[q] = req[q]
  BY <1>1, FinishFacts DEF PublishReport
<1>7. Producing'
  BY <1>1, <1>2, <1>5, <1>6
     DEF Producing, RequestsKnown, NothingForged, CastIsRecorded, PublishReport
<1>8. TypeOK'
  BY <1>1, <1>2, <1>3, <1>5, <1>6
     DEF PublishReport, TypeOK, RequestTyped, LogGrows, workerVars, tallyVars
<1> QED BY <1>4, <1>7, <1>8 DEF IInv

LEMMA BatchEntryStep ==
  ASSUME IInv, NEW b \in Batch, BatchEntry(b)
  PROVE  IInv'
<1> DEFINE i == batchNext[b]
<1>1. TypeOK /\ RequestsKnown /\ NothingForged /\ CastIsRecorded
  BY DEF IInv, Producing
<1>2. i \in 1..BatchSize
  BY <1>1, VoteCountingAssumption DEF BatchEntry, TypeOK
<1> DEFINE m == EntryMsg(b, i)
<1>3. m \in Message /\ ~IsOnline(m) /\ ~Forged(m)
  BY <1>2, EntryFacts
<1>4. LogGrows
  <2>1. MayBeIn(TopicFor(m), m)
    BY <1>3 DEF MayBeIn
  <2>2. PublishSome(m)
    BY DEF BatchEntry
  <2> HIDE DEF m
  <2> QED BY <1>1, <1>3, <2>1, <2>2, PublishGrows DEF PublishSome
<1>5. Consuming' /\ Counting'
  BY <1>4, GrowingKeeps DEF BatchEntry
<1>6. Producing'
  BY <1>1 DEF Producing, RequestsKnown, NothingForged, CastIsRecorded, BatchEntry
<1>7. batchNext' \in [Batch -> 1..(BatchSize + 1)]
  BY <1>1, <1>2, VoteCountingAssumption DEF BatchEntry, TypeOK
<1>8. TypeOK'
  BY <1>1, <1>4, <1>7 DEF BatchEntry, TypeOK, LogGrows, workerVars, tallyVars
<1> QED BY <1>5, <1>6, <1>8 DEF IInv

LEMMA PublishOnlineStep ==
  ASSUME IInv, NEW v \in OnlineVote, PublishOnline(v)
  PROVE  IInv'
<1> DEFINE m == OnlineMsg(v)
<1>1. TypeOK /\ RequestsKnown /\ NothingForged /\ CastIsRecorded
  BY DEF IInv, Producing
<1>2. m \in Message /\ m \in events /\ ~Forged(m)
  BY <1>1, OnlineKeys DEF PublishOnline, Publishable, CastIsRecorded
<1>3. LogGrows
  <2>1. MayBeIn(TopicFor(m), m)
    BY <1>2 DEF MayBeIn
  <2>2. PublishSome(m)
    BY DEF PublishOnline
  <2> HIDE DEF m
  <2> QED BY <1>1, <1>2, <2>1, <2>2, PublishGrows DEF PublishSome
<1>4. Consuming' /\ Counting'
  BY <1>3, GrowingKeeps DEF PublishOnline
<1>5. castStep' \in [OnlineVote -> {"open", "recorded", "done"}]
  BY <1>1 DEF PublishOnline, TypeOK
<1>6. CastIsRecorded'
  BY <1>1, <1>2 DEF CastIsRecorded, PublishOnline, TypeOK
<1>7. Producing'
  BY <1>1, <1>6 DEF Producing, RequestsKnown, NothingForged, PublishOnline
<1>8. TypeOK'
  BY <1>1, <1>3, <1>5 DEF PublishOnline, TypeOK, LogGrows, workerVars, tallyVars
<1> QED BY <1>4, <1>7, <1>8 DEF IInv

\* The event of an online vote appears: its key is that of no other message.
LEMMA RecordOnlineStep ==
  ASSUME IInv, NEW v \in OnlineVote, RecordOnline(v)
  PROVE  IInv'
<1> DEFINE m == OnlineMsg(v)
<1>1. TypeOK /\ Producing /\ Consuming /\ Counting
  BY DEF IInv
<1>2. /\ m \in Message /\ IsOnline(m) /\ ~Forged(m)
      /\ \A n \in Message : n.key = m.key => n = m
  BY OnlineKeys
<1>3. events' = events \cup {m}
  BY DEF RecordOnline
<1> HIDE DEF m
<1>4. Consuming'
  <2>1. WellPlaced'
    BY <1>1, <1>3 DEF Consuming, WellPlaced, MayBeIn, RecordOnline, workerVars
  <2>2. OffsetsOrdered' /\ SettledBeforeMark' /\ NoSilentSkip'
    BY <1>1 DEF Consuming, OffsetsOrdered, SettledBeforeMark, NoSilentSkip, Current,
                RecordOnline, workerVars, tallyVars
  <2> QED BY <2>1, <2>2 DEF Consuming
<1>5. Producing'
  <2>1. CastIsRecorded'
    BY <1>1, <1>3 DEF Producing, CastIsRecorded, RecordOnline, TypeOK, m
  <2> QED BY <1>1, <1>2, <1>3, <2>1 DEF Producing, RequestsKnown, NothingForged, RecordOnline
<1>6. PhysicalCountedOnce'
  BY <1>1, <1>2, <1>3 DEF Counting, PhysicalCountedOnce, Physical, RecordOnline, tallyVars
<1>7. KeysUnique'
  BY <1>1, <1>2, <1>3 DEF Counting, KeysUnique, TypeOK
<1>8. CountedIsRecorded' /\ RedisWithinSends'
  BY <1>1, <1>3 DEF Counting, CountedIsRecorded, RedisWithinSends, RecordOnline, tallyVars
<1>9. HoldersDiffer' /\ CommitBeforeRedis'
  BY <1>1 DEF Counting, HoldersDiffer, CommitBeforeRedis, Holds, Current,
              RecordOnline, workerVars, tallyVars
<1>10. HeldIsFree'
  <2> SUFFICES ASSUME NEW t \in Topic, Holds(t)' PROVE ~KeyTaken(Current(t))'
    BY DEF HeldIsFree
  <2>1. Holds(t) /\ Current(t)' = Current(t)
    BY DEF Holds, Current, RecordOnline, workerVars
  <2>2. Current(t) \in Message /\ ~IsOnline(Current(t))
    BY <1>1, <2>1, CurrentFacts DEF Consuming, OffsetsOrdered, Holds, HoldsKey
  <2>3. Current(t).key # m.key
    BY <1>2, <2>2
  <2>4. ~KeyTaken(Current(t))
    BY <1>1, <2>1 DEF Counting, HeldIsFree
  <2> QED BY <1>3, <2>1, <2>3, <2>4 DEF KeyTaken
<1>11. TypeOK'
  BY <1>1, <1>2, <1>3 DEF TypeOK, RecordOnline, workerVars, tallyVars
<1> QED BY <1>4, <1>5, <1>6, <1>7, <1>8, <1>9, <1>10, <1>11 DEF IInv, Counting

-----------------------------------------------------------------------------
(* The consumers                                                           *)

\* A message that is being handled belongs to the topic, and to no other.
LEMMA HandledFacts ==
  ASSUME IInv, NEW t \in Topic, cons[t].step # "fetch"
  PROVE  /\ handled[t] < Len(log[t])
         /\ Current(t) \in Message
         /\ MayBeIn(t, Current(t))
         /\ \A u \in Topic : cons[u].step # "fetch" /\ Current(u) = Current(t) => u = t
<1>1. TypeOK /\ WellPlaced /\ OffsetsOrdered
  BY DEF IInv, Consuming
<1>2. ASSUME NEW u \in Topic, cons[u].step # "fetch"
      PROVE  /\ handled[u] < Len(log[u])
             /\ Current(u) \in Message
             /\ MayBeIn(u, Current(u))
  BY <1>1, <1>2, CurrentFacts DEF OffsetsOrdered
<1> QED BY <1>2 DEF MayBeIn

ConsTyped == cons \in [Topic -> [step : ConsumerStep, attempt : 0..MaxRetries]]

\* Only the consumer of t moves, to a step with its message still at hand.
Moves(t) ==
    /\ UNCHANGED <<apiVars, log, handled, committed, crashes>>
    /\ ConsTyped'
    /\ \A u \in Topic \ {t} : cons'[u] = cons[u]
    /\ dropped \subseteq dropped'
    /\ dropped' \subseteq Message
    /\ handled[t] < Len(log[t])

\* What a move of one consumer leaves alone, whatever is committed with it.
LEMMA MoveFacts ==
  ASSUME IInv, NEW t \in Topic, Moves(t), events \subseteq events',
         \A m \in Message : summary[m] <= summary'[m], summary' \in [Message -> Nat],
         \A m \in events' \ events : ~Forged(m),
         cons'[t].step \in {"redis", "mark"} =>
             summary'[Current(t)] > 0 \/ Current(t) \in dropped'
  PROVE  Producing' /\ Consuming'
<1>1. TypeOK /\ Producing /\ Consuming
  BY DEF IInv
<1>2. \A u \in Topic : Current(u)' = Current(u)
  BY DEF Current, Moves
<1>3. Producing'
  BY <1>1 DEF Producing, RequestsKnown, NothingForged, CastIsRecorded, Moves, apiVars
<1>4. WellPlaced'
  BY <1>1 DEF Consuming, WellPlaced, MayBeIn, Moves
<1>5. OffsetsOrdered'
  BY <1>1 DEF Consuming, OffsetsOrdered, Moves
<1>6. ASSUME NEW m \in Message, summary[m] > 0 \/ m \in dropped
      PROVE  summary'[m] > 0 \/ m \in dropped'
  <2>1. summary[m] \in Nat /\ summary'[m] \in Nat
    BY <1>1 DEF TypeOK
  <2> QED BY <1>6, <2>1 DEF Moves
<1>7. SettledBeforeMark'
  <2> SUFFICES ASSUME NEW u \in Topic, cons'[u].step \in {"redis", "mark"}
               PROVE  summary'[Current(u)] > 0 \/ Current(u) \in dropped'
    BY <1>2 DEF SettledBeforeMark
  <2>1. CASE u = t
    BY <2>1
  <2>2. CASE u # t
    <3>1. cons[u].step \in {"redis", "mark"}
      BY <2>2 DEF Moves
    <3>2. Current(u) \in Message
      BY <3>1, HandledFacts
    <3> QED BY <1>1, <1>6, <3>1, <3>2 DEF Consuming, SettledBeforeMark
  <2> QED BY <2>1, <2>2
<1>8. NoSilentSkip'
  <2> SUFFICES ASSUME NEW u \in Topic, NEW i \in 1..handled[u]
               PROVE  summary'[log[u][i]] > 0 \/ log[u][i] \in dropped'
    BY DEF NoSilentSkip, Moves
  <2>1. log[u] \in Seq(Message) /\ handled[u] \in Nat /\ handled[u] <= Len(log[u])
    BY <1>1 DEF TypeOK, Consuming, OffsetsOrdered
  <2>2. Len(log[u]) \in Nat
    BY <2>1, LenProperties
  <2>3. log[u][i] \in Message
    BY <2>1, <2>2, ElementOfSeq
  <2> QED BY <1>1, <1>6, <2>3 DEF Consuming, NoSilentSkip
<1> QED BY <1>3, <1>4, <1>5, <1>7, <1>8 DEF Consuming

\* A step that commits nothing. It may open a transaction only with a key
\* that is free and that nobody holds.
LEMMA QuietMove ==
  ASSUME IInv, NEW t \in Topic, Moves(t), UNCHANGED <<events, tallyVars>>,
         cons'[t].step # "redis",
         cons'[t].step = "mark" => Current(t) \in dropped',
         cons'[t].step \in HoldsKey /\ ~IsOnline(Current(t)) =>
             Holds(t) \/ (~AwaitsKey(t) /\ ~KeyTaken(Current(t)))
  PROVE  IInv'
<1>1. TypeOK /\ Counting
  BY DEF IInv
<1>2. \A u \in Topic : Current(u)' = Current(u)
  BY DEF Current, Moves
<1>3. Producing' /\ Consuming'
  <2>1. summary' = summary /\ events' = events /\ summary \in [Message -> Nat]
    BY <1>1 DEF TypeOK, tallyVars
  <2>2. \A m \in Message : summary[m] <= summary'[m]
    BY <2>1
  <2> QED BY <2>1, <2>2, MoveFacts
<1>4. TypeOK'
  BY <1>1 DEF TypeOK, Moves, ConsTyped, apiVars, tallyVars
<1>5. PhysicalCountedOnce' /\ KeysUnique' /\ CountedIsRecorded' /\ RedisWithinSends'
  BY <1>1 DEF Counting, PhysicalCountedOnce, KeysUnique, CountedIsRecorded, RedisWithinSends,
              tallyVars
<1>6. \A u \in Topic : u # t => (Holds(u)' <=> Holds(u))
  BY <1>2 DEF Holds, Moves
<1>7. Holds(t)' => Holds(t) \/ (~AwaitsKey(t) /\ ~KeyTaken(Current(t)))
  BY <1>2 DEF Holds
<1>8. HoldersDiffer'
  <2> SUFFICES ASSUME NEW u \in Topic, u # t, Holds(t)', Holds(u)'
               PROVE  Current(t).key # Current(u).key
    BY <1>1, <1>2, <1>6 DEF Counting, HoldersDiffer
  <2>1. Holds(u)
    BY <1>6
  <2>2. CASE Holds(t)
    BY <1>1, <2>1, <2>2 DEF Counting, HoldersDiffer
  <2>3. CASE ~AwaitsKey(t)
    BY <2>1, <2>3 DEF AwaitsKey, Holds
  <2> QED BY <1>7, <2>2, <2>3
<1>9. HeldIsFree'
  BY <1>1, <1>2, <1>6, <1>7 DEF Counting, HeldIsFree, KeyTaken
<1>10. CommitBeforeRedis'
  BY <1>1, <1>2 DEF Counting, CommitBeforeRedis, Moves, tallyVars
<1> QED BY <1>3, <1>4, <1>5, <1>8, <1>9, <1>10 DEF IInv, Counting

LEMMA FetchStep ==
  ASSUME IInv, NEW t \in Topic, Fetch(t)
  PROVE  IInv'
<1>1. TypeOK
  BY DEF IInv
<1>2. ConsOf(t, FirstStep(Current(t)), 1)
  BY DEF Fetch, ConsOf
<1>3. FirstStep(Current(t)) \in ConsumerStep /\ 1 \in 0..MaxRetries
  BY VoteCountingAssumption DEF FirstStep, ConsumerStep
<1>4. Moves(t) /\ cons'[t].step = FirstStep(Current(t))
  BY <1>1, <1>2, <1>3, ConsFacts DEF Moves, ConsTyped, Fetch, TypeOK
<1> QED BY <1>4, QuietMove DEF Fetch, FirstStep, HoldsKey

LEMMA FailedMove ==
  ASSUME IInv, NEW t \in Topic, cons[t].step # "fetch", AttemptFails(t),
         UNCHANGED <<apiVars, log, handled, committed, crashes>>
  PROVE  /\ Moves(t)
         /\ cons'[t].step \in {"insert", "apply", "mark"}
         /\ cons'[t].step = "apply" => IsOnline(Current(t))
         /\ cons'[t].step = "mark" => Current(t) \in dropped'
<1>1. TypeOK
  BY DEF IInv
<1> QED BY <1>1, HandledFacts, AttemptFailsFacts DEF Moves, ConsTyped

LEMMA ContinuedMove ==
  ASSUME IInv, NEW t \in Topic, NEW l \in ConsumerStep, cons[t].step # "fetch",
         Continue(t, l), UNCHANGED <<apiVars, log, handled, committed, crashes, dropped>>
  PROVE  Moves(t) /\ cons'[t].step = l
<1>1. TypeOK
  BY DEF IInv
<1> QED BY <1>1, HandledFacts, ContinueFacts DEF Moves, ConsTyped, TypeOK

LEMMA InsertEventStep ==
  ASSUME IInv, NEW t \in Topic, InsertEvent(t)
  PROVE  IInv'
<1>1. CASE ~KeyTaken(Current(t)) /\ Continue(t, "apply") /\ UNCHANGED dropped
  <2>1. Moves(t) /\ cons'[t].step = "apply"
    BY <1>1, ContinuedMove DEF InsertEvent, ConsumerStep
  <2> QED BY <1>1, <2>1, QuietMove DEF InsertEvent
<1>2. CASE AttemptFails(t)
  BY <1>2, FailedMove, QuietMove DEF InsertEvent, HoldsKey
<1> QED BY <1>1, <1>2 DEF InsertEvent

LEMMA ApplyReadModelsStep ==
  ASSUME IInv, NEW t \in Topic, ApplyReadModels(t)
  PROVE  IInv'
<1>1. CASE Continue(t, "commit") /\ UNCHANGED dropped
  <2>1. Moves(t) /\ cons'[t].step = "commit"
    BY <1>1, ContinuedMove DEF ApplyReadModels, ConsumerStep
  <2> QED BY <2>1, QuietMove DEF ApplyReadModels, Holds, HoldsKey
<1>2. CASE AttemptFails(t)
  BY <1>2, FailedMove, QuietMove DEF ApplyReadModels, HoldsKey
<1> QED BY <1>1, <1>2 DEF ApplyReadModels

\* A commit that takes effect, answered or not: the message is added for the
\* first time, unless it is an online vote.
LEMMA CommittedMove ==
  ASSUME IInv, NEW t \in Topic, cons[t].step = "commit", Moves(t),
         CommitRows(Current(t)), UNCHANGED redis,
         ~(cons'[t].step \in HoldsKey /\ ~IsOnline(Current(t)))
  PROVE  IInv'
<1> DEFINE m == Current(t)
<1>1. TypeOK /\ Counting
  BY DEF IInv
<1>2. m \in Message /\ MayBeIn(t, m)
  BY HandledFacts
<1>3. \A u \in Topic : Current(u)' = Current(u)
  BY DEF Current, Moves
<1>4. /\ summary' \in [Message -> Nat]
      /\ summary'[m] = summary[m] + 1
      /\ summary[m] \in Nat
      /\ \A n \in Message \ {m} : summary'[n] = summary[n]
  BY <1>1, <1>2 DEF CommitRows, TypeOK
<1>5. events' = events \cup {m}
  BY <1>2 DEF CommitRows, MayBeIn
<1> HIDE DEF m
<1>6. ASSUME NEW n \in Message
      PROVE  summary[n] \in Nat /\ summary[n] <= summary'[n]
  <2>1. summary[n] \in Nat
    BY <1>1 DEF TypeOK
  <2>2. CASE n = m
    BY <1>4, <2>2
  <2>3. CASE n # m
    BY <1>4, <2>1, <2>3
  <2> QED BY <2>1, <2>2, <2>3
<1>7. Producing' /\ Consuming'
  BY <1>2, <1>4, <1>5, <1>6, MoveFacts DEF MayBeIn, m
<1>8. TypeOK'
  BY <1>1, <1>2, <1>4, <1>5 DEF TypeOK, Moves, ConsTyped, apiVars
<1>9. ~IsOnline(m) => /\ Holds(t)
                      /\ ~KeyTaken(m)
                      /\ m \notin events
  <2>1. ~IsOnline(m) => Holds(t) /\ ~KeyTaken(m)
    BY <1>1 DEF Holds, HoldsKey, Counting, HeldIsFree, m
  <2> QED BY <2>1 DEF KeyTaken
<1>10. PhysicalCountedOnce'
  BY <1>1, <1>2, <1>4, <1>5, <1>9 DEF Counting, PhysicalCountedOnce, Physical
<1>11. KeysUnique'
  <2>1. IsOnline(m) => m \in events
    BY <1>2 DEF MayBeIn
  <2>2. KeysUnique
    BY <1>1 DEF Counting
  <2> QED BY <1>5, <1>9, <2>1, <2>2 DEF KeysUnique, KeyTaken
<1>12. CountedIsRecorded'
  BY <1>1, <1>2, <1>4, <1>5 DEF Counting, CountedIsRecorded
<1>13. redis' = redis /\ \A n \in Message, c \in Counter : redis[n][c] \in Nat
  BY <1>1 DEF TypeOK
<1>14. RedisWithinSends'
  <2> SUFFICES ASSUME NEW n \in Message, NEW c \in Counter
               PROVE  redis[n][c] <= SendsFor(summary'[n])
    BY <1>13 DEF RedisWithinSends, SendsFor
  <2>1. redis[n][c] <= SendsFor(summary[n]) /\ redis[n][c] \in Nat
    BY <1>1, <1>13 DEF Counting, RedisWithinSends
  <2>2. CASE n = m
    BY <1>4, <2>1, <2>2, SendsFacts
  <2>3. CASE n # m
    BY <1>4, <2>1, <2>3
  <2> QED BY <2>2, <2>3
<1>15. \A u \in Topic : Holds(u)' => u # t /\ Holds(u)
  BY <1>3 DEF Holds, Moves
<1>16. HoldersDiffer'
  BY <1>1, <1>3, <1>15 DEF Counting, HoldersDiffer
<1>17. HeldIsFree'
  <2> SUFFICES ASSUME NEW u \in Topic, Holds(u)' PROVE ~KeyTaken(Current(u))'
    BY DEF HeldIsFree
  <2>1. u # t /\ Holds(u) /\ ~KeyTaken(Current(u))
    BY <1>1, <1>15 DEF Counting, HeldIsFree
  <2>2. Current(u) \in Message
    BY <2>1, HandledFacts DEF Holds, HoldsKey
  <2>3. ASSUME Current(u).key = m.key PROVE FALSE
    <3>1. CASE IsOnline(m)
      BY <1>2, <2>1, <2>3, <3>1 DEF MayBeIn, KeyTaken
    <3>2. CASE ~IsOnline(m)
      BY <1>1, <1>9, <2>1, <2>3, <3>2 DEF Counting, HoldersDiffer, m
    <3> QED BY <3>1, <3>2
  <2> QED BY <1>3, <1>5, <2>1, <2>3 DEF KeyTaken
<1>18. CommitBeforeRedis'
  <2> SUFFICES ASSUME NEW u \in Topic, cons'[u].step = "redis", NEW c \in Counter
               PROVE  redis[Current(u)][c] + MaxSends <= SendsFor(summary'[Current(u)])
    BY <1>3, <1>13 DEF CommitBeforeRedis, SendsFor
  <2>1. CASE u = t
    <3>1. redis[m][c] <= SendsFor(summary[m]) /\ redis[m][c] \in Nat
      BY <1>1, <1>2, <1>13 DEF Counting, RedisWithinSends
    <3>2. redis[m][c] + MaxSends <= SendsFor(summary'[m])
      BY <1>4, <3>1, SendsFacts
    <3> QED BY <2>1, <3>2 DEF m
  <2>2. CASE u # t
    <3>1. cons[u].step = "redis"
      BY <2>2 DEF Moves
    <3>2. Current(u) \in Message
      BY <3>1, HandledFacts
    <3>3. redis[Current(u)][c] + MaxSends <= SendsFor(summary[Current(u)])
      BY <1>1, <3>1 DEF Counting, CommitBeforeRedis
    <3>4. CASE Current(u) = m
      <4>1. redis[m][c] + MaxSends <= SendsFor(summary'[m])
        BY <1>2, <1>4, <1>13, <3>3, <3>4, SendsFacts
      <4> QED BY <3>4, <4>1
    <3>5. CASE Current(u) # m
      BY <1>4, <3>2, <3>3, <3>5
    <3> QED BY <3>4, <3>5
  <2> QED BY <2>1, <2>2
<1> QED BY <1>7, <1>8, <1>10, <1>11, <1>12, <1>14, <1>16, <1>17, <1>18 DEF IInv, Counting

LEMMA CommitTxStep ==
  ASSUME IInv, NEW t \in Topic, CommitTx(t)
  PROVE  IInv'
<1>1. CASE CommitRows(Current(t)) /\ Continue(t, "redis") /\ UNCHANGED dropped
  <2>1. Moves(t) /\ cons'[t].step = "redis"
    BY <1>1, ContinuedMove DEF CommitTx, ConsumerStep
  <2> QED BY <1>1, <2>1, CommittedMove DEF CommitTx, HoldsKey
<1>2. CASE CommitRows(Current(t)) /\ AfterFailedCommit(t)
  BY <1>2, FailedMove, CommittedMove DEF CommitTx, AfterFailedCommit, HoldsKey
<1>3. CASE UNCHANGED <<events, summary>> /\ AfterFailedCommit(t)
  BY <1>3, FailedMove, QuietMove DEF CommitTx, AfterFailedCommit, HoldsKey, tallyVars
<1> QED BY <1>1, <1>2, <1>3 DEF CommitTx

\* The leaderboards are told of a message that is counted once more than they
\* have heard of it.
LEMMA UpdateRedisStep ==
  ASSUME IInv, NEW t \in Topic, UpdateRedis(t)
  PROVE  IInv'
<1> DEFINE m == Current(t)
<1>1. TypeOK /\ Counting /\ Consuming
  BY DEF IInv
<1>2. m \in Message /\ \A u \in Topic : cons[u].step # "fetch" /\ Current(u) = m => u = t
  BY HandledFacts DEF UpdateRedis
<1>3. Moves(t) /\ cons'[t].step = "mark"
  BY ContinuedMove DEF UpdateRedis, ConsumerStep
<1>4. \A u \in Topic : Current(u)' = Current(u)
  BY DEF Current, UpdateRedis
<1>5. summary[m] > 0
  <2>1. \A c \in Counter :
           redis[m][c] \in Nat /\ redis[m][c] + MaxSends <= SendsFor(summary[m])
    BY <1>1, <1>2 DEF Counting, CommitBeforeRedis, UpdateRedis, TypeOK
  <2>2. "province" \in Counter /\ summary[m] \in Nat
    BY <1>1, <1>2 DEF Counter, TypeOK
  <2>3. summary[m] # 0
    BY <2>1, <2>2, SendsFacts
  <2> QED BY <2>2, <2>3
<1> HIDE DEF m
<1>6. /\ redis' \in [Message -> [Counter -> Nat]]
      /\ \A c \in Counter : redis'[m][c] <= redis[m][c] + MaxSends
      /\ \A n \in Message \ {m} : redis'[n] = redis[n]
  <2>1. PICK executed \in [CountersOf(m) -> 0..MaxSends] :
           redis' = [redis EXCEPT ![m] =
               [c \in Counter |-> IF c \in CountersOf(m) THEN @[c] + executed[c] ELSE @[c]]]
    BY DEF UpdateRedis, m
  <2>2. redis[m] \in [Counter -> Nat] /\ MaxSends \in Nat
    BY <1>1, <1>2, SendsFacts DEF TypeOK
  <2>3. redis'[m] = [c \in Counter |-> IF c \in CountersOf(m)
                                        THEN redis[m][c] + executed[c] ELSE redis[m][c]]
    BY <1>1, <1>2, <2>1 DEF TypeOK
  <2>4. redis'[m] \in [Counter -> Nat]
    BY <2>2, <2>3
  <2>5. \A c \in Counter : redis'[m][c] <= redis[m][c] + MaxSends
    BY <2>2, <2>3
  <2>6. \A n \in Message \ {m} : redis'[n] = redis[n]
    BY <1>1, <2>1 DEF TypeOK
  <2>7. redis' \in [Message -> [Counter -> Nat]]
    BY <1>1, <1>2, <2>1, <2>4 DEF TypeOK
  <2> QED BY <2>5, <2>6, <2>7
<1>7. Producing' /\ Consuming'
  <2>1. summary' = summary /\ events' = events /\ summary \in [Message -> Nat]
    BY <1>1 DEF TypeOK, UpdateRedis
  <2>2. \A n \in Message : summary[n] <= summary'[n]
    BY <2>1
  <2> QED BY <1>3, <1>5, <2>1, <2>2, MoveFacts DEF m
<1>8. TypeOK'
  BY <1>1, <1>3, <1>6 DEF TypeOK, Moves, ConsTyped, apiVars, UpdateRedis
<1>9. PhysicalCountedOnce' /\ KeysUnique' /\ CountedIsRecorded'
  BY <1>1 DEF Counting, PhysicalCountedOnce, KeysUnique, CountedIsRecorded, UpdateRedis
<1>10. RedisWithinSends'
  <2> SUFFICES ASSUME NEW n \in Message, NEW c \in Counter
               PROVE  redis'[n][c] <= SendsFor(summary[n])
    BY DEF RedisWithinSends, UpdateRedis, SendsFor
  <2>1. CASE n = m
    <3>1. redis[m][c] + MaxSends <= SendsFor(summary[m])
      BY <1>1 DEF Counting, CommitBeforeRedis, UpdateRedis, m
    <3>2. redis'[m][c] \in Nat /\ redis[m][c] \in Nat /\ summary[m] \in Nat
      BY <1>1, <1>2, <1>6 DEF TypeOK
    <3>3. SendsFor(summary[m]) \in Nat /\ MaxSends \in Nat
      BY <3>2, SendsFacts
    <3>4. redis'[m][c] <= SendsFor(summary[m])
      BY <1>6, <3>1, <3>2, <3>3
    <3> QED BY <2>1, <3>4
  <2>2. CASE n # m
    BY <1>1, <1>6, <2>2 DEF Counting, RedisWithinSends
  <2> QED BY <2>1, <2>2
<1>11. \A u \in Topic : Holds(u)' => Holds(u)
  BY <1>3, <1>4 DEF Holds, Moves, HoldsKey
<1>12. HoldersDiffer' /\ HeldIsFree'
  BY <1>1, <1>4, <1>11 DEF Counting, HoldersDiffer, HeldIsFree, KeyTaken, UpdateRedis
<1>13. CommitBeforeRedis'
  <2> SUFFICES ASSUME NEW u \in Topic, cons'[u].step = "redis", NEW c \in Counter
               PROVE  redis'[Current(u)][c] + MaxSends <= SendsFor(summary[Current(u)])
    BY <1>4 DEF CommitBeforeRedis, UpdateRedis, SendsFor
  <2>1. u # t /\ cons[u].step = "redis"
    BY <1>3 DEF Moves
  <2>2. Current(u) \in Message /\ Current(u) # m
    BY <1>2, <2>1, HandledFacts
  <2> QED BY <1>1, <1>6, <2>1, <2>2 DEF Counting, CommitBeforeRedis
<1> QED BY <1>7, <1>8, <1>9, <1>10, <1>12, <1>13 DEF IInv, Counting

-----------------------------------------------------------------------------
(* Offsets and crashes                                                     *)

\* Consumers that fetch next hold nothing and have nothing at hand.
LEMMA MarkOffsetStep ==
  ASSUME IInv, NEW t \in Topic, MarkOffset(t)
  PROVE  IInv'
<1>1. TypeOK /\ Producing /\ Consuming /\ Counting
  BY DEF IInv
<1>2. /\ handled[t] < Len(log[t])
      /\ handled[t] \in Nat /\ Len(log[t]) \in Nat
      /\ summary[Current(t)] > 0 \/ Current(t) \in dropped
  BY <1>1, HandledFacts, LenProperties DEF MarkOffset, TypeOK, Consuming, SettledBeforeMark
<1>3. /\ handled' \in [Topic -> Nat]
      /\ handled'[t] = handled[t] + 1
      /\ \A u \in Topic \ {t} : handled'[u] = handled[u]
  BY <1>1 DEF TypeOK, MarkOffset
<1>4. /\ ConsTyped'
      /\ cons'[t].step = "fetch"
      /\ \A u \in Topic \ {t} : cons'[u] = cons[u]
  <2>1. ConsOf(t, "fetch", 0) /\ 0 \in 0..MaxRetries
    BY VoteCountingAssumption DEF MarkOffset, ConsOf
  <2> QED BY <1>1, <2>1, ConsFacts DEF ConsTyped, ConsumerStep
<1>5. \A u \in Topic \ {t} : Current(u)' = Current(u)
  BY <1>3 DEF Current, MarkOffset
<1>6. TypeOK'
  BY <1>1, <1>3, <1>4 DEF TypeOK, ConsTyped, MarkOffset, apiVars, tallyVars
<1>7. Producing'
  BY <1>1 DEF Producing, RequestsKnown, NothingForged, CastIsRecorded, MarkOffset, apiVars
<1>8. WellPlaced'
  BY <1>1 DEF Consuming, WellPlaced, MayBeIn, MarkOffset
<1>9. OffsetsOrdered'
  <2> SUFFICES ASSUME NEW u \in Topic
               PROVE  /\ committed[u] <= handled'[u]
                      /\ handled'[u] <= Len(log[u])
                      /\ cons'[u].step # "fetch" => handled'[u] < Len(log[u])
    BY DEF OffsetsOrdered, MarkOffset
  <2>1. committed[u] \in Nat
    BY <1>1 DEF TypeOK
  <2> QED BY <1>1, <1>2, <1>3, <1>4, <2>1 DEF Consuming, OffsetsOrdered
<1>10. SettledBeforeMark'
  BY <1>1, <1>4, <1>5 DEF Consuming, SettledBeforeMark, MarkOffset, tallyVars
<1>11. NoSilentSkip'
  <2> SUFFICES ASSUME NEW u \in Topic, NEW i \in 1..handled'[u]
               PROVE  summary[log[u][i]] > 0 \/ log[u][i] \in dropped
    BY DEF NoSilentSkip, MarkOffset, tallyVars
  <2>1. CASE i \in 1..handled[u]
    BY <1>1, <2>1 DEF Consuming, NoSilentSkip
  <2>2. CASE i \notin 1..handled[u]
    <3>1. u = t /\ i = handled[t] + 1
      BY <1>2, <1>3, <2>2
    <3> QED BY <1>2, <3>1 DEF Current
  <2> QED BY <2>1, <2>2
<1>12. \A u \in Topic : Holds(u)' => u # t /\ Holds(u) /\ Current(u)' = Current(u)
  BY <1>4, <1>5 DEF Holds, HoldsKey
<1>13. HoldersDiffer' /\ HeldIsFree'
  BY <1>1, <1>12 DEF Counting, HoldersDiffer, HeldIsFree, KeyTaken, MarkOffset
<1>14. CommitBeforeRedis'
  BY <1>1, <1>4, <1>5 DEF Counting, CommitBeforeRedis, MarkOffset, tallyVars
<1>15. PhysicalCountedOnce' /\ KeysUnique' /\ CountedIsRecorded' /\ RedisWithinSends'
  BY <1>1 DEF Counting, PhysicalCountedOnce, KeysUnique, CountedIsRecorded, RedisWithinSends,
              MarkOffset, tallyVars
<1> QED BY <1>6, <1>7, <1>8, <1>9, <1>10, <1>11, <1>13, <1>14, <1>15
        DEF IInv, Consuming, Counting

LEMMA FlushOffsetStep ==
  ASSUME IInv, NEW t \in Topic, FlushOffset(t)
  PROVE  IInv'
<1>1. TypeOK /\ Producing /\ Consuming /\ Counting
  BY DEF IInv
<1>2. /\ committed' \in [Topic -> Nat]
      /\ committed'[t] = handled[t]
      /\ \A u \in Topic \ {t} : committed'[u] = committed[u]
  BY <1>1 DEF TypeOK, FlushOffset, OffsetToCommit
<1>3. TypeOK'
  BY <1>1, <1>2 DEF TypeOK, FlushOffset, apiVars, tallyVars
<1>4. Producing'
  BY <1>1 DEF Producing, RequestsKnown, NothingForged, CastIsRecorded, FlushOffset, apiVars
<1>5. OffsetsOrdered'
  <2> SUFFICES ASSUME NEW u \in Topic PROVE committed'[u] <= handled[u]
    BY <1>1 DEF Consuming, OffsetsOrdered, FlushOffset
  <2>1. handled[u] \in Nat
    BY <1>1 DEF TypeOK
  <2> QED BY <1>1, <1>2, <2>1 DEF Consuming, OffsetsOrdered
<1>6. WellPlaced' /\ SettledBeforeMark' /\ NoSilentSkip'
  BY <1>1 DEF Consuming, WellPlaced, MayBeIn, SettledBeforeMark, NoSilentSkip, Current,
              FlushOffset, tallyVars
<1>7. HoldersDiffer' /\ HeldIsFree' /\ CommitBeforeRedis'
  BY <1>1 DEF Counting, HoldersDiffer, HeldIsFree, CommitBeforeRedis, Holds, KeyTaken, Current,
              FlushOffset, tallyVars
<1>8. PhysicalCountedOnce' /\ KeysUnique' /\ CountedIsRecorded' /\ RedisWithinSends'
  BY <1>1 DEF Counting, PhysicalCountedOnce, KeysUnique, CountedIsRecorded, RedisWithinSends,
              FlushOffset, tallyVars
<1> QED BY <1>3, <1>4, <1>5, <1>6, <1>7, <1>8 DEF IInv, Consuming, Counting

LEMMA WorkerCrashStep ==
  ASSUME IInv, WorkerCrash
  PROVE  IInv'
<1>1. TypeOK /\ Producing /\ Consuming /\ Counting
  BY DEF IInv
<1>2. \A t \in Topic : cons'[t].step = "fetch"
  BY DEF WorkerCrash
<1>3. TypeOK'
  <2>1. cons' \in [Topic -> [step : ConsumerStep, attempt : 0..MaxRetries]]
    BY VoteCountingAssumption DEF WorkerCrash, ConsumerStep
  <2>2. crashes' \in 0..MaxCrashes
    BY <1>1, VoteCountingAssumption DEF WorkerCrash, TypeOK
  <2> QED BY <1>1, <2>1, <2>2 DEF TypeOK, WorkerCrash, apiVars, tallyVars
<1>4. Producing'
  BY <1>1 DEF Producing, RequestsKnown, NothingForged, CastIsRecorded, WorkerCrash, apiVars
<1>5. ASSUME NEW t \in Topic
      PROVE  /\ handled'[t] = committed[t] /\ committed[t] \in Nat
             /\ committed[t] <= handled[t] /\ handled[t] \in Nat
             /\ handled[t] <= Len(log[t]) /\ Len(log[t]) \in Nat
  BY <1>1, LenProperties DEF WorkerCrash, TypeOK, Consuming, OffsetsOrdered
<1>6. OffsetsOrdered'
  BY <1>2, <1>5 DEF OffsetsOrdered, WorkerCrash
<1>7. NoSilentSkip'
  <2> SUFFICES ASSUME NEW t \in Topic, NEW i \in 1..handled'[t]
               PROVE  summary[log[t][i]] > 0 \/ log[t][i] \in dropped
    BY DEF NoSilentSkip, WorkerCrash, tallyVars
  <2>1. i \in 1..handled[t]
    BY <1>5
  <2> QED BY <1>1, <2>1 DEF Consuming, NoSilentSkip
<1>8. WellPlaced' /\ SettledBeforeMark'
  BY <1>1, <1>2 DEF Consuming, WellPlaced, MayBeIn, SettledBeforeMark, WorkerCrash
<1>9. HoldersDiffer' /\ HeldIsFree' /\ CommitBeforeRedis'
  BY <1>2 DEF HoldersDiffer, HeldIsFree, CommitBeforeRedis, Holds, HoldsKey
<1>10. PhysicalCountedOnce' /\ KeysUnique' /\ CountedIsRecorded' /\ RedisWithinSends'
  BY <1>1 DEF Counting, PhysicalCountedOnce, KeysUnique, CountedIsRecorded, RedisWithinSends,
              WorkerCrash, tallyVars
<1> QED BY <1>3, <1>4, <1>6, <1>7, <1>8, <1>9, <1>10 DEF IInv, Consuming, Counting

-----------------------------------------------------------------------------
LEMMA StutterKeepsInv ==
  ASSUME IInv, UNCHANGED vars
  PROVE  IInv'
<1> USE DEF vars, apiVars, workerVars, tallyVars
<1>1. TypeOK' /\ Producing'
  BY DEF IInv, TypeOK, Producing, RequestsKnown, NothingForged, CastIsRecorded
<1> QED BY <1>1, ConsumingStays, CountingStays DEF IInv

LEMMA NextInv == IInv /\ [Next]_vars => IInv'
<1> SUFFICES ASSUME IInv, [Next]_vars PROVE IInv'
  OBVIOUS
<1>1. ASSUME NEW r \in Request, Ingest(r) PROVE IInv'
  BY <1>1, HandlerStep, PublishReportStep DEF Ingest
<1>2. CASE (\E m \in Message : KeyExpires(m.key)) \/ ApiCrash
  BY <1>2, ApiEvent
<1>3. ASSUME NEW b \in Batch, BatchEntry(b) PROVE IInv'
  BY <1>3, BatchEntryStep
<1>4. ASSUME NEW v \in OnlineVote, RecordOnline(v) \/ PublishOnline(v) PROVE IInv'
  BY <1>4, RecordOnlineStep, PublishOnlineStep
<1>5. ASSUME NEW t \in Topic, Consume(t) PROVE IInv'
  BY <1>5, FetchStep, InsertEventStep, ApplyReadModelsStep, CommitTxStep, UpdateRedisStep,
     MarkOffsetStep DEF Consume
<1>6. ASSUME NEW t \in Topic, FlushOffset(t) PROVE IInv'
  BY <1>6, FlushOffsetStep
<1>7. CASE WorkerCrash
  BY <1>7, WorkerCrashStep
<1>8. CASE UNCHANGED vars
  BY <1>8, StutterKeepsInv
<1> QED BY <1>1, <1>2, <1>3, <1>4, <1>5, <1>6, <1>7, <1>8 DEF Next

LEMMA Invariance == Spec => []IInv
  BY InitInv, NextInv, PTL DEF Spec

-----------------------------------------------------------------------------
\* Every variable has its type at all times.
THEOREM TypeCorrect == Spec => []TypeOK
<1>1. IInv => TypeOK
  BY DEF IInv
<1> QED BY <1>1, Invariance, PTL

\* Reports and batch entries are in the read models exactly once if they have
\* a vote event, and not at all otherwise (atomic_updater.go:41-91).
THEOREM PhysicalExactlyOnce == Spec => []PhysicalCountedOnce
<1>1. IInv => PhysicalCountedOnce
  BY DEF IInv, Counting
<1> QED BY <1>1, Invariance, PTL

\* No two vote events have the same idempotency key, whichever topics they
\* came through (migration 000007).
THEOREM OneEventPerKey == Spec => []KeysUnique
<1>1. IInv => KeysUnique
  BY DEF IInv, Counting
<1> QED BY <1>1, Invariance, PTL

\* The totals never contain a vote without a vote event.
THEOREM TotalsAreRecorded == Spec => []CountedIsRecorded
<1>1. IInv => CountedIsRecorded
  BY DEF IInv, Counting
<1> QED BY <1>1, Invariance, PTL

\* A leaderboard counter is ahead of the read models by resent commands at most,
\* also after commits without an answer, redeliveries and crashes: each commit
\* of a vote is announced at most once (atomic_updater.go:80-88).
THEOREM LeaderboardsWithinSends == Spec => []RedisWithinSends
<1>1. IInv => RedisWithinSends
  BY DEF IInv, Counting
<1> QED BY <1>1, Invariance, PTL

\* Only reports whose signature verifies are answered with 202, published,
\* recorded or counted (ingestion.go:99-139).
THEOREM GenuineOnly == Spec => []OnlyGenuineCounted
<1>1. IInv => OnlyGenuineCounted
  <2> SUFFICES ASSUME IInv, NEW p \in Report \ Genuine
               PROVE  /\ ReportMsg(p) \notin accepted \cup events
                      /\ \A t \in Topic : \A i \in 1..Len(log[t]) : log[t][i] # ReportMsg(p)
                      /\ summary[ReportMsg(p)] = 0
    BY DEF OnlyGenuineCounted
  <2>1. ReportMsg(p) \in Message /\ Forged(ReportMsg(p))
    BY ReportFacts
  <2>2. ReportMsg(p) \notin accepted \cup events
    BY <2>1 DEF IInv, Producing, NothingForged
  <2>3. \A t \in Topic : \A i \in 1..Len(log[t]) : log[t][i] # ReportMsg(p)
    BY <2>1 DEF IInv, Consuming, WellPlaced, MayBeIn
  <2>4. summary[ReportMsg(p)] = 0
    BY <2>1, <2>2 DEF IInv, TypeOK, Counting, CountedIsRecorded
  <2> QED BY <2>2, <2>3, <2>4
<1> QED BY <1>1, Invariance, PTL

\* The consumers never move past a message that was neither counted nor given
\* up with a log entry, whatever crashes.
THEOREM NothingSkipped == Spec => []NoSilentSkip
<1>1. IInv => NoSilentSkip
  BY DEF IInv, Consuming
<1> QED BY <1>1, Invariance, PTL
-----------------------------------------------------------------------------
(* Refinement: commits enter or add their message, CastVote records its     *)
(* own, the Redis commands announce, and every other step leaves the sheet  *)
(* alone.                                                                   *)

LEMMA SheetInitial == Init => Sheet!SheetInit
  BY DEF Init, Sheet!SheetInit

\* The key of a message is free on the sheet when no event has it.
LEMMA FreeKeys ==
  ASSUME TypeOK, NEW m \in Message, ~KeyTaken(m)
  PROVE  Sheet!KeyIsFree(m)
  BY DEF TypeOK, KeyTaken, Sheet!KeyIsFree

LEMMA RecordOnlineOnSheet ==
  ASSUME IInv, NEW v \in OnlineVote, RecordOnline(v)
  PROVE  [Sheet!SheetNext]_(Sheet!sheetVars)
<1> DEFINE m == OnlineMsg(v)
<1>1. m \in Message /\ IsOnline(m) /\ \A n \in Message : n.key = m.key => n = m
  BY OnlineKeys
<1>2. events' = events \cup {m} /\ UNCHANGED <<summary, redis>> /\ TypeOK
  BY DEF RecordOnline, tallyVars, IInv
<1> HIDE DEF m
<1>3. CASE m \in events
  BY <1>2, <1>3 DEF Sheet!sheetVars
<1>4. CASE m \notin events
  <2>1. Sheet!KeyIsFree(m)
    BY <1>1, <1>2, <1>4, FreeKeys DEF KeyTaken, TypeOK
  <2>2. Sheet!RecordCast(m)
    BY <1>1, <1>2, <2>1 DEF Sheet!RecordCast
  <2> QED BY <1>1, <2>2 DEF Sheet!SheetNext
<1> QED BY <1>3, <1>4

LEMMA CommitOnSheet ==
  ASSUME IInv, NEW t \in Topic, cons[t].step = "commit", CommitRows(Current(t)), UNCHANGED redis
  PROVE  [Sheet!SheetNext]_(Sheet!sheetVars)
<1> DEFINE m == Current(t)
<1>1. m \in Message /\ MayBeIn(t, m) /\ TypeOK
  BY HandledFacts DEF IInv
<1>2. CommitRows(m) /\ Sheet!AddOnce(m)
  BY DEF CommitRows, Sheet!AddOnce
<1>3. ~IsOnline(m) => ~KeyTaken(m)
  BY DEF IInv, Counting, HeldIsFree, Holds, HoldsKey
<1> HIDE DEF m
<1>4. CASE IsOnline(m)
  <2>1. Sheet!AddCast(m)
    BY <1>1, <1>2, <1>4 DEF CommitRows, MayBeIn, Sheet!AddCast
  <2> QED BY <1>1, <2>1 DEF Sheet!SheetNext
<1>5. CASE ~IsOnline(m)
  <2>1. Sheet!KeyIsFree(m)
    BY <1>1, <1>3, <1>5, FreeKeys
  <2>2. m.source = "physical" => m.id \in Genuine
    BY <1>1 DEF MayBeIn, Forged
  <2>3. Sheet!Enter(m)
    BY <1>1, <1>2, <1>5, <2>1, <2>2 DEF CommitRows, Sheet!Enter
  <2> QED BY <1>1, <2>3 DEF Sheet!SheetNext
<1> QED BY <1>4, <1>5

LEMMA UpdateRedisOnSheet ==
  ASSUME IInv, NEW t \in Topic, UpdateRedis(t)
  PROVE  [Sheet!SheetNext]_(Sheet!sheetVars)
<1> DEFINE m == Current(t)
<1>1. m \in Message
  BY HandledFacts DEF UpdateRedis
<1>2. PICK executed \in [CountersOf(m) -> 0..MaxSends] :
         redis' = [redis EXCEPT ![m] =
             [c \in Counter |-> IF c \in CountersOf(m) THEN @[c] + executed[c] ELSE @[c]]]
  BY DEF UpdateRedis
<1> DEFINE told == [c \in Counter |-> IF c \in CountersOf(m) THEN executed[c] ELSE 0]
<1>3. MaxSends \in Nat /\ redis \in [Message -> [Counter -> Nat]] /\ summary[m] \in Nat
  BY <1>1, SendsFacts DEF IInv, TypeOK
<1>4. \A c \in Counter : redis[m][c] + MaxSends <= SendsFor(summary[m])
  BY DEF UpdateRedis, IInv, Counting, CommitBeforeRedis
<1>5. UNCHANGED <<events, summary>>
  BY DEF UpdateRedis
<1> HIDE DEF m
<1>6. told \in [Counter -> 0..MaxSends]
  BY <1>3
<1>7. \A c \in Counter : redis[m][c] + told[c] <= MaxSends * summary[m]
  <2> SUFFICES ASSUME NEW c \in Counter
               PROVE  redis[m][c] + told[c] <= SendsFor(summary[m])
    BY DEF SendsFor
  <2>1. redis[m][c] \in Nat /\ told[c] \in 0..MaxSends /\ SendsFor(summary[m]) \in Nat
    BY <1>1, <1>3, <1>6, SendsFacts
  <2> HIDE DEF told
  <2> QED BY <1>3, <1>4, <2>1
<1>8. redis' = [redis EXCEPT ![m] = [c \in Counter |-> @[c] + told[c]]]
  <2>1. \A c \in Counter :
           redis[m][c] + told[c] = IF c \in CountersOf(m) THEN redis[m][c] + executed[c]
                                   ELSE redis[m][c]
    BY <1>1, <1>3
  <2> QED BY <1>2, <2>1
<1> HIDE DEF told
<1>9. Sheet!Announce(m)
  BY <1>5, <1>6, <1>7, <1>8 DEF Sheet!Announce
<1> QED BY <1>1, <1>9 DEF Sheet!SheetNext

LEMMA OthersOffSheet ==
  ASSUME NEW t \in Topic,
         \/ Fetch(t) \/ InsertEvent(t) \/ ApplyReadModels(t) \/ MarkOffset(t) \/ FlushOffset(t)
  PROVE  UNCHANGED Sheet!sheetVars
  BY DEF Fetch, InsertEvent, ApplyReadModels, MarkOffset, FlushOffset, tallyVars, Sheet!sheetVars

LEMMA ProducersOffSheet ==
  ASSUME \/ \E r \in Request : Ingest(r)
         \/ \E m \in Message : KeyExpires(m.key)
         \/ ApiCrash
         \/ \E b \in Batch : BatchEntry(b)
         \/ \E v \in OnlineVote : PublishOnline(v)
         \/ WorkerCrash
  PROVE  UNCHANGED Sheet!sheetVars
<1> USE DEF tallyVars, Sheet!sheetVars
<1>1. CASE \E r \in Request : Ingest(r)
  BY <1>1 DEF Ingest, IngestVote, SetIdempotencyKey, VerifySignature, PublishReport
<1>2. CASE (\E m \in Message : KeyExpires(m.key)) \/ ApiCrash \/ WorkerCrash
  BY <1>2 DEF KeyExpires, ApiCrash, WorkerCrash
<1>3. CASE (\E b \in Batch : BatchEntry(b)) \/ (\E v \in OnlineVote : PublishOnline(v))
  BY <1>3 DEF BatchEntry, PublishOnline
<1> QED BY <1>1, <1>2, <1>3

LEMMA SheetStep == IInv /\ [Next]_vars => [Sheet!SheetNext]_(Sheet!sheetVars)
<1> SUFFICES ASSUME IInv, [Next]_vars PROVE [Sheet!SheetNext]_(Sheet!sheetVars)
  OBVIOUS
<1>1. CASE UNCHANGED vars
  BY <1>1 DEF vars, tallyVars, Sheet!sheetVars
<1>2. ASSUME NEW t \in Topic, CommitTx(t) PROVE [Sheet!SheetNext]_(Sheet!sheetVars)
  <2>1. CASE CommitRows(Current(t))
    BY <1>2, <2>1, CommitOnSheet DEF CommitTx
  <2>2. CASE UNCHANGED <<events, summary>>
    BY <1>2, <2>2 DEF CommitTx, Sheet!sheetVars
  <2> QED BY <1>2, <2>1, <2>2 DEF CommitTx
<1> QED
  BY <1>1, <1>2, RecordOnlineOnSheet, UpdateRedisOnSheet, OthersOffSheet, ProducersOffSheet
     DEF Next, Consume

\* Producers, consumers and updater implement the tally sheet: a report or
\* batch entry is added once, together with its event and under a key of its
\* own, and nothing that was counted is taken back, whatever is redelivered,
\* retried or committed without an answer (Process, ApplyReadModels).
THEOREM Implementation == Spec => ImplementsTallySheet
<1>1. Init /\ [][Next]_vars /\ []IInv => Sheet!SheetSpec
  BY SheetInitial, SheetStep, PTL DEF Sheet!SheetSpec
<1> QED BY <1>1, Invariance, PTL DEF Spec, ImplementsTallySheet
=============================================================================
