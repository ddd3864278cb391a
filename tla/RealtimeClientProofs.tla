------------------------ MODULE RealtimeClientProofs ------------------------
(***************************************************************************)
(* Proofs of the invariants of RealtimeClient, for any components, queries,*)
(* channels of the components, updates and failures.                       *)
(***************************************************************************)
EXTENDS RealtimeClient, TLAPS

-----------------------------------------------------------------------------
(* The inductive invariant                                                 *)

Event == [channel : Channel, version : 1..MaxUpdates]
Fetch == {NoFetch} \cup Request

\* What is still to be published is of updates that have happened.
EventsAreOfUpdates ==
    \A events \in broadcast :
        /\ events # <<>>
        /\ \A i \in 1..Len(events) : events[i].version <= version

\* A query was told of updates that have happened, and shows what did. An
\* answer that is still to be shown was given after all it was told of, since an
\* event gives up the request of a query with data, and a query has one request
\* at a time. It was given after what is shown, too, unless it answers a first
\* request and the page brought data meanwhile.
AnswersAreNewer ==
    \A q \in Query :
        /\ told[q] <= version /\ shown[q] <= version
        /\ fetch[q].step = "answered" =>
              /\ told[q] <= fetch[q].version /\ fetch[q].version <= version
              /\ fetch[q].first \/ shown[q] <= fetch[q].version

\* A query without data was told of nothing, and its request is a first one.
FirstRequests ==
    \A q \in Query \ loaded :
        /\ told[q] = 0
        /\ fetch[q] = NoFetch \/ fetch[q].first

ViewsAreSound ==
    EventsAreOfUpdates /\ AnswersAreNewer /\ FirstRequests /\ ToldIsShownOrMarked

IInv == TypeOK /\ StatusTellsTruth /\ ViewsAreSound

-----------------------------------------------------------------------------
(* Operators                                                               *)

LEMMA FetchCases ==
  /\ NoFetch \in Fetch /\ NoFetch.step = "none"
  /\ \A b \in BOOLEAN :
        /\ Asked(b) \in Fetch /\ Asked(b).step = "asked" /\ Asked(b).first = b
        /\ \A n \in 0..MaxUpdates :
              /\ Answer(n, b) \in Fetch /\ Answer(n, b).step = "answered"
              /\ Answer(n, b).version = n /\ Answer(n, b).first = b
<1>1. /\ NoFetch \in Fetch /\ NoFetch.step = "none" /\ NoFetch.first = FALSE
  BY DEF Fetch, NoFetch
<1>2. ASSUME NEW b \in BOOLEAN
      PROVE  Asked(b) \in Fetch /\ Asked(b).step = "asked" /\ Asked(b).first = b
  <2>1. Asked(b) \in Fetch
    BY DEF Fetch, Request
  <2> QED BY <2>1 DEF Asked
<1>3. ASSUME NEW b \in BOOLEAN, NEW n \in 0..MaxUpdates
      PROVE  /\ Answer(n, b) \in Fetch /\ Answer(n, b).step = "answered"
             /\ Answer(n, b).version = n /\ Answer(n, b).first = b
  <2>1. Answer(n, b) \in Fetch
    BY DEF Fetch, Request
  <2> QED BY <2>1 DEF Answer
<1> QED BY <1>1, <1>2, <1>3

LEMMA AnswersHaveVersions ==
  \A f \in Fetch : f.step = "answered" => f.version \in Nat /\ f.version \in 0..MaxUpdates
<1>1. NoFetch.step # "answered"
  BY DEF NoFetch
<1>2. \A b \in BOOLEAN : Asked(b).step # "answered"
  BY DEF Asked
<1>3. \A b \in BOOLEAN, n \in 0..MaxUpdates : Answer(n, b).version = n
  BY DEF Answer
<1>4. \A n \in 0..MaxUpdates : n \in Nat
  OBVIOUS
<1>5. ASSUME NEW f \in Fetch
      PROVE  \/ f = NoFetch
             \/ \E b \in BOOLEAN : f = Asked(b)
             \/ \E b \in BOOLEAN, n \in 0..MaxUpdates : f = Answer(n, b)
  BY DEF Fetch, Request
<1> QED BY <1>1, <1>2, <1>3, <1>4, <1>5, Zenon

LEMMA FirstIsBoolean == \A f \in Fetch : f.first \in BOOLEAN
<1>1. NoFetch.first \in BOOLEAN
  BY DEF NoFetch
<1>2. \A b \in BOOLEAN : Asked(b).first \in BOOLEAN
  BY DEF Asked
<1>3. \A b \in BOOLEAN, n \in 0..MaxUpdates : Answer(n, b).first \in BOOLEAN
  BY DEF Answer
<1>4. ASSUME NEW f \in Fetch
      PROVE  \/ f = NoFetch
             \/ \E b \in BOOLEAN : f = Asked(b)
             \/ \E b \in BOOLEAN, n \in 0..MaxUpdates : f = Answer(n, b)
  BY DEF Fetch, Request
<1> QED BY <1>1, <1>2, <1>3, <1>4, Zenon

LEMMA Frame ==
  ASSUME IInv
  PROVE  /\ UNCHANGED network => StatusTellsTruth'
         /\ UNCHANGED <<version, broadcast, views>> => ViewsAreSound'
<1>1. ASSUME UNCHANGED network PROVE StatusTellsTruth'
  BY <1>1 DEF IInv, StatusTellsTruth, network
<1>2. ASSUME UNCHANGED <<version, broadcast, views>> PROVE ViewsAreSound'
  BY <1>2 DEF IInv, ViewsAreSound, EventsAreOfUpdates, AnswersAreNewer, FirstRequests,
              ToldIsShownOrMarked, views
<1> QED BY <1>1, <1>2

LEMMA InitHolds == Init => IInv
<1> SUFFICES ASSUME Init PROVE IInv
  OBVIOUS
<1> USE DEF Init
<1>1. TypeOK
  <2>1. /\ version \in 0..MaxUpdates /\ failures \in 0..MaxFailures
        /\ \A q \in Query : shown[q] \in 0..MaxUpdates /\ told[q] \in 0..MaxUpdates
    BY RealtimeAssumption
  <2>2. fetch \in [Query -> Fetch]
    BY FetchCases
  <2>3. /\ phase \in [Component -> Phase] /\ state \in [Component -> Status]
        /\ currentStatus \in Status
        /\ \A c \in Component : phase[c] # "subscribe"
    BY DEF Phase, Status
  <2> QED BY <2>1, <2>2, <2>3 DEF TypeOK, Fetch
<1>2. StatusTellsTruth
  BY DEF StatusTellsTruth
<1>3. ViewsAreSound
  BY FetchCases DEF ViewsAreSound, EventsAreOfUpdates, AnswersAreNewer, FirstRequests,
                    ToldIsShownOrMarked
<1> QED BY <1>1, <1>2, <1>3 DEF IInv

-----------------------------------------------------------------------------
(* Components                                                              *)

LEMMA MountKeeps ==
  ASSUME IInv, NEW C \in SUBSET Component, Mount(C)
  PROVE  IInv'
<1>1. PICK given \in SUBSET (QueriesOf(C \cap Seeded) \ loaded) :
         /\ loaded' = loaded \cup given
         /\ invalid' = invalid \ given
         /\ \E data \in [given -> 0..version] :
               shown' = [q \in Query |-> IF q \in given THEN data[q] ELSE shown[q]]
  BY DEF Mount
<1>2. PICK data \in [given -> 0..version] :
         shown' = [q \in Query |-> IF q \in given THEN data[q] ELSE shown[q]]
  BY <1>1
<1>3. PICK Q \in SUBSET {q \in QueriesOf(C) : fetch[q] = NoFetch} :
         fetch' = [q \in Query |-> IF q \in Q THEN Asked(q \notin loaded') ELSE fetch[q]]
  BY DEF Mount
<1>4. UNCHANGED <<instance, subscriptions, network, version, broadcast, told, failures>>
  BY DEF Mount
<1>5. /\ given \subseteq Query /\ given \cap loaded = {}
      /\ version \in 0..MaxUpdates
      /\ \A q \in given : data[q] \in 0..MaxUpdates /\ data[q] <= version
  BY RealtimeAssumption DEF QueriesOf, IInv, TypeOK
<1>6. TypeOK'
  <2>1. \A c \in Component : /\ FirstPhase(c) \in Phase
                             /\ FirstPhase(c) = "subscribe" => instance # None
    BY DEF FirstPhase, Phase
  <2>2. /\ phase' \in [Component -> Phase]
        /\ client' \in [Component -> Component \cup {None}]
        /\ \A c \in Component : phase'[c] = "subscribe" => client'[c] # None
        /\ mounted' \subseteq Component /\ listeners' \subseteq Component
    BY <2>1 DEF Mount, IInv, TypeOK
  <2>3. fetch' \in [Query -> Fetch]
    <3>1. \A q \in Query : Asked(q \notin loaded') \in Fetch
      BY FetchCases
    <3> QED BY <1>3, <3>1 DEF IInv, TypeOK, Fetch
  <2>4. shown' \in [Query -> 0..MaxUpdates] /\ loaded' \subseteq Query /\ invalid' \subseteq Query
    BY <1>1, <1>2, <1>5 DEF IInv, TypeOK
  <2> QED BY <1>4, <2>2, <2>3, <2>4 DEF IInv, TypeOK, network, Fetch
<1>7. EventsAreOfUpdates'
  BY <1>4 DEF IInv, ViewsAreSound, EventsAreOfUpdates
<1>8. ASSUME NEW q \in Query
      PROVE  /\ told[q] <= version /\ shown'[q] <= version
             /\ fetch'[q].step = "answered" =>
                   /\ told[q] <= fetch'[q].version /\ fetch'[q].version <= version
                   /\ fetch'[q].first \/ shown'[q] <= fetch'[q].version
             /\ q \notin loaded' => /\ told[q] = 0
                                    /\ fetch'[q] = NoFetch \/ fetch'[q].first
             /\ told[q] <= shown'[q] \/ q \in invalid'
  <2>1. /\ shown'[q] = IF q \in given THEN data[q] ELSE shown[q]
        /\ fetch'[q] = IF q \in Q THEN Asked(q \notin loaded') ELSE fetch[q]
    BY <1>2, <1>3
  <2>2. fetch'[q].step = "answered" => fetch'[q] = fetch[q]
    BY <2>1, FetchCases
  <2>3. q \notin loaded' => fetch'[q] = NoFetch \/ fetch'[q].first
    <3>1. CASE q \in Q
      BY <2>1, <3>1, FetchCases
    <3>2. CASE q \notin Q
      BY <1>1, <2>1, <3>2 DEF IInv, ViewsAreSound, FirstRequests
    <3> QED BY <3>1, <3>2
  <2>4. CASE q \in given
    <3>1. told[q] = 0 /\ (fetch[q] = NoFetch \/ fetch[q].first)
      BY <1>5, <2>4 DEF IInv, ViewsAreSound, FirstRequests
    <3>2. told[q] <= data[q] /\ data[q] <= version
      BY <1>5, <2>4, <3>1
    <3> QED BY <1>1, <2>1, <2>2, <2>3, <2>4, <3>1, <3>2, FetchCases
            DEF IInv, ViewsAreSound, AnswersAreNewer
  <2>5. CASE q \notin given
    BY <1>1, <2>1, <2>2, <2>3, <2>5
       DEF IInv, ViewsAreSound, AnswersAreNewer, FirstRequests, ToldIsShownOrMarked
  <2> QED BY <2>4, <2>5
<1>9. ViewsAreSound'
  BY <1>4, <1>7, <1>8
     DEF ViewsAreSound, AnswersAreNewer, FirstRequests, ToldIsShownOrMarked
<1>10. UNCHANGED network
  BY <1>4
<1> QED BY <1>6, <1>9, <1>10, Frame DEF IInv

LEMMA CreateKeeps ==
  ASSUME IInv, NEW c \in Component, Create(c)
  PROVE  IInv'
<1> USE DEF Create
<1>1. TypeOK'
  BY RealtimeAssumption DEF IInv, TypeOK, Phase, network, views
<1> QED BY <1>1, Frame DEF IInv

LEMMA EnsureSubscriptionKeeps ==
  ASSUME IInv, NEW c \in Component, EnsureSubscription(c)
  PROVE  IInv'
<1> DEFINE d == client[c]
<1>1. d \in Component /\ ChannelOf[c] \in Channel
  BY RealtimeAssumption DEF EnsureSubscription, IInv, TypeOK
<1>2. \/ /\ currentStatus = "disconnected" /\ currentStatus' = "connecting"
         /\ state' = [state EXCEPT ![d] = "connecting"]
      \/ UNCHANGED <<state, currentStatus>>
  BY DEF EnsureSubscription, Connects, IInv, TypeOK, Status
<1>3. TypeOK'
  <2>1. state' \in [Component -> Status] /\ currentStatus' \in Status
    BY <1>1, <1>2 DEF IInv, TypeOK, Status
  <2>2. /\ subs' \in [Component -> SUBSET Channel] /\ subscriptions' \subseteq Channel
        /\ listeners' \subseteq Component
    BY <1>1 DEF EnsureSubscription, IInv, TypeOK
  <2>3. /\ phase' \in [Component -> Phase]
        /\ \A e \in Component : phase'[e] = "subscribe" => client'[e] # None
    BY DEF EnsureSubscription, IInv, TypeOK, Phase
  <2> QED BY <2>1, <2>2, <2>3 DEF EnsureSubscription, IInv, TypeOK, views
<1>4. StatusTellsTruth'
  <2>1. CASE currentStatus = "disconnected" /\ currentStatus' = "connecting"
             /\ state' = [state EXCEPT ![d] = "connecting"]
    <3>1. \A e \in Component : state[e] = "disconnected"
      BY <2>1 DEF IInv, StatusTellsTruth
    <3>2. \A e \in Component : state'[e] = IF e = d THEN "connecting" ELSE "disconnected"
      BY <1>1, <2>1, <3>1 DEF IInv, TypeOK
    <3> QED BY <1>1, <2>1, <3>2 DEF StatusTellsTruth
  <2>2. CASE UNCHANGED <<state, currentStatus>>
    BY <2>2 DEF IInv, StatusTellsTruth
  <2> QED BY <1>2, <2>1, <2>2
<1>5. UNCHANGED <<version, broadcast, views>>
  BY DEF EnsureSubscription
<1> QED BY <1>3, <1>4, <1>5, Frame DEF IInv

LEMMA SubscriptionExistsKeeps ==
  ASSUME IInv, NEW c \in Component, SubscriptionExists(c)
  PROVE  IInv'
<1> USE DEF SubscriptionExists
<1>1. TypeOK'
  BY DEF IInv, TypeOK, Phase, network, views
<1> QED BY <1>1, Frame DEF IInv

LEMMA UnmountKeeps ==
  ASSUME IInv, NEW c \in Component, Unmount(c)
  PROVE  IInv'
<1> USE DEF Unmount
<1>1. \A q \in Query : told'[q] \in {told[q], 0}
  OBVIOUS
<1>2. TypeOK'
  <2>1. told' \in [Query -> 0..MaxUpdates]
    BY RealtimeAssumption DEF IInv, TypeOK
  <2> QED BY <2>1 DEF IInv, TypeOK, network
<1>3. ViewsAreSound'
  <2>1. EventsAreOfUpdates'
    BY DEF IInv, ViewsAreSound, EventsAreOfUpdates
  <2>2. AnswersAreNewer' /\ FirstRequests' /\ ToldIsShownOrMarked'
    <3> SUFFICES ASSUME NEW q \in Query
                 PROVE  /\ told'[q] <= version
                        /\ fetch[q].step = "answered" => told'[q] <= fetch[q].version
                        /\ q \notin loaded => told'[q] = 0
                        /\ told'[q] <= shown[q] \/ q \in invalid
      BY DEF IInv, ViewsAreSound, AnswersAreNewer, FirstRequests, ToldIsShownOrMarked
    <3>1. version \in Nat /\ shown[q] \in Nat /\ fetch[q] \in Fetch
      BY DEF IInv, TypeOK, Fetch
    <3>2. fetch[q].step = "answered" => fetch[q].version \in Nat
      BY <3>1, AnswersHaveVersions
    <3> QED BY <1>1, <3>1, <3>2
            DEF IInv, ViewsAreSound, AnswersAreNewer, FirstRequests, ToldIsShownOrMarked
  <2> QED BY <2>1, <2>2 DEF ViewsAreSound
<1> QED BY <1>2, <1>3, Frame DEF IInv

-----------------------------------------------------------------------------
(* The connection                                                          *)

LEMMA ReportKeeps ==
  ASSUME IInv, NEW c \in Component, state[c] # "disconnected", NEW s \in Status, Report(c, s),
         failures' \in 0..MaxFailures
  PROVE  IInv'
<1> USE DEF Report
<1>1. TypeOK'
  BY DEF IInv, TypeOK, page, views
<1>2. StatusTellsTruth'
  <2>1. \A d \in Component \ {c} : state[d] = "disconnected"
    BY DEF IInv, StatusTellsTruth
  <2>2. \A d \in Component : state'[d] = IF d = c THEN s ELSE "disconnected"
    BY <2>1 DEF IInv, TypeOK
  <2> QED BY <2>2 DEF StatusTellsTruth
<1> QED BY <1>1, <1>2, Frame DEF IInv

LEMMA ConnectionKeeps ==
  ASSUME IInv, NEW c \in Component, Connected(c) \/ Reconnecting(c) \/ Disconnected(c)
  PROVE  IInv'
<1>1. failures' \in 0..MaxFailures
  BY RealtimeAssumption DEF IInv, TypeOK, Connected, Reconnecting, Disconnected, Fail
<1>2. PICK s \in Status : Report(c, s)
  BY DEF Connected, Reconnecting, Disconnected, Status
<1>3. state[c] # "disconnected"
  BY DEF Connected, Reconnecting, Disconnected
<1> QED BY <1>1, <1>2, <1>3, ReportKeeps

-----------------------------------------------------------------------------
(* Updates and events                                                      *)

LEMMA UpdateKeeps ==
  ASSUME IInv, Update
  PROVE  IInv'
<1> DEFINE n == version + 1
<1>1. n \in 1..MaxUpdates /\ version \in Nat /\ version' = n /\ version < n
  BY RealtimeAssumption DEF Update, IInv, TypeOK
<1>2. PICK events \in Events(n) : broadcast' = broadcast \cup {events}
  BY DEF Update
<1>3. /\ events \in Seq(Event) /\ events # <<>>
      /\ \A i \in 1..Len(events) : events[i].version = n
  <2> DEFINE ev(ch) == [channel |-> ch, version |-> n]
  <2>1. \A ch \in Channel : ev(ch) \in Event /\ ev(ch).version = n
    BY <1>1 DEF Event
  <2>2. \E a, b \in Channel : events = <<ev(a), ev(b)>> \/ events = <<ev(a)>>
    BY <1>2 DEF Events, Channel
  <2>3. PICK a \in Channel, b \in Channel : events = <<ev(a), ev(b)>> \/ events = <<ev(a)>>
    BY <2>2
  <2> HIDE DEF ev
  <2>4. CASE events = <<ev(a), ev(b)>>
    <3>1. Len(events) = 2 /\ events[1] = ev(a) /\ events[2] = ev(b) /\ events # <<>>
      BY <2>4
    <3>2. events \in Seq(Event)
      BY <2>1, <2>4
    <3> QED BY <2>1, <3>1, <3>2
  <2>5. CASE events = <<ev(a)>>
    <3>1. Len(events) = 1 /\ events[1] = ev(a) /\ events # <<>>
      BY <2>5
    <3>2. events \in Seq(Event)
      BY <2>1, <2>5
    <3> QED BY <2>1, <3>1, <3>2
  <2> QED BY <2>3, <2>4, <2>5
<1>4. TypeOK'
  <2>1. broadcast' \subseteq Seq(Event)
    BY <1>2, <1>3 DEF IInv, TypeOK, Event
  <2>2. version' \in 0..MaxUpdates
    BY <1>1, RealtimeAssumption
  <2>3. UNCHANGED <<page, network, views, failures>>
    BY DEF Update
  <2> HIDE DEF n
  <2> QED BY <2>1, <2>2, <2>3 DEF IInv, TypeOK, Event, page, network, views
<1>5. ViewsAreSound'
  <2>1. EventsAreOfUpdates'
    <3>1. \A old \in broadcast : \A i \in 1..Len(old) : old[i].version \in 1..MaxUpdates
      <4> SUFFICES ASSUME NEW old \in broadcast, NEW i \in 1..Len(old)
                   PROVE  old[i].version \in 1..MaxUpdates
        OBVIOUS
      <4>1. old \in Seq(Event)
        BY DEF IInv, TypeOK, Event
      <4>2. old[i] \in Event
        BY <4>1
      <4> QED BY <4>2 DEF Event
    <3> SUFFICES ASSUME NEW e \in broadcast'
                 PROVE  e # <<>> /\ \A i \in 1..Len(e) : e[i].version <= n
      BY <1>1 DEF EventsAreOfUpdates
    <3>2. CASE e = events
      BY <1>1, <1>3, <3>2
    <3>3. CASE e \in broadcast
      BY <1>1, <3>1, <3>3 DEF IInv, ViewsAreSound, EventsAreOfUpdates
    <3> QED BY <1>2, <3>2, <3>3
  <2>2. AnswersAreNewer'
    <3>1. \A q \in Query : fetch[q].step = "answered" => fetch[q].version \in Nat
      BY AnswersHaveVersions DEF IInv, TypeOK, Fetch
    <3>2. \A q \in Query : told[q] \in Nat /\ shown[q] \in Nat
      BY DEF IInv, TypeOK
    <3>3. UNCHANGED <<fetch, told, shown>>
      BY DEF Update, views
    <3> HIDE DEF n
    <3> QED BY <1>1, <3>1, <3>2, <3>3 DEF IInv, ViewsAreSound, AnswersAreNewer
  <2>3. FirstRequests' /\ ToldIsShownOrMarked'
    BY DEF Update, IInv, ViewsAreSound, FirstRequests, ToldIsShownOrMarked, views
  <2> QED BY <2>1, <2>2, <2>3 DEF ViewsAreSound
<1>6. UNCHANGED network
  BY DEF Update
<1> QED BY <1>4, <1>5, <1>6, Frame DEF IInv

LEMMA PublishKeeps ==
  ASSUME IInv, NEW events \in broadcast, Publish(events)
  PROVE  IInv'
<1> DEFINE ch == Head(events).channel
           n == Head(events).version
           Q == QueriesOf({c \in listeners : ChannelOf[c] = ch})
<1>1. events \in Seq(Event) /\ events # <<>>
  BY DEF IInv, TypeOK, ViewsAreSound, EventsAreOfUpdates, Event
<1>2. /\ Head(events) \in Event /\ Tail(events) \in Seq(Event)
      /\ \A i \in 1..Len(Tail(events)) : i + 1 \in 1..Len(events)
                                         /\ Tail(events)[i] = events[i + 1]
      /\ Head(events) = events[1] /\ 1 \in 1..Len(events)
  BY <1>1
<1>3. n \in 1..MaxUpdates /\ n <= version /\ version \in 0..MaxUpdates
  BY <1>2 DEF Event, IInv, TypeOK, ViewsAreSound, EventsAreOfUpdates
<1>4. /\ broadcast' \subseteq Seq(Event) /\ <<>> \notin broadcast'
      /\ \A e \in broadcast' : e \in broadcast \/ e = Tail(events)
  BY <1>2 DEF Publish, IInv, TypeOK, ViewsAreSound, EventsAreOfUpdates, Event
<1>5. \/ /\ invalid' = invalid \cup Q
         /\ fetch' = Refetch(Q)
         /\ told' = [q \in Query |->
                        IF q \in Q \cap Observed \cap loaded /\ n > told[q]
                        THEN n ELSE told[q]]
         /\ UNCHANGED <<loaded, shown>>
      \/ UNCHANGED views
  BY DEF Publish
<1>6. /\ UNCHANGED <<page, network, version, failures>>
  BY DEF Publish
<1>7. EventsAreOfUpdates'
  <2> SUFFICES ASSUME NEW e \in broadcast'
               PROVE  e # <<>> /\ \A i \in 1..Len(e) : e[i].version <= version
    BY <1>6 DEF EventsAreOfUpdates
  <2>1. CASE e \in broadcast
    BY <2>1 DEF IInv, ViewsAreSound, EventsAreOfUpdates
  <2>2. CASE e = Tail(events)
    BY <1>2, <1>4, <2>2 DEF IInv, ViewsAreSound, EventsAreOfUpdates
  <2> QED BY <1>4, <2>1, <2>2
<1> HIDE DEF ch, n
<1>8. CASE UNCHANGED views
  <2>1. TypeOK'
    BY <1>4, <1>6, <1>8 DEF IInv, TypeOK, Event, page, network, views
  <2>2. AnswersAreNewer' /\ FirstRequests' /\ ToldIsShownOrMarked'
    BY <1>6, <1>8 DEF IInv, ViewsAreSound, AnswersAreNewer, FirstRequests,
                      ToldIsShownOrMarked, views
  <2> QED BY <1>6, <1>7, <2>1, <2>2, Frame DEF IInv, ViewsAreSound
<1>9. CASE /\ invalid' = invalid \cup Q
           /\ fetch' = Refetch(Q)
           /\ told' = [q \in Query |->
                          IF q \in Q \cap Observed \cap loaded /\ n > told[q]
                        THEN n ELSE told[q]]
           /\ UNCHANGED <<loaded, shown>>
  <2>1. Q \subseteq Query
    BY RealtimeAssumption DEF QueriesOf, IInv, TypeOK
  <2>2. \A q \in Query :
           /\ told'[q] = IF q \in Q \cap Observed \cap loaded /\ n > told[q]
                         THEN n ELSE told[q]
           /\ fetch'[q] = IF q \in Q \cap Observed /\ (q \in loaded \/ fetch[q] = NoFetch)
                          THEN Asked(q \notin loaded) ELSE fetch[q]
    BY <1>9 DEF Refetch
  <2>3. TypeOK'
    <3>1. told' \in [Query -> 0..MaxUpdates]
      BY <1>3, <1>9 DEF IInv, TypeOK
    <3>2. fetch' \in [Query -> Fetch]
      <4>1. \A q \in Query : Asked(q \notin loaded) \in Fetch
        BY FetchCases
      <4> QED BY <1>9, <4>1 DEF IInv, TypeOK, Refetch, Fetch
    <3>3. invalid' \subseteq Query
      BY <1>9, <2>1 DEF IInv, TypeOK
    <3> QED BY <1>4, <1>6, <1>9, <3>1, <3>2, <3>3
            DEF IInv, TypeOK, Event, Fetch, page, network
  <2>4. AnswersAreNewer' /\ FirstRequests'
    <3> SUFFICES ASSUME NEW q \in Query
                 PROVE  /\ told'[q] <= version
                        /\ fetch'[q].step = "answered" =>
                              fetch'[q] = fetch[q] /\ told'[q] <= fetch[q].version
                        /\ q \notin loaded => /\ told'[q] = 0
                                              /\ fetch'[q] = NoFetch \/ fetch'[q].first
      BY <1>6, <1>9 DEF IInv, ViewsAreSound, AnswersAreNewer, FirstRequests
    <3>1. CASE fetch'[q] = fetch[q]
      <4>1. q \in Q \cap Observed \cap loaded => fetch[q].step = "asked"
        BY <2>2, <3>1, FetchCases
      <4> QED BY <1>3, <2>2, <3>1, <4>1
              DEF IInv, ViewsAreSound, AnswersAreNewer, FirstRequests
    <3>2. CASE fetch'[q] = Asked(q \notin loaded)
      <4>1. fetch'[q].step = "asked" /\ (q \notin loaded => fetch'[q].first)
        BY <3>2, FetchCases
      <4> QED BY <1>3, <2>2, <4>1
              DEF IInv, ViewsAreSound, AnswersAreNewer, FirstRequests
    <3> QED BY <2>2, <3>1, <3>2
  <2>5. ToldIsShownOrMarked'
    BY <1>9, <2>2 DEF IInv, ViewsAreSound, ToldIsShownOrMarked
  <2> QED BY <1>6, <1>7, <2>3, <2>4, <2>5, Frame DEF IInv, ViewsAreSound
<1> QED BY <1>5, <1>8, <1>9

-----------------------------------------------------------------------------
(* Queries                                                                 *)

LEMMA FetchStepKeeps ==
  ASSUME IInv, NEW q \in Query, NEW f \in Fetch, fetch' = [fetch EXCEPT ![q] = f],
         f.step = "answered" =>
             /\ told[q] <= f.version /\ f.version <= version
             /\ f.first \/ shown[q] <= f.version,
         q \notin loaded => f = NoFetch \/ f.first,
         failures' \in 0..MaxFailures,
         UNCHANGED <<page, network, version, broadcast, loaded, shown, invalid, told>>
  PROVE  IInv'
<1>1. TypeOK'
  BY DEF IInv, TypeOK, Fetch, page, network
<1>2. ViewsAreSound'
  <2>1. EventsAreOfUpdates' /\ ToldIsShownOrMarked'
    BY DEF IInv, ViewsAreSound, EventsAreOfUpdates, ToldIsShownOrMarked
  <2>2. \A r \in Query : fetch'[r] = IF r = q THEN f ELSE fetch[r]
    BY DEF IInv, TypeOK
  <2>3. AnswersAreNewer' /\ FirstRequests'
    BY <2>2 DEF IInv, ViewsAreSound, AnswersAreNewer, FirstRequests
  <2> QED BY <2>1, <2>3 DEF ViewsAreSound
<1> QED BY <1>1, <1>2, Frame DEF IInv

LEMMA QueryKeeps ==
  ASSUME IInv, NEW q \in Query, Poll(q) \/ Serve(q) \/ FetchFails(q)
  PROVE  IInv'
<1>1. failures' \in 0..MaxFailures
  BY RealtimeAssumption DEF IInv, TypeOK, Poll, Serve, FetchFails, Fail
<1>2. /\ version \in 0..MaxUpdates /\ told[q] <= version /\ shown[q] <= version
      /\ fetch[q] \in Fetch
      /\ q \notin loaded => fetch[q] = NoFetch \/ fetch[q].first
  BY DEF IInv, TypeOK, Fetch, ViewsAreSound, AnswersAreNewer, FirstRequests
<1>3. UNCHANGED <<page, network, version, broadcast, loaded, shown, invalid, told>>
  BY DEF Poll, Serve, FetchFails
<1>4. ASSUME NEW f \in Fetch, fetch' = [fetch EXCEPT ![q] = f],
             f.step = "answered" => f.version = version,
             q \notin loaded => f = NoFetch \/ f.first
      PROVE  IInv'
  <2>1. f.step = "answered" => /\ told[q] <= f.version /\ f.version <= version
                               /\ f.first \/ shown[q] <= f.version
    BY <1>2, <1>4
  <2> QED BY <1>1, <1>3, <1>4, <2>1, FetchStepKeeps
<1>5. CASE Poll(q)
  <2>1. /\ Asked(q \notin loaded) \in Fetch /\ Asked(q \notin loaded).step = "asked"
        /\ q \notin loaded => Asked(q \notin loaded).first
    BY FetchCases
  <2> QED BY <1>4, <1>5, <2>1 DEF Poll
<1>6. CASE Serve(q)
  <2> DEFINE f == Answer(version, fetch[q].first)
  <2>1. fetch[q].first \in BOOLEAN /\ fetch[q] # NoFetch
    BY <1>2, <1>6, FirstIsBoolean DEF Serve, NoFetch
  <2>2. /\ f \in Fetch /\ f.step = "answered" /\ f.version = version
        /\ f.first = fetch[q].first
    BY <1>2, <2>1, FetchCases
  <2>3. fetch' = [fetch EXCEPT ![q] = f]
    BY <1>6 DEF Serve
  <2> HIDE DEF f
  <2> QED BY <1>2, <1>4, <2>1, <2>2, <2>3
<1>7. CASE FetchFails(q)
  BY <1>4, <1>7, FetchCases DEF FetchFails
<1> QED BY <1>5, <1>6, <1>7

\* What Show and Collect have in common: the query has a new content, or none.
LEMMA ContentKeeps ==
  ASSUME IInv, NEW q \in Query, NEW n \in 0..MaxUpdates,
         shown' = [shown EXCEPT ![q] = n], n <= version,
         loaded' \in {loaded \cup {q}, loaded \ {q}},
         fetch' = [fetch EXCEPT ![q] = NoFetch],
         invalid' = invalid \ {q},
         told' \in [Query -> 0..MaxUpdates],
         \A r \in Query \ {q} : told'[r] = told[r],
         told'[q] <= n,
         q \notin loaded' => told'[q] = 0,
         UNCHANGED <<page, network, version, broadcast, failures>>
  PROVE  IInv'
<1>1. TypeOK'
  <2>1. shown' \in [Query -> 0..MaxUpdates] /\ fetch' \in [Query -> Fetch]
    BY FetchCases DEF IInv, TypeOK, Fetch
  <2>2. loaded' \subseteq Query /\ invalid' \subseteq Query
    BY DEF IInv, TypeOK
  <2> QED BY <2>1, <2>2 DEF IInv, TypeOK, Fetch, page, network
<1>2. ViewsAreSound'
  <2>1. EventsAreOfUpdates'
    BY DEF IInv, ViewsAreSound, EventsAreOfUpdates
  <2>2. \A r \in Query : /\ shown'[r] = IF r = q THEN n ELSE shown[r]
                         /\ fetch'[r] = IF r = q THEN NoFetch ELSE fetch[r]
    BY DEF IInv, TypeOK
  <2>3. /\ n \in Nat /\ version \in Nat /\ told'[q] \in Nat
        /\ told'[q] <= version /\ version' = version
    <3>1. n \in 0..MaxUpdates /\ version \in 0..MaxUpdates /\ told'[q] \in 0..MaxUpdates
      BY DEF IInv, TypeOK
    <3>2. told'[q] <= n /\ n <= version /\ version' = version
      OBVIOUS
    <3> QED BY <3>1, <3>2
  <2>4. AnswersAreNewer'
    BY <2>2, <2>3, FetchCases DEF IInv, ViewsAreSound, AnswersAreNewer
  <2>5. FirstRequests' /\ ToldIsShownOrMarked'
    BY <2>2 DEF IInv, ViewsAreSound, FirstRequests, ToldIsShownOrMarked
  <2> QED BY <2>1, <2>4, <2>5 DEF ViewsAreSound
<1> QED BY <1>1, <1>2, Frame DEF IInv

LEMMA ShowKeeps ==
  ASSUME IInv, NEW q \in Query, Show(q)
  PROVE  IInv'
<1>1. /\ fetch[q].version \in 0..MaxUpdates /\ told[q] <= fetch[q].version
      /\ fetch[q].version <= version
  BY AnswersHaveVersions DEF Show, IInv, TypeOK, Fetch, ViewsAreSound, AnswersAreNewer
<1>2. told' \in [Query -> 0..MaxUpdates] /\ told' = told /\ q \in loaded'
  BY DEF Show, IInv, TypeOK
<1> QED BY <1>1, <1>2, ContentKeeps DEF Show

LEMMA CollectKeeps ==
  ASSUME IInv, NEW q \in Query, Collect(q)
  PROVE  IInv'
<1>1. /\ 0 \in 0..MaxUpdates /\ 0 <= version /\ 0 <= 0
      /\ told' \in [Query -> 0..MaxUpdates] /\ told'[q] = 0
      /\ \A r \in Query \ {q} : told'[r] = told[r]
  BY RealtimeAssumption DEF Collect, IInv, TypeOK
<1>2. fetch' = [fetch EXCEPT ![q] = NoFetch]
  <2>1. fetch \in [Query -> {NoFetch} \cup Request] /\ fetch[q] = NoFetch /\ fetch' = fetch
    BY DEF Collect, IInv, TypeOK
  <2> QED BY <2>1
<1>3. /\ shown' = [shown EXCEPT ![q] = 0] /\ loaded' \in {loaded \cup {q}, loaded \ {q}}
      /\ invalid' = invalid \ {q}
      /\ UNCHANGED <<page, network, version, broadcast, failures>>
  BY DEF Collect
<1>4. told'[q] <= 0 /\ (q \notin loaded' => told'[q] = 0)
  BY <1>1
<1> QED BY <1>1, <1>2, <1>3, <1>4, ContentKeeps

-----------------------------------------------------------------------------
LEMMA NextKeeps == IInv /\ [Next]_vars => IInv'
<1> SUFFICES ASSUME IInv, [Next]_vars PROVE IInv'
  OBVIOUS
<1>1. CASE UNCHANGED vars
  <2>1. TypeOK'
    BY <1>1 DEF IInv, TypeOK, vars, page, network, views
  <2> QED BY <1>1, <2>1, Frame DEF IInv, vars
<1> QED
  BY <1>1, MountKeeps, CreateKeeps, EnsureSubscriptionKeeps, SubscriptionExistsKeeps,
     UnmountKeeps, ConnectionKeeps, UpdateKeeps, PublishKeeps, QueryKeeps, ShowKeeps,
     CollectKeeps DEF Next, Continue

LEMMA Invariance == Spec => []IInv
  BY InitHolds, NextKeeps, PTL DEF Spec

\* The client's module variables, the connections and the cached queries keep
\* their types; in particular, a component that goes on after getOrCreate has
\* a client (ensureSubscription).
THEOREM TypeCorrect == Spec => []TypeOK
<1>1. IInv => TypeOK
  BY DEF IInv
<1> QED BY <1>1, Invariance, PTL

\* The banner shows the state of the only client that has or seeks a
\* connection, however many the race in getOrCreate has left (setStatus).
THEOREM BannerIsTrue == Spec => []StatusTellsTruth
<1>1. IInv => StatusTellsTruth
  BY DEF IInv
<1> QED BY <1>1, Invariance, PTL

\* A query with data that was told of an update shows it or is marked until it
\* does, also when the event came while it was being fetched; a first request
\* is left out, during which an event has no effect (invalidateQueries).
THEOREM NoEventIsForgotten == Spec => []ToldIsShownOrMarked
<1>1. IInv => ToldIsShownOrMarked
  BY DEF IInv, ViewsAreSound
<1> QED BY <1>1, Invariance, PTL

\* A view never goes back to an older update than it has shown, whatever
\* events, polls and failures make it fetch again (client.ts, useQuery), as
\* long as it keeps its data. The exception is the answer of a request that
\* began before a page brought newer data.
ViewsGoForward ==
    [][\A q \in loaded \cap loaded' : shown'[q] >= shown[q] \/ fetch[q].first]_vars

THEOREM ViewsDoNotGoBack == Spec => ViewsGoForward
<1>1. IInv /\ [Next]_vars =>
          [\A q \in loaded \cap loaded' : shown'[q] >= shown[q] \/ fetch[q].first]_vars
  <2> SUFFICES ASSUME IInv, Next, NEW r \in loaded, r \in loaded'
               PROVE  shown'[r] >= shown[r] \/ fetch[r].first
    OBVIOUS
  <2>1. r \in Query /\ shown[r] \in Nat
    BY DEF IInv, TypeOK
  <2>2. CASE UNCHANGED shown
    BY <2>1, <2>2
  <2>3. ASSUME NEW q \in Query, Show(q) PROVE shown'[r] >= shown[r] \/ fetch[r].first
    <3>1. /\ fetch[q].first \/ shown[q] <= fetch[q].version
          /\ fetch[q].version \in Nat
      BY <2>3, AnswersHaveVersions DEF Show, IInv, TypeOK, Fetch, ViewsAreSound, AnswersAreNewer
    <3>2. shown'[r] = IF r = q THEN fetch[q].version ELSE shown[r]
      BY <2>1, <2>3 DEF Show, IInv, TypeOK
    <3> QED BY <2>1, <3>1, <3>2
  <2>4. ASSUME NEW C \in SUBSET Component, Mount(C) PROVE shown'[r] = shown[r]
    BY <2>1, <2>4 DEF Mount
  <2>5. ASSUME NEW q \in Query, Collect(q) PROVE shown'[r] = shown[r]
    BY <2>1, <2>5 DEF Collect, IInv, TypeOK
  <2>6. \/ UNCHANGED shown
        \/ \E C \in SUBSET Component : Mount(C)
        \/ \E q \in Query : Show(q) \/ Collect(q)
    <3> USE DEF views
    <3>1. ASSUME NEW c \in Component, Continue(c) \/ Unmount(c) PROVE UNCHANGED shown
      BY <3>1 DEF Continue, Create, EnsureSubscription, SubscriptionExists, Unmount
    <3>2. ASSUME NEW c \in Component, Connected(c) \/ Reconnecting(c) \/ Disconnected(c)
          PROVE  UNCHANGED shown
      BY <3>2 DEF Connected, Reconnecting, Disconnected, Report
    <3>3. ASSUME NEW q \in Query, Poll(q) \/ Serve(q) \/ FetchFails(q) PROVE UNCHANGED shown
      BY <3>3 DEF Poll, Serve, FetchFails
    <3>4. ASSUME NEW events \in broadcast, Publish(events) PROVE UNCHANGED shown
      BY <3>4 DEF Publish
    <3> QED BY <3>1, <3>2, <3>3, <3>4 DEF Next, Update
  <2> QED BY <2>1, <2>2, <2>3, <2>4, <2>5, <2>6
<1> QED BY <1>1, Invariance, PTL DEF Spec, ViewsGoForward
=============================================================================
