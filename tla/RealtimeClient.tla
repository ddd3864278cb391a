--------------------------- MODULE RealtimeClient ---------------------------
(***************************************************************************)
(* Live updates, from the worker's broadcast to the views of a results     *)
(* page. The browser keeps one Centrifuge client with a subscription per   *)
(* channel (frontend/lib/ws/centrifuge.ts); components subscribe when they *)
(* mount, and an event makes them refetch their query, which they also do  *)
(* every 10 s (frontend/lib/api/client.ts).                                *)
(*                                                                         *)
(* JavaScript runs one task at a time and, after each, the continuations   *)
(* of resolved promises. Hence the components that wait in                 *)
(* subscribeChannel interleave with each other, but mounts, events and     *)
(* answers come only when none of them can go on. What follows the         *)
(* creation of a subscription (the listener, the cleanup function)         *)
(* disturbs no other continuation and is one step with it. The import in   *)
(* getOrCreate may take any time.                                          *)
(***************************************************************************)
EXTENDS Naturals, Sequences

CONSTANTS
    Component,      \* mountings of components
    Query,          \* query keys
    ChannelOf,      \* the channel a component subscribes to
    QueryOf,        \* the query it invalidates, or None
    Seeded,         \* components that may bring initial data for their query
    None,
    MaxUpdates,     \* model bound: updates of the read models
    MaxFailures     \* model bound: lost connections and failing fetches

Channel == {"thailand", "province", "referendum"}

ASSUME RealtimeAssumption ==
    /\ ChannelOf \in [Component -> Channel]
    /\ QueryOf \in [Component -> Query \cup {None}]
    /\ Seeded \subseteq Component
    /\ None \notin Component \cup Query
    /\ MaxUpdates \in Nat
    /\ MaxFailures \in Nat

VARIABLES
    phase,          \* subscribeChannel of a component: where it waits
    mounted,        \* the components on the page
    client,         \* what getOrCreate returned to a component
    instance,       \* the singleton
    state,          \* of each Centrifuge client; a client has the name of its creator
    subs,           \* the channels of each client
    subscriptions,  \* keys of the module's map of subscriptions
    listeners,      \* components whose handler is in channelListeners
    currentStatus,  \* the last status any client reported
    version,        \* number of updates of the read models
    broadcast,      \* per update, the events its consumer still has to publish
    fetch,          \* the request of each query
    loaded,         \* queries that have data
    shown,          \* the version a query that has data shows
    invalid,        \* queries that are marked as invalidated
    told,           \* the latest version a query with data was told of on the page
    failures        \* failures so far

page == <<phase, mounted, client, instance, subscriptions, listeners>>
network == <<state, subs, currentStatus>>
views == <<fetch, loaded, shown, invalid, told>>
vars == <<page, network, version, broadcast, views, failures>>

Phase == {"absent", "import", "subscribe", "live", "failed"}
Status == {"disconnected", "connecting", "connected"}
NoFetch == [step |-> "none", version |-> 0, first |-> FALSE]

\* first: the request began when the query had no data.
Asked(first) == [step |-> "asked", version |-> 0, first |-> first]
Answer(n, first) == [step |-> "answered", version |-> n, first |-> first]
Request == {Asked(b) : b \in BOOLEAN} \cup {Answer(n, b) : n \in 0..MaxUpdates, b \in BOOLEAN}

TypeOK ==
    /\ phase \in [Component -> Phase]
    /\ mounted \subseteq Component
    /\ client \in [Component -> Component \cup {None}]
    /\ \A c \in Component : phase[c] = "subscribe" => client[c] # None
    /\ instance \in Component \cup {None}
    /\ state \in [Component -> Status]
    /\ subs \in [Component -> SUBSET Channel]
    /\ subscriptions \subseteq Channel
    /\ listeners \subseteq Component
    /\ currentStatus \in Status
    /\ version \in 0..MaxUpdates
    /\ broadcast \subseteq Seq([channel : Channel, version : 1..MaxUpdates])
    /\ fetch \in [Query -> {NoFetch} \cup Request]
    /\ loaded \subseteq Query
    /\ shown \in [Query -> 0..MaxUpdates]
    /\ invalid \subseteq Query
    /\ told \in [Query -> 0..MaxUpdates]
    /\ failures \in 0..MaxFailures

Init ==
    /\ phase = [c \in Component |-> "absent"]
    /\ mounted = {}
    /\ client = [c \in Component |-> None]
    /\ instance = None
    /\ state = [c \in Component |-> "disconnected"]
    /\ subs = [c \in Component |-> {}]
    /\ subscriptions = {}
    /\ listeners = {}
    /\ currentStatus = "disconnected"
    /\ version = 0
    /\ broadcast = {}
    /\ fetch = [q \in Query |-> NoFetch]
    /\ loaded = {}
    /\ shown = [q \in Query |-> 0]
    /\ invalid = {}
    /\ told = [q \in Query |-> 0]
    /\ failures = 0

\* No continuation is ready.
Idle == \A c \in Component : phase[c] # "subscribe"

QueriesOf(C) == {QueryOf[c] : c \in C} \ {None}
Observed == QueriesOf(mounted)

Fail ==
    /\ failures < MaxFailures
    /\ failures' = failures + 1

-----------------------------------------------------------------------------
(* subscribeChannel                                                        *)

FirstPhaseSync(c) == IF ChannelOf[c] \in subscriptions THEN "live" ELSE "subscribe"

\* ensureSubscription and getOrCreate, as far as they run without waiting.
FirstPhase(c) ==
    CASE ChannelOf[c] \in subscriptions -> "live"
      [] ChannelOf[c] \notin subscriptions /\ instance # None -> "subscribe"
      [] OTHER -> "import"

\* The components of one commit render, and then run their effects, in the
\* same task. Initial data, read by the server some time before, is given to a
\* query that has none. A query is fetched if it has no data or is marked, and
\* if its data is older than the staleTime.
Mount(C) ==
    /\ Idle
    /\ C # {}
    /\ \A c \in C : phase[c] = "absent"
    /\ mounted' = mounted \cup C
    /\ phase' = [c \in Component |-> IF c \in C THEN FirstPhase(c) ELSE phase[c]]
    /\ client' = [c \in Component |-> IF c \in C THEN instance ELSE client[c]]
    /\ listeners' = listeners \cup {c \in C : FirstPhase(c) = "live"}
    /\ \E given \in SUBSET (QueriesOf(C \cap Seeded) \ loaded) :
          /\ loaded' = loaded \cup given
          /\ invalid' = invalid \ given
          /\ \E data \in [given -> 0..version] :
                shown' = [q \in Query |-> IF q \in given THEN data[q] ELSE shown[q]]
    /\ \E Q \in SUBSET {q \in QueriesOf(C) : fetch[q] = NoFetch} :
          /\ \A q \in QueriesOf(C) \ Q : fetch[q] = NoFetch => q \in loaded' \ invalid'
          /\ fetch' = [q \in Query |-> IF q \in Q THEN Asked(q \notin loaded') ELSE fetch[q]]
    /\ UNCHANGED <<instance, subscriptions, network, version, broadcast, told, failures>>

\* The import is there; whether another component has made the singleton in
\* the meantime is not looked at.
Create(c) ==
    /\ phase[c] = "import"
    /\ instance' = c
    /\ client' = [client EXCEPT ![c] = c]
    /\ phase' = [phase EXCEPT ![c] = "subscribe"]
    /\ UNCHANGED <<mounted, subscriptions, listeners, network, version, broadcast, views, failures>>

ConnectsAlways == TRUE
Connects == currentStatus \notin {"connecting", "connected"}

\* newSubscription, subscribe and, "the first time a subscription is created",
\* connect, which reports connecting at once. The handler becomes a listener.
EnsureSubscription(c) ==
    /\ phase[c] = "subscribe"
    /\ ChannelOf[c] \notin subs[client[c]]
    /\ subs' = [subs EXCEPT ![client[c]] = @ \cup {ChannelOf[c]}]
    /\ subscriptions' = subscriptions \cup {ChannelOf[c]}
    /\ \/ /\ Connects
          /\ state[client[c]] = "disconnected"
          /\ state' = [state EXCEPT ![client[c]] = "connecting"]
          /\ currentStatus' = "connecting"
       \/ /\ ~Connects \/ state[client[c]] # "disconnected"
          /\ UNCHANGED <<state, currentStatus>>
    /\ listeners' = listeners \cup {c}
    /\ phase' = [phase EXCEPT ![c] = "live"]
    /\ UNCHANGED <<mounted, client, instance, version, broadcast, views, failures>>

\* newSubscription throws when the client has the channel already; nobody
\* catches it.
SubscriptionExists(c) ==
    /\ phase[c] = "subscribe"
    /\ ChannelOf[c] \in subs[client[c]]
    /\ phase' = [phase EXCEPT ![c] = "failed"]
    /\ UNCHANGED <<mounted, client, instance, subscriptions, listeners, network, version,
                   broadcast, views, failures>>

\* cleanup?.(): without it the listener is not removed, nor prevented.
Unmount(c) ==
    /\ Idle
    /\ c \in mounted
    /\ mounted' = mounted \ {c}
    /\ listeners' = IF phase[c] = "live" THEN listeners \ {c} ELSE listeners
    /\ told' = [q \in Query |-> IF q \in QueriesOf(mounted \ {c}) THEN told[q] ELSE 0]
    /\ UNCHANGED <<phase, client, instance, subscriptions, network, version, broadcast,
                   fetch, loaded, shown, invalid, failures>>

-----------------------------------------------------------------------------
(* The connection: what centrifuge-js reports to its three handlers. It     *)
(* reconnects by itself, until a terminal disconnect.                       *)

Report(c, s) ==
    /\ Idle
    /\ state' = [state EXCEPT ![c] = s]
    /\ currentStatus' = s
    /\ UNCHANGED <<page, subs, version, broadcast, views>>

Connected(c) ==
    /\ state[c] = "connecting"
    /\ Report(c, "connected")
    /\ UNCHANGED failures

Reconnecting(c) ==
    /\ state[c] = "connected"
    /\ Fail
    /\ Report(c, "connecting")

Disconnected(c) ==
    /\ state[c] \in {"connecting", "connected"}
    /\ Fail
    /\ Report(c, "disconnected")

-----------------------------------------------------------------------------
(* Worker and server                                                       *)

\* broadcast follows the commit and the Redis counters.
Events(n) ==
    {<<[channel |-> "province", version |-> n], [channel |-> "thailand", version |-> n]>>,
     <<[channel |-> "thailand", version |-> n]>>,
     <<[channel |-> "referendum", version |-> n], [channel |-> "province", version |-> n]>>}

Update ==
    /\ version < MaxUpdates
    /\ version' = version + 1
    /\ \E events \in Events(version + 1) : broadcast' = broadcast \cup {events}
    /\ UNCHANGED <<page, network, views, failures>>

\* invalidateQueries: queries that are on the page are fetched anew. A request
\* on its way is given up if the query has data (query-core's fetch: data and
\* cancelRefetch); a first request goes on, and nothing is asked after it.
RefetchOnce(Q) ==
    [q \in Query |-> IF q \in Q \cap Observed /\ fetch[q] = NoFetch
                     THEN Asked(q \notin loaded) ELSE fetch[q]]
Refetch(Q) ==
    [q \in Query |-> IF q \in Q \cap Observed /\ (q \in loaded \/ fetch[q] = NoFetch)
                     THEN Asked(q \notin loaded) ELSE fetch[q]]

\* Publish. Its errors are only logged, and browsers without a connection
\* miss the event. A retried or redelivered vote is a further update.
Publish(events) ==
    LET ch == Head(events).channel
        n == Head(events).version
        Q == QueriesOf({c \in listeners : ChannelOf[c] = ch})
    IN  /\ Idle
        /\ broadcast' = (broadcast \ {events}) \cup ({Tail(events)} \ {<<>>})
        /\ \/ /\ \E c \in Component : state[c] = "connected" /\ ch \in subs[c]
              /\ invalid' = invalid \cup Q
              /\ fetch' = Refetch(Q)
              /\ told' = [q \in Query |->
                             IF q \in Q \cap Observed \cap loaded /\ n > told[q]
                             THEN n ELSE told[q]]
              /\ UNCHANGED <<loaded, shown>>
           \/ UNCHANGED views
        /\ UNCHANGED <<page, network, version, failures>>

-----------------------------------------------------------------------------
(* Queries                                                                 *)

PollsNever(q) == FALSE
Polls(q) == q \in Observed /\ fetch[q] = NoFetch

\* refetchInterval; a request on its way is not repeated.
Poll(q) ==
    /\ Idle
    /\ Polls(q)
    /\ fetch' = [fetch EXCEPT ![q] = Asked(q \notin loaded)]
    /\ UNCHANGED <<page, network, version, broadcast, loaded, shown, invalid, told, failures>>

Serve(q) ==
    /\ fetch[q].step = "asked"
    /\ fetch' = [fetch EXCEPT ![q] = Answer(version, @.first)]
    /\ UNCHANGED <<page, network, version, broadcast, loaded, shown, invalid, told, failures>>

\* The answer is the query's data, whatever it has by now, and its mark is gone.
Show(q) ==
    /\ Idle
    /\ fetch[q].step = "answered"
    /\ loaded' = loaded \cup {q}
    /\ shown' = [shown EXCEPT ![q] = fetch[q].version]
    /\ invalid' = invalid \ {q}
    /\ fetch' = [fetch EXCEPT ![q] = NoFetch]
    /\ UNCHANGED <<page, network, version, broadcast, told, failures>>

\* The retries have failed, too.
FetchFails(q) ==
    /\ Idle
    /\ fetch[q] # NoFetch
    /\ Fail
    /\ fetch' = [fetch EXCEPT ![q] = NoFetch]
    /\ UNCHANGED <<page, network, version, broadcast, loaded, shown, invalid, told>>

\* gcTime: a query that nobody observes leaves the cache.
Collect(q) ==
    /\ Idle
    /\ q \in loaded \ Observed
    /\ fetch[q] = NoFetch
    /\ loaded' = loaded \ {q}
    /\ shown' = [shown EXCEPT ![q] = 0]
    /\ invalid' = invalid \ {q}
    /\ told' = [told EXCEPT ![q] = 0]
    /\ UNCHANGED <<page, network, version, broadcast, fetch, failures>>

-----------------------------------------------------------------------------
Continue(c) ==
    \/ Create(c)
    \/ EnsureSubscription(c)
    \/ SubscriptionExists(c)

Next ==
    \/ \E C \in SUBSET Component : Mount(C)
    \/ \E c \in Component : Continue(c) \/ Unmount(c)
    \/ \E c \in Component : Connected(c) \/ Reconnecting(c) \/ Disconnected(c)
    \/ Update
    \/ \E events \in broadcast : Publish(events)
    \/ \E q \in Query : Poll(q) \/ Serve(q) \/ Show(q) \/ FetchFails(q) \/ Collect(q)

Spec == Init /\ [][Next]_vars

\* Promises are settled, timers fire and requests are answered.
FairSpec ==
    /\ Spec
    /\ \A c \in Component : WF_vars(Continue(c))
    /\ \A q \in Query : WF_vars(Poll(q)) /\ WF_vars(Serve(q)) /\ WF_vars(Show(q))

-----------------------------------------------------------------------------
(* What must hold                                                          *)

\* However many clients the race in getOrCreate leaves behind, at most one of
\* them has or seeks a connection, and the banner shows its state.
StatusTellsTruth ==
    /\ \A c, d \in Component : state[c] # "disconnected" /\ state[d] # "disconnected" => c = d
    /\ \A c \in Component : state[c] # "disconnected" => currentStatus = state[c]
    /\ currentStatus # "disconnected" => \E c \in Component : state[c] = currentStatus

\* An event is not lost on a query that has data, also when it is being
\* fetched: until the query shows the update it was told of, it stays marked.
ToldIsShownOrMarked == \A q \in Query : told[q] <= shown[q] \/ q \in invalid

\* When the updates end, every query on the page shows the last one, although
\* events are lost or swallowed by a first request, subscriptions may be dead
\* and components listen too late.
ViewsSettle == <>[](\A q \in Observed : q \in loaded /\ shown[q] = version)

\* The client "delivers VoteUpdateEvent payloads to registered listeners"
\* (centrifuge.ts:3): when the banner says that the page is live, every
\* listener's channel has a subscription on the connected client.
ListenersAreServed ==
    Idle /\ currentStatus = "connected" =>
        \A c \in listeners :
            \E d \in Component : state[d] = "connected" /\ ChannelOf[c] \in subs[d]
=============================================================================
