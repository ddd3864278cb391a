----------------------------- MODULE PartySeats -----------------------------
(***************************************************************************)
(* The party-list seats and their two readers. The worker recalculates the *)
(* seats every 30 s and stores them row by row in party_list_national      *)
(* (handleRecalcPartySeats, internal/worker/tasks.go), where               *)
(* NationalSummary finds them; PartyListCalculation                        *)
(* (internal/api/handlers/reporting.go) calculates them itself and caches  *)
(* the answer in Redis. Consumers add votes and delete the cached answer   *)
(* (internal/worker/atomic_updater.go).                                    *)
(***************************************************************************)
EXTENDS SeatCalculator

CONSTANTS
    Party,
    VoteCount,      \* numbers of votes a message may carry
    Consumer,       \* the consumers that handle party-list votes
    Task,           \* slots for running recalculations
    Request,        \* slots for PartyListCalculation handlers
    None,           \* nothing cached
    MaxUpdates,     \* model bound: messages with party-list votes
    MaxFailures     \* model bound: failing UPDATEs and crashes

ASSUME PartySeatsAssumption ==
    /\ IsFiniteSet(Party)
    /\ VoteCount \subseteq Nat \ {0}
    /\ MaxUpdates \in Nat
    /\ MaxFailures \in Nat

VARIABLES
    votes,          \* party_list_national.total_votes
    seatCount,      \* party_list_national.seat_count
    cache,          \* Redis cache:parties:seats
    busts,          \* consumers between their commit and their DEL
    task,           \* running recalculations
    req,            \* PartyListCalculation handlers
    updates,        \* messages so far
    failures,       \* failures so far
    tainted         \* a recalculation overlapped another one or did not store all rows

vars == <<votes, seatCount, cache, busts, task, req, updates, failures, tainted>>

NoVotes == [p \in Party |-> 0]
Votes == [Party -> Nat]
Seats == [Party -> 0..TotalPartyListSeats]

IdleTask == [step |-> "idle", votes |-> NoVotes, seats |-> NoVotes, todo |-> {}]
IdleRequest == [step |-> "idle", votes |-> NoVotes, seats |-> NoVotes]

TypeOK ==
    /\ votes \in Votes
    /\ seatCount \in Seats
    /\ cache \in [votes : Votes, seats : Seats] \cup {None}
    /\ busts \subseteq Consumer
    /\ task \in [Task -> [step : {"idle", "write", "bust"}, votes : Votes,
                          seats : Seats, todo : SUBSET Party]]
    /\ req \in [Request -> [step : {"idle", "set"}, votes : Votes, seats : Seats]]
    /\ updates \in 0..MaxUpdates
    /\ failures \in 0..MaxFailures
    /\ tainted \in BOOLEAN

\* A party has no row before its first vote; seats and votes are then 0.
Init ==
    /\ votes = NoVotes
    /\ seatCount = NoVotes
    /\ cache = None
    /\ busts = {}
    /\ task = [k \in Task |-> IdleTask]
    /\ req = [r \in Request |-> IdleRequest]
    /\ updates = 0
    /\ failures = 0
    /\ tainted = FALSE

Running == {k \in Task : task[k].step # "idle"}

-----------------------------------------------------------------------------
(* Consumers                                                               *)

\* The transaction with applyPartyList commits ...
ApplyPartyList(c, p, n) ==
    /\ c \notin busts
    /\ updates < MaxUpdates
    /\ updates' = updates + 1
    /\ votes' = [votes EXCEPT ![p] = @ + n]
    /\ busts' = busts \cup {c}
    /\ UNCHANGED <<seatCount, cache, task, req, failures, tainted>>

\* Every DEL may fail, and its error is ignored.
DeleteCache == cache' \in {cache, None}

\* ... and updateRedis deletes the cached calculation.
InvalidateSeats(c) ==
    /\ c \in busts
    /\ DeleteCache
    /\ busts' = busts \ {c}
    /\ UNCHANGED <<votes, seatCount, task, req, updates, failures, tainted>>

-----------------------------------------------------------------------------
(* handleRecalcPartySeats. The scheduler enqueues it every 30 s and ten     *)
(* tasks may run at a time, so that one may overlap the next. An error of   *)
(* the query changes nothing; asynq runs the task again.                    *)

\* The parties with a row.
Rows == {p \in Party : votes[p] > 0}

StartRecalc(k) ==
    /\ task[k].step = "idle"
    /\ \E seats \in CalculatePartyListSeats(votes) :
          task' = [task EXCEPT ![k] =
                      [step |-> IF Rows = {} THEN "bust" ELSE "write",
                       votes |-> votes, seats |-> seats, todo |-> Rows]]
    /\ tainted' = (Running # {})
    /\ UNCHANGED <<votes, seatCount, cache, busts, req, updates, failures>>

\* The allocations are sorted by seats, then votes.
NextRows(t) ==
    {p \in t.todo : \A q \in t.todo :
        \/ t.seats[p] > t.seats[q]
        \/ t.seats[p] = t.seats[q] /\ t.votes[p] >= t.votes[q]}

StoredOnTop(k, p) == seatCount[p] + task[k].seats[p]
StoredIfMore(k, p) == IF task[k].seats[p] > seatCount[p] THEN task[k].seats[p] ELSE seatCount[p]
StoredAnew(k, p) == CHOOSE n \in {s[p] : s \in CalculatePartyListSeats(votes)} : TRUE
Stored(k, p) == task[k].seats[p]

\* SetPartyListSeats, one UPDATE per row that was read; "update failed" is logged and the
\* loop goes on.
SetPartyListSeats(k) ==
    /\ task[k].step = "write"
    /\ \E p \in NextRows(task[k]) :
          /\ \/ /\ seatCount' = [seatCount EXCEPT ![p] = Stored(k, p)]
                /\ UNCHANGED <<failures, tainted>>
             \/ /\ failures < MaxFailures
                /\ failures' = failures + 1
                /\ tainted' = TRUE
                /\ UNCHANGED seatCount
          /\ task' = [task EXCEPT ![k].todo = @ \ {p},
                                  ![k].step = IF task[k].todo = {p} THEN "bust" ELSE "write"]
    /\ UNCHANGED <<votes, cache, busts, req, updates>>

BustSeats(k) ==
    /\ task[k].step = "bust"
    /\ DeleteCache
    /\ task' = [task EXCEPT ![k] = IdleTask]
    /\ UNCHANGED <<votes, seatCount, busts, req, updates, failures, tainted>>

WorkerCrash ==
    /\ failures < MaxFailures
    /\ failures' = failures + 1
    /\ tainted' = (tainted \/ Running # {})
    /\ task' = [k \in Task |-> IdleTask]
    /\ busts' = {}
    /\ UNCHANGED <<votes, seatCount, cache, req, updates>>

-----------------------------------------------------------------------------
(* PartyListCalculation. A hit is answered from the cache and changes       *)
(* nothing; after a miss, or an error of GET, the seats are calculated from *)
(* the table.                                                               *)

PartyListCalculation(r) ==
    /\ req[r].step = "idle"
    /\ \E seats \in CalculatePartyListSeats(votes) :
          req' = [req EXCEPT ![r] = [step |-> "set", votes |-> votes, seats |-> seats]]
    /\ UNCHANGED <<votes, seatCount, cache, busts, task, updates, failures, tainted>>

\* SET with a TTL of 30 s; its error is ignored.
StoreCache(r) ==
    /\ req[r].step = "set"
    /\ cache' \in {cache, [votes |-> req[r].votes, seats |-> req[r].seats]}
    /\ req' = [req EXCEPT ![r] = IdleRequest]
    /\ UNCHANGED <<votes, seatCount, busts, task, updates, failures, tainted>>

\* The server stops before it answers.
Abandon(r) ==
    /\ req[r].step # "idle"
    /\ req' = [req EXCEPT ![r] = IdleRequest]
    /\ UNCHANGED <<votes, seatCount, cache, busts, task, updates, failures, tainted>>

NeverExpires == FALSE
Expirable == cache # None

CacheExpires ==
    /\ Expirable
    /\ cache' = None
    /\ UNCHANGED <<votes, seatCount, busts, task, req, updates, failures, tainted>>

-----------------------------------------------------------------------------
TaskStep(k) == SetPartyListSeats(k) \/ BustSeats(k)

Next ==
    \/ \E c \in Consumer :
          \/ \E p \in Party, n \in VoteCount : ApplyPartyList(c, p, n)
          \/ InvalidateSeats(c)
    \/ \E k \in Task : StartRecalc(k) \/ TaskStep(k)
    \/ WorkerCrash
    \/ \E r \in Request : PartyListCalculation(r) \/ StoreCache(r) \/ Abandon(r)
    \/ CacheExpires

Spec == Init /\ [][Next]_vars

\* The scheduler ticks, tasks and handlers run, and Redis drops expired keys.
FairSpec ==
    /\ Spec
    /\ WF_vars(\E k \in Task : StartRecalc(k))
    /\ \A k \in Task : WF_vars(TaskStep(k))
    /\ \A r \in Request : WF_vars(StoreCache(r))
    /\ WF_vars(CacheExpires)

-----------------------------------------------------------------------------
(* What must hold                                                          *)

\* The tables of votes that may have been there before this one.
EarlierTables ==
    {v \in [Party -> 0..SumFunction(votes)] : \A p \in Party : v[p] <= votes[p]}

\* Both readers see the seats of one allocation, of votes that have been counted
\* by now: the cached calculation always, although requests store what they
\* read before; and the stored rows between recalculations, unless two of them
\* overlapped, an UPDATE failed or the worker died, because the rows are
\* written one by one and in no transaction. So the seats add up, and no row
\* is left from another recalculation.
ReadersSeeAllocations ==
    /\ Running = {} /\ ~tainted =>
          \E v \in EarlierTables : seatCount \in CalculatePartyListSeats(v)
    /\ cache # None =>
          /\ cache.votes \in EarlierTables
          /\ cache.seats \in CalculatePartyListSeats(cache.votes)

\* When the votes are in, the stored seats become right and stay so, although
\* an overlapping recalculation may still write the seats of older votes. (Two
\* allocations of the same votes may alternate, hence the condition.)
SeatsSettle ==
    <>[](\A s \in CalculatePartyListSeats(votes) :
             CalculatePartyListSeats(votes) = {s} => seatCount = s)

\* When the votes are in, a cached calculation of older votes disappears for
\* good, although requests store what they read before a DEL, and any DEL may
\* fail.
CacheSettles == <>[](cache # None => cache.votes = votes)

=============================================================================
