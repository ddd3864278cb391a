-------------------------- MODULE PartySeatsProofs --------------------------
(***************************************************************************)
(* Proofs about PartySeats for any parties, votes, consumers, tasks and    *)
(* requests, and of the properties of the calculator that MCPartySeats     *)
(* states of its tables.                                                   *)
(***************************************************************************)
EXTENDS MCPartySeats, SeatCalculatorProofs

-----------------------------------------------------------------------------
(* The inductive invariant                                                 *)

\* s are the seats of the table v, which has no more votes than there are now.
IsAllocated(v, s, now) ==
    /\ v \in Votes
    /\ \A p \in Party : v[p] <= now[p]
    /\ s \in CalculatePartyListSeats(v)

\* What is cached, and what tasks and requests carry, are allocations.
CarriedAreAllocated ==
    /\ cache # None => IsAllocated(cache.votes, cache.seats, votes)
    /\ \A k \in Task : task[k].step # "idle" =>
          IsAllocated(task[k].votes, task[k].seats, votes)
    /\ \A r \in Request : req[r].step # "idle" =>
          IsAllocated(req[r].votes, req[r].seats, votes)

\* Unless something went wrong, only one recalculation runs; the rows that it
\* has written have its seats, and when it has written all, they are those of
\* its allocation.
OneWriter ==
    /\ \A k, l \in Running : k = l
    /\ \A k \in Task : task[k].step = "write" =>
          \A p \in Party \ task[k].todo : seatCount[p] = task[k].seats[p]
    /\ (\A k \in Task : task[k].step # "write") =>
          \E v \in Votes : IsAllocated(v, seatCount, votes)

\* A party without votes has no seats stored, and no recalculation will store
\* any.
NoRowNoSeats ==
    /\ \A p \in Party : votes[p] = 0 => seatCount[p] = 0
    /\ \A k \in Task : \A p \in task[k].todo : votes[p] > 0

IInv == TypeOK /\ CarriedAreAllocated /\ NoRowNoSeats /\ (~tainted => OneWriter)

-----------------------------------------------------------------------------
(* Allocations                                                             *)

LEMMA NoVotesAddUp == NoVotes \in Votes /\ NoVotes \in Seats /\ SumFunction(NoVotes) = 0
<1>1. SumFunctionOnSet(NoVotes, Party) = Cardinality({})
  <2>1. {} \in SUBSET Party /\ \A p \in Party : NoVotes[p] = IF p \in {} THEN 1 ELSE 0
    BY DEF NoVotes
  <2> QED BY <2>1, SumCounts, PartySeatsAssumption
<1>2. SumFunction(NoVotes) = 0
  BY <1>1, FS_EmptySet DEF SumFunction, NoVotes
<1> QED BY <1>2, SeatCalculatorAssumption DEF NoVotes, Votes, Seats

LEMMA AllocationFits ==
  ASSUME NEW v \in Votes, NEW seats \in CalculatePartyListSeats(v)
  PROVE  seats \in Seats /\ SumFunction(seats) \in {0, TotalPartyListSeats}
<1>1. Parties(v) = Party /\ IsFiniteSet(Party)
  BY PartySeatsAssumption DEF Votes, Parties
<1>2. CASE SumFunction(v) = 0
  BY <1>1, <1>2, NoVotesNoSeats, NoVotesAddUp DEF NoVotes
<1>3. CASE SumFunction(v) # 0
  <2>1. SumFunction(v) \in Nat
    <3>1. SumFunctionOnSet(v, Party) = SumFunction(v)
      BY <1>1 DEF SumFunction, Parties
    <3>2. CASE Party = {}
      BY <3>1, <3>2, SumOfNone
    <3>3. CASE Party # {}
      BY <1>1, <3>1, <3>3, PartOfSum DEF Votes
    <3> QED BY <3>2, <3>3
  <2>2. IsTable(v)
    BY <1>1, <1>3, <2>1 DEF IsTable, Votes
  <2> QED BY <1>1, <2>2, AllocationIsComplete DEF Seats
<1> QED BY <1>2, <1>3

\* An allocation gives no seats to a party without votes.
LEMMA NoVotesNoSeat ==
  ASSUME NEW v \in Votes, NEW s \in CalculatePartyListSeats(v), NEW p \in Party, v[p] = 0
  PROVE  s[p] = 0
<1>1. Parties(v) = Party /\ IsFiniteSet(Party)
  BY PartySeatsAssumption DEF Votes, Parties
<1>2. CASE SumFunction(v) = 0
  BY <1>1, <1>2 DEF CalculatePartyListSeats
<1>3. CASE SumFunction(v) # 0
  <2>1. SumFunction(v) \in Nat
    <3>1. SumFunctionOnSet(v, Party) = SumFunction(v)
      BY <1>1 DEF SumFunction, Parties
    <3> QED BY <1>1, <3>1, PartOfSum DEF Votes
  <2>2. IsTable(v)
    BY <1>1, <1>3, <2>1 DEF IsTable, Votes
  <2>3. IsLargestRemainder(v, s)
    BY <2>2, AllocatesLargestRemainders DEF LargestRemainder
  <2>4. FloorQuota(v, p) = 0 /\ Fraction(v, p) = 0
    <3>1. TotalPartyListSeats * v[p] = 0
      BY SeatCalculatorAssumption
    <3>2. /\ FloorQuota(v, p) \in Nat /\ Fraction(v, p) \in Nat
          /\ SumFunction(v) * FloorQuota(v, p) + Fraction(v, p) = 0
      BY <1>1, <2>2, <3>1, QuotaParts
    <3>3. \A a, b, c \in Nat : a > 0 /\ a * b + c = 0 => b = 0 /\ c = 0
      OBVIOUS
    <3>4. SumFunction(v) > 0
      BY <1>3, <2>1
    <3> QED BY <2>1, <3>2, <3>3, <3>4, Zenon
  <2> QED BY <1>1, <2>3, <2>4 DEF IsLargestRemainder
<1> QED BY <1>2, <1>3

\* Allocations stay so while votes come in.
LEMMA AllocatedStays ==
  ASSUME NEW v, NEW s, NEW now \in Votes, NEW later \in Votes,
         \A p \in Party : now[p] <= later[p], IsAllocated(v, s, now)
  PROVE  IsAllocated(v, s, later)
<1>1. \A p \in Party : v[p] \in Nat /\ now[p] \in Nat /\ later[p] \in Nat
  BY DEF IsAllocated, Votes
<1> QED BY <1>1 DEF IsAllocated

\* The allocations of the votes as they are.
LEMMA AllocatedNow ==
  ASSUME NEW now \in Votes, NEW s \in CalculatePartyListSeats(now)
  PROVE  IsAllocated(now, s, now)
<1>1. \A p \in Party : now[p] <= now[p]
  BY DEF Votes
<1> QED BY <1>1 DEF IsAllocated

-----------------------------------------------------------------------------
(* Initial states and steps                                                *)

LEMMA InitHolds == Init => IInv
<1> SUFFICES ASSUME Init PROVE IInv
  OBVIOUS
<1> USE DEF Init
<1>1. IdleTask.step = "idle" /\ \A k \in Task : task[k] = IdleTask
  BY DEF IdleTask
<1>2. TypeOK
  <2>1. /\ IdleTask \in [step : {"idle", "write", "bust"}, votes : Votes,
                         seats : Seats, todo : SUBSET Party]
        /\ IdleRequest \in [step : {"idle", "set"}, votes : Votes, seats : Seats]
    BY NoVotesAddUp DEF IdleTask, IdleRequest
  <2>2. updates \in 0..MaxUpdates /\ failures \in 0..MaxFailures
    BY PartySeatsAssumption
  <2> QED BY <2>1, <2>2, NoVotesAddUp DEF TypeOK
<1>3. CarriedAreAllocated
  BY <1>1 DEF CarriedAreAllocated, IdleRequest
<1>4. OneWriter
  <2>1. NoVotes \in CalculatePartyListSeats(NoVotes)
    BY NoVotesAddUp DEF CalculatePartyListSeats, Parties, NoVotes
  <2>2. IsAllocated(NoVotes, seatCount, votes)
    BY <2>1, NoVotesAddUp, AllocatedNow
  <2> QED BY <1>1, <2>2, NoVotesAddUp DEF OneWriter, Running
<1>5. NoRowNoSeats
  BY <1>1 DEF NoRowNoSeats, IdleTask, NoVotes
<1> QED BY <1>2, <1>3, <1>4, <1>5 DEF IInv

\* Steps that leave the recalculations and the stored seats alone, while
\* votes may come in.
LEMMA OthersKeep ==
  ASSUME IInv, TypeOK', UNCHANGED <<seatCount, task, tainted>>,
         \A p \in Party : votes[p] <= votes'[p],
         cache' # None => IsAllocated(cache.votes, cache.seats, votes)',
         \A r \in Request : req'[r].step # "idle" =>
             IsAllocated(req[r].votes, req[r].seats, votes)'
  PROVE  IInv'
<1>1. votes \in Votes /\ votes' \in Votes
  BY DEF IInv, TypeOK
<1>2. CarriedAreAllocated'
  BY <1>1, AllocatedStays DEF IInv, CarriedAreAllocated
<1>3. OneWriter => OneWriter'
  <2> SUFFICES ASSUME OneWriter PROVE OneWriter'
    OBVIOUS
  <2>1. (\E v \in Votes : IsAllocated(v, seatCount, votes))
            => \E v \in Votes : IsAllocated(v, seatCount, votes')
    BY <1>1, AllocatedStays
  <2> QED BY <2>1 DEF OneWriter, Running
<1>4. NoRowNoSeats'
  <2>1. \A p \in Party : votes[p] \in Nat /\ votes'[p] \in Nat
    BY <1>1 DEF Votes
  <2>2. \A k \in Task : task[k].todo \subseteq Party
    BY DEF IInv, TypeOK
  <2> QED BY <2>1, <2>2 DEF IInv, NoRowNoSeats
<1> QED BY <1>2, <1>3, <1>4 DEF IInv

LEMMA SameVotes ==
  ASSUME IInv, UNCHANGED votes
  PROVE  \A p \in Party : votes[p] <= votes'[p]
  BY DEF IInv, TypeOK, Votes

LEMMA ConsumerKeeps ==
  ASSUME IInv, NEW c \in Consumer,
         (\E p \in Party, n \in VoteCount : ApplyPartyList(c, p, n)) \/ InvalidateSeats(c)
  PROVE  IInv'
<1>1. ASSUME NEW p \in Party, NEW n \in VoteCount, ApplyPartyList(c, p, n)
      PROVE  IInv'
  <2> USE <1>1 DEF ApplyPartyList
  <2>1. votes \in Votes /\ votes' \in Votes /\ \A q \in Party : votes[q] <= votes'[q]
    <3>1. n \in Nat /\ votes[p] \in Nat /\ votes \in Votes
      BY PartySeatsAssumption DEF IInv, TypeOK, Votes
    <3> QED BY <3>1 DEF Votes
  <2>2. updates' \in 0..MaxUpdates
    BY PartySeatsAssumption DEF IInv, TypeOK
  <2>3. TypeOK'
    BY <2>1, <2>2 DEF IInv, TypeOK
  <2>4. /\ cache # None => IsAllocated(cache.votes, cache.seats, votes')
        /\ \A r \in Request : req[r].step # "idle" =>
              IsAllocated(req[r].votes, req[r].seats, votes')
    BY <2>1, AllocatedStays DEF IInv, CarriedAreAllocated
  <2> QED BY <2>1, <2>3, <2>4, OthersKeep
<1>2. ASSUME InvalidateSeats(c)
      PROVE  IInv'
  <2> USE <1>2 DEF InvalidateSeats, DeleteCache
  <2>1. TypeOK'
    BY DEF IInv, TypeOK
  <2> QED BY <2>1, SameVotes, OthersKeep DEF IInv, CarriedAreAllocated
<1> QED BY <1>1, <1>2

LEMMA RequestKeeps ==
  ASSUME IInv, NEW r \in Request, PartyListCalculation(r) \/ StoreCache(r) \/ Abandon(r)
  PROVE  IInv'
<1>1. CASE PartyListCalculation(r)
  <2> USE <1>1 DEF PartyListCalculation
  <2>1. PICK seats \in CalculatePartyListSeats(votes) :
           req' = [req EXCEPT ![r] = [step |-> "set", votes |-> votes, seats |-> seats]]
    OBVIOUS
  <2>2. votes \in Votes /\ seats \in Seats /\ IsAllocated(votes, seats, votes)
    BY AllocationFits, AllocatedNow DEF IInv, TypeOK
  <2>3. TypeOK'
    BY <2>1, <2>2 DEF IInv, TypeOK
  <2>4. \A q \in Request : req'[q] = IF q = r THEN [step |-> "set", votes |-> votes, seats |-> seats]
                                              ELSE req[q]
    BY <2>1 DEF IInv, TypeOK
  <2>5. \A q \in Request : req'[q].step # "idle" => IsAllocated(req'[q].votes, req'[q].seats, votes)
    BY <2>2, <2>4 DEF IInv, CarriedAreAllocated
  <2> QED BY <2>3, <2>5, SameVotes, OthersKeep DEF IInv, CarriedAreAllocated
<1>2. CASE StoreCache(r) \/ Abandon(r)
  <2> USE <1>2 DEF StoreCache, Abandon
  <2>1. /\ IdleRequest \in [step : {"idle", "set"}, votes : Votes, seats : Seats]
        /\ IdleRequest.step = "idle"
    BY NoVotesAddUp DEF IdleRequest
  <2>2. TypeOK'
    BY <2>1 DEF IInv, TypeOK
  <2>3. \A q \in Request : req'[q] = IF q = r THEN IdleRequest ELSE req[q]
    BY DEF IInv, TypeOK
  <2>4. cache' \in {cache, [votes |-> req[r].votes, seats |-> req[r].seats]}
    OBVIOUS
  <2>5. req[r].step # "idle" => IsAllocated(req[r].votes, req[r].seats, votes)
    BY DEF IInv, CarriedAreAllocated
  <2>6. cache' # None => IsAllocated(cache'.votes, cache'.seats, votes)
    BY <2>4, <2>5 DEF IInv, CarriedAreAllocated
  <2>7. \A q \in Request : req'[q].step # "idle" => IsAllocated(req'[q].votes, req'[q].seats, votes)
    BY <2>1, <2>3 DEF IInv, CarriedAreAllocated
  <2> QED BY <2>2, <2>6, <2>7, SameVotes, OthersKeep
<1> QED BY <1>1, <1>2

\* Steps of a recalculation leave the votes and the requests alone.
LEMMA TasksCarry ==
  ASSUME IInv, UNCHANGED <<votes, req>>, cache' \in {cache, None},
         \A k \in Task : \/ task'[k].step = "idle"
                         \/ IsAllocated(task'[k].votes, task'[k].seats, votes)
  PROVE  CarriedAreAllocated'
  BY DEF IInv, CarriedAreAllocated

LEMMA StartRecalcKeeps ==
  ASSUME IInv, NEW k \in Task, StartRecalc(k)
  PROVE  IInv'
<1>1. PICK seats \in CalculatePartyListSeats(votes) :
         task' = [task EXCEPT ![k] =
                     [step |-> IF Rows = {} THEN "bust" ELSE "write",
                      votes |-> votes, seats |-> seats, todo |-> Rows]]
  BY DEF StartRecalc
<1>2. /\ UNCHANGED <<votes, seatCount, cache, busts, req, updates, failures>>
      /\ tainted' = (Running # {})
  BY DEF StartRecalc
<1>3. /\ votes \in Votes /\ seats \in Seats /\ IsAllocated(votes, seats, votes)
      /\ Rows \subseteq Party
  BY AllocationFits, AllocatedNow DEF IInv, TypeOK, Rows
<1>4. /\ task'[k].step = (IF Rows = {} THEN "bust" ELSE "write")
      /\ task'[k].votes = votes /\ task'[k].seats = seats /\ task'[k].todo = Rows
      /\ \A l \in Task \ {k} : task'[l] = task[l]
  BY <1>1 DEF IInv, TypeOK
<1>5. TypeOK'
  BY <1>1, <1>2, <1>3 DEF IInv, TypeOK
<1>6. CarriedAreAllocated'
  <2>1. \A l \in Task : \/ task'[l].step = "idle"
                        \/ IsAllocated(task'[l].votes, task'[l].seats, votes)
    BY <1>3, <1>4 DEF IInv, CarriedAreAllocated
  <2> QED BY <1>2, <2>1, TasksCarry
<1>7. NoRowNoSeats'
  BY <1>2, <1>4 DEF IInv, NoRowNoSeats, Rows
<1>8. ASSUME ~tainted'
      PROVE  OneWriter'
  <2>1. \A l \in Task : task[l].step = "idle"
    BY <1>2, <1>8 DEF Running
  <2>2. \A l \in Task \ {k} : task'[l].step = "idle"
    BY <1>4, <2>1
  <2>3. \A p \in Party \ Rows : seatCount[p] = seats[p]
    <3> SUFFICES ASSUME NEW p \in Party, p \notin Rows PROVE seatCount[p] = seats[p]
      OBVIOUS
    <3>1. votes[p] = 0
      BY <1>3 DEF Rows, Votes
    <3> QED BY <1>3, <3>1, NoVotesNoSeat DEF IInv, NoRowNoSeats
  <2>4. Rows = {} => seatCount = seats
    BY <1>3, <2>3 DEF IInv, TypeOK, Seats
  <2> QED BY <1>2, <1>3, <1>4, <2>2, <2>3, <2>4 DEF OneWriter, Running
<1> QED BY <1>5, <1>6, <1>7, <1>8 DEF IInv

LEMMA SetPartyListSeatsKeeps ==
  ASSUME IInv, NEW k \in Task, SetPartyListSeats(k)
  PROVE  IInv'
<1> DEFINE todo == task[k].todo
<1>1. PICK p \in NextRows(task[k]) :
         /\ \/ /\ seatCount' = [seatCount EXCEPT ![p] = task[k].seats[p]]
               /\ UNCHANGED <<failures, tainted>>
            \/ /\ failures < MaxFailures
               /\ failures' = failures + 1
               /\ tainted' = TRUE
               /\ UNCHANGED seatCount
         /\ task' = [task EXCEPT ![k].todo = @ \ {p},
                                 ![k].step = IF todo = {p} THEN "bust" ELSE "write"]
  BY DEF SetPartyListSeats, Stored
<1>2. /\ task[k].step = "write" /\ p \in todo /\ p \in Party
      /\ task[k].seats \in Seats /\ seatCount \in Seats
      /\ UNCHANGED <<votes, cache, busts, req, updates>>
  BY DEF SetPartyListSeats, NextRows, IInv, TypeOK
<1>3. /\ task'[k].todo = todo \ {p} /\ task'[k].seats = task[k].seats
      /\ task'[k].votes = task[k].votes
      /\ task'[k].step = IF todo = {p} THEN "bust" ELSE "write"
      /\ \A l \in Task \ {k} : task'[l] = task[l]
  BY <1>1 DEF IInv, TypeOK
<1>4. TypeOK'
  <2>1. seatCount' \in Seats
    BY <1>1, <1>2 DEF Seats
  <2>2. failures' \in 0..MaxFailures
    BY <1>1, PartySeatsAssumption DEF IInv, TypeOK
  <2>4. tainted' \in BOOLEAN
    BY <1>1 DEF IInv, TypeOK
  <2>3. task' \in [Task -> [step : {"idle", "write", "bust"}, votes : Votes,
                            seats : Seats, todo : SUBSET Party]]
    <3> DEFINE t == [task[k] EXCEPT !.todo = @ \ {p},
                                    !.step = IF todo = {p} THEN "bust" ELSE "write"]
    <3>1. task' = [task EXCEPT ![k] = t]
      BY <1>1 DEF IInv, TypeOK
    <3>2. t \in [step : {"idle", "write", "bust"}, votes : Votes,
                 seats : Seats, todo : SUBSET Party]
      BY DEF IInv, TypeOK
    <3> QED BY <3>1, <3>2 DEF IInv, TypeOK
  <2> QED BY <1>2, <2>1, <2>2, <2>3, <2>4 DEF IInv, TypeOK
<1>5. ASSUME ~tainted'
      PROVE  OneWriter'
  <2>1. /\ ~tainted /\ seatCount' = [seatCount EXCEPT ![p] = task[k].seats[p]]
        /\ OneWriter
    BY <1>1, <1>5 DEF IInv
  <2>2. \A l \in Task \ {k} : task[l].step = "idle" /\ task'[l].step = "idle"
    BY <1>2, <1>3, <2>1 DEF OneWriter, Running
  <2>3. \A q \in Party \ (todo \ {p}) : seatCount'[q] = task[k].seats[q]
    BY <1>2, <2>1 DEF OneWriter, Seats
  <2>4. task[k].votes \in Votes /\ IsAllocated(task[k].votes, task[k].seats, votes)
    BY <1>2 DEF IInv, CarriedAreAllocated, IsAllocated
  <2>5. CASE todo = {p}
    <3>1. seatCount' = task[k].seats
      BY <1>2, <2>1, <2>3, <2>5 DEF Seats
    <3>2. task'[k].step = "bust"
      BY <1>3, <2>5
    <3>3. \E v \in Votes : IsAllocated(v, seatCount', votes')
      BY <1>2, <2>4, <3>1
    <3> QED BY <2>2, <3>2, <3>3 DEF OneWriter, Running
  <2>6. CASE todo # {p}
    <3>1. task'[k].step = "write"
      BY <1>3, <2>6
    <3> QED BY <1>3, <2>2, <2>3, <3>1 DEF OneWriter, Running
  <2> QED BY <2>5, <2>6
<1>6. CarriedAreAllocated'
  <2>1. \A l \in Task : \/ task'[l].step = "idle"
                        \/ IsAllocated(task'[l].votes, task'[l].seats, votes)
    BY <1>2, <1>3 DEF IInv, CarriedAreAllocated
  <2> QED BY <1>2, <2>1, TasksCarry
<1>7. NoRowNoSeats'
  <2>1. votes[p] > 0 /\ votes[p] # 0
    BY <1>2 DEF IInv, TypeOK, Votes, NoRowNoSeats
  <2>2. \A q \in Party \ {p} : seatCount'[q] = seatCount[q]
    BY <1>1, <1>2 DEF Seats
  <2> QED BY <1>2, <1>3, <2>1, <2>2 DEF IInv, NoRowNoSeats
<1> QED BY <1>4, <1>5, <1>6, <1>7 DEF IInv

LEMMA BustSeatsKeeps ==
  ASSUME IInv, NEW k \in Task, BustSeats(k)
  PROVE  IInv'
<1> USE DEF BustSeats, DeleteCache
<1>1. IdleTask \in [step : {"idle", "write", "bust"}, votes : Votes,
                    seats : Seats, todo : SUBSET Party]
  BY NoVotesAddUp DEF IdleTask
<1>2. TypeOK'
  BY <1>1 DEF IInv, TypeOK
<1>3. task'[k].step = "idle" /\ task'[k].todo = {}
      /\ \A l \in Task \ {k} : task'[l] = task[l]
  BY DEF IInv, TypeOK, IdleTask
<1>4. OneWriter => OneWriter'
  BY <1>3 DEF OneWriter, Running
<1>5. CarriedAreAllocated'
  <2>1. \A l \in Task : \/ task'[l].step = "idle"
                        \/ IsAllocated(task'[l].votes, task'[l].seats, votes)
    BY <1>3 DEF IInv, CarriedAreAllocated
  <2> QED BY <2>1, TasksCarry
<1>6. NoRowNoSeats'
  BY <1>3 DEF IInv, NoRowNoSeats, IdleTask
<1> QED BY <1>2, <1>4, <1>5, <1>6 DEF IInv

LEMMA WorkerCrashKeeps ==
  ASSUME IInv, WorkerCrash
  PROVE  IInv'
<1> USE DEF WorkerCrash
<1>1. IdleTask \in [step : {"idle", "write", "bust"}, votes : Votes,
                    seats : Seats, todo : SUBSET Party]
  BY NoVotesAddUp DEF IdleTask
<1>2. TypeOK'
  <2>1. failures' \in 0..MaxFailures
    BY PartySeatsAssumption DEF IInv, TypeOK
  <2> QED BY <1>1, <2>1 DEF IInv, TypeOK
<1>3. \A k \in Task : task'[k].step = "idle"
  BY DEF IdleTask
<1>4. ASSUME ~tainted'
      PROVE  OneWriter'
  <2>1. ~tainted /\ \A k \in Task : task[k].step = "idle"
    BY <1>4 DEF Running
  <2>2. \E v \in Votes : IsAllocated(v, seatCount, votes)
    BY <2>1 DEF IInv, OneWriter
  <2> QED BY <1>3, <2>2 DEF OneWriter, Running
<1>5. CarriedAreAllocated'
  BY <1>3, TasksCarry
<1>6. NoRowNoSeats'
  BY DEF IInv, NoRowNoSeats, IdleTask
<1> QED BY <1>2, <1>4, <1>5, <1>6 DEF IInv

LEMMA NextKeeps == IInv /\ [Next]_vars => IInv'
<1> SUFFICES ASSUME IInv, [Next]_vars PROVE IInv'
  OBVIOUS
<1>1. CASE UNCHANGED vars
  <2>1. TypeOK'
    BY <1>1 DEF IInv, TypeOK, vars
  <2> QED BY <1>1, <2>1, SameVotes, OthersKeep DEF vars, IInv, CarriedAreAllocated
<1>2. CASE CacheExpires
  <2>1. TypeOK'
    BY <1>2 DEF IInv, TypeOK, CacheExpires
  <2> QED BY <1>2, <2>1, SameVotes, OthersKeep DEF CacheExpires, IInv, CarriedAreAllocated
<1> QED
  BY <1>1, <1>2, ConsumerKeeps, RequestKeeps, StartRecalcKeeps, SetPartyListSeatsKeeps,
     BustSeatsKeeps, WorkerCrashKeeps
     DEF Next, TaskStep

LEMMA Invariance == Spec => []IInv
  BY InitHolds, NextKeeps, PTL DEF Spec

-----------------------------------------------------------------------------
(* Theorems                                                                *)

\* Votes are numbers, seats are between none and all, in the table, in the
\* cache and on their way, and tasks have rows of the table left to write
\* (handleRecalcPartySeats, PartyListCalculation).
THEOREM TypeCorrect == Spec => []TypeOK
<1>1. IInv => TypeOK
  BY DEF IInv
<1> QED BY <1>1, Invariance, PTL

LEMMA AllocatedIsEarlier ==
  ASSUME TypeOK, NEW v, NEW s, IsAllocated(v, s, votes)
  PROVE  v \in EarlierTables
<1>1. IsFiniteSet(Party) /\ votes \in Votes /\ v \in Votes
  BY PartySeatsAssumption DEF TypeOK, IsAllocated
<1>2. ASSUME NEW p \in Party
      PROVE  v[p] \in 0..SumFunction(votes)
  <2>1. SumFunctionOnSet(votes, Party) \in Nat /\ votes[p] <= SumFunctionOnSet(votes, Party)
    BY <1>1, PartOfSum DEF Votes
  <2>2. SumFunctionOnSet(votes, Party) = SumFunction(votes)
    BY <1>1 DEF SumFunction, Votes
  <2>3. v[p] \in Nat /\ votes[p] \in Nat /\ v[p] <= votes[p]
    BY <1>1 DEF IsAllocated, Votes
  <2> QED BY <2>1, <2>2, <2>3
<1> QED BY <1>1, <1>2 DEF IsAllocated, EarlierTables, Votes

\* What is cached is one allocation of votes that were counted by then, and so
\* are the stored rows between recalculations that neither overlapped nor
\* failed, although they are written one by one while votes come in
\* (handleRecalcPartySeats, PartyListCalculation).
THEOREM SeatsAreAllocated == Spec => []ReadersSeeAllocations
<1>1. IInv => ReadersSeeAllocations
  <2> SUFFICES ASSUME IInv PROVE ReadersSeeAllocations
    OBVIOUS
  <2>1. ASSUME Running = {}, ~tainted
        PROVE  \E v \in EarlierTables : seatCount \in CalculatePartyListSeats(v)
    <3>1. \E v \in Votes : IsAllocated(v, seatCount, votes)
      BY <2>1 DEF IInv, OneWriter, Running
    <3> QED BY <3>1, AllocatedIsEarlier DEF IInv, IsAllocated
  <2>2. ASSUME cache # None
        PROVE  /\ cache.votes \in EarlierTables
               /\ cache.seats \in CalculatePartyListSeats(cache.votes)
    BY <2>2, AllocatedIsEarlier DEF IInv, CarriedAreAllocated, IsAllocated
  <2> QED BY <2>1, <2>2 DEF ReadersSeeAllocations
<1> QED BY <1>1, Invariance, PTL

\* As such, the stored seats are all seats, or none before the first vote.
THEOREM SeatsAddUp ==
  Spec => [](Running = {} /\ ~tainted => SumFunction(seatCount) \in {0, TotalPartyListSeats})
<1>1. IInv => (Running = {} /\ ~tainted => SumFunction(seatCount) \in {0, TotalPartyListSeats})
  BY AllocationFits DEF IInv, OneWriter, Running, IsAllocated
<1> QED BY <1>1, Invariance, PTL

LEMMA TablesAreTables ==
  ASSUME NEW table \in Tables
  PROVE  IsTable(table) /\ Parties(table) = Contender
  BY TableAssumption DEF Tables, IsTable, Parties

\* The allocations of every table are those of largest remainders
\* (CalculatePartyListSeats).
THEOREM TablesByLargestRemainder == Spec => []AllocationIsLargestRemainder
<1>1. AllocationIsLargestRemainder
  BY TablesAreTables, AllocatesLargestRemainders DEF AllocationIsLargestRemainder
<1> QED BY <1>1, PTL

\* In every table, one more vote costs a party no seat
\* (CalculatePartyListSeats).
THEOREM TablesKeepSeats == Spec => []VotesCostNoSeat
<1>1. VotesCostNoSeat
  <2> SUFFICES ASSUME NEW table \in Tables, NEW p \in Contender,
                      NEW s \in CalculatePartyListSeats(table),
                      NEW t \in CalculatePartyListSeats(MoreVotes(table, p, 1))
               PROVE  t[p] >= s[p]
    BY DEF VotesCostNoSeat, MoreVotes
  <2> QED BY TablesAreTables, MoreVotesKeepSeats
<1> QED BY <1>1, PTL
=============================================================================
