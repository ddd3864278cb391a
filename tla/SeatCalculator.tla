--------------------------- MODULE SeatCalculator ---------------------------
(***************************************************************************)
(* The allocation of the party-list seats, CalculatePartyListSeats         *)
(* (internal/domain/reporting/seat_calculator.go): every party gets the    *)
(* floor of its quota, and the seats left go to the parties with the       *)
(* highest remainders.                                                     *)
(*                                                                         *)
(* The code computes with float64. For the vote totals of an election the  *)
(* quotients are exact to about one part in 2^52, so only two outcomes     *)
(* differ from exact arithmetic. A quota that is a whole number may come   *)
(* out just below it: then its floor is one less, and its remainder almost *)
(* one. And remainders that are equal as fractions may come out in either  *)
(* order. The module leaves both open.                                     *)
(***************************************************************************)
EXTENDS Integers, FiniteSets, Functions

CONSTANT TotalPartyListSeats     \* 100

ASSUME SeatCalculatorAssumption == TotalPartyListSeats \in Nat \ {0}

\* The argument of the function: the votes of each party.
Parties(votes) == DOMAIN votes

-----------------------------------------------------------------------------
\* The quota of p is votes[p] / votesPerSeat, votesPerSeat being total / 100;
\* multiplied by the total it is a whole number. FloorQuota and Remainder are
\* its whole part and, also multiplied by the total, its fractional part.
Quota(votes, p) == votes[p] * TotalPartyListSeats
FloorQuota(votes, p) == Quota(votes, p) \div SumFunction(votes)
Remainder(votes, base, p) == Quota(votes, p) - base[p] * SumFunction(votes)

\* What math.Floor may return: for a whole quota, also one less.
Whole(votes) ==
    {p \in Parties(votes) : votes[p] > 0 /\ Quota(votes, p) % SumFunction(votes) = 0}
BaseSeats(votes) ==
    {[p \in Parties(votes) |-> FloorQuota(votes, p) - (IF p \in below THEN 1 ELSE 0)] :
        below \in SUBSET Whole(votes)}

\* sort.Slice by remainder puts the parties of W in front. Equal remainders come
\* in either order, whatever the votes: see above.
InFrontByVotes(votes, base, W) ==
    \A p \in W, q \in Parties(votes) \ W : votes[p] >= votes[q]
InFrontAscending(votes, base, W) ==
    \A p \in W, q \in Parties(votes) \ W : Remainder(votes, base, p) <= Remainder(votes, base, q)
InFront(votes, base, W) ==
    \A p \in W, q \in Parties(votes) \ W : Remainder(votes, base, p) >= Remainder(votes, base, q)

\* The first of them, as many as there are seats left, get one more.
SeatsLeft(base) == TotalPartyListSeats - SumFunction(base)
Winners(votes, base) ==
    {W \in SUBSET Parties(votes) :
        /\ \/ Cardinality(W) = SeatsLeft(base)
           \/ W = Parties(votes) /\ Cardinality(W) < SeatsLeft(base)
        /\ InFront(votes, base, W)}

\* The allocations the calculator may return; without any votes no party has
\* a seat.
CalculatePartyListSeats(votes) ==
    IF SumFunction(votes) = 0
    THEN {[p \in Parties(votes) |-> 0]}
    ELSE UNION {{[p \in Parties(votes) |-> base[p] + (IF p \in W THEN 1 ELSE 0)] :
                    W \in Winners(votes, base)} : base \in BaseSeats(votes)}

-----------------------------------------------------------------------------
(* What the allocation should be                                           *)

Fraction(votes, p) == Quota(votes, p) % SumFunction(votes)

\* s is an allocation by largest remainders: all seats are given away, each
\* party has its quota rounded down or up, and none is rounded up that has a
\* smaller fraction than one that is rounded down.
IsLargestRemainder(votes, s) ==
    /\ SumFunction(s) = TotalPartyListSeats
    /\ \A p \in Parties(votes) :
          \/ s[p] = FloorQuota(votes, p)
          \/ s[p] = FloorQuota(votes, p) + 1 /\ Fraction(votes, p) > 0
    /\ \A p, q \in Parties(votes) :
          s[p] > FloorQuota(votes, p) /\ s[q] = FloorQuota(votes, q) =>
              Fraction(votes, p) >= Fraction(votes, q)

RoundedUp(votes, U) ==
    [p \in Parties(votes) |-> FloorQuota(votes, p) + (IF p \in U THEN 1 ELSE 0)]

LargestRemainder(votes) ==
    {s \in {RoundedUp(votes, U) : U \in SUBSET Parties(votes)} : IsLargestRemainder(votes, s)}
=============================================================================
