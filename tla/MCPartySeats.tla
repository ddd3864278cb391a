----------------------------- MODULE MCPartySeats -----------------------------
(***************************************************************************)
(* PartySeats on a small instance, and the calculator it uses on every     *)
(* table of up to MaxVotes votes for four parties.                         *)
(***************************************************************************)
EXTENDS PartySeats, TLC

CONSTANTS
    Contender,      \* the parties of the tables
    MaxVotes        \* model bound: votes in a table

ASSUME TableAssumption == IsFiniteSet(Contender) /\ MaxVotes \in Nat

Tables == {votesOf \in [Contender -> 0..MaxVotes] : SumFunction(votesOf) \in 1..MaxVotes}

\* The tables have nothing to do with the state: it is enough to look at them
\* once, in the initial state.

\* The calculator's allocations are those of largest remainders, in spite of
\* its rounding: all seats are given away ("total allocated seats must always
\* be 100", seat_calculator_test.go), every party has its quota rounded down or
\* up, and none is rounded up before one with a larger fraction.
AllocationIsLargestRemainder ==
    Init => \A table \in Tables :
        CalculatePartyListSeats(table) = LargestRemainder(table)

\* One more vote for a party costs it no seat that it has for certain.
VotesCostNoSeat ==
    Init => \A table \in Tables, p \in Contender :
        \A s \in CalculatePartyListSeats(table),
           t \in CalculatePartyListSeats([table EXCEPT ![p] = @ + 1]) :
            t[p] >= s[p]
=============================================================================
