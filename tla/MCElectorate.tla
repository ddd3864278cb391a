---------------------------- MODULE MCElectorate ----------------------------
\* Electorate on small instances: three constituencies, two of one province and
\* one of another, a voter in each, and one who is not eligible; the invariants
\* are checked with one constituency and one eligible voter per province.
EXTENDS Electorate, TLC

CONSTANTS u1, u2, u3, u4, c1, c2, c3, p1, p2

MCRegisteredIn ==
    [u \in Voter |-> CASE u = u2 -> c2 [] u = u3 -> c3 [] OTHER -> c1]
MCProvinceOf == [c \in Constituency |-> IF c = c3 THEN p2 ELSE p1]
\* Sessions, tokens and tabs are interchangeable; only invariants are checked.
Symmetry == Permutations(Session) \cup Permutations(Token) \cup Permutations(Request)
=============================================================================
