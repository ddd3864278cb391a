------------------------ MODULE SeatCalculatorProofs ------------------------
(***************************************************************************)
(* Proofs about CalculatePartyListSeats for any number of parties, votes   *)
(* and seats: it allocates by largest remainders whatever the rounding of  *)
(* its floats, gives away every seat, and votes cost nobody a seat.        *)
(*                                                                         *)
(* The first part is about sums. SumFunction is a recursive definition     *)
(* over sets, and what it computes is proved by induction on subsets: if   *)
(* some subset of a finite set were a counterexample, there would be a     *)
(* minimal one (MinimalSubset).                                            *)
(***************************************************************************)
EXTENDS SeatCalculator, FiniteSetTheorems, TLAPS

-----------------------------------------------------------------------------
(* Sums over finite sets                                                   *)

LEMMA MinimalSubset ==
  ASSUME NEW S, IsFiniteSet(S), NEW Bad, Bad \subseteq SUBSET S, Bad # {}
  PROVE  \E T \in Bad : \A U \in Bad : U \subseteq T => U = T
<1>1. IsWellFoundedOn(StrictSubsetOrdering(S), SUBSET S)
  BY FS_FiniteSubsetsOfFinite, FS_StrictSubsetOrderingWellFounded
<1>2. PICK T \in Bad : \A U \in Bad : <<U, T>> \notin StrictSubsetOrdering(S)
  BY <1>1, WFMin
<1> QED BY <1>2 DEF StrictSubsetOrdering

\* The element that the sum takes next, and the equation of the sums of f.
Taken(s) == CHOOSE x \in s : TRUE
Sums(f, S, g) ==
    g = [s \in SUBSET S |-> IF s = {} THEN 0 ELSE f[Taken(s)] + g[s \ {Taken(s)}]]

LEMMA SumIsChosen ==
  ASSUME NEW f, NEW S
  PROVE  SumFunctionOnSet(f, S) = (CHOOSE g : Sums(f, S, g))[S]
  BY DEF SumFunctionOnSet, FoldFunctionOnSet, MapThenFoldSet, Sums, Taken

LEMMA TakenIsIn ==
  ASSUME NEW s, s # {}
  PROVE  Taken(s) \in s
  BY DEF Taken

LEMMA SumsAreUnique ==
  ASSUME NEW f, NEW S, NEW T, IsFiniteSet(S), NEW g, NEW h, Sums(f, S, g), Sums(f, T, h),
         NEW U \in SUBSET S, U \in SUBSET T
  PROVE  g[U] = h[U]
<1> DEFINE Bad == {s \in SUBSET U : g[s] # h[s]}
<1> SUFFICES ASSUME Bad # {} PROVE FALSE
  OBVIOUS
<1>1. Bad \subseteq SUBSET S
  OBVIOUS
<1>2. PICK s \in Bad : \A r \in Bad : r \subseteq s => r = s
  <2> HIDE DEF Bad
  <2> QED BY <1>1, MinimalSubset
<1>3. s # {}
  BY <1>2 DEF Sums
<1>4. Taken(s) \in s
  BY <1>3, TakenIsIn
<1>5. g[s \ {Taken(s)}] = h[s \ {Taken(s)}]
  BY <1>2, <1>4
<1> QED BY <1>2, <1>3, <1>5 DEF Sums

\* Sums of the smaller sets make the sums of a set.
LEMMA SumsExtend ==
  ASSUME NEW f, NEW S, IsFiniteSet(S), NEW G,
         \A U \in SUBSET S : U # S => Sums(f, U, G[U])
  PROVE  \E g : Sums(f, S, g)
<1> DEFINE Rest(s) == s \ {Taken(s)}
           g == [s \in SUBSET S |-> IF s = {} THEN 0 ELSE f[Taken(s)] + G[Rest(s)][Rest(s)]]
<1>1. ASSUME NEW s \in SUBSET S, s # {}
      PROVE  g[Rest(s)] = G[Rest(s)][Rest(s)]
  <2>1. Taken(s) \in s
    BY <1>1, TakenIsIn
  <2>2. Rest(s) \in SUBSET S /\ Rest(s) # S
    BY <2>1
  <2>3. Sums(f, Rest(s), G[Rest(s)])
    BY <2>2
  <2>4. CASE Rest(s) = {}
    BY <2>2, <2>3, <2>4 DEF Sums
  <2>5. CASE Rest(s) # {}
    <3> DEFINE r == Rest(s)
    <3>1. Taken(r) \in r
      BY <2>5, TakenIsIn
    <3>2. Rest(r) \in SUBSET S /\ Rest(r) # S /\ Rest(r) \in SUBSET r
      BY <2>2, <3>1
    <3>3. Sums(f, Rest(r), G[Rest(r)])
      BY <3>2
    <3>4. IsFiniteSet(r)
      BY <2>2, FS_Subset
    <3>5. G[r][Rest(r)] = G[Rest(r)][Rest(r)]
      <4> DEFINE q == Rest(r)
      <4>1. Sums(f, r, G[r]) /\ Sums(f, q, G[q]) /\ q \in SUBSET r /\ q \in SUBSET q
        BY <2>3, <3>2, <3>3
      <4>2. IsFiniteSet(r)
        BY <3>4
      <4>3. G[r][q] = G[q][q]
        <5> HIDE DEF q, r, g, Rest
        <5>1. \A a, b : Sums(f, r, a) /\ Sums(f, q, b) => a[q] = b[q]
          BY <4>1, <4>2, SumsAreUnique
        <5> QED BY <4>1, <5>1
      <4> QED BY <4>3
    <3>6. G[r][r] = f[Taken(r)] + G[r][Rest(r)]
      BY <2>3, <2>5 DEF Sums
    <3>7. g[r] = f[Taken(r)] + G[Rest(r)][Rest(r)]
      BY <2>2, <2>5
    <3> QED BY <3>5, <3>6, <3>7
  <2> QED BY <2>4, <2>5
<1>2. g = [s \in SUBSET S |-> IF s = {} THEN 0 ELSE f[Taken(s)] + g[Rest(s)]]
  BY <1>1
<1> QED BY <1>2 DEF Sums

LEMMA SumsExist ==
  ASSUME NEW f, NEW S, IsFiniteSet(S)
  PROVE  \E g : Sums(f, S, g)
<1> DEFINE Bad == {T \in SUBSET S : ~ \E g : Sums(f, T, g)}
<1> SUFFICES ASSUME Bad # {} PROVE FALSE
  OBVIOUS
<1>1. PICK T \in Bad : \A U \in Bad : U \subseteq T => U = T
  <2>1. Bad \subseteq SUBSET S
    OBVIOUS
  <2> HIDE DEF Bad
  <2> QED BY <2>1, MinimalSubset
<1> DEFINE G == [U \in SUBSET T |-> CHOOSE g : Sums(f, U, g)]
<1>2. \A U \in SUBSET T : U # T => Sums(f, U, G[U])
  BY <1>1
<1>3. IsFiniteSet(T)
  BY <1>1, FS_Subset
<1>4. \E g : Sums(f, T, g)
  <2> HIDE DEF G
  <2> QED BY <1>2, <1>3, SumsExtend
<1> QED BY <1>1, <1>4

LEMMA SumOfNone ==
  ASSUME NEW f
  PROVE  SumFunctionOnSet(f, {}) = 0
<1>1. PICK g : Sums(f, {}, g)
  BY FS_EmptySet, SumsExist
<1>2. Sums(f, {}, CHOOSE h : Sums(f, {}, h))
  BY <1>1
<1> QED BY <1>2, SumIsChosen DEF Sums

LEMMA SumTakes ==
  ASSUME NEW f, NEW S, IsFiniteSet(S), S # {}
  PROVE  /\ Taken(S) \in S
         /\ SumFunctionOnSet(f, S) = f[Taken(S)] + SumFunctionOnSet(f, S \ {Taken(S)})
<1> DEFINE R == S \ {Taken(S)}
           g == CHOOSE a : Sums(f, S, a)
           h == CHOOSE a : Sums(f, R, a)
<1>1. Taken(S) \in S
  BY TakenIsIn
<1>2. IsFiniteSet(R)
  BY FS_Subset
<1>3. Sums(f, S, g) /\ Sums(f, R, h)
  BY <1>2, SumsExist
<1>4. g[R] = h[R]
  <2>1. R \in SUBSET S /\ R \in SUBSET R
    OBVIOUS
  <2> HIDE DEF g, h, R
  <2>2. \A a, b : Sums(f, S, a) /\ Sums(f, R, b) => a[R] = b[R]
    BY <2>1, SumsAreUnique
  <2> QED BY <1>3, <2>2
<1>5. g[S] = f[Taken(S)] + g[R]
  BY <1>3 DEF Sums
<1> QED BY <1>1, <1>4, <1>5, SumIsChosen

LEMMA SumIsInt ==
  ASSUME NEW f, NEW S, IsFiniteSet(S), \A x \in S : f[x] \in Int
  PROVE  SumFunctionOnSet(f, S) \in Int
<1> DEFINE Bad == {T \in SUBSET S : SumFunctionOnSet(f, T) \notin Int}
<1> SUFFICES ASSUME Bad # {} PROVE FALSE
  OBVIOUS
<1>1. PICK T \in Bad : \A U \in Bad : U \subseteq T => U = T
  <2>1. Bad \subseteq SUBSET S
    OBVIOUS
  <2> HIDE DEF Bad
  <2> QED BY <2>1, MinimalSubset
<1>2. IsFiniteSet(T) /\ T # {}
  <2>1. SumFunctionOnSet(f, {}) \in Int
    BY SumOfNone
  <2> QED BY <1>1, <2>1, FS_Subset
<1>3. /\ Taken(T) \in T
      /\ SumFunctionOnSet(f, T) = f[Taken(T)] + SumFunctionOnSet(f, T \ {Taken(T)})
  BY <1>2, SumTakes
<1>4. SumFunctionOnSet(f, T \ {Taken(T)}) \in Int
  BY <1>1, <1>3
<1> QED BY <1>1, <1>3, <1>4

\* Any element may be taken first.
LEMMA SumWithout ==
  ASSUME NEW f, NEW S, IsFiniteSet(S), \A x \in S : f[x] \in Int, NEW x \in S
  PROVE  SumFunctionOnSet(f, S) = f[x] + SumFunctionOnSet(f, S \ {x})
<1> DEFINE Sum(T) == SumFunctionOnSet(f, T)
           Bad == {T \in SUBSET S : \E y \in T : Sum(T) # f[y] + Sum(T \ {y})}
<1> SUFFICES ASSUME Bad # {} PROVE FALSE
  OBVIOUS
<1>1. PICK T \in Bad : \A U \in Bad : U \subseteq T => U = T
  <2>1. Bad \subseteq SUBSET S
    OBVIOUS
  <2> HIDE DEF Bad
  <2> QED BY <2>1, MinimalSubset
<1>2. PICK y \in T : Sum(T) # f[y] + Sum(T \ {y})
  BY <1>1
<1> DEFINE z == Taken(T)
           R == T \ {y, z}
<1>3. IsFiniteSet(T) /\ T \in SUBSET S
  BY <1>1, FS_Subset
<1>4. z \in T /\ Sum(T) = f[z] + Sum(T \ {z})
  BY <1>2, <1>3, SumTakes
<1>5. z # y
  BY <1>2, <1>4
<1>6. Sum(T \ {z}) = f[y] + Sum(R)
  <2>1. T \ {z} \notin Bad /\ (T \ {z}) \ {y} = R /\ T \ {z} \in SUBSET S /\ y \in T \ {z}
    BY <1>1, <1>3, <1>4, <1>5
  <2> QED BY <2>1
<1>7. Sum(T \ {y}) = f[z] + Sum(R)
  <2>1. T \ {y} \notin Bad /\ (T \ {y}) \ {z} = R /\ T \ {y} \in SUBSET S /\ z \in T \ {y}
    BY <1>1, <1>2, <1>3, <1>4, <1>5
  <2> QED BY <2>1
<1>8. f[y] \in Int /\ f[z] \in Int /\ Sum(R) \in Int
  <2>1. IsFiniteSet(R) /\ \A r \in R : f[r] \in Int
    BY <1>3, FS_Subset
  <2> QED BY <1>3, <1>4, <2>1, SumIsInt
<1> HIDE DEF Sum, z, R, Bad
<1> QED BY <1>2, <1>4, <1>6, <1>7, <1>8

LEMMA SumIsLinear ==
  ASSUME NEW S, IsFiniteSet(S), NEW f, NEW g, NEW h, NEW k \in Int,
         \A x \in S : f[x] \in Int /\ g[x] \in Int /\ h[x] = k * f[x] + g[x]
  PROVE  SumFunctionOnSet(h, S) = k * SumFunctionOnSet(f, S) + SumFunctionOnSet(g, S)
<1> DEFINE F(T) == SumFunctionOnSet(f, T)
           G(T) == SumFunctionOnSet(g, T)
           H(T) == SumFunctionOnSet(h, T)
           Bad == {T \in SUBSET S : H(T) # k * F(T) + G(T)}
<1> SUFFICES ASSUME Bad # {} PROVE FALSE
  OBVIOUS
<1>1. PICK T \in Bad : \A U \in Bad : U \subseteq T => U = T
  <2>1. Bad \subseteq SUBSET S
    OBVIOUS
  <2> HIDE DEF Bad
  <2> QED BY <2>1, MinimalSubset
<1>2. IsFiniteSet(T) /\ T \in SUBSET S /\ T # {}
  <2>1. H({}) = k * F({}) + G({})
    BY SumOfNone
  <2> QED BY <1>1, <2>1, FS_Subset
<1>3. PICK x : x \in T
  BY <1>2
<1> DEFINE R == T \ {x}
<1>4. /\ \A y \in T : f[y] \in Int /\ g[y] \in Int /\ h[y] \in Int
      /\ h[x] = k * f[x] + g[x]
  BY <1>2, <1>3
<1>5. F(T) = f[x] + F(R) /\ G(T) = g[x] + G(R) /\ H(T) = h[x] + H(R)
  BY <1>2, <1>3, <1>4, SumWithout
<1>6. F(R) \in Int /\ G(R) \in Int
  BY <1>2, <1>4, FS_Subset, SumIsInt
<1>7. H(R) = k * F(R) + G(R)
  BY <1>1, <1>2, <1>3
<1>8. k * (f[x] + F(R)) = k * f[x] + k * F(R)
  BY <1>3, <1>4, <1>6
<1>9. H(T) # k * F(T) + G(T)
  BY <1>1
<1> HIDE DEF F, G, H, R, Bad
<1> QED BY <1>3, <1>4, <1>5, <1>6, <1>7, <1>8, <1>9

\* A sum grows with its summands ...
LEMMA SumIsMonotonic ==
  ASSUME NEW S, IsFiniteSet(S), NEW f, NEW g,
         \A x \in S : f[x] \in Int /\ g[x] \in Int /\ f[x] <= g[x]
  PROVE  SumFunctionOnSet(f, S) <= SumFunctionOnSet(g, S)
<1> DEFINE F(T) == SumFunctionOnSet(f, T)
           G(T) == SumFunctionOnSet(g, T)
           Bad == {T \in SUBSET S : ~(F(T) <= G(T))}
<1> SUFFICES ASSUME Bad # {} PROVE FALSE
  OBVIOUS
<1>1. PICK T \in Bad : \A U \in Bad : U \subseteq T => U = T
  <2>1. Bad \subseteq SUBSET S
    OBVIOUS
  <2> HIDE DEF Bad
  <2> QED BY <2>1, MinimalSubset
<1>2. IsFiniteSet(T) /\ T \in SUBSET S /\ T # {}
  <2>1. F({}) <= G({})
    BY SumOfNone
  <2> QED BY <1>1, <2>1, FS_Subset
<1>3. PICK x : x \in T
  BY <1>2
<1> DEFINE R == T \ {x}
<1>4. (\A y \in T : f[y] \in Int /\ g[y] \in Int) /\ f[x] <= g[x]
  BY <1>2, <1>3
<1>5. F(T) = f[x] + F(R) /\ G(T) = g[x] + G(R)
  BY <1>2, <1>3, <1>4, SumWithout
<1>6. F(R) \in Int /\ G(R) \in Int
  BY <1>2, <1>4, FS_Subset, SumIsInt
<1>7. F(R) <= G(R) /\ ~(F(T) <= G(T))
  BY <1>1, <1>2, <1>3
<1> HIDE DEF F, G, R, Bad
<1> QED BY <1>3, <1>4, <1>5, <1>6, <1>7

\* ... and strictly with any of them.
LEMMA SumIsStrict ==
  ASSUME NEW S, IsFiniteSet(S), NEW f, NEW g,
         \A x \in S : f[x] \in Int /\ g[x] \in Int /\ f[x] <= g[x],
         NEW x \in S, f[x] < g[x]
  PROVE  SumFunctionOnSet(f, S) < SumFunctionOnSet(g, S)
<1> DEFINE R == S \ {x}
<1>1. IsFiniteSet(R) /\ \A y \in R : f[y] \in Int /\ g[y] \in Int /\ f[y] <= g[y]
  BY FS_Subset
<1>2. SumFunctionOnSet(f, R) <= SumFunctionOnSet(g, R)
  BY <1>1, SumIsMonotonic
<1>3. SumFunctionOnSet(f, R) \in Int /\ SumFunctionOnSet(g, R) \in Int
  BY <1>1, SumIsInt
<1>4. /\ SumFunctionOnSet(f, S) = f[x] + SumFunctionOnSet(f, R)
      /\ SumFunctionOnSet(g, S) = g[x] + SumFunctionOnSet(g, R)
  BY SumWithout
<1> QED BY <1>2, <1>3, <1>4

\* The sum of a characteristic function counts.
LEMMA SumCounts ==
  ASSUME NEW S, IsFiniteSet(S), NEW W \in SUBSET S, NEW f,
         \A x \in S : f[x] = IF x \in W THEN 1 ELSE 0
  PROVE  SumFunctionOnSet(f, S) = Cardinality(W)
<1> DEFINE F(T) == SumFunctionOnSet(f, T)
           Bad == {T \in SUBSET S : F(T) # Cardinality(W \cap T)}
<1> SUFFICES ASSUME Bad # {} PROVE FALSE
  <2>1. W \cap S = W /\ S \in SUBSET S
    OBVIOUS
  <2> QED BY <2>1
<1>1. PICK T \in Bad : \A U \in Bad : U \subseteq T => U = T
  <2>1. Bad \subseteq SUBSET S
    OBVIOUS
  <2> HIDE DEF Bad
  <2> QED BY <2>1, MinimalSubset
<1>2. IsFiniteSet(T) /\ T \in SUBSET S /\ T # {}
  <2>1. W \cap {} = {} /\ F({}) = Cardinality({})
    BY SumOfNone, FS_EmptySet
  <2> QED BY <1>1, <2>1, FS_Subset
<1>3. PICK x : x \in T
  BY <1>2
<1> DEFINE R == T \ {x}
<1>4. F(T) = f[x] + F(R)
  BY <1>2, <1>3, SumWithout
<1>5. F(R) = Cardinality(W \cap R)
  BY <1>1, <1>2, <1>3
<1>6. IsFiniteSet(W \cap R) /\ Cardinality(W \cap R) \in Nat
  BY <1>2, FS_Subset, FS_CardinalityType
<1>7. Cardinality(W \cap T) = f[x] + Cardinality(W \cap R)
  <2>1. CASE x \in W
    <3>1. W \cap T = (W \cap R) \cup {x} /\ x \notin W \cap R /\ f[x] = 1
      BY <1>2, <1>3, <2>1
    <3>2. Cardinality((W \cap R) \cup {x}) = Cardinality(W \cap R) + 1
      BY <1>6, <3>1, FS_AddElement
    <3>3. Cardinality(W \cap T) = Cardinality((W \cap R) \cup {x})
      BY <3>1, Zenon
    <3> QED BY <1>6, <3>1, <3>2, <3>3
  <2>2. CASE x \notin W
    <3>1. f[x] = 0
      BY <1>2, <1>3, <2>2
    <3>2. W \cap T = W \cap R
      BY <1>3, <2>2
    <3>3. Cardinality(W \cap T) = Cardinality(W \cap R)
      BY <3>2, Zenon
    <3> QED BY <1>6, <3>1, <3>3
  <2> QED BY <2>1, <2>2
<1> QED BY <1>1, <1>4, <1>5, <1>7

\* A finite set has an element at which f is least.
LEMMA LeastElement ==
  ASSUME NEW S, IsFiniteSet(S), S # {}, NEW f, \A x \in S : f[x] \in Nat
  PROVE  \E x \in S : \A y \in S : f[x] <= f[y]
<1> DEFINE Low == {V \in SUBSET S : V # {} /\ \A x \in V, y \in S \ V : f[x] <= f[y]}
<1>1. S \in Low
  OBVIOUS
<1>2. PICK V \in Low : \A U \in Low : U \subseteq V => U = V
  <2>1. Low \subseteq SUBSET S /\ Low # {}
    BY <1>1
  <2> HIDE DEF Low
  <2> QED BY <2>1, MinimalSubset
<1>3. PICK x \in V : TRUE
  OBVIOUS
<1>4. ASSUME NEW y \in S, ~(f[x] <= f[y])
      PROVE  FALSE
  <2> DEFINE U == {z \in V : f[z] < f[x]}
  <2>1. y \in U /\ x \notin U
    BY <1>3, <1>4
  <2>2. \A z \in U, w \in S \ U : f[z] <= f[w]
    <3> SUFFICES ASSUME NEW z \in U, NEW w \in S \ U PROVE f[z] <= f[w]
      OBVIOUS
    <3>1. CASE w \in V
      BY <1>3, <3>1
    <3>2. CASE w \notin V
      BY <3>2
    <3> QED BY <3>1, <3>2
  <2>3. U \in Low
    BY <2>1, <2>2
  <2> HIDE DEF Low
  <2> QED BY <1>2, <1>3, <2>1, <2>3
<1> QED BY <1>3, <1>4

\* And k elements at which f is not less than at the others.
LEMMA LargestElements ==
  ASSUME NEW S, IsFiniteSet(S), NEW f, \A x \in S : f[x] \in Nat,
         NEW k \in Nat, k <= Cardinality(S)
  PROVE  \E U \in SUBSET S : /\ Cardinality(U) = k
                             /\ \A x \in U, y \in S \ U : f[x] >= f[y]
<1> DEFINE High == {U \in SUBSET S : /\ Cardinality(U) >= k
                                     /\ \A x \in U, y \in S \ U : f[x] >= f[y]}
<1>1. S \in High
  OBVIOUS
<1>2. PICK U \in High : \A V \in High : V \subseteq U => V = U
  <2>1. High \subseteq SUBSET S /\ High # {}
    BY <1>1
  <2> HIDE DEF High
  <2> QED BY <2>1, MinimalSubset
<1>3. IsFiniteSet(U) /\ Cardinality(U) \in Nat
  BY FS_Subset, FS_CardinalityType
<1>4. ASSUME Cardinality(U) > k
      PROVE  FALSE
  <2>1. U # {}
    BY <1>4, FS_EmptySet
  <2>2. PICK x \in U : \A y \in U : f[x] <= f[y]
    <3> HIDE DEF High
    <3>1. \A y \in U : f[y] \in Nat
      BY DEF High
    <3> QED BY <1>3, <2>1, <3>1, LeastElement
  <2> DEFINE V == U \ {x}
  <2>3. Cardinality(V) = Cardinality(U) - 1
    BY <1>3, FS_RemoveElement
  <2>4. ASSUME NEW y \in V, NEW z \in S \ V
        PROVE  f[y] >= f[z]
    <3>1. CASE z = x
      BY <2>2, <3>1
    <3>2. CASE z # x
      BY <3>2
    <3> QED BY <3>1, <3>2
  <2>5. V \in High
    BY <1>3, <1>4, <2>3, <2>4
  <2> HIDE DEF High
  <2> QED BY <1>2, <2>2, <2>5
<1> QED BY <1>3, <1>4

-----------------------------------------------------------------------------
(* Quotas                                                                  *)

\* A table with votes.
IsTable(votes) ==
    /\ votes \in [Parties(votes) -> Nat]
    /\ IsFiniteSet(Parties(votes))
    /\ SumFunction(votes) > 0

Floors(votes) == [p \in Parties(votes) |-> FloorQuota(votes, p)]
Fractions(votes) == [p \in Parties(votes) |-> Fraction(votes, p)]
\* The seats that the floors leave, and the parties with a fraction.
Open(votes) == TotalPartyListSeats - SumFunction(Floors(votes))
Fractional(votes) == {p \in Parties(votes) : Fraction(votes, p) > 0}
\* The base seats when the quotas of the parties of a set came out too low.
Lowered(votes, below) ==
    [p \in Parties(votes) |-> FloorQuota(votes, p) - (IF p \in below THEN 1 ELSE 0)]
Chosen(P, W) == [p \in P |-> IF p \in W THEN 1 ELSE 0]

LEMMA Division ==
  ASSUME NEW a \in Nat, NEW d \in Nat, d > 0
  PROVE  a \div d \in Nat /\ a % d \in Nat /\ a % d < d /\ a = d * (a \div d) + (a % d)
  OBVIOUS

LEMMA TotalIsPositive ==
  ASSUME NEW votes, IsTable(votes)
  PROVE  SumFunction(votes) \in Nat /\ SumFunction(votes) > 0
  BY SumIsInt DEF IsTable, SumFunction, Parties

LEMMA QuotaParts ==
  ASSUME NEW votes, IsTable(votes), NEW p \in Parties(votes)
  PROVE  /\ FloorQuota(votes, p) \in Nat
         /\ Fraction(votes, p) \in Nat
         /\ Fraction(votes, p) < SumFunction(votes)
         /\ TotalPartyListSeats * votes[p] =
               SumFunction(votes) * FloorQuota(votes, p) + Fraction(votes, p)
<1> DEFINE d == SumFunction(votes)
           q == Quota(votes, p)
<1>1. d \in Nat /\ d > 0
  BY TotalIsPositive
<1>2. votes[p] \in Nat
  BY DEF IsTable
<1>3. q \in Nat /\ q = TotalPartyListSeats * votes[p]
  BY <1>2, SeatCalculatorAssumption DEF Quota
<1>4. FloorQuota(votes, p) = q \div d /\ Fraction(votes, p) = q % d
  BY DEF FloorQuota, Fraction
<1> HIDE DEF d, q
<1>5. q \div d \in Nat /\ q % d \in Nat /\ q % d < d /\ q = d * (q \div d) + (q % d)
  BY <1>1, <1>3, Division
<1> QED BY <1>3, <1>4, <1>5 DEF d

LEMMA SumOfFractions ==
  ASSUME NEW votes, IsTable(votes)
  PROVE  /\ SumFunction(Floors(votes)) \in Int
         /\ SumFunction(Fractions(votes)) = SumFunction(votes) * Open(votes)
<1> DEFINE P == Parties(votes)
           d == SumFunction(votes)
           N == TotalPartyListSeats
           q == [p \in P |-> N * votes[p]]
           none == [p \in P |-> 0]
           Sum(f) == SumFunctionOnSet(f, P)
<1>1. IsFiniteSet(P) /\ (\A p \in P : votes[p] \in Nat) /\ d = Sum(votes)
  BY DEF IsTable, SumFunction, Parties
<1>2. d \in Nat /\ N \in Nat
  BY TotalIsPositive, SeatCalculatorAssumption
<1>3. Sum(none) = 0
  <2>1. Sum(none) = Cardinality({})
    BY <1>1, SumCounts
  <2> QED BY <2>1, FS_EmptySet
<1>4. Sum(q) = N * d
  <2>1. \A p \in P : votes[p] \in Int /\ none[p] \in Int /\ q[p] = N * votes[p] + none[p]
    BY <1>1, <1>2
  <2>2. Sum(q) = N * Sum(votes) + Sum(none)
    <3> HIDE DEF q, none, N, P
    <3> QED BY <1>1, <1>2, <2>1, SumIsLinear
  <2> QED BY <1>1, <1>2, <1>3, <2>2
<1> DEFINE F == Floors(votes)
           R == Fractions(votes)
<1>5. \A p \in P : F[p] \in Int /\ R[p] \in Int /\ q[p] = d * F[p] + R[p]
  BY QuotaParts DEF Floors, Fractions
<1>6. Sum(q) = d * Sum(F) + Sum(R)
  <2> HIDE DEF q, F, R, d, P
  <2> QED BY <1>1, <1>2, <1>5, SumIsLinear
<1>7. Sum(F) \in Int /\ Sum(R) \in Int
  <2> HIDE DEF F, R, P
  <2> QED BY <1>1, <1>5, SumIsInt
<1>8. SumFunction(F) = Sum(F) /\ SumFunction(R) = Sum(R)
  BY DEF SumFunction, Floors, Fractions
<1>9. Open(votes) = N - Sum(F)
  BY <1>8 DEF Open
<1>10. d * (N - Sum(F)) = d * N - d * Sum(F) /\ N * d = d * N
  <2> HIDE DEF d, N, F, Sum
  <2> QED BY <1>2, <1>7
<1> HIDE DEF d, N, F, R, Sum, q
<1> QED BY <1>2, <1>4, <1>6, <1>7, <1>8, <1>9, <1>10 DEF d, F, R

\* There is a party with a fraction for each seat that is left.
LEMMA SeatsAreTaken ==
  ASSUME NEW votes, IsTable(votes)
  PROVE  /\ Open(votes) \in Nat
         /\ IsFiniteSet(Fractional(votes))
         /\ Open(votes) <= Cardinality(Fractional(votes))
<1> DEFINE P == Parties(votes)
           d == SumFunction(votes)
           K == Open(votes)
           R == Fractions(votes)
           up == Fractional(votes)
           one == Chosen(P, up)
           none == Chosen(P, {})
           most == [p \in P |-> d * one[p] + none[p]]
           Sum(f) == SumFunctionOnSet(f, P)
<1>1. IsFiniteSet(P) /\ up \in SUBSET P /\ IsFiniteSet(up) /\ Cardinality(up) \in Nat
  BY FS_Subset, FS_CardinalityType DEF IsTable, Fractional
<1>2. d \in Nat /\ d > 0
  BY TotalIsPositive
<1>3. K \in Int /\ Sum(R) = d * K
  BY SumOfFractions, SeatCalculatorAssumption DEF Open, SumFunction, Fractions
<1>4. Sum(one) = Cardinality(up) /\ Sum(none) = 0
  BY <1>1, SumCounts, FS_EmptySet DEF Chosen
<1>5. \A p \in P : one[p] \in {0, 1} /\ none[p] = 0 /\ most[p] = d * one[p] + none[p]
  BY DEF Chosen
<1>6. \A p \in P : R[p] \in Int /\ most[p] \in Int /\ 0 <= R[p] /\ R[p] <= most[p]
  <2> SUFFICES ASSUME NEW p \in P
               PROVE  R[p] \in Int /\ most[p] \in Int /\ 0 <= R[p] /\ R[p] <= most[p]
    OBVIOUS
  <2>1. R[p] \in Nat /\ R[p] < d
    BY QuotaParts DEF Fractions
  <2>2. CASE p \in up
    <3>1. one[p] = 1 /\ most[p] = d
      BY <1>2, <1>5, <2>2 DEF Chosen
    <3> QED BY <1>2, <2>1, <3>1
  <2>3. CASE p \notin up
    <3>1. one[p] = 0 /\ most[p] = 0 /\ R[p] = 0
      BY <1>2, <1>5, <2>1, <2>3 DEF Chosen, Fractions, Fractional
    <3> QED BY <3>1
  <2> QED BY <2>2, <2>3
<1>7. Sum(most) = d * Cardinality(up)
  <2>1. \A p \in P : one[p] \in Int /\ none[p] \in Int
    BY <1>5
  <2>2. Sum(most) = d * Sum(one) + Sum(none)
    <3> HIDE DEF P, d, one, none, most
    <3> QED BY <1>1, <1>2, <1>5, <2>1, SumIsLinear
  <2> QED BY <1>1, <1>2, <1>4, <2>2
<1>8. Sum(R) <= Sum(most)
  <2> HIDE DEF P, R, most
  <2> QED BY <1>1, <1>6, SumIsMonotonic
<1>9. Sum(none) <= Sum(R)
  <2>1. \A p \in P : none[p] \in Int /\ R[p] \in Int /\ none[p] <= R[p]
    BY <1>5, <1>6
  <2> HIDE DEF P, R, none
  <2> QED BY <1>1, <2>1, SumIsMonotonic
<1>10. 0 <= d * K /\ d * K <= d * Cardinality(up)
  BY <1>3, <1>4, <1>7, <1>8, <1>9
<1> HIDE DEF d, K, up
<1>11. 0 <= K /\ K <= Cardinality(up)
  BY <1>1, <1>2, <1>3, <1>10
<1> QED BY <1>1, <1>3, <1>11 DEF K, up

-----------------------------------------------------------------------------
(* Allocations                                                             *)

\* Giving one seat more, or one less, to the parties of a set.
LEMMA SumWithChosen ==
  ASSUME NEW P, IsFiniteSet(P), NEW f, NEW W \in SUBSET P, NEW k \in Int, NEW h,
         \A p \in P : f[p] \in Int,
         h = [p \in P |-> k * Chosen(P, W)[p] + f[p]]
  PROVE  SumFunction(h) = k * Cardinality(W) + SumFunctionOnSet(f, P)
<1> DEFINE one == Chosen(P, W)
<1>1. \A p \in P : one[p] \in Int /\ h[p] = k * one[p] + f[p]
  BY DEF Chosen
<1>2. SumFunctionOnSet(one, P) = Cardinality(W)
  BY SumCounts DEF Chosen
<1>3. SumFunctionOnSet(h, P) = k * SumFunctionOnSet(one, P) + SumFunctionOnSet(f, P)
  <2> HIDE DEF one
  <2> QED BY <1>1, SumIsLinear
<1> QED BY <1>2, <1>3 DEF SumFunction

LEMMA SumOfBase ==
  ASSUME NEW votes, IsTable(votes), NEW below \in SUBSET Parties(votes), NEW base,
         base = Lowered(votes, below)
  PROVE  SeatsLeft(base) = Open(votes) + Cardinality(below)
<1> DEFINE P == Parties(votes)
           F == Floors(votes)
<1>1. \A p \in P : F[p] = FloorQuota(votes, p) /\ F[p] \in Int
  BY QuotaParts DEF Floors
<1>2. base = [p \in P |-> (-1) * Chosen(P, below)[p] + F[p]]
  BY <1>1 DEF Chosen, Lowered
<1>3. IsFiniteSet(P) /\ -1 \in Int
  BY DEF IsTable
<1>4. SumFunction(base) = (-1) * Cardinality(below) + SumFunctionOnSet(F, P)
  <2> HIDE DEF F, P
  <2> QED BY <1>1, <1>2, <1>3, SumWithChosen DEF P
<1>5. SumFunctionOnSet(F, P) = SumFunction(F)
  BY DEF SumFunction, Floors
<1>6. Cardinality(below) \in Nat
  BY <1>3, FS_Subset, FS_CardinalityType
<1> QED BY <1>4, <1>5, <1>6, SumOfFractions, SeatCalculatorAssumption DEF SeatsLeft, Open

LEMMA SumOfRoundedUp ==
  ASSUME NEW votes, IsTable(votes), NEW U \in SUBSET Parties(votes)
  PROVE  SumFunction(RoundedUp(votes, U)) = TotalPartyListSeats - Open(votes) + Cardinality(U)
<1> DEFINE P == Parties(votes)
           F == Floors(votes)
           s == RoundedUp(votes, U)
<1>1. \A p \in P : F[p] = FloorQuota(votes, p) /\ F[p] \in Int
  BY QuotaParts DEF Floors
<1>2. s = [p \in P |-> 1 * Chosen(P, U)[p] + F[p]]
  BY <1>1 DEF Chosen, RoundedUp
<1>3. IsFiniteSet(P) /\ 1 \in Int
  BY DEF IsTable
<1>4. SumFunction(s) = 1 * Cardinality(U) + SumFunctionOnSet(F, P)
  <2> HIDE DEF F, P, s
  <2> QED BY <1>1, <1>2, <1>3, SumWithChosen DEF P
<1>5. SumFunctionOnSet(F, P) = SumFunction(F)
  BY DEF SumFunction, Floors
<1>6. Cardinality(U) \in Nat
  BY <1>3, FS_Subset, FS_CardinalityType
<1> QED BY <1>4, <1>5, <1>6, SumOfFractions, SeatCalculatorAssumption DEF Open

\* The remainder that the sort sees: that of a quota that came out below a
\* whole number is a whole seat, and larger than all others.
LEMMA RemainderIs ==
  ASSUME NEW votes, IsTable(votes), NEW below \in SUBSET Parties(votes), NEW base,
         base = Lowered(votes, below),
         NEW p \in Parties(votes)
  PROVE  Remainder(votes, base, p) =
            IF p \in below THEN Fraction(votes, p) + SumFunction(votes) ELSE Fraction(votes, p)
<1> DEFINE d == SumFunction(votes)
           F == FloorQuota(votes, p)
           R == Fraction(votes, p)
<1>1. F \in Nat /\ R \in Nat /\ TotalPartyListSeats * votes[p] = d * F + R
  BY QuotaParts
<1>2. d \in Nat /\ votes[p] \in Nat /\ TotalPartyListSeats \in Nat
  BY TotalIsPositive, SeatCalculatorAssumption DEF IsTable
<1>3. Quota(votes, p) = d * F + R
  BY <1>1, <1>2 DEF Quota
<1>4. Remainder(votes, base, p) = (d * F + R) - base[p] * d
  BY <1>3 DEF Remainder
<1>5. base[p] = IF p \in below THEN F - 1 ELSE F
  BY <1>1 DEF Lowered
<1> HIDE DEF d, F, R
<1>6. (F - 1) * d = d * F - d /\ F * d = d * F /\ d * F \in Int
  BY <1>1, <1>2
<1>7. CASE p \in below
  BY <1>1, <1>2, <1>4, <1>5, <1>6, <1>7 DEF d, R
<1>8. CASE p \notin below
  BY <1>1, <1>2, <1>4, <1>5, <1>6, <1>8 DEF R
<1> QED BY <1>7, <1>8

\* Parties whose quota came out too low win their seat back, and the seats
\* that are left otherwise go to parties with a fraction.
LEMMA WinnersAre ==
  ASSUME NEW votes, IsTable(votes), NEW below \in SUBSET Whole(votes), NEW base,
         base = Lowered(votes, below),
         NEW W \in Winners(votes, base)
  PROVE  /\ below \subseteq W /\ W \subseteq Parties(votes)
         /\ Cardinality(W \ below) = Open(votes)
         /\ W \ below \subseteq Fractional(votes)
         /\ \A p \in W \ below, q \in Parties(votes) \ (W \ below) :
               Fraction(votes, p) >= Fraction(votes, q)
<1> DEFINE P == Parties(votes)
           d == SumFunction(votes)
           R(p) == Fraction(votes, p)
           Rem(p) == Remainder(votes, base, p)
           up == Fractional(votes)
           K == Open(votes)
<1>1. below \in SUBSET P /\ (\A p \in below : R(p) = 0) /\ IsFiniteSet(P)
  BY DEF Whole, Fraction, IsTable
<1>2. \A p \in P : R(p) \in Nat /\ R(p) < d /\ Rem(p) = IF p \in below THEN R(p) + d ELSE R(p)
  BY <1>1, QuotaParts, RemainderIs
<1>3. d \in Nat /\ d > 0
  BY TotalIsPositive
<1>4. K \in Nat /\ K <= Cardinality(up) /\ up \in SUBSET P /\ up \cap below = {}
  BY <1>1, SeatsAreTaken DEF Fractional
<1>5. IsFiniteSet(up) /\ IsFiniteSet(below) /\ Cardinality(up) \in Nat /\ Cardinality(below) \in Nat
  BY <1>1, <1>4, FS_Subset, FS_CardinalityType
<1>6. W \in SUBSET P /\ IsFiniteSet(W) /\ Cardinality(W) \in Nat
  BY <1>1, FS_Subset, FS_CardinalityType DEF Winners
<1>7. \A p \in W, q \in P \ W : Rem(p) >= Rem(q)
  BY DEF Winners, InFront
<1>8. Cardinality(W) = K + Cardinality(below)
  <2>1. SeatsLeft(base) = K + Cardinality(below)
    BY <1>1, SumOfBase
  <2>2. Cardinality(up \cup below) = Cardinality(up) + Cardinality(below)
    <3>1. Cardinality(up \cap below) = 0
      BY <1>4, FS_EmptySet, Zenon
    <3>2. Cardinality(up \cup below)
             = Cardinality(up) + Cardinality(below) - Cardinality(up \cap below)
      BY <1>5, FS_Union
    <3> HIDE DEF up
    <3> QED BY <1>5, <3>1, <3>2
  <2>3. Cardinality(up \cup below) <= Cardinality(P)
    <3>1. up \cup below \in SUBSET P
      BY <1>1, <1>4
    <3> QED BY <1>1, <3>1, FS_Subset
  <2>4. Cardinality(P) \in Nat
    BY <1>1, FS_CardinalityType
  <2>5. ~(Cardinality(P) < SeatsLeft(base))
    BY <1>4, <1>5, <2>1, <2>2, <2>3, <2>4
  <2> QED BY <2>1, <2>5 DEF Winners
<1>9. below \subseteq W
  <2> SUFFICES ASSUME NEW p \in below, p \notin W PROVE FALSE
    OBVIOUS
  <2>1. \A q \in W : q \in below
    <3> SUFFICES ASSUME NEW q \in W, q \notin below PROVE FALSE
      OBVIOUS
    <3>1. Rem(q) >= Rem(p) /\ Rem(q) = R(q) /\ Rem(p) = d /\ R(q) < d /\ R(q) \in Nat
      BY <1>1, <1>2, <1>3, <1>6, <1>7
    <3> QED BY <1>3, <3>1
  <2>2. W \in SUBSET below /\ W # below
    BY <2>1
  <2>3. Cardinality(W) < Cardinality(below)
    BY <1>5, <1>6, <2>2, FS_Subset
  <2> QED BY <1>4, <1>5, <1>6, <1>8, <2>3
<1>10. Cardinality(W \ below) = K
  <2>1. W \cap below = below
    BY <1>9
  <2>2. Cardinality(W \ below) = Cardinality(W) - Cardinality(below)
    BY <1>6, <2>1, FS_Difference
  <2> QED BY <1>4, <1>5, <1>8, <2>2
<1>11. ASSUME NEW p \in W \ below, NEW q \in P \ (W \ below)
       PROVE  R(p) >= R(q)
  <2>1. CASE q \in below
    BY <1>1, <1>2, <1>6, <2>1
  <2>2. CASE q \notin below
    <3>1. Rem(p) >= Rem(q) /\ Rem(p) = R(p) /\ Rem(q) = R(q)
      BY <1>2, <1>6, <1>7, <2>2
    <3> QED BY <3>1
  <2> QED BY <2>1, <2>2
<1>12. W \ below \subseteq up
  <2> SUFFICES ASSUME NEW p \in W \ below, p \notin up PROVE FALSE
    OBVIOUS
  <2>1. p \in P /\ R(p) \in Nat /\ ~(R(p) > 0)
    BY <1>2, <1>6 DEF Fractional
  <2>2. \A q \in up : q \in W \ below
    <3> SUFFICES ASSUME NEW q \in up, q \notin W \ below PROVE FALSE
      OBVIOUS
    <3>1. q \in P /\ R(q) > 0 /\ R(q) \in Nat
      BY <1>2, <1>4 DEF Fractional
    <3>2. R(p) >= R(q)
      BY <1>11, <3>1
    <3> QED BY <2>1, <3>1, <3>2
  <2>3. up \in SUBSET (W \ below) /\ up # W \ below /\ IsFiniteSet(W \ below)
    BY <1>6, <2>2, FS_Subset
  <2>4. Cardinality(up) < Cardinality(W \ below)
    BY <1>4, <1>5, <1>10, <2>3, FS_Subset
  <2> QED BY <1>4, <1>5, <1>10, <2>4
<1> QED BY <1>6, <1>9, <1>10, <1>11, <1>12

\* The calculator allocates by largest remainders, and may return every such
\* allocation: its rounding below whole quotas changes nothing, and it never
\* runs out of parties (CalculatePartyListSeats).
THEOREM AllocatesLargestRemainders ==
  ASSUME NEW votes, IsTable(votes)
  PROVE  CalculatePartyListSeats(votes) = LargestRemainder(votes)
<1> DEFINE P == Parties(votes)
           F(p) == FloorQuota(votes, p)
<1>1. ~(SumFunction(votes) = 0)
  BY TotalIsPositive
<1>2. \A p \in P : F(p) \in Nat /\ Fraction(votes, p) \in Nat
  BY QuotaParts
<1>3. TotalPartyListSeats \in Nat /\ Open(votes) \in Nat
  BY SeatCalculatorAssumption, SeatsAreTaken
<1>4. ASSUME NEW s \in CalculatePartyListSeats(votes)
      PROVE  s \in LargestRemainder(votes)
  <2>1. PICK base \in BaseSeats(votes) : \E W \in Winners(votes, base) :
           s = [p \in P |-> base[p] + (IF p \in W THEN 1 ELSE 0)]
    BY <1>1, <1>4 DEF CalculatePartyListSeats
  <2> PICK W \in Winners(votes, base) :
           s = [p \in P |-> base[p] + (IF p \in W THEN 1 ELSE 0)]
    BY <2>1
  <2>2. PICK below \in SUBSET Whole(votes) : base = Lowered(votes, below)
    BY DEF BaseSeats, Lowered
  <2> DEFINE U == W \ below
  <2>3. /\ below \subseteq W /\ W \subseteq P
        /\ Cardinality(U) = Open(votes)
        /\ U \subseteq Fractional(votes)
        /\ \A p \in U, q \in P \ U : Fraction(votes, p) >= Fraction(votes, q)
    BY <2>2, WinnersAre
  <2>4. s = RoundedUp(votes, U)
    <3>1. ASSUME NEW p \in P
          PROVE  base[p] + (IF p \in W THEN 1 ELSE 0) = F(p) + (IF p \in U THEN 1 ELSE 0)
      <4>1. F(p) \in Nat /\ base[p] = F(p) - (IF p \in below THEN 1 ELSE 0)
        BY <1>2, <2>2 DEF Lowered
      <4>2. p \in below => p \in W
        BY <2>3
      <4> HIDE DEF F
      <4> QED BY <4>1, <4>2
    <3> QED BY <3>1 DEF RoundedUp
  <2>5. \A p \in P : s[p] = F(p) + (IF p \in U THEN 1 ELSE 0)
    BY <2>4 DEF RoundedUp
  <2>6. SumFunction(s) = TotalPartyListSeats
    <3>1. U \in SUBSET P
      BY <2>3
    <3>2. SumFunction(s) = TotalPartyListSeats - Open(votes) + Cardinality(U)
      BY <2>4, <3>1, SumOfRoundedUp
    <3> QED BY <1>3, <2>3, <3>2
  <2>7. \A p \in P : \/ s[p] = F(p)
                     \/ s[p] = F(p) + 1 /\ Fraction(votes, p) > 0
    BY <1>2, <2>3, <2>5 DEF Fractional
  <2>8. ASSUME NEW p \in P, NEW q \in P, s[p] > F(p), s[q] = F(q)
        PROVE  Fraction(votes, p) >= Fraction(votes, q)
    <3>1. p \in U /\ q \notin U
      BY <1>2, <2>5, <2>8
    <3> QED BY <2>3, <3>1
  <2>9. IsLargestRemainder(votes, s)
    BY <2>6, <2>7, <2>8 DEF IsLargestRemainder
  <2> QED BY <2>3, <2>4, <2>9 DEF LargestRemainder
<1>5. ASSUME NEW s \in LargestRemainder(votes)
      PROVE  s \in CalculatePartyListSeats(votes)
  <2>1. PICK U \in SUBSET P : s = RoundedUp(votes, U)
    BY <1>5 DEF LargestRemainder
  <2>2. IsLargestRemainder(votes, s)
    BY <1>5 DEF LargestRemainder
  <2> DEFINE base == Lowered(votes, {})
  <2>3. base \in BaseSeats(votes)
    <3>1. BaseSeats(votes) = {Lowered(votes, below) : below \in SUBSET Whole(votes)}
      BY DEF BaseSeats, Lowered
    <3>2. {} \in SUBSET Whole(votes)
      OBVIOUS
    <3> QED BY <3>1, <3>2
  <2>4. \A p \in P : base[p] = F(p) /\ s[p] = F(p) + (IF p \in U THEN 1 ELSE 0)
    BY <1>2, <2>1 DEF RoundedUp, Lowered
  <2>5. Cardinality(U) = SeatsLeft(base)
    <3>1. IsFiniteSet(U) /\ Cardinality(U) \in Nat
      BY FS_Subset, FS_CardinalityType DEF IsTable
    <3>2. SeatsLeft(base) = Open(votes) + Cardinality({})
      <4>1. {} \in SUBSET P
        OBVIOUS
      <4> QED BY <4>1, SumOfBase
    <3>3. SumFunction(s) = TotalPartyListSeats - Open(votes) + Cardinality(U)
      BY <2>1, SumOfRoundedUp
    <3>4. SumFunction(s) = TotalPartyListSeats
      BY <2>2 DEF IsLargestRemainder
    <3> QED BY <1>3, <3>1, <3>2, <3>3, <3>4, FS_EmptySet
  <2>6. InFront(votes, base, U)
    <3> SUFFICES ASSUME NEW p \in U, NEW q \in P \ U
                 PROVE  Remainder(votes, base, p) >= Remainder(votes, base, q)
      BY DEF InFront
    <3>1. /\ Remainder(votes, base, p) = Fraction(votes, p)
          /\ Remainder(votes, base, q) = Fraction(votes, q)
      <4>1. {} \in SUBSET P /\ p \in P /\ q \in P
        OBVIOUS
      <4> QED BY <4>1, RemainderIs
    <3>2. s[p] > F(p) /\ s[q] = F(q)
      BY <1>2, <2>4
    <3> QED BY <2>2, <3>1, <3>2 DEF IsLargestRemainder
  <2>7. U \in Winners(votes, base)
    BY <2>5, <2>6 DEF Winners
  <2>8. s = [p \in P |-> base[p] + (IF p \in U THEN 1 ELSE 0)]
    BY <2>1, <2>4 DEF RoundedUp
  <2> QED BY <1>1, <2>3, <2>7, <2>8 DEF CalculatePartyListSeats
<1> QED BY <1>4, <1>5

\* As soon as there are votes, an allocation comes out: there always are enough
\* parties with a fraction for the seats that the floors leave, and the largest
\* of them get the seats (CalculatePartyListSeats).
THEOREM SeatsAreGivenAway ==
  ASSUME NEW votes, IsTable(votes)
  PROVE  CalculatePartyListSeats(votes) # {}
<1> DEFINE P == Parties(votes)
           R == Fractions(votes)
           K == Open(votes)
           up == Fractional(votes)
<1>1. IsFiniteSet(P) /\ \A p \in P : R[p] = Fraction(votes, p) /\ R[p] \in Nat
  BY QuotaParts DEF IsTable, Fractions
<1>2. K \in Nat /\ K <= Cardinality(up) /\ up \in SUBSET P
  BY SeatsAreTaken DEF Fractional
<1>3. /\ IsFiniteSet(up) /\ Cardinality(up) \in Nat /\ Cardinality(P) \in Nat
      /\ Cardinality(up) <= Cardinality(P)
  BY <1>1, <1>2, FS_Subset, FS_CardinalityType
<1>4. PICK U \in SUBSET P : /\ Cardinality(U) = K
                            /\ \A p \in U, q \in P \ U : R[p] >= R[q]
  <2> HIDE DEF P, R, K
  <2> QED BY <1>1, <1>2, <1>3, LargestElements
<1>5. U \subseteq up
  <2> SUFFICES ASSUME NEW p \in U, p \notin up PROVE FALSE
    OBVIOUS
  <2>1. R[p] = 0
    BY <1>1 DEF Fractional
  <2>2. up \in SUBSET U /\ up # U
    <3>1. \A q \in up : R[q] > 0 /\ q \in P
      BY <1>1 DEF Fractional
    <3>2. \A q \in up : q \in U
      BY <1>1, <1>4, <2>1, <3>1
    <3> QED BY <3>2
  <2>3. IsFiniteSet(U)
    BY <1>1, FS_Subset
  <2>4. Cardinality(up) < Cardinality(U)
    <3> HIDE DEF up
    <3> QED BY <1>3, <2>2, <2>3, FS_Subset, FS_CardinalityType
  <2> QED BY <1>2, <1>3, <1>4, <2>4
<1> DEFINE s == RoundedUp(votes, U)
<1>6. \A p \in P : FloorQuota(votes, p) \in Nat
                   /\ s[p] = FloorQuota(votes, p) + (IF p \in U THEN 1 ELSE 0)
  BY QuotaParts DEF RoundedUp
<1>7. SumFunction(s) = TotalPartyListSeats
  <2>1. SumFunction(s) = TotalPartyListSeats - K + Cardinality(U)
    BY SumOfRoundedUp
  <2> QED BY <1>2, <1>4, <2>1, SeatCalculatorAssumption
<1>8. IsLargestRemainder(votes, s)
  <2>1. \A p \in P : \/ s[p] = FloorQuota(votes, p)
                     \/ s[p] = FloorQuota(votes, p) + 1 /\ Fraction(votes, p) > 0
    BY <1>5, <1>6 DEF Fractional
  <2>2. \A p, q \in P : s[p] > FloorQuota(votes, p) /\ s[q] = FloorQuota(votes, q)
                           => p \in U /\ q \notin U
    BY <1>6
  <2>3. \A p, q \in P : p \in U /\ q \notin U => Fraction(votes, p) >= Fraction(votes, q)
    BY <1>1, <1>4
  <2> QED BY <1>7, <2>1, <2>2, <2>3 DEF IsLargestRemainder
<1>9. s \in LargestRemainder(votes)
  BY <1>8 DEF LargestRemainder
<1> QED BY <1>9, AllocatesLargestRemainders

-----------------------------------------------------------------------------
(* What follows from largest remainders                                    *)

LEMMA PartOfSum ==
  ASSUME NEW S, IsFiniteSet(S), NEW f, \A x \in S : f[x] \in Nat, NEW x \in S
  PROVE  SumFunctionOnSet(f, S) \in Nat /\ f[x] <= SumFunctionOnSet(f, S)
<1> DEFINE R == S \ {x}
           none == Chosen(R, {})
<1>1. IsFiniteSet(R) /\ \A y \in R : none[y] = 0 /\ f[y] \in Nat
  BY FS_Subset DEF Chosen
<1>2. SumFunctionOnSet(none, R) = 0
  <2>1. SumFunctionOnSet(none, R) = Cardinality({})
    BY <1>1, SumCounts DEF Chosen
  <2> QED BY <2>1, FS_EmptySet
<1>3. SumFunctionOnSet(none, R) <= SumFunctionOnSet(f, R)
  <2>1. \A y \in R : none[y] \in Int /\ f[y] \in Int /\ none[y] <= f[y]
    BY <1>1
  <2> HIDE DEF R, none
  <2> QED BY <1>1, <2>1, SumIsMonotonic
<1>4. SumFunctionOnSet(f, S) = f[x] + SumFunctionOnSet(f, R)
  BY SumWithout
<1>5. SumFunctionOnSet(f, R) \in Int
  BY <1>1, SumIsInt
<1> QED BY <1>2, <1>3, <1>4, <1>5

\* Every allocation has a number of seats for each party, and all seats.
LEMMA AllocationIsComplete ==
  ASSUME NEW votes, IsTable(votes), NEW s \in CalculatePartyListSeats(votes)
  PROVE  /\ s \in [Parties(votes) -> 0..TotalPartyListSeats]
         /\ SumFunction(s) = TotalPartyListSeats
<1> DEFINE P == Parties(votes)
<1>1. s \in LargestRemainder(votes)
  BY AllocatesLargestRemainders
<1>2. SumFunction(s) = TotalPartyListSeats /\ \E U : s = RoundedUp(votes, U)
  BY <1>1 DEF LargestRemainder, IsLargestRemainder
<1>3. s = [p \in P |-> s[p]] /\ \A p \in P : s[p] \in Nat
  BY <1>2, QuotaParts DEF RoundedUp
<1>4. IsFiniteSet(P) /\ SumFunctionOnSet(s, P) = TotalPartyListSeats
  BY <1>2, <1>3 DEF IsTable, SumFunction
<1>5. \A p \in P : s[p] <= TotalPartyListSeats
  <2> HIDE DEF P
  <2> QED BY <1>3, <1>4, PartOfSum
<1> QED BY <1>2, <1>3, <1>5, SeatCalculatorAssumption

\* Without votes there are no seats.
LEMMA NoVotesNoSeats ==
  ASSUME NEW votes, SumFunction(votes) = 0
  PROVE  CalculatePartyListSeats(votes) = {[p \in Parties(votes) |-> 0]}
  BY DEF CalculatePartyListSeats

\* The arithmetic of one more vote, with n seats, d votes, v of them for a
\* party, its floor f and its fraction r.
LEMMA FloorGrows ==
  ASSUME NEW n \in Nat, NEW d \in Nat, NEW v \in Nat, v <= d, d > 0,
         NEW f \in Nat, NEW r \in Nat, r < d, n * v = d * f + r,
         NEW g \in Nat, NEW q \in Nat, q < d + 1, n * (v + 1) = (d + 1) * g + q
  PROVE  f <= n /\ f <= g
<1>1. n * v <= n * d /\ n * d = d * n
  OBVIOUS
<1>2. f <= n
  <2> SUFFICES ASSUME f >= n + 1 PROVE FALSE
    OBVIOUS
  <2>1. d * f >= d * (n + 1) /\ d * (n + 1) = d * n + d
    OBVIOUS
  <2> QED BY <1>1, <2>1
<1>3. f <= g
  <2> SUFFICES ASSUME f >= g + 1 PROVE FALSE
    OBVIOUS
  <2>1. (d + 1) * f >= (d + 1) * (g + 1) /\ (d + 1) * (g + 1) = (d + 1) * g + (d + 1)
    OBVIOUS
  <2>2. (d + 1) * f = d * f + f /\ n * (v + 1) = n * v + n
    OBVIOUS
  <2> QED BY <1>2, <2>1, <2>2
<1> QED BY <1>2, <1>3

LEMMA FloorShrinks ==
  ASSUME NEW m \in Nat, NEW d \in Nat, NEW f \in Nat, NEW r \in Nat, r < d, m = d * f + r,
         NEW g \in Nat, NEW q \in Nat, m = (d + 1) * g + q
  PROVE  g <= f
<1> SUFFICES ASSUME g >= f + 1 PROVE FALSE
  OBVIOUS
<1>1. d * g >= d * (f + 1) /\ d * (f + 1) = d * f + d /\ (d + 1) * g = d * g + g
  OBVIOUS
<1>2. d * f \in Nat /\ d * g \in Nat
  OBVIOUS
<1> QED BY <1>1, <1>2

\* With one more vote for p and the same floors, p's fraction cannot fall from
\* at least that of z to at most that of z.
LEMMA FractionsStay ==
  ASSUME NEW n \in Nat, NEW d \in Nat, NEW v \in Nat, v <= d, d > 0,
         NEW f \in Nat, NEW r \in Nat, r > 0, n * v = d * f + r, f <= n,
         NEW q \in Nat, n * (v + 1) = (d + 1) * f + q,
         NEW w \in Nat, NEW fz \in Nat, NEW rz \in Nat, NEW qz \in Nat,
         n * w = d * fz + rz, n * w = (d + 1) * fz + qz,
         r >= rz, qz >= q
  PROVE  FALSE
<1>1. n * (v + 1) = n * v + n /\ (d + 1) * f = d * f + f /\ (d + 1) * fz = d * fz + fz
  OBVIOUS
<1>2. d * f \in Nat /\ d * fz \in Nat /\ n * v \in Nat /\ n * w \in Nat
  OBVIOUS
<1>3. q + f = r + n /\ qz + fz = rz
  BY <1>1, <1>2
<1>4. f = n
  BY <1>3
<1>5. n * v <= n * d /\ d * n = n * d
  OBVIOUS
<1> QED BY <1>2, <1>4, <1>5

\* The table when p has k more votes.
MoreVotes(votes, p, k) == [votes EXCEPT ![p] = @ + k]

LEMMA VotesAreMore ==
  ASSUME NEW votes, IsTable(votes), NEW p \in Parties(votes), NEW k \in Nat, NEW more,
         more = MoreVotes(votes, p, k)
  PROVE  /\ IsTable(more) /\ Parties(more) = Parties(votes)
         /\ SumFunction(more) = SumFunction(votes) + k
         /\ \A q \in Parties(votes) : more[q] = IF q = p THEN votes[p] + k ELSE votes[q]
<1> DEFINE P == Parties(votes)
<1>1. IsFiniteSet(P) /\ P = DOMAIN votes /\ (\A q \in P : votes[q] \in Nat)
  BY DEF IsTable, Parties
<1>2. DOMAIN more = P
  BY <1>1 DEF MoreVotes
<1>3. \A q \in P : more[q] = IF q = p THEN votes[p] + k ELSE votes[q]
  BY <1>1 DEF MoreVotes
<1>4. more = [q \in P |-> k * Chosen(P, {p})[q] + votes[q]]
  <2>1. \A q \in P : more[q] = k * Chosen(P, {p})[q] + votes[q]
    BY <1>1, <1>3 DEF Chosen
  <2>2. more = [q \in P |-> more[q]]
    BY <1>1 DEF MoreVotes
  <2> QED BY <2>1, <2>2
<1>5. SumFunction(more) = k * Cardinality({p}) + SumFunctionOnSet(votes, P)
  <2> DEFINE W == {p}
  <2>1. W \in SUBSET P /\ k \in Int /\ \A q \in P : votes[q] \in Int
    BY <1>1
  <2>2. more = [q \in P |-> k * Chosen(P, W)[q] + votes[q]]
    BY <1>4
  <2>3. SumFunction(more) = k * Cardinality(W) + SumFunctionOnSet(votes, P)
    <3> HIDE DEF P, W
    <3> QED BY <1>1, <2>1, <2>2, SumWithChosen
  <2> QED BY <2>3
<1>6. SumFunction(more) = SumFunction(votes) + k
  <2>1. SumFunctionOnSet(votes, P) = SumFunction(votes)
    BY <1>1 DEF SumFunction
  <2>2. Cardinality({p}) = 1
    BY FS_Singleton
  <2>3. SumFunction(votes) \in Nat
    BY TotalIsPositive
  <2> HIDE DEF P
  <2> QED BY <1>5, <2>1, <2>2, <2>3
<1>7. more \in [P -> Nat]
  <2>1. more = [q \in P |-> more[q]]
    BY <1>1 DEF MoreVotes
  <2>2. \A q \in P : more[q] \in Nat
    BY <1>1, <1>3
  <2> HIDE DEF P
  <2> QED BY <2>1, <2>2
<1> QED BY <1>1, <1>2, <1>3, <1>6, <1>7, TotalIsPositive DEF IsTable, Parties

LEMMA OneVoteKeepsSeats ==
  ASSUME NEW votes, IsTable(votes), NEW p \in Parties(votes), NEW more,
         more = MoreVotes(votes, p, 1),
         NEW s \in CalculatePartyListSeats(votes),
         NEW t \in CalculatePartyListSeats(more)
  PROVE  t[p] >= s[p]
<1> DEFINE P == Parties(votes)
           n == TotalPartyListSeats
           d == SumFunction(votes)
           F(q) == FloorQuota(votes, q)
           R(q) == Fraction(votes, q)
           G(q) == FloorQuota(more, q)
           Q(q) == Fraction(more, q)
<1>1. /\ IsTable(more) /\ Parties(more) = P /\ SumFunction(more) = d + 1
      /\ \A q \in P : more[q] = IF q = p THEN votes[p] + 1 ELSE votes[q]
  BY VotesAreMore
<1>2. IsLargestRemainder(votes, s) /\ IsLargestRemainder(more, t)
  BY <1>1, AllocatesLargestRemainders DEF LargestRemainder
<1>3. \A q \in P : s[q] \in Int /\ t[q] \in Int
  BY <1>1, AllocationIsComplete, SeatCalculatorAssumption
<1>4. IsFiniteSet(P) /\ d \in Nat /\ d > 0 /\ n \in Nat /\ \A q \in P : votes[q] \in Nat
  BY TotalIsPositive, SeatCalculatorAssumption DEF IsTable
<1> SUFFICES ASSUME ~(t[p] >= s[p]) PROVE FALSE
  OBVIOUS
\* Somebody else has won a seat.
<1>5. PICK z \in P : t[z] > s[z]
  <2> SUFFICES ASSUME \A q \in P : ~(t[q] > s[q]) PROVE FALSE
    OBVIOUS
  <2>1. \A q \in P : t[q] <= s[q]
    BY <1>3
  <2>2. t[p] < s[p]
    BY <1>3
  <2>3. SumFunctionOnSet(t, P) < SumFunctionOnSet(s, P)
    <3> HIDE DEF P
    <3> QED BY <1>3, <1>4, <2>1, <2>2, SumIsStrict DEF P
  <2>4. SumFunctionOnSet(t, P) = n /\ SumFunctionOnSet(s, P) = n
    BY <1>1, AllocationIsComplete DEF SumFunction
  <2> QED BY <1>4, <2>3, <2>4
<1>6. z # p
  BY <1>3, <1>5
<1>7. \A q \in P : /\ F(q) \in Nat /\ R(q) \in Nat /\ R(q) < d
                   /\ n * votes[q] = d * F(q) + R(q)
  BY QuotaParts
<1>8. \A q \in P : /\ G(q) \in Nat /\ Q(q) \in Nat /\ Q(q) < d + 1
                   /\ n * more[q] = (d + 1) * G(q) + Q(q)
  BY <1>1, QuotaParts
<1>9. votes[p] <= d
  <2>1. d = SumFunctionOnSet(votes, P)
    BY DEF SumFunction, Parties
  <2> HIDE DEF d, P
  <2> QED BY <1>4, <2>1, PartOfSum DEF P
<1>10. more[p] = votes[p] + 1 /\ more[z] = votes[z]
  BY <1>1, <1>6
<1> HIDE DEF P, n, d, F, R, G, Q
<1>11. F(p) <= n /\ F(p) <= G(p)
  <2>1. p \in P
    BY DEF P
  <2> QED BY <1>4, <1>7, <1>8, <1>9, <1>10, <2>1, FloorGrows
<1>12. G(z) <= F(z)
  <2>1. n * votes[z] \in Nat
    BY <1>4
  <2>2. /\ F(z) \in Nat /\ R(z) \in Nat /\ R(z) < d /\ n * votes[z] = d * F(z) + R(z)
        /\ G(z) \in Nat /\ Q(z) \in Nat /\ n * votes[z] = (d + 1) * G(z) + Q(z)
    BY <1>7, <1>8, <1>10
  <2> QED BY <1>4, <2>1, <2>2, FloorShrinks
\* Both floors are unchanged, p was rounded up and is not now, z the reverse.
<1>13. \A q \in P : /\ s[q] = F(q) \/ (s[q] = F(q) + 1 /\ R(q) > 0)
                    /\ t[q] = G(q) \/ (t[q] = G(q) + 1 /\ Q(q) > 0)
  <2>1. \A q \in P : s[q] = F(q) \/ (s[q] = F(q) + 1 /\ R(q) > 0)
    BY <1>2 DEF IsLargestRemainder, P, F, R
  <2>2. \A q \in P : t[q] = G(q) \/ (t[q] = G(q) + 1 /\ Q(q) > 0)
    BY <1>1, <1>2 DEF IsLargestRemainder, G, Q
  <2> QED BY <2>1, <2>2
<1>14. /\ s[p] = F(p) + 1 /\ R(p) > 0 /\ t[p] = G(p) /\ G(p) = F(p)
       /\ s[z] = F(z) /\ t[z] = G(z) + 1 /\ G(z) = F(z)
  <2>1. p \in P
    BY DEF P
  <2>2. s[p] = F(p) + 1 /\ R(p) > 0 /\ t[p] = G(p) /\ G(p) = F(p)
    BY <1>3, <1>7, <1>8, <1>11, <1>13, <2>1
  <2>3. s[z] = F(z) /\ t[z] = G(z) + 1 /\ G(z) = F(z)
    BY <1>3, <1>5, <1>7, <1>8, <1>12, <1>13
  <2> QED BY <2>2, <2>3
<1>15. R(p) >= R(z) /\ Q(z) >= Q(p)
  <2>1. p \in P /\ s[p] > F(p) /\ t[z] > G(z)
    BY <1>7, <1>8, <1>14 DEF P
  <2> QED BY <1>1, <1>2, <1>13, <1>14, <2>1 DEF IsLargestRemainder, P, F, R, G, Q
<1>16. p \in P
  BY DEF P
<1> QED
  BY <1>4, <1>7, <1>8, <1>9, <1>10, <1>11, <1>14, <1>15, <1>16, FractionsStay

\* More votes never cost a seat: whatever order the sort puts equal remainders
\* in, and however many votes a party gets, it keeps every seat that it had
\* (CalculatePartyListSeats).
THEOREM MoreVotesKeepSeats ==
  ASSUME NEW votes, IsTable(votes), NEW p \in Parties(votes), NEW k \in Nat \ {0},
         NEW s \in CalculatePartyListSeats(votes),
         NEW t \in CalculatePartyListSeats(MoreVotes(votes, p, k))
  PROVE  t[p] >= s[p]
<1> DEFINE M(n) == MoreVotes(votes, p, n)
           Costs(n) == \E u \in CalculatePartyListSeats(M(n)) : ~(u[p] >= s[p])
           Bad == {1..n : n \in {m \in 1..k : Costs(m)}}
<1> SUFFICES ASSUME ~(t[p] >= s[p]) PROVE FALSE
  OBVIOUS
<1>1. Bad \subseteq SUBSET (1..k) /\ Bad # {}
  OBVIOUS
<1>2. PICK T \in Bad : \A U \in Bad : U \subseteq T => U = T
  <2> DEFINE S == 1..k
  <2>1. IsFiniteSet(S) /\ Bad \subseteq SUBSET S /\ Bad # {}
    BY <1>1, FS_Interval
  <2> HIDE DEF Bad, S
  <2> QED BY <2>1, MinimalSubset
<1>3. PICK n \in 1..k : Costs(n) /\ T = 1..n
  OBVIOUS
<1>4. ASSUME n > 1
      PROVE  ~Costs(n - 1)
  <2> HIDE DEF Costs
  <2> SUFFICES ASSUME Costs(n - 1) PROVE FALSE
    OBVIOUS
  <2>1. n - 1 \in 1..k
    BY <1>4
  <2>2. 1..(n - 1) \in Bad
    BY <2>1
  <2>3. 1..(n - 1) \subseteq T /\ n \in T /\ n \notin 1..(n - 1)
    BY <1>3
  <2> QED BY <1>2, <2>2, <2>3
<1>5. PICK u \in CalculatePartyListSeats(M(n)) : ~(u[p] >= s[p])
  BY <1>3
<1>6. CASE n = 1
  BY <1>5, <1>6, OneVoteKeepsSeats
<1>7. CASE n > 1
  <2> DEFINE less == M(n - 1)
  <2>1. n - 1 \in Nat /\ IsTable(less) /\ p \in Parties(less)
    BY VotesAreMore
  <2>2. M(n) = MoreVotes(less, p, 1)
    BY DEF MoreVotes, Parties, IsTable
  <2>3. PICK v \in CalculatePartyListSeats(less) : v[p] >= s[p]
    BY <1>4, <1>7, <2>1, SeatsAreGivenAway
  <2>4. u[p] >= v[p]
    <3> HIDE DEF less, M
    <3> QED BY <1>5, <2>1, <2>2, OneVoteKeepsSeats
  <2>5. s[p] \in Int /\ v[p] \in Int /\ u[p] \in Int
    <3>1. IsTable(M(n)) /\ Parties(M(n)) = Parties(votes) /\ Parties(less) = Parties(votes)
      BY <2>1, VotesAreMore
    <3> HIDE DEF less, M
    <3> QED BY <2>1, <3>1, <1>5, AllocationIsComplete
  <2> QED BY <1>5, <2>3, <2>4, <2>5
<1> QED BY <1>6, <1>7
=============================================================================
