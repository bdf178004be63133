----------------------------- MODULE SumsTheorems -----------------------------
(***************************************************************************)
(* The laws of SumOf that the proofs about the ledger rest on, and the     *)
(* least number, which stands in for induction in the others.              *)
(***************************************************************************)
EXTENDS Sums, FiniteSetTheorems, WellFoundedInduction, TLAPS

\* A unit of S is a pair of a member x of S and a number in 1 .. f[x].
LEMMA UnitsMember ==
    ASSUME NEW f, NEW S, NEW u
    PROVE  u \in Units(f, S) <=> \E x \in S : \E i \in 1 .. f[x] : u = <<x, i>>
BY DEF Units

\* Finitely many members have finitely many units.
LEMMA UnitsFinite ==
    ASSUME NEW f, NEW S, IsFiniteSet(S), \A x \in S : f[x] \in Nat
    PROVE  IsFiniteSet(Units(f, S))
<1> DEFINE blocks == {{x} \X (1 .. f[x]) : x \in S}
           block == [x \in S |-> {x} \X (1 .. f[x])]
<1>1. block \in Surjection(S, blocks)
  BY DEF Surjection
<1>2. IsFiniteSet(blocks)
  <2> HIDE DEF block, blocks
  <2> QED BY <1>1, FS_Surjection
<1>3. \A B \in blocks : IsFiniteSet(B)
  <2> SUFFICES ASSUME NEW x \in S
               PROVE  IsFiniteSet({x} \X (1 .. f[x]))
    OBVIOUS
  <2>1. IsFiniteSet(1 .. f[x])
    BY FS_Interval
  <2>2. IsFiniteSet({x})
    BY FS_Singleton
  <2> QED BY <2>1, <2>2, FS_Product
<1>4. IsFiniteSet(UNION blocks)
  <2> HIDE DEF blocks
  <2> QED BY <1>2, <1>3, FS_UNION
<1> QED BY <1>4 DEF Units

\* A sum of natural numbers is a natural number.
LEMMA SumType ==
    ASSUME NEW f, NEW S, IsFiniteSet(S), \A x \in S : f[x] \in Nat
    PROVE  SumOf(f, S) \in Nat
BY UnitsFinite, FS_CardinalityType DEF SumOf

\* A sum depends on the values in S only.
LEMMA SumEqual ==
    ASSUME NEW f, NEW g, NEW S, \A x \in S : f[x] = g[x]
    PROVE  SumOf(f, S) = SumOf(g, S)
<1>1. Units(f, S) = Units(g, S)
  BY DEF Units
<1> QED BY <1>1 DEF SumOf

\* Members whose value is zero do not count.
LEMMA SumSupport ==
    ASSUME NEW f, NEW S, NEW T, T \subseteq S, \A x \in S \ T : f[x] = 0
    PROVE  SumOf(f, S) = SumOf(f, T)
<1>1. ASSUME NEW u PROVE u \in Units(f, S) <=> u \in Units(f, T)
  BY UnitsMember
<1>2. Units(f, S) = Units(f, T)
  BY <1>1
<1> QED BY <1>2 DEF SumOf

\* A sum of zeros is zero.
LEMMA SumZero ==
    ASSUME NEW f, NEW S, \A x \in S : f[x] = 0
    PROVE  SumOf(f, S) = 0
<1>1. Units(f, S) = {}
  BY UnitsMember
<1> QED BY <1>1, FS_EmptySet DEF SumOf

\* A sum with one member that is not zero is the value of that member.
LEMMA SumSingle ==
    ASSUME NEW f, NEW S, NEW x \in S, f[x] \in Nat, \A y \in S \ {x} : f[y] = 0
    PROVE  SumOf(f, S) = f[x]
<1>1. Units(f, S) = {x} \X (1 .. f[x])
  <2>1. ASSUME NEW u PROVE u \in Units(f, S) <=> u \in {x} \X (1 .. f[x])
    BY UnitsMember
  <2> QED BY <2>1
<1>2. IsFiniteSet(1 .. f[x]) /\ Cardinality(1 .. f[x]) = f[x]
  BY FS_Interval
<1>3. IsFiniteSet({x}) /\ Cardinality({x}) = 1
  BY FS_Singleton
<1>4. Cardinality({x} \X (1 .. f[x])) = 1 * f[x]
  BY <1>2, <1>3, FS_Product
<1> QED BY <1>1, <1>4 DEF SumOf

\* The sum of a pointwise sum is the sum of the sums.
THEOREM SumPlus ==
    ASSUME NEW f, NEW g, NEW h, NEW S, IsFiniteSet(S),
           \A x \in S : f[x] \in Nat /\ g[x] \in Nat /\ h[x] = f[x] + g[x]
    PROVE  SumOf(h, S) = SumOf(f, S) + SumOf(g, S)
<1> DEFINE F == Units(f, S)
           G == Units(g, S)
           H == Units(h, S)
           T == H \ F
           shift == [u \in G |-> <<u[1], u[2] + f[u[1]]>>]
<1>1. F \subseteq H
  BY UnitsMember
<1>2. \A x \in S : h[x] \in Nat
  OBVIOUS
<1>3. IsFiniteSet(F) /\ IsFiniteSet(G) /\ IsFiniteSet(H)
  BY <1>2, UnitsFinite
<1>4. ASSUME NEW u
      PROVE  u \in T <=> \E x \in S : \E i \in 1 .. g[x] : u = <<x, i + f[x]>>
  <2>1. ASSUME u \in T PROVE \E x \in S : \E i \in 1 .. g[x] : u = <<x, i + f[x]>>
    <3>1. PICK x \in S : \E j \in 1 .. h[x] : u = <<x, j>>
      BY <2>1, UnitsMember
    <3>2. PICK j \in 1 .. h[x] : u = <<x, j>>
      BY <3>1
    <3>3. j \notin 1 .. f[x]
      BY <2>1, <3>2, UnitsMember
    <3>4. j - f[x] \in 1 .. g[x] /\ j = (j - f[x]) + f[x]
      BY <3>3
    <3> QED BY <3>2, <3>4
  <2>2. ASSUME NEW x \in S, NEW i \in 1 .. g[x], u = <<x, i + f[x]>> PROVE u \in T
    <3>1. i + f[x] \in 1 .. h[x] /\ i + f[x] \notin 1 .. f[x]
      OBVIOUS
    <3>2. u \in H
      BY <2>2, <3>1, UnitsMember
    <3>3. u \notin F
      BY <2>2, <3>1, UnitsMember
    <3> QED BY <3>2, <3>3
  <2> QED BY <2>1, <2>2
<1>5. ASSUME NEW u \in G
      PROVE  \E x \in S : \E i \in 1 .. g[x] : u = <<x, i>> /\ shift[u] = <<x, i + f[x]>>
  BY UnitsMember
<1>6. shift \in Bijection(G, T)
  <2>1. shift \in [G -> T]
    <3>1. ASSUME NEW u \in G PROVE shift[u] \in T
      BY <1>4, <1>5
    <3> QED BY <3>1
  <2>2. ASSUME NEW u \in G, NEW v \in G, shift[u] = shift[v] PROVE u = v
    <3>1. PICK x \in S : \E i \in 1 .. g[x] : u = <<x, i>> /\ shift[u] = <<x, i + f[x]>>
      BY <1>5
    <3>2. PICK i \in 1 .. g[x] : u = <<x, i>> /\ shift[u] = <<x, i + f[x]>>
      BY <3>1
    <3>3. PICK y \in S : \E j \in 1 .. g[y] : v = <<y, j>> /\ shift[v] = <<y, j + f[y]>>
      BY <1>5
    <3>4. PICK j \in 1 .. g[y] : v = <<y, j>> /\ shift[v] = <<y, j + f[y]>>
      BY <3>3
    <3>5. x = y /\ i + f[x] = j + f[x]
      BY <2>2, <3>2, <3>4
    <3> QED BY <3>2, <3>4, <3>5
  <2>3. ASSUME NEW t \in T PROVE \E u \in G : shift[u] = t
    <3>1. PICK x \in S : \E i \in 1 .. g[x] : t = <<x, i + f[x]>>
      BY <1>4
    <3>2. PICK i \in 1 .. g[x] : t = <<x, i + f[x]>>
      BY <3>1
    <3>3. <<x, i>> \in G
      BY UnitsMember
    <3>4. shift[<<x, i>>] = t
      BY <3>2, <3>3
    <3> QED BY <3>3, <3>4
  <2> HIDE DEF shift, T, G
  <2> QED BY <2>1, <2>2, <2>3 DEF Bijection, Injection, Surjection, IsInjective
<1>7. ExistsBijection(G, T)
  <2> HIDE DEF shift, T, G
  <2> QED BY <1>6 DEF ExistsBijection
<1>8. Cardinality(T) = Cardinality(G)
  <2> HIDE DEF T, G
  <2> QED BY <1>3, <1>7, FS_Bijection
<1>9. Cardinality(T) = Cardinality(H) - Cardinality(F)
  <2>1. H \cap F = F
    BY <1>1
  <2>2. Cardinality(H \ F) = Cardinality(H) - Cardinality(H \cap F)
    <3> HIDE DEF H, F
    <3> QED BY <1>3, FS_Difference
  <2> HIDE DEF H, F
  <2> QED BY <2>1, <2>2
<1>10. Cardinality(F) \in Nat /\ Cardinality(G) \in Nat /\ Cardinality(H) \in Nat
  <2> HIDE DEF F, G, H
  <2> QED BY <1>3, FS_CardinalityType
<1> QED BY <1>8, <1>9, <1>10 DEF SumOf

\* Changing the value of one member changes the sum by the same amount.
THEOREM SumUpdate ==
    ASSUME NEW f, NEW g, NEW S, IsFiniteSet(S), NEW x \in S,
           \A y \in S : f[y] \in Nat /\ g[y] \in Nat,
           \A y \in S \ {x} : f[y] = g[y]
    PROVE  SumOf(g, S) = SumOf(f, S) - f[x] + g[x]
<1> DEFINE rest == [y \in S |-> IF y = x THEN 0 ELSE f[y]]
           only(v) == [y \in S |-> IF y = x THEN v ELSE 0]
<1>1. SumOf(f, S) = SumOf(rest, S) + SumOf(only(f[x]), S)
  BY SumPlus
<1>2. SumOf(g, S) = SumOf(rest, S) + SumOf(only(g[x]), S)
  BY SumPlus
<1>3. SumOf(only(f[x]), S) = f[x]
  <2>1. only(f[x])[x] = f[x] /\ \A y \in S \ {x} : only(f[x])[y] = 0
    OBVIOUS
  <2> HIDE DEF only
  <2> QED BY <2>1, SumSingle
<1>4. SumOf(only(g[x]), S) = g[x]
  <2>1. only(g[x])[x] = g[x] /\ \A y \in S \ {x} : only(g[x])[y] = 0
    OBVIOUS
  <2> HIDE DEF only
  <2> QED BY <2>1, SumSingle
<1>5. SumOf(rest, S) \in Nat
  BY SumType
<1> QED BY <1>1, <1>2, <1>3, <1>4, <1>5

\* Each value is part of the sum.
LEMMA SumBound ==
    ASSUME NEW f, NEW S, IsFiniteSet(S), NEW x \in S, \A y \in S : f[y] \in Nat
    PROVE  f[x] <= SumOf(f, S)
<1> DEFINE rest == [y \in S |-> IF y = x THEN 0 ELSE f[y]]
<1>1. SumOf(f, S) = SumOf(rest, S) - rest[x] + f[x]
  BY SumUpdate
<1>2. SumOf(rest, S) \in Nat
  BY SumType
<1> QED BY <1>1, <1>2

\* A set of natural numbers that is not empty has a least member.
LEMMA LeastNatural ==
    ASSUME NEW T \in SUBSET Nat, T # {}
    PROVE  \E x \in T : \A y \in T : x <= y
<1> DEFINE R == {ss \in Nat \X Nat : ss[1] < ss[2]}
<1>1. IsWellFoundedOn(R, Nat)
  BY NatLessThanWellFounded DEF OpToRel
<1>2. PICK x \in T : \A y \in T : <<y, x>> \notin R
  <2> HIDE DEF R
  <2> QED BY <1>1, WFMin
<1>3. ASSUME NEW y \in T PROVE x <= y
  <2>1. <<y, x>> \notin R /\ <<y, x>> \in Nat \X Nat
    BY <1>2
  <2>2. ~(y < x)
    BY <2>1
  <2> QED BY <2>2
<1> QED BY <1>3

\* Induction up to N, for the set T of the numbers that are reached.
LEMMA Climb ==
    ASSUME NEW N \in Nat, NEW T, 0 \in T, \A n \in 1 .. N : n - 1 \in T => n \in T
    PROVE  \A n \in 0 .. N : n \in T
<1> DEFINE F == {n \in 0 .. N : n \notin T}
<1> SUFFICES ASSUME F # {} PROVE FALSE
  OBVIOUS
<1>1. F \in SUBSET Nat
  OBVIOUS
<1>2. PICK x \in F : \A y \in F : x <= y
  <2> HIDE DEF F
  <2> QED BY <1>1, LeastNatural
<1>3. x \in 0 .. N /\ x \notin T /\ x # 0
  BY <1>2
<1>4. x \in 1 .. N /\ x - 1 \in 0 .. N /\ ~(x <= x - 1)
  BY <1>3
<1>5. x - 1 \in T
  BY <1>2, <1>4
<1> QED BY <1>3, <1>4, <1>5
===============================================================================
