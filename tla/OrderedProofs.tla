--------------------------- MODULE OrderedProofs ----------------------------
(***************************************************************************)
(* What the positions listed by InOrder are.                               *)
(***************************************************************************)
EXTENDS Ordered, FiniteSetTheorems, TLAPS

LEMMA FiniteNumbers ==
  ASSUME NEW n \in Nat, NEW S, S \subseteq 1 .. n
  PROVE  IsFiniteSet(S) /\ Cardinality(S) \in Nat
<1>1. IsFiniteSet(1 .. n)
  BY FS_Interval
<1> QED
  BY <1>1, FS_Subset, FS_CardinalityType

\* InOrder lists each element of the set once.
LEMMA InOrderLists ==
  ASSUME NEW n \in Nat, NEW S, S \subseteq 1 .. n
  PROVE  /\ DOMAIN InOrder(S) = 1 .. Cardinality(S) /\ Cardinality(S) \in Nat
         /\ \A k \in DOMAIN InOrder(S) : InOrder(S)[k] \in S
         /\ \A i \in S : \E k \in DOMAIN InOrder(S) : InOrder(S)[k] = i
<1> DEFINE Below(i) == {j \in S : j <= i}
           rank == [i \in S |-> Cardinality(Below(i))]
           T == 1 .. Cardinality(S)
<1>1. IsFiniteSet(S) /\ Cardinality(S) \in Nat
  BY FiniteNumbers
<1>2. \A i \in S : Below(i) \subseteq S /\ i \in Below(i) /\ IsFiniteSet(Below(i))
  BY <1>1, FS_Subset
<1>3. rank \in [S -> T]
  <2>1. SUFFICES ASSUME NEW i \in S PROVE Cardinality(Below(i)) \in T
    OBVIOUS
  <2>2. Cardinality(Below(i)) <= Cardinality(S)
    BY <1>1, <1>2, FS_Subset
  <2>3. Cardinality(Below(i)) \in Nat /\ Cardinality(Below(i)) # 0
    BY <1>2, FS_CardinalityType, FS_EmptySet
  <2> QED
    BY <1>1, <2>2, <2>3
<1>4. ASSUME NEW i \in S, NEW m \in S, i < m PROVE rank[i] # rank[m]
  <2>1. Below(i) \subseteq Below(m) /\ m \in Below(m) /\ m \notin Below(i)
    <3>1. i \in Nat /\ m \in Nat /\ i < m /\ \A j \in S : j \in Nat
      BY <1>4
    <3>2. \A j \in S : (j <= i => j <= m) /\ m <= m /\ ~(m <= i)
      BY <3>1
    <3> QED
      BY <3>2
  <2>2. IsFiniteSet(Below(m))
    <3>1. Below(m) \in SUBSET S
      OBVIOUS
    <3> HIDE DEF Below
    <3> QED
      BY <1>1, <3>1, FS_Subset
  <2>3. Cardinality(Below(i)) # Cardinality(Below(m))
    <3> HIDE DEF Below
    <3>1. Cardinality(Below(m)) = Cardinality(Below(i)) => Below(m) = Below(i)
      BY <2>1, <2>2, FS_Subset
    <3>2. Below(m) # Below(i)
      BY <2>1
    <3> QED
      BY <3>1, <3>2
  <2> QED
    BY <2>3
<1>5. \A i, m \in S : rank[i] = rank[m] => i = m
  BY <1>4
<1>6. rank \in Injection(S, T)
  BY <1>3, <1>5 DEF Injection, IsInjective
<1>7. IsFiniteSet(T) /\ Cardinality(T) = Cardinality(S)
  BY <1>1, FS_Interval
<1>8. rank \in Surjection(S, T)
  BY <1>6, <1>7, FS_Injection
<1>9. \A k \in T : \E i \in S : rank[i] = k
  BY <1>8 DEF Surjection
<1>10. DOMAIN InOrder(S) = T /\
       \A k \in T : InOrder(S)[k] = CHOOSE i \in S : Cardinality(Below(i)) = k
  BY DEF InOrder
<1>11. \A i \in S : rank[i] = Cardinality(Below(i))
  OBVIOUS
<1> HIDE DEF rank, Below, T
<1>12. \A k \in T : InOrder(S)[k] \in S /\ rank[InOrder(S)[k]] = k
  BY <1>9, <1>10, <1>11
<1>13. \A i \in S : rank[i] \in T /\ InOrder(S)[rank[i]] = i
  BY <1>3, <1>5, <1>12
<1> QED
  BY <1>1, <1>10, <1>12, <1>13 DEF T

\* A set of all the numbers up to n is listed as 1, 2, ... n.
LEMMA InOrderAll ==
  ASSUME NEW n \in Nat, NEW S, S \subseteq 1 .. n, Cardinality(S) >= n
  PROVE  S = 1 .. n /\ \A i \in 1 .. n : InOrder(S)[i] = i
<1>1. S = 1 .. n /\ Cardinality(S) = n
  <2>1. IsFiniteSet(1 .. n) /\ Cardinality(1 .. n) = n
    BY FS_Interval
  <2>2. Cardinality(S) \in Nat /\ Cardinality(S) <= n
    BY <2>1, FiniteNumbers, FS_Subset
  <2>3. Cardinality(1 .. n) = Cardinality(S)
    BY <2>1, <2>2
  <2> QED
    BY <2>1, <2>3, FS_Subset
<1>2. ASSUME NEW i \in 1 .. n PROVE Cardinality({j \in S : j <= i}) = i
  <2>1. {j \in S : j <= i} = 1 .. i
    BY <1>1
  <2>2. Cardinality(1 .. i) = i
    BY FS_Interval
  <2> QED
    BY <2>1, <2>2
<1>3. \A i \in 1 .. n : InOrder(S)[i] = CHOOSE m \in S : Cardinality({j \in S : j <= m}) = i
  BY <1>1 DEF InOrder
<1> QED
  BY <1>1, <1>2, <1>3

\* What ascends from 1 to m and has no other value than these is the list of
\* its values.
LEMMA InOrderIs ==
  ASSUME NEW n \in Nat, NEW m \in Nat, NEW f,
         DOMAIN f = 1 .. m, \A k \in 1 .. m : f[k] \in 1 .. n,
         \A j, k \in 1 .. m : j < k => f[j] < f[k],
         NEW S, \A i : i \in S <=> \E k \in 1 .. m : i = f[k]
  PROVE  Cardinality(S) = m /\ InOrder(S) = [k \in 1 .. m |-> f[k]]
<1> DEFINE Below(i) == {j \in S : j <= i}
<1>1. S = {f[k] : k \in 1 .. m} /\ S \subseteq 1 .. n
  OBVIOUS
<1>2. \A j, k \in 1 .. m : f[j] = f[k] => j = k
  <2>1. SUFFICES ASSUME NEW j \in 1 .. m, NEW k \in 1 .. m, f[j] = f[k], j # k
                 PROVE  FALSE
    OBVIOUS
  <2>2. f[j] \in Int /\ f[k] \in Int /\ (j < k \/ k < j)
    BY <2>1
  <2> QED
    BY <2>1, <2>2
<1>3. ASSUME NEW k \in 0 .. m PROVE Cardinality({f[j] : j \in 1 .. k}) = k
  <2> DEFINE T == {f[j] : j \in 1 .. k}
             g == [j \in 1 .. k |-> f[j]]
  <2>1. g \in Bijection(1 .. k, T)
    <3>1. g \in [1 .. k -> T]
      OBVIOUS
    <3>2. \A i, j \in 1 .. k : g[i] = g[j] => i = j
      BY <1>2
    <3>3. \A t \in T : \E j \in 1 .. k : g[j] = t
      OBVIOUS
    <3> HIDE DEF g, T
    <3> QED
      BY <3>1, <3>2, <3>3 DEF Bijection, Injection, Surjection, IsInjective
  <2>2. IsFiniteSet(1 .. k) /\ Cardinality(1 .. k) = k
    BY FS_Interval
  <2>3. ExistsBijection(1 .. k, T)
    BY <2>1 DEF ExistsBijection
  <2> HIDE DEF T
  <2>4. IsFiniteSet(T) /\ Cardinality(T) = Cardinality(1 .. k)
    BY <2>2, <2>3, FS_Bijection
  <2> QED
    BY <2>2, <2>4 DEF T
<1>4. Cardinality(S) = m
  <2>1. m \in 0 .. m
    OBVIOUS
  <2> QED
    BY <1>1, <1>3, <2>1
<1>5. ASSUME NEW k \in 1 .. m PROVE Cardinality(Below(f[k])) = k
  <2>1. Below(f[k]) = {f[j] : j \in 1 .. k}
    <3>1. ASSUME NEW j \in 1 .. m PROVE f[j] <= f[k] <=> j <= k
      <4>1. j < k \/ j = k \/ k < j
        OBVIOUS
      <4>2. f[j] \in Int /\ f[k] \in Int
        OBVIOUS
      <4> QED
        BY <4>1, <4>2
    <3> QED
      BY <1>1, <3>1
  <2>2. k \in 0 .. m
    OBVIOUS
  <2> QED
    BY <1>3, <2>1, <2>2
<1>6. \A k \in 1 .. m : InOrder(S)[k] = CHOOSE i \in S : Cardinality(Below(i)) = k
  BY <1>4 DEF InOrder
<1>7. DOMAIN InOrder(S) = 1 .. m
  BY <1>4 DEF InOrder
<1>8. ASSUME NEW k \in 1 .. m PROVE InOrder(S)[k] = f[k]
  <2> HIDE DEF Below
  <2>1. f[k] \in S /\ Cardinality(Below(f[k])) = k
    BY <1>5
  <2>2. \A i \in S : Cardinality(Below(i)) = k => i = f[k]
    BY <1>5
  <2>3. (CHOOSE i \in S : Cardinality(Below(i)) = k) = f[k]
    BY <2>1, <2>2
  <2> QED
    BY <1>6, <2>3
<1>9. InOrder(S) = [k \in 1 .. m |-> f[k]]
  BY <1>7, <1>8 DEF InOrder
<1> QED
  BY <1>4, <1>9
=============================================================================
