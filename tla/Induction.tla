------------------------------ MODULE Induction ------------------------------
(***************************************************************************)
(* Induction over numbers, in the form of sets: what is shown of a number is  *)
(* that it is in a set.  The library's theorems speak of an operator instead,  *)
(* which the provers cannot instantiate.  After it come facts about sequences  *)
(* that the proofs of several components use.                               *)
(***************************************************************************)
EXTENDS Integers, Sequences, FiniteSetTheorems, WellFoundedInduction, TLAPS

\* A set of natural numbers has a least one.
LEMMA Least ==
  ASSUME NEW T \in SUBSET Nat, T # {}
  PROVE  \E m \in T : \A k \in T : m <= k
<1> DEFINE R == OpToRel(<, Nat)
<1>1. IsWellFoundedOn(R, Nat)
  BY NatLessThanWellFounded
<1>2. PICK m \in T : \A y \in T : ~(<< y, m >> \in R)
  BY <1>1, WFMin
<1>3. \A x, y \in Nat : << y, x >> \in R <=> y < x
  BY DEF OpToRel
<1>4. \A y \in T : ~(y < m)
  BY <1>2, <1>3
<1> HIDE DEF R
<1>5. m \in Nat /\ T \subseteq Nat
  OBVIOUS
<1>6. \A y \in T : m <= y
  BY <1>4, <1>5
<1> QED BY <1>6

\* A set with 0, and with the successor of each of its numbers below n, has all numbers
\* up to n.
THEOREM UpTo ==
  ASSUME NEW n \in Nat, NEW P, 0 \in P,
         \A i \in 0 .. n - 1 : i \in P => i + 1 \in P
  PROVE  \A i \in 0 .. n : i \in P
<1> DEFINE T == {i \in 0 .. n : i \notin P}
<1>1. SUFFICES ASSUME T # {} PROVE FALSE
  OBVIOUS
<1>2. T \in SUBSET Nat
  OBVIOUS
<1>3. PICK m \in T : \A k \in T : m <= k
  <2> HIDE DEF T
  <2> QED BY <1>1, <1>2, Least
<1>4. m \in 1 .. n
  OBVIOUS
<1>5. m - 1 \in 0 .. n - 1 /\ m - 1 \notin T
  BY <1>3, <1>4
<1>6. m - 1 \in P
  BY <1>5
<1>7. (m - 1) + 1 \in P
  BY <1>5, <1>6
<1> QED BY <1>4, <1>7

\* The ways to go from the value at i - 1 to that at i, for the numbers up to n; and the
\* functions that start with a value and go on in such a way.
Steps(n, S) == [1 .. n -> [S -> S]]

Follows(f, n, S, base, step) ==
  /\ f \in [0 .. n -> S]
  /\ f[0] = base
  /\ \A i \in 1 .. n : f[i] = step[i][f[i - 1]]

\* A function that is given by its first value and by how each value follows from the
\* one before exists.
THEOREM DefinedByRecursion ==
  ASSUME NEW n \in Nat, NEW S, NEW base \in S, NEW step \in Steps(n, S)
  PROVE  \E f : Follows(f, n, S, base, step)
<1> USE DEF Steps
<1> DEFINE Good(k, f) == /\ f[0] = base
                         /\ \A i \in 1 .. k : f[i] = step[i][f[i - 1]]
           P == {k \in 0 .. n : \E f \in [0 .. k -> S] : Good(k, f)}
<1>1. 0 \in P
  <2> DEFINE f == [i \in 0 .. 0 |-> base]
  <2>1. f \in [0 .. 0 -> S] /\ f[0] = base
    OBVIOUS
  <2> HIDE DEF f
  <2>2. Good(0, f)
    BY <2>1
  <2> QED BY <2>1, <2>2
<1>2. ASSUME NEW k \in 0 .. n - 1, k \in P PROVE k + 1 \in P
  <2>1. PICK f \in [0 .. k -> S] : Good(k, f)
    BY <1>2
  <2> DEFINE next == step[k + 1][f[k]]
             g == [i \in 0 .. k + 1 |-> IF i = k + 1 THEN next ELSE f[i]]
  <2>2. k \in Nat /\ k \in 0 .. k /\ k + 1 \in 1 .. n
    OBVIOUS
  <2>3. next \in S
    BY <2>2
  <2> HIDE DEF next
  <2>4. g \in [0 .. k + 1 -> S]
    BY <2>2, <2>3
  <2>5. /\ g[k + 1] = next
        /\ \A i \in 0 .. k : g[i] = f[i]
    BY <2>2
  <2> HIDE DEF g
  <2>6. g[0] = base
    BY <2>1, <2>2, <2>5
  <2>7. ASSUME NEW i \in 1 .. k + 1 PROVE g[i] = step[i][g[i - 1]]
    <3>1. CASE i = k + 1
      <4>1. g[i - 1] = f[k]
        BY <2>2, <2>5, <3>1
      <4> QED BY <2>5, <3>1, <4>1 DEF next
    <3>2. CASE i \in 1 .. k
      <4>1. g[i] = f[i] /\ g[i - 1] = f[i - 1]
        BY <2>2, <2>5, <3>2
      <4> QED BY <2>1, <3>2, <4>1
    <3> QED BY <2>2, <3>1, <3>2
  <2>8. k + 1 \in 0 .. n
    BY <2>2
  <2>9. Good(k + 1, g)
    BY <2>6, <2>7
  <2> HIDE DEF Good
  <2> QED BY <2>4, <2>8, <2>9
<1>3. n \in P
  <2> HIDE DEF P
  <2>1. \A i \in 0 .. n : i \in P
    BY <1>1, <1>2, UpTo
  <2> QED BY <2>1
<1>4. PICK f \in [0 .. n -> S] : Good(n, f)
  BY <1>3
<1> QED BY <1>4 DEF Follows

(***************************************************************************)
(* Sequences                                                                *)
(***************************************************************************)
LEMMA SequenceElements ==
  ASSUME NEW Value, NEW q \in Seq(Value)
  PROVE  \A k \in DOMAIN q : q[k] \in Value
OBVIOUS

LEMMA ElementReplaced ==
  ASSUME NEW Value, NEW q \in Seq(Value), NEW k \in DOMAIN q, NEW v \in Value
  PROVE  [q EXCEPT ![k] = v] \in Seq(Value) /\ Len([q EXCEPT ![k] = v]) = Len(q)
OBVIOUS

LEMMA PartOfSequence ==
  ASSUME NEW Value, NEW q \in Seq(Value), NEW m \in Nat, NEW n \in Nat,
         1 <= m, m <= n + 1, n <= Len(q)
  PROVE  /\ SubSeq(q, m, n) \in Seq(Value) /\ Len(SubSeq(q, m, n)) = n + 1 - m
         /\ DOMAIN SubSeq(q, m, n) = 1 .. n + 1 - m
         /\ \A i \in 1 .. n + 1 - m : SubSeq(q, m, n)[i] = q[m + i - 1]
<1>1. SubSeq(q, m, n) = [i \in 1 .. n + 1 - m |-> q[m + i - 1]]
  OBVIOUS
<1>2. \A i \in 1 .. n + 1 - m : m + i - 1 \in 1 .. Len(q)
  OBVIOUS
<1>3. \A i \in 1 .. n + 1 - m : q[m + i - 1] \in Value
  BY <1>2, SequenceElements
<1> DEFINE part == [i \in 1 .. n + 1 - m |-> q[m + i - 1]]
<1>4. n + 1 - m \in Nat
  OBVIOUS
<1>5. part \in [1 .. n + 1 - m -> Value]
  BY <1>3
<1>6. part \in Seq(Value) /\ Len(part) = n + 1 - m
  BY <1>4, <1>5
<1> QED BY <1>1, <1>4, <1>6

(***************************************************************************)
(* Finite sets                                                              *)
(***************************************************************************)
\* The values of a function on a finite set are no more than its arguments.
LEMMA ImageIsSmaller ==
  ASSUME NEW T, IsFiniteSet(T), NEW f, NEW V, V = {f[x] : x \in T}
  PROVE  IsFiniteSet(V) /\ Cardinality(V) <= Cardinality(T)
<1> DEFINE g == [x \in T |-> f[x]]
<1>1. g \in Surjection(T, V)
  BY DEF Surjection
<1> HIDE DEF g
<1> QED BY <1>1, FS_Surjection

\* A finite set of numbers has one with a given number of smaller ones.
LEMMA InItsPlace ==
  ASSUME NEW T \in SUBSET Nat, IsFiniteSet(T), NEW n \in Nat, n < Cardinality(T)
  PROVE  \E i \in T : Cardinality({j \in T : j < i}) = n
<1> DEFINE Below(i) == {j \in T : j < i}
           Good == {k \in 0..n : \E i \in T : Cardinality(Below(i)) = k}
<1>1. Cardinality(T) \in Nat
  BY FS_CardinalityType
<1>2. \A i \in T : IsFiniteSet(Below(i)) /\ Cardinality(Below(i)) \in Nat
  BY FS_Subset, FS_CardinalityType
<1>3. 0 \in Good
  <2>1. T # {}
    BY <1>1, FS_EmptySet
  <2>2. PICK m \in T : \A k \in T : m <= k
    BY <2>1, Least
  <2>3. Below(m) = {}
    <3>1. \A j \in T : j \in Nat /\ m \in Nat /\ m <= j
      BY <2>2
    <3>2. \A j \in T : ~(j < m)
      BY <3>1
    <3> QED BY <3>2
  <2> QED BY <2>3, FS_EmptySet
<1>4. ASSUME NEW k \in 0..n - 1, k \in Good PROVE k + 1 \in Good
  <2>1. PICK i \in T : Cardinality(Below(i)) = k
    BY <1>4
  <2> DEFINE above == {j \in T : j > i}
  <2>2. IsFiniteSet(Below(i) \cup {i}) /\ Cardinality(Below(i) \cup {i}) = k + 1
    <3>1. IsFiniteSet(Below(i)) /\ i \notin Below(i) /\ i \in Nat
      BY <1>2
    <3> HIDE DEF Below
    <3> QED BY <2>1, <3>1, FS_AddElement
  <2>3. above # {}
    <3>1. SUFFICES ASSUME above = {} PROVE FALSE
      OBVIOUS
    <3>2. T = Below(i) \cup {i}
      <4>1. \A j \in T : j < i \/ j = i
        <5> TAKE j \in T
        <5>1. j \in Nat /\ i \in Nat /\ ~(j > i)
          BY <3>1
        <5> QED BY <5>1
      <4>2. \A j \in T : j \in Below(i) \/ j \in {i}
        BY <4>1
      <4> QED BY <4>2
    <3> HIDE DEF Below
    <3> QED BY <1>1, <2>2, <3>2
  <2>4. PICK m \in above : \A j \in above : m <= j
    BY <2>3, Least
  <2>5. Below(m) = Below(i) \cup {i}
    <3>1. \A j \in T : j < m <=> (j < i \/ j = i)
      <4> TAKE j \in T
      <4>1. j \in Nat /\ i \in Nat /\ m \in Nat /\ m > i /\ (j > i => m <= j)
        BY <2>4
      <4> QED BY <4>1
    <3>2. \A j : j \in Below(m) <=> j \in Below(i) \cup {i}
      BY <3>1
    <3> HIDE DEF Below
    <3> QED BY <3>2
  <2>6. m \in T /\ Cardinality(Below(m)) = k + 1 /\ k + 1 \in 0..n
    <3>1. Cardinality(Below(m)) = k + 1
      BY <2>2, <2>5
    <3> QED BY <3>1
  <2> HIDE DEF Below
  <2> QED BY <2>6
<1>5. n \in Good
  <2> HIDE DEF Good
  <2>1. \A k \in 0..n : k \in Good
    BY <1>3, <1>4, UpTo
  <2> QED BY <2>1
<1> QED BY <1>5
=============================================================================
