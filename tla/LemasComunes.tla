------------------------------ MODULE LemasComunes ------------------------------
(***************************************************************************)
(* Facts about finite sets of numbers and about sequences that the proofs   *)
(* of several components use.                                               *)
(***************************************************************************)
EXTENDS Integers, FiniteSets, Sequences, FiniteSetTheorems, SequenceTheorems, TLAPS

(* A finite set of numbers that is not empty has a least one: to count how   *)
(* many are below each is an injection into 0 .. k - 1, so it reaches 0.     *)
LEMMA Minimo ==
  ASSUME NEW T, T \subseteq Int, IsFiniteSet(T), T # {}
  PROVE  \E n \in T : \A m \in T : n <= m
<1> DEFINE B(n) == {m \in T : m < n}
           f == [n \in T |-> Cardinality(B(n))]
           k == Cardinality(T)
<1>1. k \in Nat /\ k # 0
  BY FS_CardinalityType, FS_EmptySet
<1>2. ASSUME NEW n \in T PROVE IsFiniteSet(B(n)) /\ Cardinality(B(n)) \in Nat /\ Cardinality(B(n)) < k
  <2>1. B(n) \in SUBSET T /\ n \notin B(n)
    OBVIOUS
  <2>2. IsFiniteSet(B(n)) /\ Cardinality(B(n)) <= k /\ (k = Cardinality(B(n)) => T = B(n))
    <3> HIDE DEF B
    <3> QED BY <2>1, FS_Subset
  <2>3. Cardinality(B(n)) \in Nat
    BY <2>2, FS_CardinalityType
  <2> QED BY <1>1, <2>1, <2>2, <2>3
<1>3. ASSUME NEW n \in T, NEW m \in T, m < n PROVE Cardinality(B(m)) < Cardinality(B(n))
  <2>1. B(m) \in SUBSET B(n)
    <3>1. \A x \in T : x < m => x < n
      BY <1>3
    <3> QED BY <3>1
  <2>2. m \in B(n) /\ m \notin B(m)
    BY <1>3
  <2>3. Cardinality(B(m)) <= Cardinality(B(n)) /\ Cardinality(B(m)) # Cardinality(B(n))
    <3> HIDE DEF B
    <3>1. IsFiniteSet(B(n))
      BY <1>2
    <3> QED BY <2>1, <2>2, <3>1, FS_Subset
  <2> HIDE DEF B
  <2> QED BY <1>2, <2>3
<1>4. \A n, m \in T : n < m \/ m < n \/ n = m
  OBVIOUS
<1> HIDE DEF B
<1>5. f \in Injection(T, 0 .. k - 1)
  <2>1. f \in [T -> 0 .. k - 1]
    BY <1>1, <1>2
  <2>2. ASSUME NEW n \in T, NEW m \in T, f[n] = f[m] PROVE n = m
    <3>1. Cardinality(B(n)) = Cardinality(B(m)) /\ Cardinality(B(n)) \in Nat
      BY <1>2, <2>2
    <3> QED BY <1>3, <1>4, <3>1
  <2> QED BY <2>1, <2>2 DEF Injection, IsInjective
<1>6. IsFiniteSet(0 .. k - 1) /\ Cardinality(0 .. k - 1) = k
  BY SMTT(30), <1>1, FS_Interval
<1>7. f \in Surjection(T, 0 .. k - 1)
  <2> HIDE DEF f
  <2> QED BY <1>5, <1>6, FS_Injection
<1>8. PICK n \in T : f[n] = 0
  <2> HIDE DEF f
  <2>1. 0 \in 0 .. k - 1
    BY <1>1
  <2> QED BY <1>7, <2>1 DEF Surjection
<1>9. B(n) = {}
  BY <1>2, <1>8, FS_EmptySet
<1>10. \A m \in T : n <= m
  BY <1>9 DEF B
<1> QED BY <1>10

(* And a greatest one: the least of their opposites. *)
LEMMA Maximo ==
  ASSUME NEW T, T \subseteq Int, IsFiniteSet(T), T # {}
  PROVE  \E n \in T : \A m \in T : m <= n
<1> DEFINE S == {- n : n \in T}
           f == [n \in T |-> - n]
<1>1. f \in Bijection(T, S)
  <2>1. \A n, m \in T : f[n] = f[m] => n = m
    OBVIOUS
  <2>2. \A t \in S : \E n \in T : f[n] = t
    OBVIOUS
  <2>3. f \in [T -> S]
    OBVIOUS
  <2> HIDE DEF f, S
  <2> QED BY <2>1, <2>2, <2>3 DEF Bijection, Injection, Surjection, IsInjective
<1>2. IsFiniteSet(S)
  <2> HIDE DEF f, S
  <2> QED BY <1>1, FS_Bijection DEF ExistsBijection
<1>3. S \subseteq Int /\ S # {}
  <2>1. PICK n : n \in T
    OBVIOUS
  <2>2. - n \in S
    BY <2>1
  <2>3. \A m \in T : - m \in Int
    OBVIOUS
  <2> QED BY <2>2, <2>3
<1>4. PICK t \in S : \A u \in S : t <= u
  <2> HIDE DEF S
  <2> QED BY <1>2, <1>3, Minimo
<1>5. PICK n \in T : t = - n
  OBVIOUS
<1>6. \A m \in T : m <= n
  <2> TAKE m \in T
  <2>1. - n <= - m
    BY <1>4, <1>5
  <2> QED BY <2>1
<1> QED BY <1>6

(* A sequence without its element k. *)
LEMMA Quitar ==
  ASSUME NEW S, NEW s \in Seq(S), NEW k \in 1 .. Len(s)
  PROVE  LET t == SubSeq(s, 1, k - 1) \o SubSeq(s, k + 1, Len(s))
         IN  /\ t \in Seq(S) /\ Len(t) = Len(s) - 1
             /\ \A i \in 1 .. Len(s) - 1 : t[i] = IF i < k THEN s[i] ELSE s[i + 1]
<1> DEFINE a == SubSeq(s, 1, k - 1)
           b == SubSeq(s, k + 1, Len(s))
<1>1. Len(s) \in Nat /\ \A i \in 1 .. Len(s) : s[i] \in S
  BY LenProperties, ElementOfSeq
<1>2. /\ a \in Seq(S) /\ Len(a) = k - 1
      /\ \A i \in 1 .. k - 1 : a[i] = s[i]
  <2>1. \A i \in 1 .. k - 1 : s[i] \in S
    BY <1>1
  <2>2. /\ a \in Seq(S) /\ Len(a) = IF 1 <= k - 1 THEN k - 1 - 1 + 1 ELSE 0
        /\ \A i \in 1 .. k - 1 - 1 + 1 : a[i] = s[1 + i - 1]
    BY <1>1, <2>1, SubSeqProperties
  <2> HIDE DEF a
  <2> QED BY <1>1, <2>2
<1>3. /\ b \in Seq(S) /\ Len(b) = Len(s) - k
      /\ \A i \in 1 .. Len(s) - k : b[i] = s[k + i]
  <2>1. \A i \in k + 1 .. Len(s) : s[i] \in S
    BY <1>1
  <2>2. /\ b \in Seq(S) /\ Len(b) = IF k + 1 <= Len(s) THEN Len(s) - (k + 1) + 1 ELSE 0
        /\ \A i \in 1 .. Len(s) - (k + 1) + 1 : b[i] = s[k + 1 + i - 1]
    BY <1>1, <2>1, SubSeqProperties
  <2> HIDE DEF b
  <2> QED BY <1>1, <2>2
<1> HIDE DEF a, b
<1>4. /\ a \o b \in Seq(S) /\ Len(a \o b) = Len(a) + Len(b)
      /\ \A i \in 1 .. Len(a) + Len(b) : (a \o b)[i] =
           IF i <= Len(a) THEN a[i] ELSE b[i - Len(a)]
  BY <1>2, <1>3, ConcatProperties
<1>5. ASSUME NEW i \in 1 .. Len(s) - 1
      PROVE  (a \o b)[i] = IF i < k THEN s[i] ELSE s[i + 1]
  <2>1. CASE i < k
    BY <1>1, <1>2, <1>3, <1>4, <2>1
  <2>2. CASE ~ (i < k)
    <3>1. (a \o b)[i] = b[i - (k - 1)] /\ i - (k - 1) \in 1 .. Len(s) - k
      BY SMTT(30), <1>1, <1>2, <1>3, <1>4, <2>2
    <3>2. k + (i - (k - 1)) = i + 1
      BY <1>1
    <3> QED BY <1>3, <2>2, <3>1, <3>2
  <2> QED BY <2>1, <2>2
<1>6. Len(a \o b) = Len(s) - 1
  BY <1>1, <1>2, <1>3, <1>4
<1> QED BY <1>4, <1>5, <1>6 DEF a, b

(* Induction up to n, over a set instead of a predicate: the least number    *)
(* that is not in it has no predecessor in it.                               *)
LEMMA Induccion ==
  ASSUME NEW n \in Nat, NEW P, 0 \in P, \A k \in 1..n : k - 1 \in P => k \in P
  PROVE  0..n \subseteq P
<1> DEFINE Fuera == {k \in 0..n : k \notin P}
<1> SUFFICES ASSUME Fuera # {} PROVE FALSE
  OBVIOUS
<1>1. IsFiniteSet(Fuera)
  <2>1. IsFiniteSet(0..n) /\ Fuera \subseteq 0..n
    BY FS_Interval
  <2> QED BY <2>1, FS_Subset
<1>2. Fuera \subseteq Int
  OBVIOUS
<1>3. PICK k \in Fuera : \A j \in Fuera : k <= j
  BY <1>1, <1>2, Minimo
<1>4. k \in 1..n /\ k - 1 \in 0..n
  BY <1>3
<1>5. k - 1 \notin Fuera
  BY <1>3, <1>4
<1> QED BY <1>3, <1>4, <1>5

(* The function f has the value a at 0 and goes on by F, in V, up to n.      *)
EsPaso(F, n, V) == F \in [(1..n) \X V -> V]
Recorre(f, n, V, a, F) ==
  f \in [0..n -> V] /\ f[0] = a /\ \A k \in 1..n : f[k] = F[<<k, f[k - 1]>>]

(* What a recursive function on 0 .. n says of itself, some function says.   *)
LEMMA Recursion ==
  ASSUME NEW n \in Nat, NEW V, NEW a, a \in V, NEW F, EsPaso(F, n, V)
  PROVE  \E f : Recorre(f, n, V, a, F)
<1> DEFINE Es(f, m) == /\ f \in [0..m -> V] /\ f[0] = a
                       /\ \A k \in 1..m : f[k] = F[<<k, f[k - 1]>>]
           P == {m \in 0..n : \E f : Es(f, m)}
<1>1. 0 \in P
  <2> DEFINE g == [k \in 0..0 |-> a]
  <2>1. Es(g, 0)
    OBVIOUS
  <2> HIDE DEF g, Es
  <2>2. 0 \in 0..n
    OBVIOUS
  <2> QED BY <2>1, <2>2
<1>2. ASSUME NEW m \in 1..n, m - 1 \in P PROVE m \in P
  <2>1. PICK f : Es(f, m - 1)
    BY <1>2
  <2>2. PICK v : v = F[<<m, f[m - 1]>>]
    OBVIOUS
  <2> DEFINE g == [k \in 0..m |-> IF k = m THEN v ELSE f[k]]
  <2>3. f[m - 1] \in V
    BY <2>1
  <2>4. v \in V
    BY <2>2, <2>3 DEF EsPaso
  <2>5. g \in [0..m -> V] /\ g[0] = a
    BY <2>1, <2>4
  <2>6. ASSUME NEW k \in 1..m PROVE g[k] = F[<<k, g[k - 1]>>]
    <3>1. k - 1 \in 0..m /\ k - 1 # m /\ g[k - 1] = f[k - 1]
      OBVIOUS
    <3>2. CASE k = m
      BY <2>2, <3>1, <3>2
    <3>3. CASE k # m
      <4>1. k \in 1..(m - 1) /\ g[k] = f[k]
        BY <3>3
      <4>2. f[k] = F[<<k, f[k - 1]>>]
        BY <2>1, <4>1
      <4> HIDE DEF g
      <4> QED BY <3>1, <4>1, <4>2
    <3> QED BY <3>2, <3>3
  <2> HIDE DEF g
  <2>7. Es(g, m)
    BY <2>5, <2>6
  <2> HIDE DEF Es
  <2> QED BY <2>7
<1> HIDE DEF P
<1>3. 0..n \subseteq P
  BY <1>1, <1>2, Induccion
<1>4. n \in P
  BY <1>3
<1> QED BY <1>4 DEF P, Recorre
===============================================================================
