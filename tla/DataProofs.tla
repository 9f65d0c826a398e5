----------------------------- MODULE DataProofs -----------------------------
(***************************************************************************)
(* Lemmas about the data that the model is built from.  Without(s, F)      *)
(* returns the subsequence of the elements of s that are not in F, all of  *)
(* them and in their order.  SumFunction(f) does not depend on the order   *)
(* in which it takes the terms, and FlattenSeq(c) joins the members of c   *)
(* by the recursion of its definition.                                     *)
(***************************************************************************)
EXTENDS SeqFilter, SequencesExt, FiniteSets, Functions, SequenceTheorems, FiniteSetTheorems,
        WellFoundedInduction, TLAPS

-----------------------------------------------------------------------------
(* Arithmetic.  A product is given a lemma, or the solver tries to compute *)
(* with it.                                                                *)

LEMMA ProductType ==
  ASSUME NEW a \in Nat, NEW b \in Nat
  PROVE  a * b \in Nat
OBVIOUS

LEMMA MoreTimes ==
  ASSUME NEW a \in Nat, NEW b \in Nat, NEW k \in Nat
  PROVE  /\ a <= b => a * k <= b * k
         /\ a < b /\ k > 0 => a * k < b * k
OBVIOUS

-----------------------------------------------------------------------------
(* Without, the list without some elements.                                *)

\* The first n numbers are a finite set of n elements.
LEMMA FirstNumbers ==
  ASSUME NEW n \in Nat
  PROVE  IsFiniteSet(1 .. n) /\ Cardinality(1 .. n) = n
BY FS_Interval

\* A set of natural numbers has a least element (induction by least
\* counterexample: the induction theorems of the library take a predicate).
LEMMA LeastNat ==
  ASSUME NEW T \in SUBSET Nat, T # {}
  PROVE  \E m \in T : \A k \in T : m <= k
<1>1. \E m \in T : \A k \in T : ~ (<<k, m>> \in OpToRel(<, Nat))
  BY NatLessThanWellFounded, WFMin
<1>2. PICK m \in T : \A k \in T : ~ (<<k, m>> \in OpToRel(<, Nat))
  BY <1>1
<1>3. ASSUME NEW k \in T, k < m PROVE FALSE
  <2>1. <<k, m>> \in Nat \X Nat /\ <<k, m>>[1] < <<k, m>>[2]
    BY <1>3
  <2>2. <<k, m>> \in OpToRel(<, Nat)
    BY <2>1 DEF OpToRel
  <2> QED BY <2>2, <1>2
<1> QED BY <1>3

\* k[i] is what remains of the first i elements of s.
KeptStages(k, S, s, F) ==
  /\ k \in [0..Len(s) -> Seq(S)]
  /\ k[0] = << >>
  /\ \A i \in 1..Len(s) :
       k[i] = IF s[i] \in F THEN k[i-1] ELSE Append(k[i-1], s[i])

\* The recursion that defines Without goes through such stages.
LEMMA WithoutStages ==
  ASSUME NEW S, NEW s \in Seq(S), NEW F
  PROVE  \E k : KeptStages(k, S, s, F) /\ Without(s, F) = k[Len(s)]
<1> DEFINE Step(k, i) == IF i = 0 THEN << >>
                         ELSE IF s[i] \in F THEN k[i-1] ELSE Append(k[i-1], s[i])
           Stages(n) == \E k \in [0..n -> Seq(S)] : \A i \in 0..n : k[i] = Step(k, i)
           Bad == {n \in Nat : n <= Len(s) /\ ~ Stages(n)}
<1>0. Len(s) \in Nat
  OBVIOUS
<1>1. Stages(0)
  <2> WITNESS [i \in 0..0 |-> << >>] \in [0..0 -> Seq(S)]
  <2> QED OBVIOUS
<1>2. ASSUME NEW n \in Nat, n+1 <= Len(s), Stages(n) PROVE Stages(n+1)
  <2>1. PICK k \in [0..n -> Seq(S)] : \A i \in 0..n : k[i] = Step(k, i)
    BY <1>2
  <2> DEFINE k2 == [i \in 0..n+1 |-> IF i <= n THEN k[i] ELSE Step(k, n+1)]
  <2>2. Step(k, n+1) \in Seq(S)
    BY <1>2, <2>1
  <2>3. k2 \in [0..n+1 -> Seq(S)]
    BY <2>2
  <2>4. ASSUME NEW i \in 0..n+1 PROVE k2[i] = Step(k2, i)
    <3>1. CASE i = 0
      BY <3>1, <2>1
    <3>2. CASE i # 0
      <4>1. i \in 0..n+1 /\ i - 1 \in 0..n
        BY <3>2
      <4>2. k2[i-1] = k[i-1]
        BY <4>1
      <4>3. CASE i <= n
        <5>1. k2[i] = k[i]
          BY <4>1, <4>3
        <5>2. i \in 0..n
          BY <4>1, <4>3
        <5>3. k[i] = Step(k, i)
          BY <2>1, <5>2, Zenon
        <5> QED BY <5>1, <5>3, <4>2, <3>2
      <4>4. CASE i = n+1
        <5>1. k2[i] = Step(k, i)
          BY <4>1, <4>4
        <5> QED BY <5>1, <4>2, <3>2
      <4> QED BY <4>1, <4>3, <4>4
    <3> QED BY <3>1, <3>2
  <2> HIDE DEF k2
  <2> QED BY <2>3, <2>4
<1>3. Bad = {}
  <2> SUFFICES ASSUME Bad # {} PROVE FALSE
    OBVIOUS
  <2>1. PICK m \in Bad : \A k \in Bad : m <= k
    BY LeastNat
  <2>2. m # 0
    BY <1>1, <2>1
  <2> HIDE DEF Stages
  <2>3. m-1 \in Nat /\ m-1 \notin Bad
    BY <2>1, <2>2
  <2>4. Stages(m-1)
    BY <2>1, <2>3, <1>0
  <2>5. Stages((m-1)+1)
    BY <2>4, <2>3, <2>1, <1>2
  <2> QED BY <2>5, <2>1
<1>4. Stages(Len(s))
  <2> HIDE DEF Stages
  <2> QED BY <1>3, <1>0
<1> DEFINE G == CHOOSE k : k = [i \in 0..Len(s) |-> Step(k, i)]
<1>5. PICK k \in [0..Len(s) -> Seq(S)] : \A i \in 0..Len(s) : k[i] = Step(k, i)
  BY <1>4
<1>6. k = [i \in 0..Len(s) |-> Step(k, i)]
  BY <1>5
<1>7. G = [i \in 0..Len(s) |-> Step(G, i)]
  BY <1>6
<1>8. Without(s, F) = G[Len(s)]
  BY DEF Without
<1> HIDE DEF G
<1>9. \A i \in 0..Len(s) : G[i] = Step(G, i)
  BY <1>7
<1> DEFINE Off == {n \in Nat : n <= Len(s) /\ G[n] # k[n]}
<1>10. Off = {}
  <2> SUFFICES ASSUME Off # {} PROVE FALSE
    OBVIOUS
  <2>1. PICK m \in Off : \A j \in Off : m <= j
    BY LeastNat
  <2>2. m \in 0..Len(s)
    BY <2>1
  <2>3. CASE m = 0
    BY <2>1, <2>2, <2>3, <1>5, <1>9
  <2>4. CASE m # 0
    <3>1. m-1 \in Nat /\ m - 1 \notin Off
      BY <2>1, <2>4
    <3>2. G[m-1] = k[m-1]
      BY <3>1, <2>2
    <3> QED BY <3>2, <2>1, <2>2, <1>5, <1>9, <2>4
  <2> QED BY <2>3, <2>4
<1>11. Without(s, F) = k[Len(s)]
  BY <1>10, <1>8, <1>0
<1>12. k[0] = << >>
  BY <1>5, <1>0
<1>13. ASSUME NEW i \in 1..Len(s)
       PROVE  k[i] = IF s[i] \in F THEN k[i-1] ELSE Append(k[i-1], s[i])
  <2>1. i \in 0..Len(s) /\ i # 0
    OBVIOUS
  <2> QED BY <2>1, <1>5
<1> QED BY <1>11, <1>12, <1>13, <1>5 DEF KeptStages

\* g picks the elements of t out of the first n of s, in order, and leaves
\* out only elements of F.
Picks(g, t, s, F, n) ==
  /\ g \in [1..Len(t) -> 1..n]
  /\ \A i, j \in 1..Len(t) : i < j => g[i] < g[j]
  /\ \A i \in 1..Len(t) : t[i] = s[g[i]] /\ t[i] \notin F
  /\ \A j \in 1..n : s[j] \notin F => \E i \in 1..Len(t) : g[i] = j

\* Without(s, F) is the subsequence of s of the elements that are not in F.
LEMMA WithoutSubsequence ==
  ASSUME NEW S, NEW s \in Seq(S), NEW F
  PROVE  /\ Without(s, F) \in Seq(S)
         /\ \E g : Picks(g, Without(s, F), s, F, Len(s))
<1>1. PICK k : KeptStages(k, S, s, F) /\ Without(s, F) = k[Len(s)]
  BY WithoutStages
<1>0. Len(s) \in Nat
  OBVIOUS
<1> DEFINE Good(n) == \E g : Picks(g, k[n], s, F, n)
           Bad == {n \in Nat : n <= Len(s) /\ ~ Good(n)}
<1>2. Good(0)
  <2>1. Picks([i \in 1..0 |-> 0], k[0], s, F, 0)
    BY <1>1, EmptySeq DEF Picks, KeptStages
  <2> QED BY <2>1
<1>3. ASSUME NEW n \in Nat, n+1 <= Len(s), Good(n) PROVE Good(n+1)
  <2>1. PICK g : Picks(g, k[n], s, F, n)
    BY <1>3
  <2>2. k[n] \in Seq(S) /\ n+1 \in 1..Len(s) /\ (n+1)-1 = n /\ Len(k[n]) \in Nat
    BY <1>1, <1>3 DEF KeptStages
  <2>3. CASE s[n+1] \in F
    <3>1. k[n+1] = k[n]
      BY <2>2, <2>3, <1>1 DEF KeptStages
    <3>2. Picks(g, k[n], s, F, n+1)
      BY <2>1, <2>2, <2>3 DEF Picks
    <3> QED BY <3>1, <3>2
  <2>4. CASE s[n+1] \notin F
    <3>1. k[n+1] = Append(k[n], s[n+1])
      BY <2>2, <2>4, <1>1 DEF KeptStages
    <3>2. s[n+1] \in S
      BY <2>2
    <3> DEFINE l == Len(k[n])
               h == [i \in 1..l+1 |-> IF i <= l THEN g[i] ELSE n+1]
    <3>3. l \in Nat
      BY <2>2
    <3>4. /\ Len(k[n+1]) = l+1
          /\ \A i \in 1..l : k[n+1][i] = k[n][i]
          /\ k[n+1][l+1] = s[n+1]
      BY <3>1, <3>2, <2>2, AppendProperties
    <3>5. Picks(g, k[n], s, F, n) /\ l = Len(k[n])
      BY <2>1
    <3> HIDE DEF l
    <3>6. \A i \in 1..l+1 : i = l+1 \/ i \in 1..l
      BY <3>3
    <3>7. /\ g \in [1..l -> 1..n]
          /\ \A i, j \in 1..l : i < j => g[i] < g[j]
          /\ \A i \in 1..l : k[n][i] = s[g[i]] /\ k[n][i] \notin F
          /\ \A j \in 1..n : s[j] \notin F => \E i \in 1..l : g[i] = j
      BY <3>5 DEF Picks
    <3>8. /\ h \in [1..l+1 -> 1..n+1]
          /\ \A i \in 1..l : h[i] = g[i] /\ g[i] \in 1..n
          /\ h[l+1] = n+1
      BY <3>3, <3>7
    <3> HIDE DEF h
    <3>9. \A i, j \in 1..l+1 : i < j => h[i] < h[j]
      <4> SUFFICES ASSUME NEW i \in 1..l+1, NEW j \in 1..l+1, i < j
                   PROVE  h[i] < h[j]
        OBVIOUS
      <4>1. i \in 1..l
        BY <3>3
      <4>2. CASE j = l+1
        BY <4>1, <4>2, <3>8
      <4>3. CASE j \in 1..l
        BY <4>1, <4>3, <3>7, <3>8
      <4> QED BY <4>2, <4>3, <3>6
    <3>10. \A i \in 1..l+1 : k[n+1][i] = s[h[i]] /\ k[n+1][i] \notin F
      <4> SUFFICES ASSUME NEW i \in 1..l+1
                   PROVE  k[n+1][i] = s[h[i]] /\ k[n+1][i] \notin F
        OBVIOUS
      <4>1. CASE i = l+1
        BY <4>1, <3>4, <3>8, <2>4
      <4>2. CASE i \in 1..l
        BY <4>2, <3>4, <3>7, <3>8
      <4> QED BY <4>1, <4>2, <3>6
    <3>11. \A j \in 1..n+1 : s[j] \notin F => \E i \in 1..l+1 : h[i] = j
      <4> SUFFICES ASSUME NEW j \in 1..n+1, s[j] \notin F
                   PROVE  \E i \in 1..l+1 : h[i] = j
        OBVIOUS
      <4>1. CASE j = n+1
        BY <4>1, <3>3, <3>8
      <4>2. CASE j \in 1..n
        <5>1. PICK i \in 1..l : g[i] = j
          BY <4>2, <3>7
        <5>2. i \in 1..l+1 /\ h[i] = j
          BY <5>1, <3>3, <3>8
        <5> QED BY <5>2
      <4> QED BY <4>1, <4>2
    <3>12. Picks(h, k[n+1], s, F, n+1)
      BY <3>4, <3>8, <3>9, <3>10, <3>11 DEF Picks
    <3> QED BY <3>12
  <2> QED BY <2>3, <2>4
<1>4. Bad = {}
  <2> SUFFICES ASSUME Bad # {} PROVE FALSE
    OBVIOUS
  <2>1. PICK m \in Bad : \A j \in Bad : m <= j
    BY LeastNat
  <2>2. m # 0
    BY <1>2, <2>1
  <2> HIDE DEF Good
  <2>3. m-1 \in Nat /\ m-1 \notin Bad
    BY <2>1, <2>2
  <2>4. Good(m-1)
    BY <2>1, <2>3, <1>0
  <2>5. Good((m-1)+1)
    BY <2>4, <2>3, <2>1, <1>3
  <2> QED BY <2>5, <2>1
<1>5. Good(Len(s))
  <2> HIDE DEF Good
  <2> QED BY <1>4, <1>0
<1> QED BY <1>5, <1>1, <1>0 DEF KeptStages

\* It is a sequence of the same type, with the elements of s but those of F.
LEMMA WithoutRange ==
  ASSUME NEW S, NEW s \in Seq(S), NEW F
  PROVE  /\ Without(s, F) \in Seq(S)
         /\ Range(Without(s, F)) = Range(s) \ F
<1> DEFINE t == Without(s, F)
<1>1. t \in Seq(S)
  BY WithoutSubsequence
<1>2. PICK g : Picks(g, t, s, F, Len(s))
  BY WithoutSubsequence
<1>3. DOMAIN t = 1..Len(t) /\ DOMAIN s = 1..Len(s)
  BY <1>1
<1> HIDE DEF t
<1>4. Range(t) \subseteq Range(s) \ F
  BY <1>2, <1>3 DEF Range, Picks
<1>5. Range(s) \ F \subseteq Range(t)
  <2> SUFFICES ASSUME NEW j \in 1..Len(s), s[j] \notin F
               PROVE  s[j] \in Range(t)
    BY <1>3 DEF Range
  <2>1. PICK i \in 1..Len(t) : g[i] = j
    BY <1>2 DEF Picks
  <2>2. t[i] = s[j]
    BY <2>1, <1>2 DEF Picks
  <2> QED BY <2>1, <2>2, <1>3 DEF Range
<1> QED BY <1>1, <1>4, <1>5 DEF t

\* An injective sequence stays so.
LEMMA WithoutInjective ==
  ASSUME NEW S, NEW s \in Seq(S), NEW F, IsInjective(s)
  PROVE  IsInjective(Without(s, F))
<1> DEFINE t == Without(s, F)
<1>1. t \in Seq(S)
  BY WithoutSubsequence
<1>2. PICK g : Picks(g, t, s, F, Len(s))
  BY WithoutSubsequence
<1>3. DOMAIN t = 1..Len(t) /\ DOMAIN s = 1..Len(s) /\ Len(t) \in Nat /\ Len(s) \in Nat
  BY <1>1
<1> HIDE DEF t
<1>4. ASSUME NEW a \in 1..Len(t), NEW b \in 1..Len(t), t[a] = t[b]
      PROVE  a = b
  <2>1. g[a] \in 1..Len(s) /\ g[b] \in 1..Len(s) /\ s[g[a]] = s[g[b]]
    BY <1>2, <1>4 DEF Picks
  <2>2. g[a] = g[b]
    BY <2>1, <1>3 DEF IsInjective
  <2>3. ~(a < b) /\ ~(b < a)
    BY <2>1, <2>2, <1>2 DEF Picks
  <2> QED BY <2>3, <1>3
<1> QED BY <1>3, <1>4 DEF t, IsInjective

Increasing(s) == \A i, j \in 1..Len(s) : i < j => s[i] < s[j]

\* A list in increasing order stays so.
LEMMA WithoutIncreasing ==
  ASSUME NEW S, NEW s \in Seq(S), NEW F, Increasing(s)
  PROVE  Increasing(Without(s, F))
<1> DEFINE t == Without(s, F)
<1>1. PICK g : Picks(g, t, s, F, Len(s))
  BY WithoutSubsequence
<1> HIDE DEF t
<1>2. ASSUME NEW i \in 1..Len(t), NEW j \in 1..Len(t), i < j
      PROVE  t[i] < t[j]
  <2>1. g[i] \in 1..Len(s) /\ g[j] \in 1..Len(s) /\ g[i] < g[j]
    BY <1>1, <1>2 DEF Picks
  <2>2. s[g[i]] < s[g[j]]
    BY <2>1 DEF Increasing
  <2> QED BY <2>2, <1>1 DEF Picks
<1> QED BY <1>2 DEF t, Increasing

-----------------------------------------------------------------------------
(* FlattenSeq, the concatenation of the members of a sequence.             *)

\* k[i] is the concatenation of the first i members of c.
JoinedStages(k, c) ==
  /\ k = [i \in 1 .. Len(c) |-> k[i]]
  /\ k[1] = c[1]
  /\ \A i \in 2 .. Len(c) : k[i] = k[i - 1] \o c[i]

\* The recursion that defines FlattenSeq goes through such stages.
LEMMA FlattenIs ==
  ASSUME NEW c, Len(c) \in Nat \ {0}, NEW k, JoinedStages(k, c)
  PROVE  FlattenSeq(c) = k[Len(c)]
<1> DEFINE n == Len(c)
           Step(h, i) == IF i = 1 THEN c[i] ELSE h[i - 1] \o c[i]
           G == CHOOSE h : h = [i \in 1 .. n |-> Step(h, i)]
<1>1. n \in Nat \ {0}
  OBVIOUS
<1>2. FlattenSeq(c) = G[n]
  BY <1>1 DEF FlattenSeq
<1> HIDE DEF n
<1>3. \A i \in 1 .. n : k[i] = Step(k, i)
  <2>1. ASSUME NEW i \in 1 .. n PROVE k[i] = Step(k, i)
    <3>1. i = 1 \/ i \in 2 .. n
      BY <1>1
    <3> QED BY <3>1 DEF JoinedStages, n
  <2> QED BY <2>1
<1>4. k = [i \in 1 .. n |-> Step(k, i)]
  <2>1. k = [i \in 1 .. n |-> k[i]]
    BY DEF JoinedStages, n
  <2> HIDE DEF Step
  <2> QED BY <1>3, <2>1
<1>5. G = [i \in 1 .. n |-> Step(G, i)]
  <2> HIDE DEF Step
  <2> QED BY <1>4
<1> HIDE DEF G
<1>6. \A i \in 1 .. n : G[i] = Step(G, i)
  <2> HIDE DEF Step
  <2> QED BY <1>5
<1> DEFINE Off == {i \in Nat : i \in 1 .. n /\ G[i] # k[i]}
<1>7. Off = {}
  <2> SUFFICES ASSUME Off # {} PROVE FALSE
    OBVIOUS
  <2>1. PICK m \in Off : \A j \in Off : m <= j
    BY LeastNat
  <2>2. m \in 1 .. n /\ G[m] # k[m]
    BY <2>1
  <2>3. CASE m = 1
    BY <1>3, <1>6, <2>2, <2>3
  <2>4. CASE m # 1
    <3>1. m - 1 \in 1 .. n /\ m - 1 \in Nat /\ ~(m <= m - 1)
      BY <1>1, <2>2, <2>4
    <3>2. G[m - 1] = k[m - 1]
      BY <2>1, <3>1
    <3> QED BY <1>3, <1>6, <2>2, <2>4, <3>2
  <2> QED BY <2>3, <2>4
<1>8. n \in 1 .. n
  BY <1>1
<1>9. G[n] = k[n]
  BY <1>7, <1>8
<1> QED BY <1>2, <1>9 DEF n

-----------------------------------------------------------------------------
(* SumFunction, the sum of the values of a function with a finite domain.  *)

\* The element of s that the fold of the library takes next.
Picked(s) == CHOOSE x \in s : TRUE

\* it[s] is the sum of f over s, for every part s of S.
IsSum(it, f, S) ==
  /\ it \in [SUBSET S -> Nat]
  /\ it[{}] = 0
  /\ \A s \in SUBSET S : s # {} => it[s] = f[Picked(s)] + it[s \ {Picked(s)}]

\* Induction on the size of a set, by least counterexample.
LEMMA SmallestSet ==
  ASSUME NEW C, C # {}, \A s \in C : IsFiniteSet(s)
  PROVE  \E s \in C : \A t \in C : Cardinality(s) <= Cardinality(t)
<1> DEFINE Sizes == {Cardinality(s) : s \in C}
<1>1. Sizes \in SUBSET Nat /\ Sizes # {}
  BY FS_CardinalityType
<1>2. PICK m \in Sizes : \A k \in Sizes : m <= k
  BY <1>1, LeastNat
<1> QED BY <1>2

\* The fold of the library goes through such sums.
LEMMA SumStages ==
  ASSUME NEW S, IsFiniteSet(S), NEW f, \A x \in S : f[x] \in Nat
  PROVE  \E it : IsSum(it, f, S) /\ SumFunctionOnSet(f, S) = it[S]
<1> DEFINE Step(it, s) == IF s = {} THEN 0 ELSE f[Picked(s)] + it[s \ {Picked(s)}]
           Parts(n) == {s \in SUBSET S : Cardinality(s) <= n}
           Stages(n) == \E it \in [Parts(n) -> Nat] : \A s \in Parts(n) : it[s] = Step(it, s)
           Bad == {n \in Nat : ~Stages(n)}
<1>0. ASSUME NEW s \in SUBSET S
      PROVE  /\ IsFiniteSet(s) /\ Cardinality(s) \in Nat
             /\ s # {} => /\ Picked(s) \in s /\ Picked(s) \in S
                          /\ s \ {Picked(s)} \in SUBSET S
                          /\ Cardinality(s \ {Picked(s)}) = Cardinality(s) - 1
             /\ Cardinality(s) = 0 <=> s = {}
  <2>1. IsFiniteSet(s) /\ Cardinality(s) \in Nat
    BY FS_Subset, FS_CardinalityType
  <2>2. s # {} => Picked(s) \in s
    BY DEF Picked
  <2> QED BY <2>1, <2>2, FS_RemoveElement, FS_EmptySet
<1>1. Stages(0)
  <2> DEFINE it == [s \in Parts(0) |-> 0]
  <2>1. ASSUME NEW s \in Parts(0) PROVE s = {}
    <3>1. s \in SUBSET S /\ Cardinality(s) <= 0
      OBVIOUS
    <3>2. Cardinality(s) \in Nat /\ (Cardinality(s) = 0 <=> s = {})
      BY <3>1, <1>0
    <3> QED BY <3>1, <3>2
  <2>2. it \in [Parts(0) -> Nat] /\ \A s \in Parts(0) : it[s] = Step(it, s)
    BY <2>1
  <2> QED BY <2>2
<1>2. ASSUME NEW n \in Nat, Stages(n) PROVE Stages(n+1)
  <2>1. PICK it \in [Parts(n) -> Nat] : \A s \in Parts(n) : it[s] = Step(it, s)
    BY <1>2
  <2> DEFINE it2 == [s \in Parts(n+1) |-> Step(it, s)]
  <2>2. ASSUME NEW s \in Parts(n+1), s # {}
        PROVE  /\ Picked(s) \in S
               /\ s \ {Picked(s)} \in Parts(n) /\ s \ {Picked(s)} \in Parts(n+1)
    BY <2>2, <1>0
  <2>3. ASSUME NEW s \in Parts(n+1) PROVE Step(it, s) \in Nat
    BY <2>1, <2>2
  <2>4. it2 \in [Parts(n+1) -> Nat]
    BY <2>3
  <2>5. ASSUME NEW s \in Parts(n) PROVE it2[s] = it[s]
    <3>1. s \in SUBSET S /\ Cardinality(s) <= n
      OBVIOUS
    <3>2. s \in Parts(n+1)
      <4>1. Cardinality(s) \in Nat
        BY <3>1, <1>0
      <4> QED BY <3>1, <4>1
    <3> QED BY <3>2, <2>1
  <2>6. ASSUME NEW s \in Parts(n+1) PROVE it2[s] = Step(it2, s)
    <3>1. it2[s] = Step(it, s)
      OBVIOUS
    <3> HIDE DEF it2
    <3> QED BY <3>1, <2>2, <2>5
  <2> HIDE DEF it2
  <2> QED BY <2>4, <2>6
<1>3. Bad = {}
  <2> SUFFICES ASSUME Bad # {} PROVE FALSE
    OBVIOUS
  <2> HIDE DEF Stages
  <2>1. PICK m \in Bad : \A k \in Bad : m <= k
    BY LeastNat
  <2>2. m - 1 \in Nat /\ m - 1 \notin Bad
    BY <2>1, <1>1
  <2> QED BY <1>2, <2>1, <2>2
<1>4. Cardinality(S) \in Nat /\ Parts(Cardinality(S)) = SUBSET S
  BY FS_Subset, FS_CardinalityType
<1>5. Stages(Cardinality(S))
  <2> HIDE DEF Stages
  <2> QED BY <1>3, <1>4
<1>6. PICK it \in [SUBSET S -> Nat] : \A s \in SUBSET S : it[s] = Step(it, s)
  BY <1>4, <1>5
<1> DEFINE G == CHOOSE g : g = [s \in SUBSET S |-> Step(g, s)]
<1>7. G = [s \in SUBSET S |-> Step(G, s)]
  <2>1. it = [s \in SUBSET S |-> Step(it, s)]
    BY <1>6
  <2> QED BY <2>1
<1>8. SumFunctionOnSet(f, S) = G[S]
  BY DEF SumFunctionOnSet, FoldFunctionOnSet, MapThenFoldSet, Picked
<1> HIDE DEF G
<1>9. \A s \in SUBSET S : G[s] = Step(G, s)
  BY <1>7
<1> DEFINE Off == {s \in SUBSET S : G[s] # it[s]}
<1>10. Off = {}
  <2> SUFFICES ASSUME Off # {} PROVE FALSE
    OBVIOUS
  <2>1. PICK s \in Off : \A t \in Off : Cardinality(s) <= Cardinality(t)
    BY <1>0, SmallestSet
  <2>2. s \in SUBSET S /\ G[s] # it[s]
    BY <2>1
  <2>3. s # {}
    BY <2>2, <1>6, <1>9
  <2>4. s \ {Picked(s)} \notin Off
    BY <2>1, <2>2, <2>3, <1>0
  <2>5. G[s \ {Picked(s)}] = it[s \ {Picked(s)}]
    BY <2>2, <2>3, <2>4, <1>0
  <2> QED BY <2>2, <2>3, <2>5, <1>6, <1>9
<1>11. SumFunctionOnSet(f, S) = it[S]
  BY <1>8, <1>10
<1>12. IsSum(it, f, S)
  BY <1>6 DEF IsSum
<1> QED BY <1>11, <1>12

\* The order in which the fold takes the elements does not matter.
LEMMA SumTakesAny ==
  ASSUME NEW S, IsFiniteSet(S), NEW f, \A x \in S : f[x] \in Nat,
         NEW it, IsSum(it, f, S), NEW s \in SUBSET S, NEW x \in s
  PROVE  it[s] = f[x] + it[s \ {x}]
<1> DEFINE Bad == {t \in SUBSET S : \E y \in t : it[t] # f[y] + it[t \ {y}]}
<1>0. \A t \in SUBSET S : it[t] \in Nat
  BY DEF IsSum
<1>1. Bad = {}
  <2> SUFFICES ASSUME Bad # {} PROVE FALSE
    OBVIOUS
  <2>1. \A t \in Bad : IsFiniteSet(t)
    BY FS_Subset
  <2>2. PICK t \in Bad : \A u \in Bad : Cardinality(t) <= Cardinality(u)
    BY <2>1, SmallestSet
  <2>3. PICK y \in t : it[t] # f[y] + it[t \ {y}]
    BY <2>2
  <2> DEFINE c == Picked(t)
  <2>4. t \in SUBSET S /\ t # {} /\ IsFiniteSet(t) /\ c \in t
    BY <2>1, <2>2, <2>3 DEF Picked
  <2>5. it[t] = f[c] + it[t \ {c}]
    BY <2>4 DEF IsSum
  <2> HIDE DEF c
  <2>6. c # y
    BY <2>3, <2>5
  <2>7. ASSUME NEW z \in t PROVE t \ {z} \in SUBSET S /\ t \ {z} \notin Bad
    <3>1. t \ {z} \in SUBSET S
      BY <2>4
    <3>2. /\ Cardinality(t \ {z}) = Cardinality(t) - 1
          /\ Cardinality(t) \in Nat
      BY <2>4, FS_RemoveElement, FS_CardinalityType
    <3>3. ~(Cardinality(t) <= Cardinality(t \ {z}))
      BY <3>2
    <3> HIDE DEF Bad
    <3> QED BY <2>2, <3>1, <3>3
  <2>8. it[t \ {c}] = f[y] + it[(t \ {c}) \ {y}]
    BY <2>7, <2>4, <2>6, <2>3
  <2>9. it[t \ {y}] = f[c] + it[(t \ {y}) \ {c}]
    BY <2>7, <2>4, <2>6, <2>3
  <2>10. (t \ {c}) \ {y} = (t \ {y}) \ {c}
    OBVIOUS
  <2> DEFINE rest == it[(t \ {c}) \ {y}]
  <2>11. f[c] \in Nat /\ f[y] \in Nat /\ rest \in Nat
    BY <2>3, <2>4, <1>0
  <2>12. it[t \ {y}] = f[c] + rest
    BY <2>9, <2>10
  <2>13. it[t] = f[c] + (f[y] + rest)
    BY <2>5, <2>8
  <2> HIDE DEF rest
  <2>14. it[t] = f[y] + it[t \ {y}]
    BY <2>11, <2>12, <2>13
  <2> QED BY <2>3, <2>14
<1> QED BY <1>1

\* Sums of two functions over a part of both their domains.
LEMMA PartialSums ==
  ASSUME NEW S, IsFiniteSet(S), NEW f, \A x \in S : f[x] \in Nat, NEW it, IsSum(it, f, S),
         NEW T, IsFiniteSet(T), NEW g, \A x \in T : g[x] \in Nat, NEW jt, IsSum(jt, g, T),
         NEW s \in SUBSET S, s \in SUBSET T, \A x \in s : f[x] <= g[x]
  PROVE  it[s] <= jt[s]
<1> DEFINE Bad == {t \in SUBSET s : ~(it[t] <= jt[t])}
<1>1. Bad = {}
  <2> SUFFICES ASSUME Bad # {} PROVE FALSE
    OBVIOUS
  <2>1. \A t \in Bad : IsFiniteSet(t)
    BY FS_Subset
  <2>2. PICK t \in Bad : \A u \in Bad : Cardinality(t) <= Cardinality(u)
    BY <2>1, SmallestSet
  <2>3. t # {}
    <3>1. it[{}] = 0 /\ jt[{}] = 0
      BY DEF IsSum
    <3>2. it[{}] <= jt[{}]
      BY <3>1
    <3>3. ~(it[t] <= jt[t])
      BY <2>2
    <3> HIDE DEF Bad
    <3> QED BY <3>2, <3>3
  <2>4. PICK x \in t : TRUE
    BY <2>3
  <2>5. t \in SUBSET S /\ t \in SUBSET T /\ t \ {x} \in SUBSET s /\ ~(it[t] <= jt[t])
    <3>1. t \in SUBSET s /\ ~(it[t] <= jt[t])
      BY <2>2
    <3> QED BY <3>1
  <2>6. it[t] = f[x] + it[t \ {x}] /\ jt[t] = g[x] + jt[t \ {x}]
    BY <2>5, SumTakesAny
  <2>7. t \ {x} \notin Bad
    <3>1. /\ Cardinality(t \ {x}) = Cardinality(t) - 1
          /\ Cardinality(t) \in Nat
      BY <2>1, <2>2, FS_RemoveElement, FS_CardinalityType
    <3> QED BY <3>1, <2>2
  <2>8. it[t \ {x}] <= jt[t \ {x}]
    BY <2>5, <2>7
  <2>9. f[x] <= g[x] /\ f[x] \in Nat /\ g[x] \in Nat
    BY <2>5
  <2>10. it[t \ {x}] \in Nat /\ jt[t \ {x}] \in Nat
    BY <2>5 DEF IsSum
  <2> QED BY <2>5, <2>6, <2>8, <2>9, <2>10
<1> QED BY <1>1

\* The same, of functions that agree on that part.
LEMMA EqualSums ==
  ASSUME NEW S, IsFiniteSet(S), NEW f, \A x \in S : f[x] \in Nat, NEW it, IsSum(it, f, S),
         NEW T, IsFiniteSet(T), NEW g, \A x \in T : g[x] \in Nat, NEW jt, IsSum(jt, g, T),
         NEW s \in SUBSET S, s \in SUBSET T, \A x \in s : f[x] = g[x]
  PROVE  it[s] = jt[s]
<1> DEFINE Bad == {t \in SUBSET s : it[t] # jt[t]}
<1>1. Bad = {}
  <2> SUFFICES ASSUME Bad # {} PROVE FALSE
    OBVIOUS
  <2>1. \A t \in Bad : IsFiniteSet(t)
    BY FS_Subset
  <2>2. PICK t \in Bad : \A u \in Bad : Cardinality(t) <= Cardinality(u)
    BY <2>1, SmallestSet
  <2>3. t # {}
    <3>1. it[{}] = 0 /\ jt[{}] = 0 /\ it[t] # jt[t]
      BY <2>2 DEF IsSum
    <3> QED BY <3>1
  <2>4. PICK x \in t : TRUE
    BY <2>3
  <2>5. t \in SUBSET S /\ t \in SUBSET T /\ t \ {x} \in SUBSET s /\ it[t] # jt[t]
    BY <2>2
  <2>6. it[t] = f[x] + it[t \ {x}] /\ jt[t] = g[x] + jt[t \ {x}]
    BY <2>5, SumTakesAny
  <2>7. t \ {x} \notin Bad
    <3>1. /\ Cardinality(t \ {x}) = Cardinality(t) - 1
          /\ Cardinality(t) \in Nat
      BY <2>1, <2>2, FS_RemoveElement, FS_CardinalityType
    <3> QED BY <3>1, <2>2
  <2>8. it[t \ {x}] = jt[t \ {x}]
    BY <2>5, <2>7
  <2>9. f[x] = g[x] /\ f[x] \in Nat /\ g[x] \in Nat
    BY <2>5
  <2>10. it[t \ {x}] \in Nat /\ jt[t \ {x}] \in Nat
    BY <2>5 DEF IsSum
  <2> QED BY <2>5, <2>6, <2>8, <2>9, <2>10
<1> QED BY <1>1

LEMMA SumType ==
  ASSUME NEW S, IsFiniteSet(S), NEW f \in [S -> Nat]
  PROVE  SumFunction(f) \in Nat
<1>1. \E it : IsSum(it, f, S) /\ SumFunctionOnSet(f, S) = it[S]
  BY SumStages
<1> QED BY <1>1 DEF SumFunction, IsSum

LEMMA SumMonotone ==
  ASSUME NEW S, IsFiniteSet(S), NEW f \in [S -> Nat], NEW g \in [S -> Nat],
         \A x \in S : f[x] <= g[x]
  PROVE  SumFunction(f) <= SumFunction(g)
<1>1. PICK it : IsSum(it, f, S) /\ SumFunctionOnSet(f, S) = it[S]
  BY SumStages
<1>2. PICK jt : IsSum(jt, g, S) /\ SumFunctionOnSet(g, S) = jt[S]
  BY SumStages
<1>3. it[S] <= jt[S]
  BY <1>1, <1>2, PartialSums
<1> QED BY <1>1, <1>2, <1>3 DEF SumFunction

\* Two functions that agree but for r, where only g may be defined.
LEMMA SumChange ==
  ASSUME NEW S, IsFiniteSet(S), NEW r \in S,
         NEW f, NEW g, \A x \in S : f[x] \in Nat /\ g[x] \in Nat,
         \A x \in S \ {r} : f[x] = g[x]
  PROVE  SumFunctionOnSet(f, S) + g[r] = SumFunctionOnSet(g, S) + f[r]
<1>1. PICK it : IsSum(it, f, S) /\ SumFunctionOnSet(f, S) = it[S]
  BY SumStages
<1>2. PICK jt : IsSum(jt, g, S) /\ SumFunctionOnSet(g, S) = jt[S]
  BY SumStages
<1>3. it[S] = f[r] + it[S \ {r}] /\ jt[S] = g[r] + jt[S \ {r}]
  BY <1>1, <1>2, SumTakesAny
<1>4. it[S \ {r}] = jt[S \ {r}]
  BY <1>1, <1>2, EqualSums
<1>5. it[S \ {r}] \in Nat /\ jt[S \ {r}] \in Nat /\ f[r] \in Nat /\ g[r] \in Nat
  BY <1>1, <1>2 DEF IsSum
<1> QED BY <1>1, <1>2, <1>3, <1>4, <1>5

\* A sum moves by what one of its terms moves.
LEMMA SumUpdate ==
  ASSUME NEW S, IsFiniteSet(S), NEW r \in S, NEW f \in [S -> Nat], NEW g \in [S -> Nat],
         \A x \in S : x # r => f[x] = g[x]
  PROVE  SumFunction(g) = SumFunction(f) - f[r] + g[r]
<1>1. SumFunctionOnSet(f, S) + g[r] = SumFunctionOnSet(g, S) + f[r]
  BY SumChange
<1>2. SumFunction(f) = SumFunctionOnSet(f, S) /\ SumFunction(g) = SumFunctionOnSet(g, S)
  BY DEF SumFunction
<1>3. SumFunction(f) \in Nat /\ SumFunction(g) \in Nat /\ f[r] \in Nat /\ g[r] \in Nat
  BY SumType
<1> QED BY <1>1, <1>2, <1>3

LEMMA SumZero ==
  ASSUME NEW S, IsFiniteSet(S), NEW f \in [S -> Nat], \A x \in S : f[x] = 0
  PROVE  SumFunction(f) = 0
<1>1. PICK it : IsSum(it, f, S) /\ SumFunctionOnSet(f, S) = it[S]
  BY SumStages
<1> DEFINE Bad == {t \in SUBSET S : it[t] # 0}
<1>2. Bad = {}
  <2> SUFFICES ASSUME Bad # {} PROVE FALSE
    OBVIOUS
  <2>1. \A t \in Bad : IsFiniteSet(t)
    BY FS_Subset
  <2>2. PICK t \in Bad : \A u \in Bad : Cardinality(t) <= Cardinality(u)
    BY <2>1, SmallestSet
  <2>3. t # {}
    BY <1>1, <2>2 DEF IsSum
  <2>4. PICK x \in t : TRUE
    BY <2>3
  <2>5. it[t] = f[x] + it[t \ {x}]
    BY <1>1, <2>2, SumTakesAny
  <2>6. t \ {x} \notin Bad
    <3>1. /\ Cardinality(t \ {x}) = Cardinality(t) - 1
          /\ Cardinality(t) \in Nat
      BY <2>1, <2>2, FS_RemoveElement, FS_CardinalityType
    <3> QED BY <3>1, <2>2
  <2> QED BY <2>2, <2>5, <2>6
<1> QED BY <1>1, <1>2 DEF SumFunction

\* One more element is one more term.
LEMMA SumOneMore ==
  ASSUME NEW S, IsFiniteSet(S), NEW r, r \notin S, NEW T, T = S \cup {r},
         NEW f, \A x \in T : f[x] \in Nat
  PROVE  /\ SumFunctionOnSet(f, S) \in Nat
         /\ SumFunctionOnSet(f, T) = SumFunctionOnSet(f, S) + f[r]
<1>0. IsFiniteSet(T) /\ r \in T /\ S \in SUBSET T /\ T \in SUBSET T /\ T \ {r} = S
  BY FS_AddElement
<1>1. PICK it : IsSum(it, f, S) /\ SumFunctionOnSet(f, S) = it[S]
  BY SumStages
<1>2. PICK jt : IsSum(jt, f, T) /\ SumFunctionOnSet(f, T) = jt[T]
  BY <1>0, SumStages
<1>3. jt[T] = f[r] + jt[S]
  BY <1>0, <1>2, SumTakesAny
<1>4. it[S] = jt[S]
  BY <1>0, <1>1, <1>2, EqualSums
<1>5. it[S] \in Nat /\ jt[S] \in Nat /\ f[r] \in Nat
  BY <1>0, <1>1, <1>2 DEF IsSum
<1> QED BY <1>1, <1>2, <1>3, <1>4, <1>5

\* One more argument is one more term.
LEMMA SumExtend ==
  ASSUME NEW S, IsFiniteSet(S), NEW r, r \notin S,
         NEW f \in [S -> Nat], NEW T, T = S \cup {r}, NEW g \in [T -> Nat],
         \A x \in S : f[x] = g[x]
  PROVE  SumFunction(g) = SumFunction(f) + g[r]
<1>0. IsFiniteSet(T) /\ r \in T /\ S \in SUBSET T /\ T \in SUBSET T /\ T \ {r} = S
  BY FS_AddElement
<1>1. PICK it : IsSum(it, f, S) /\ SumFunctionOnSet(f, S) = it[S]
  BY SumStages
<1>2. PICK jt : IsSum(jt, g, T) /\ SumFunctionOnSet(g, T) = jt[T]
  BY <1>0, SumStages
<1>3. jt[T] = g[r] + jt[S]
  BY <1>0, <1>2, SumTakesAny
<1>4. it[S] = jt[S]
  BY <1>0, <1>1, <1>2, EqualSums
<1>5. it[S] \in Nat /\ jt[S] \in Nat /\ g[r] \in Nat
  BY <1>0, <1>1, <1>2 DEF IsSum
<1> QED BY <1>1, <1>2, <1>3, <1>4, <1>5 DEF SumFunction

\* Counting is summing ones.
LEMMA SumOfOnes ==
  ASSUME NEW S, IsFiniteSet(S), NEW T \in SUBSET S
  PROVE  SumFunction([x \in S |-> IF x \in T THEN 1 ELSE 0]) = Cardinality(T)
<1> DEFINE One(U) == [x \in S |-> IF x \in U THEN 1 ELSE 0]
           Bad == {U \in SUBSET S : SumFunction(One(U)) # Cardinality(U)}
<1>1. Bad = {}
  <2> SUFFICES ASSUME Bad # {} PROVE FALSE
    OBVIOUS
  <2>1. \A U \in Bad : IsFiniteSet(U)
    BY FS_Subset
  <2>2. PICK U \in Bad : \A V \in Bad : Cardinality(U) <= Cardinality(V)
    <3> HIDE DEF Bad
    <3> QED BY <2>1, SmallestSet
  <2>3. U \in SUBSET S /\ SumFunction(One(U)) # Cardinality(U) /\ IsFiniteSet(U)
    BY <2>1, <2>2
  <2>4. U # {}
    <3> SUFFICES ASSUME U = {} PROVE FALSE
      OBVIOUS
    <3>1. One(U) \in [S -> Nat] /\ \A x \in S : One(U)[x] = 0
      OBVIOUS
    <3> HIDE DEF One
    <3> QED BY <3>1, <2>3, SumZero, FS_EmptySet
  <2>5. PICK x \in U : TRUE
    BY <2>4
  <2>6. /\ Cardinality(U \ {x}) = Cardinality(U) - 1
        /\ Cardinality(U) \in Nat
    BY <2>3, FS_RemoveElement, FS_CardinalityType
  <2>7. U \ {x} \notin Bad
    <3> HIDE DEF Bad
    <3> QED BY <2>2, <2>6
  <2>8. SumFunction(One(U \ {x})) = Cardinality(U \ {x})
    BY <2>3, <2>7
  <2> DEFINE f == One(U \ {x})
             g == One(U)
  <2>9. /\ f \in [S -> Nat] /\ g \in [S -> Nat] /\ x \in S
        /\ \A y \in S : y # x => f[y] = g[y]
        /\ f[x] = 0 /\ g[x] = 1
    BY <2>3
  <2>10. SumFunction(f) = Cardinality(U \ {x}) /\ SumFunction(g) # Cardinality(U)
    BY <2>3, <2>8
  <2> HIDE DEF One, f, g
  <2>11. SumFunction(g) = SumFunction(f) - f[x] + g[x]
    BY ONLY IsFiniteSet(S), <2>9, SumUpdate
  <2> QED BY <2>6, <2>9, <2>10, <2>11
<1> QED BY <1>1

=============================================================================
