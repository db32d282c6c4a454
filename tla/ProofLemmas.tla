---------------------------- MODULE ProofLemmas ----------------------------
(***************************************************************************)
(* Facts about numbers and sequences that the proofs about the components  *)
(* share.  Induction is stated for sets of numbers, not for predicates:    *)
(* it follows from the well-founded order of the finite sets.              *)
(***************************************************************************)
EXTENDS Integers, Sequences, FiniteSets, FiniteSetTheorems, SequenceTheorems, TLAPS

\* The numbers below n: they order the numbers as sets.
Below(n) == 0..(n - 1)

\* A set of natural numbers that is not empty has a smallest element.
LEMMA Smallest ==
    ASSUME NEW S \in SUBSET Nat, S # {}
    PROVE  \E m \in S : \A n \in S : m <= n
<1> DEFINE T == {Below(n) : n \in S}
<1>1. \A n \in Nat : IsFiniteSet(Below(n))
    BY FS_Interval DEF Below
<1>2. T \subseteq FiniteSubsetsOf(Nat) /\ T # {}
  <2>1. \A n \in Nat : Below(n) \in SUBSET Nat
    BY DEF Below
  <2>2. \A n \in Nat : Below(n) \in FiniteSubsetsOf(Nat)
    BY <1>1, <2>1 DEF FiniteSubsetsOf
  <2> QED
    BY <2>2
<1>3. IsWellFoundedOn(StrictSubsetOrdering(Nat), FiniteSubsetsOf(Nat))
    BY FS_StrictSubsetOrderingWellFounded
<1> HIDE DEF T
<1>4. PICK t \in T : \A u \in T : ~(<<u, t>> \in StrictSubsetOrdering(Nat))
    BY <1>2, <1>3, WFMin
<1>5. PICK m \in S : t = Below(m)
    BY DEF T
<1>6. ASSUME NEW n \in S, n < m PROVE FALSE
  <2>1. Below(n) \in T /\ Below(n) \subseteq Nat /\ Below(m) \subseteq Nat
    BY DEF T, Below
  <2>2. Below(n) \subseteq Below(m)
    BY <1>6 DEF Below
  <2>3. n \in Below(m) /\ n \notin Below(n)
    BY <1>6 DEF Below
  <2> QED
    BY <1>4, <1>5, <2>1, <2>2, <2>3 DEF StrictSubsetOrdering
<1> QED
    BY <1>6

\* Induction: a set with zero and every successor has all natural numbers.
LEMMA Induction ==
    ASSUME NEW S, 0 \in S, \A n \in Nat : n \in S => n + 1 \in S
    PROVE  Nat \subseteq S
<1>1. SUFFICES ASSUME Nat \ S # {} PROVE FALSE
    OBVIOUS
<1>2. PICK m \in Nat \ S : \A n \in Nat \ S : m <= n
    BY <1>1, Smallest
<1>3. m # 0 /\ m - 1 \in Nat /\ m - 1 \in S
    BY <1>2
<1> QED
    BY <1>2, <1>3

\* What a recursive function does: it goes from each value to the next.
Steps(X) == [Nat -> [X -> X]]
Iterates(g, F, x, N) == g[0] = x /\ \A n \in 1..N : g[n] = F[n][g[n - 1]]

\* There is one, and its values are in the set the steps stay in.
LEMMA Iteration ==
    ASSUME NEW X, NEW x \in X, NEW F \in Steps(X), NEW N \in Nat
    PROVE  \E g : Iterates(g, F, x, N) /\ \A n \in 0..N : g[n] \in X
<1> USE DEF Steps
<1> DEFINE Good(g, j) == g[0] = x /\ \A n \in 1..j : g[n] = F[n][g[n - 1]]
           S == {j \in Nat : \E g \in [0..j -> X] : Good(g, j)}
<1>1. 0 \in S
  <2>1. [n \in 0..0 |-> x] \in [0..0 -> X] /\ Good([n \in 0..0 |-> x], 0)
    OBVIOUS
  <2> QED
    BY <2>1
<1>2. ASSUME NEW j \in Nat, j \in S
      PROVE  j + 1 \in S
  <2>1. PICK g \in [0..j -> X] : Good(g, j)
    BY <1>2
  <2> DEFINE h == [n \in 0..(j + 1) |-> IF n = j + 1 THEN F[j + 1][g[j]] ELSE g[n]]
  <2>2. h \in [0..(j + 1) -> X]
    OBVIOUS
  <2>3. ASSUME NEW n \in 1..(j + 1)
        PROVE  h[n] = F[n][h[n - 1]]
    <3>1. CASE n = j + 1
      BY <3>1
    <3>2. CASE n # j + 1
      <4>1. n \in 1..j /\ h[n] = g[n] /\ h[n - 1] = g[n - 1]
        BY <3>2
      <4> QED
        BY <2>1, <4>1
    <3> QED
      BY <3>1, <3>2
  <2>4. h[0] = x
    BY <2>1
  <2>5. Good(h, j + 1)
    BY <2>3, <2>4
  <2> HIDE DEF h, Good
  <2> QED
    BY <2>2, <2>5
<1>3. N \in S
    BY <1>1, <1>2, Induction
<1>4. PICK g \in [0..N -> X] : Good(g, N)
    BY <1>3
<1> QED
    BY <1>4 DEF Iterates

\* A recursive function that begins with x at 1.
FromOne(g, F, x, N) == g[1] = x /\ \A n \in 2..N : g[n] = F[n][g[n - 1]]

LEMMA IterationFromOne ==
    ASSUME NEW X, NEW x \in X, NEW F \in Steps(X), NEW N \in Nat
    PROVE  \E g : FromOne(g, F, x, N) /\ \A n \in 1..N : g[n] \in X
<1> USE DEF FromOne
<1> DEFINE G == [n \in Nat |-> IF n = 1 THEN [y \in X |-> x] ELSE F[n]]
<1>1. G \in Steps(X)
    BY DEF Steps
<1>2. G[1][x] = x /\ \A n \in 2..N : G[n] = F[n]
    OBVIOUS
<1> HIDE DEF G
<1>3. CASE N = 0
  <2> DEFINE g == [n \in {1} |-> x]
  <2>1. g[1] = x /\ 2..N = {} /\ 1..N = {}
    BY <1>3
  <2> HIDE DEF g
  <2> QED
    BY <2>1
<1>4. CASE N # 0
  <2>1. PICK g : Iterates(g, G, x, N) /\ \A n \in 0..N : g[n] \in X
    BY <1>1, Iteration
  <2>2. g[1] = x
    <3>1. 1 \in 1..N /\ 1 - 1 = 0
      BY <1>4
    <3>2. g[1] = G[1][g[0]] /\ g[0] = x
      BY <2>1, <3>1 DEF Iterates
    <3> QED
      BY <1>2, <3>2
  <2>3. \A n \in 2..N : g[n] = F[n][g[n - 1]]
    <3>1. \A n \in 2..N : n \in 1..N
      OBVIOUS
    <3> QED
      BY <1>2, <2>1, <3>1 DEF Iterates
  <2>4. \A n \in 1..N : g[n] \in X
    BY <2>1
  <2> QED
    BY <2>2, <2>3, <2>4
<1> QED
    BY <1>3, <1>4

-----------------------------------------------------------------------------
(* Sequences *)

\* A function on the numbers up to n is a sequence.
LEMMA SeqOfLength ==
    ASSUME NEW S, NEW n \in Nat, NEW s \in [1..n -> S]
    PROVE  s \in Seq(S) /\ Len(s) = n /\ DOMAIN s = 1..n
<1>1. s \in Seq(S)
    BY SeqDef
<1>2. DOMAIN s = 1..n
    OBVIOUS
<1> QED
    BY <1>1, <1>2, LenProperties

\* Every part of a sequence is a sequence of the same elements.
LEMMA SubSeqType ==
    ASSUME NEW S, NEW s \in Seq(S), NEW m \in Nat \ {0}, NEW n \in 0..Len(s)
    PROVE  SubSeq(s, m, n) \in Seq(S)
<1>1. \A i \in m..n : s[i] \in S
    BY ElementOfSeq, LenProperties
<1> QED
    BY <1>1, SubSeqProperties, LenProperties

LEMMA SubSeqIs ==
    ASSUME NEW S, NEW s \in Seq(S), NEW m \in Nat \ {0}, NEW n \in 0..Len(s), m <= n + 1
    PROVE  /\ SubSeq(s, m, n) \in Seq(S) /\ Len(SubSeq(s, m, n)) = n - m + 1
           /\ \A i \in 1..(n - m + 1) : SubSeq(s, m, n)[i] = s[m + i - 1]
<1>1. Len(s) \in Nat
    BY LenProperties
<1>2. \A i \in m..n : s[i] \in S
    BY <1>1, ElementOfSeq
<1>3. /\ Len(SubSeq(s, m, n)) = n - m + 1
      /\ \A i \in 1..(n - m + 1) : SubSeq(s, m, n)[i] = s[m + i - 1]
    BY <1>1, SubSeqProperties
<1> QED
    BY <1>3, SubSeqType

\* The first n elements, and the n elements behind a.
LEMMA FrontIs ==
    ASSUME NEW S, NEW s \in Seq(S), NEW n \in Nat, n <= Len(s)
    PROVE  /\ SubSeq(s, 1, n) \in Seq(S) /\ Len(SubSeq(s, 1, n)) = n
           /\ \A i \in 1..n : SubSeq(s, 1, n)[i] = s[i]
<1> DEFINE front == SubSeq(s, 1, n)
<1>1. n \in 0..Len(s) /\ 1 <= n + 1 /\ n - 1 + 1 = n /\ \A i \in 1..n : 1 + i - 1 = i
    BY LenProperties
<1>2. /\ front \in Seq(S) /\ Len(front) = n - 1 + 1
      /\ \A i \in 1..(n - 1 + 1) : front[i] = s[1 + i - 1]
    BY <1>1, SubSeqIs
<1> HIDE DEF front
<1>3. front \in Seq(S) /\ Len(front) = n /\ \A i \in 1..n : front[i] = s[i]
    BY <1>1, <1>2
<1> QED
    BY <1>3 DEF front

LEMMA PartIs ==
    ASSUME NEW S, NEW s \in Seq(S), NEW a \in Nat, NEW b \in Nat, a <= b, b <= Len(s)
    PROVE  /\ SubSeq(s, a + 1, b) \in Seq(S) /\ Len(SubSeq(s, a + 1, b)) = b - a
           /\ \A i \in 1..(b - a) : SubSeq(s, a + 1, b)[i] = s[a + i]
<1> DEFINE m == a + 1
           part == SubSeq(s, m, b)
<1>1. /\ m \in Nat \ {0} /\ b \in 0..Len(s) /\ m <= b + 1 /\ b - m + 1 = b - a
      /\ \A i \in 1..(b - a) : m + i - 1 = a + i
    BY LenProperties
<1> HIDE DEF m
<1>2. /\ part \in Seq(S) /\ Len(part) = b - m + 1
      /\ \A i \in 1..(b - m + 1) : part[i] = s[m + i - 1]
    BY <1>1, SubSeqIs
<1> HIDE DEF part
<1>3. part \in Seq(S) /\ Len(part) = b - a /\ \A i \in 1..(b - a) : part[i] = s[a + i]
    BY <1>1, <1>2
<1> QED
    BY <1>3 DEF part, m

\* s and what comes behind it.
LEMMA BehindIs ==
    ASSUME NEW S, NEW s \in Seq(S), NEW t \in Seq(S)
    PROVE  /\ s \o t \in Seq(S) /\ Len(s \o t) = Len(s) + Len(t)
           /\ \A i \in 1..Len(s) : (s \o t)[i] = s[i]
           /\ \A i \in 1..Len(t) : (s \o t)[Len(s) + i] = t[i]
<1> DEFINE all == s \o t
           m == Len(s)
           n == Len(t)
<1>1. /\ all \in Seq(S) /\ Len(all) = m + n
      /\ \A i \in 1..(m + n) : all[i] = IF i <= m THEN s[i] ELSE t[i - m]
    BY ConcatProperties
<1>2. m \in Nat /\ n \in Nat
    BY LenProperties
<1> HIDE DEF all, m, n
<1>3. \A i \in 1..m : all[i] = s[i]
    BY <1>1, <1>2
<1>4. ASSUME NEW i \in 1..n PROVE all[m + i] = t[i]
  <2> DEFINE k == m + i
  <2>1. k \in 1..(m + n) /\ ~(k <= m) /\ k - m = i
    BY <1>2
  <2> HIDE DEF k
  <2>2. all[k] = t[k - m]
    BY <1>1, <2>1
  <2> QED
    BY <2>1, <2>2 DEF k
<1> QED
    BY <1>1, <1>3, <1>4 DEF all, m, n

\* Two parts of a sequence that follow each other are one.
LEMMA PartsJoin ==
    ASSUME NEW S, NEW s \in Seq(S), NEW a \in Nat, NEW b \in Nat, a <= b, b <= Len(s)
    PROVE  SubSeq(s, 1, a) \o SubSeq(s, a + 1, b) = SubSeq(s, 1, b)
<1> DEFINE front == SubSeq(s, 1, a)
           back == SubSeq(s, a + 1, b)
           both == SubSeq(s, 1, b)
           joined == front \o back
<1>1. /\ front \in Seq(S) /\ Len(front) = a /\ \A i \in 1..a : front[i] = s[i]
      /\ both \in Seq(S) /\ Len(both) = b /\ \A i \in 1..b : both[i] = s[i]
  <2>1. a <= Len(s)
    BY LenProperties
  <2> QED
    BY <2>1, FrontIs
<1>2. back \in Seq(S) /\ Len(back) = b - a /\ \A i \in 1..(b - a) : back[i] = s[a + i]
    BY PartIs
<1> HIDE DEF front, back, both
<1>3. /\ joined \in Seq(S) /\ Len(joined) = a + (b - a)
      /\ \A i \in 1..a : joined[i] = front[i]
      /\ \A i \in 1..(b - a) : joined[a + i] = back[i]
  <2>1. /\ joined \in Seq(S) /\ Len(joined) = Len(front) + Len(back)
        /\ \A i \in 1..Len(front) : joined[i] = front[i]
        /\ \A i \in 1..Len(back) : joined[Len(front) + i] = back[i]
    <3>1. front \in Seq(S) /\ back \in Seq(S)
      BY <1>1, <1>2
    <3> QED
      BY <3>1, BehindIs
  <2> HIDE DEF joined
  <2>2. Len(front) = a /\ Len(back) = b - a
    BY <1>1, <1>2
  <2> QED
    BY <2>1, <2>2
<1> HIDE DEF joined
<1>4. ASSUME NEW i \in 1..b PROVE joined[i] = both[i]
  <2>1. CASE i <= a
    <3>1. i \in 1..a
      BY <2>1
    <3> QED
      BY <1>1, <1>3, <3>1
  <2>2. CASE ~(i <= a)
    <3>1. i - a \in 1..(b - a) /\ a + (i - a) = i
      BY <2>2
    <3>2. joined[a + (i - a)] = s[a + (i - a)]
      BY <1>2, <1>3, <3>1
    <3> QED
      BY <1>1, <3>1, <3>2
  <2> QED
    BY <2>1, <2>2
<1>5. Len(joined) = b
    BY <1>3
<1>6. joined = both
    BY <1>1, <1>3, <1>4, <1>5, SeqEqual
<1> QED
    BY <1>6 DEF joined, both, front, back

\* A sequence without its n-th element.
CutOut(s, n) == SubSeq(s, 1, n - 1) \o SubSeq(s, n + 1, Len(s))

LEMMA CutOutIs ==
    ASSUME NEW S, NEW s \in Seq(S), NEW n \in 1..Len(s)
    PROVE  /\ CutOut(s, n) \in Seq(S) /\ Len(CutOut(s, n)) = Len(s) - 1
           /\ \A i \in 1..(Len(s) - 1) : CutOut(s, n)[i] = IF i < n THEN s[i] ELSE s[i + 1]
<1> DEFINE front == SubSeq(s, 1, n - 1)
           back == SubSeq(s, n + 1, Len(s))
           all == front \o back
<1>1. Len(s) \in Nat /\ n \in Nat /\ n - 1 \in Nat
    BY LenProperties
<1>2. front \in Seq(S) /\ Len(front) = n - 1 /\ \A i \in 1..(n - 1) : front[i] = s[i]
  <2>1. n - 1 <= Len(s)
    BY <1>1
  <2> QED
    BY <1>1, <2>1, FrontIs
<1>3. /\ back \in Seq(S) /\ Len(back) = Len(s) - n
      /\ \A i \in 1..(Len(s) - n) : back[i] = s[n + i]
    BY <1>1, PartIs
<1> HIDE DEF front, back
<1>4. /\ all \in Seq(S) /\ Len(all) = Len(front) + Len(back)
      /\ \A i \in 1..Len(front) : all[i] = front[i]
      /\ \A i \in 1..Len(back) : all[Len(front) + i] = back[i]
  <2>1. front \in Seq(S) /\ back \in Seq(S)
    BY <1>2, <1>3
  <2> QED
    BY <2>1, BehindIs
<1>5. all = CutOut(s, n)
    BY DEF CutOut, front, back
<1> HIDE DEF all
<1>6. ASSUME NEW i \in 1..(Len(s) - 1) PROVE all[i] = IF i < n THEN s[i] ELSE s[i + 1]
  <2>1. CASE i < n
    <3>1. i \in 1..(n - 1)
      BY <1>1, <2>1
    <3> QED
      BY <1>2, <1>4, <2>1, <3>1
  <2>2. CASE ~(i < n)
    <3> DEFINE k == i - (n - 1)
    <3>1. k \in 1..(Len(s) - n) /\ (n - 1) + k = i /\ n + k = i + 1
      BY <1>1, <2>2
    <3> HIDE DEF k
    <3>2. all[(n - 1) + k] = s[n + k]
      BY <1>2, <1>3, <1>4, <3>1
    <3> QED
      BY <2>2, <3>1, <3>2
  <2> QED
    BY <2>1, <2>2
<1>7. Len(all) = Len(s) - 1
    BY <1>1, <1>2, <1>3, <1>4
<1> QED
    BY <1>4, <1>5, <1>6, <1>7
=============================================================================
