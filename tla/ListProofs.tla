----------------------------- MODULE ListProofs -----------------------------
(***************************************************************************)
(* Facts about lists that the proofs of several components rest on: what   *)
(* an element appended, taken out or replaced does to a list, to the set   *)
(* of its elements, and to a list without repetitions (IsInjective).       *)
(***************************************************************************)
EXTENDS Integers, Sequences, Functions, SequenceTheorems, WellFoundedInduction, TLAPS

-----------------------------------------------------------------------------
(* Lists. *)

\* A function on an initial segment of the naturals is a sequence.
LEMMA FunctionIsSeq ==
  ASSUME NEW S, NEW n \in Nat, NEW f \in [1 .. n -> S]
  PROVE  f \in Seq(S) /\ Len(f) = n
OBVIOUS

\* A list without the element at i.
Without(s, i) == SubSeq(s, 1, i - 1) \o SubSeq(s, i + 1, Len(s))

\* Taking one element out of a list moves up those behind it.
LEMMA WithoutFacts ==
  ASSUME NEW S, NEW s \in Seq(S), NEW i \in 1 .. Len(s)
  PROVE  /\ Without(s, i) \in Seq(S)
         /\ Len(Without(s, i)) = Len(s) - 1
         /\ \A j \in 1 .. Len(s) - 1 : Without(s, i)[j] = IF j < i THEN s[j] ELSE s[j + 1]
<1>1. Len(s) \in Nat /\ \A j \in 1 .. Len(s) : s[j] \in S
  BY LenProperties, ElementOfSeq
<1> DEFINE front == SubSeq(s, 1, i - 1)
           back == SubSeq(s, i + 1, Len(s))
<1>2. /\ front \in Seq(S) /\ Len(front) = i - 1
      /\ \A j \in 1 .. i - 1 : front[j] = s[j]
  <2>1. \A j \in 1 .. i - 1 : s[j] \in S
    BY <1>1
  <2> QED
    BY <1>1, <2>1, SubSeqProperties
<1>3. /\ back \in Seq(S) /\ Len(back) = Len(s) - i
      /\ \A j \in 1 .. Len(s) - i : back[j] = s[i + j]
  <2>1. \A j \in i + 1 .. Len(s) : s[j] \in S
    BY <1>1
  <2> QED
    BY <1>1, <2>1, SubSeqProperties
<1>4. Without(s, i) = front \o back
  BY DEF Without
<1> HIDE DEF front, back
<1>5. /\ front \o back \in Seq(S) /\ Len(front \o back) = Len(front) + Len(back)
      /\ \A j \in 1 .. Len(front) + Len(back) :
           (front \o back)[j] = IF j <= Len(front) THEN front[j] ELSE back[j - Len(front)]
  BY <1>2, <1>3, ConcatProperties
<1>6. ASSUME NEW j \in 1 .. Len(s) - 1
      PROVE  (front \o back)[j] = IF j < i THEN s[j] ELSE s[j + 1]
  <2>1. CASE j < i
    BY <1>1, <1>2, <1>3, <1>5, <2>1
  <2>2. CASE ~ j < i
    <3>1. /\ j - (i - 1) \in 1 .. Len(s) - i /\ i + (j - (i - 1)) = j + 1
          /\ j \in 1 .. (i - 1) + (Len(s) - i) /\ ~ j <= i - 1
      BY <1>1, <2>2
    <3>2. (front \o back)[j] = back[j - (i - 1)]
      BY <1>2, <1>3, <1>5, <3>1
    <3>3. back[j - (i - 1)] = s[i + (j - (i - 1))]
      BY <1>3, <3>1
    <3> QED
      BY <2>2, <3>1, <3>2, <3>3
  <2> QED
    BY <2>1, <2>2
<1> QED
  BY <1>1, <1>2, <1>3, <1>4, <1>5, <1>6

\* A set of positions, if not empty, has a first one.
LEMMA SmallestInSet ==
  ASSUME NEW T, T \subseteq Nat, T # {}
  PROVE  \E i \in T : \A j \in T : i <= j
<1> DEFINE less == OpToRel(<, Nat)
<1>1. IsWellFoundedOn(less, Nat)
  BY NatLessThanWellFounded
<1>2. ASSUME NEW m \in Nat, NEW n \in Nat, m < n
      PROVE  <<m, n>> \in less
  BY <1>2 DEF OpToRel
<1> HIDE DEF less
<1>3. PICK i \in T : \A j \in T : <<j, i>> \notin less
  BY <1>1, WFMin, Zenon
<1>4. ASSUME NEW j \in T PROVE i <= j
  <2>1. i \in Nat /\ j \in Nat /\ (i <= j \/ j < i)
    BY <1>3
  <2>2. ~ j < i
    BY <1>2, <1>3, <2>1, Zenon
  <2> QED
    BY <2>1, <2>2
<1> QED
  BY <1>3, <1>4, Zenon

\* Induction: what holds of 0, and with a number of the next one, holds up to n.
LEMMA UpToInduction ==
  ASSUME NEW n \in Nat, NEW T, 0 \in T, \A i \in 0 .. n - 1 : i \in T => i + 1 \in T
  PROVE  \A i \in 0 .. n : i \in T
<1> DEFINE Rest == {i \in 0 .. n : i \notin T}
<1>1. CASE Rest = {}
  BY <1>1
<1>2. CASE Rest # {}
  <2>1. Rest \subseteq Nat
    OBVIOUS
  <2> HIDE DEF Rest
  <2>2. PICK i \in Rest : \A j \in Rest : i <= j
    BY <1>2, <2>1, SmallestInSet
  <2>3. i \in 1 .. n /\ i - 1 \in 0 .. n - 1 /\ i - 1 \notin Rest
    BY <2>2 DEF Rest
  <2> QED
    BY <2>2, <2>3 DEF Rest
<1> QED
  BY <1>1, <1>2

\* A read takes a prefix and leaves the rest.
LEMMA SplitFacts ==
  ASSUME NEW S, NEW s \in Seq(S), NEW k \in 0 .. Len(s)
  PROVE  /\ SubSeq(s, 1, k) \in Seq(S) /\ Len(SubSeq(s, 1, k)) = k
         /\ \A i \in 1 .. k : SubSeq(s, 1, k)[i] = s[i]
         /\ SubSeq(s, k + 1, Len(s)) \in Seq(S) /\ Len(SubSeq(s, k + 1, Len(s))) = Len(s) - k
         /\ \A i \in 1 .. Len(s) - k : SubSeq(s, k + 1, Len(s))[i] = s[k + i]
<1>1. Len(s) \in Nat /\ \A j \in 1 .. Len(s) : s[j] \in S
  BY LenProperties, ElementOfSeq
<1>2. \A j \in 1 .. k : s[j] \in S
  BY <1>1
<1>3. \A j \in k + 1 .. Len(s) : s[j] \in S
  BY <1>1
<1>4. /\ SubSeq(s, 1, k) \in Seq(S) /\ Len(SubSeq(s, 1, k)) = k
      /\ \A i \in 1 .. k : SubSeq(s, 1, k)[i] = s[i]
  BY <1>1, <1>2, SubSeqProperties
<1>5. /\ SubSeq(s, k + 1, Len(s)) \in Seq(S) /\ Len(SubSeq(s, k + 1, Len(s))) = Len(s) - k
      /\ \A i \in 1 .. Len(s) - k : SubSeq(s, k + 1, Len(s))[i] = s[k + i]
  BY <1>1, <1>3, SubSeqProperties
<1> QED
  BY <1>4, <1>5

\* What an operation after another leads to.
Iterated(f, n, base, step) ==
  f[0] = base /\ \A i \in 1 .. n : f[i] = step[i][f[i - 1]]

\* There is such a function.
LEMMA Iterates ==
  ASSUME NEW S, NEW base \in S, NEW n \in Nat, NEW step \in [1 .. n -> [S -> S]]
  PROVE  \E f \in [0 .. n -> S] : Iterated(f, n, base, step)
<1> DEFINE Exists(k) == \E f \in [0 .. k -> S] : Iterated(f, k, base, step)
           T == {k \in 0 .. n : Exists(k)}
<1>1. 0 \in T
  <2> DEFINE f == [i \in 0 .. 0 |-> base]
  <2>1. f \in [0 .. 0 -> S] /\ f[0] = base
    OBVIOUS
  <2>2. Iterated(f, 0, base, step)
    BY <2>1 DEF Iterated
  <2> HIDE DEF f
  <2>3. Exists(0)
    BY <2>1, <2>2
  <2> HIDE DEF Exists
  <2> QED
    BY <2>3
<1>2. ASSUME NEW k \in 0 .. n - 1, k \in T PROVE k + 1 \in T
  <2>1. PICK f \in [0 .. k -> S] : Iterated(f, k, base, step)
    BY <1>2
  <2>2. k + 1 \in 1 .. n /\ k \in 0 .. k /\ k + 1 \notin 0 .. k /\ k + 1 \in 0 .. n
    OBVIOUS
  <2>3. step[k + 1][f[k]] \in S
    BY <2>2
  <2> DEFINE g == [i \in 0 .. k + 1 |-> IF i = k + 1 THEN step[k + 1][f[k]] ELSE f[i]]
  <2>4. \A i \in 0 .. k + 1 : i = k + 1 \/ i \in 0 .. k
    OBVIOUS
  <2>5. g \in [0 .. k + 1 -> S]
    BY <2>3, <2>4
  <2>6. g[0] = base
    BY <2>1 DEF Iterated
  <2>7. ASSUME NEW i \in 1 .. k + 1 PROVE g[i] = step[i][g[i - 1]]
    <3>1. i - 1 \in 0 .. k /\ i \in 0 .. k + 1 /\ g[i - 1] = f[i - 1]
      OBVIOUS
    <3>2. CASE i = k + 1
      BY <3>1, <3>2
    <3>3. CASE i # k + 1
      <4>1. i \in 1 .. k
        BY <3>3
      <4>2. f[i] = step[i][f[i - 1]]
        BY <2>1, <4>1 DEF Iterated
      <4> QED
        BY <3>1, <3>3, <4>2
    <3> QED
      BY <3>2, <3>3
  <2> HIDE DEF g
  <2>8. Iterated(g, k + 1, base, step)
    BY <2>6, <2>7 DEF Iterated
  <2>9. Exists(k + 1)
    BY <2>5, <2>8
  <2> HIDE DEF Exists
  <2> QED
    BY <2>2, <2>9
<1>3. \A k \in 0 .. n - 1 : k \in T => k + 1 \in T
  BY <1>2
<1> HIDE DEF T
<1>4. \A k \in 0 .. n : k \in T
  BY <1>1, <1>3, UpToInduction, Zenon
<1> QED
  BY <1>4 DEF T

\* Two lists in one.
LEMMA ConcatParts ==
  ASSUME NEW S, NEW s \in Seq(S), NEW t \in Seq(S)
  PROVE  /\ s \o t \in Seq(S) /\ Len(s \o t) = Len(s) + Len(t)
         /\ SubSeq(s \o t, 1, Len(s)) = s
         /\ SubSeq(s \o t, Len(s) + 1, Len(s \o t)) = t
<1>1. /\ s \o t \in Seq(S) /\ Len(s \o t) = Len(s) + Len(t)
      /\ \A i \in 1 .. Len(s) + Len(t) : (s \o t)[i] = IF i <= Len(s) THEN s[i] ELSE t[i - Len(s)]
  BY ConcatProperties
<1>2. PICK u : u = s \o t
  OBVIOUS
<1>3. Len(s) \in Nat /\ Len(t) \in Nat
  BY LenProperties
<1>4. /\ u \in Seq(S) /\ Len(u) = Len(s) + Len(t) /\ Len(s) \in 0 .. Len(u)
      /\ \A i \in 1 .. Len(s) : u[i] = s[i]
      /\ \A i \in 1 .. Len(t) : u[Len(s) + i] = t[i]
  <2>1. ASSUME NEW i \in 1 .. Len(t) PROVE u[Len(s) + i] = t[i]
    <3>1. Len(s) + i \in 1 .. Len(s) + Len(t) /\ ~ Len(s) + i <= Len(s) /\ (Len(s) + i) - Len(s) = i
      BY <1>3
    <3> QED
      BY <1>1, <1>2, <3>1
  <2> QED
    BY <1>1, <1>2, <1>3, <2>1
<1>5. /\ SubSeq(u, 1, Len(s)) \in Seq(S) /\ Len(SubSeq(u, 1, Len(s))) = Len(s)
      /\ \A i \in 1 .. Len(s) : SubSeq(u, 1, Len(s))[i] = u[i]
      /\ SubSeq(u, Len(s) + 1, Len(u)) \in Seq(S)
      /\ Len(SubSeq(u, Len(s) + 1, Len(u))) = Len(u) - Len(s)
      /\ \A i \in 1 .. Len(u) - Len(s) : SubSeq(u, Len(s) + 1, Len(u))[i] = u[Len(s) + i]
  BY <1>4, SplitFacts
<1>6. SubSeq(u, 1, Len(s)) = s
  <2> DEFINE v == SubSeq(u, 1, Len(s))
  <2>1. v \in Seq(S) /\ Len(v) = Len(s) /\ \A i \in 1 .. Len(v) : v[i] = s[i]
    BY <1>4, <1>5
  <2> HIDE DEF v
  <2>2. v = s
    BY <2>1, SeqEqual
  <2> QED
    BY <2>2 DEF v
<1>7. SubSeq(u, Len(s) + 1, Len(u)) = t
  <2> DEFINE v == SubSeq(u, Len(s) + 1, Len(u))
  <2>1. v \in Seq(S) /\ Len(v) = Len(t) /\ \A i \in 1 .. Len(v) : v[i] = t[i]
    BY <1>3, <1>4, <1>5
  <2> HIDE DEF v
  <2>2. v = t
    BY <2>1, SeqEqual
  <2> QED
    BY <2>2 DEF v
<1> QED
  BY <1>1, <1>2, <1>6, <1>7

\* Three lists in one.
LEMMA ConcatMiddle ==
  ASSUME NEW S, NEW s \in Seq(S), NEW t \in Seq(S), NEW u \in Seq(S)
  PROVE  /\ (s \o t) \o u \in Seq(S) /\ Len((s \o t) \o u) = Len(s) + Len(t) + Len(u)
         /\ (s \o t) \o u = s \o (t \o u)
         /\ SubSeq((s \o t) \o u, 1, Len(s)) = s
         /\ SubSeq((s \o t) \o u, Len(s) + 1, Len(s) + Len(t)) = t
         /\ SubSeq((s \o t) \o u, Len(s) + Len(t) + 1, Len((s \o t) \o u)) = u
<1> DEFINE st == s \o t
           tu == t \o u
           all == st \o u
<1>1. /\ st \in Seq(S) /\ Len(st) = Len(s) + Len(t)
      /\ SubSeq(st, 1, Len(s)) = s /\ SubSeq(st, Len(s) + 1, Len(st)) = t
  BY ConcatParts
<1>2. tu \in Seq(S)
  BY ConcatParts
<1>3. all = s \o tu
  BY ConcatAssociative
<1>4. Len(s) \in Nat /\ Len(t) \in Nat
  BY LenProperties
<1>5. SubSeq(s \o tu, 1, Len(s)) = s
  BY <1>2, ConcatParts
<1> HIDE DEF st, tu
<1>6. /\ all \in Seq(S) /\ Len(all) = Len(st) + Len(u)
      /\ SubSeq(all, Len(st) + 1, Len(all)) = u
  <2>1. st \in Seq(S)
    BY <1>1
  <2> QED
    BY <2>1, ConcatParts
<1>7. SubSeq(all, Len(s) + 1, Len(st)) = t
  <2>1. CASE Len(t) = 0
    <3>1. Len(st) < Len(s) + 1 /\ Len(st) \in Int /\ Len(s) + 1 \in Int
      BY <1>1, <1>4, <2>1
    <3>2. SubSeq(all, Len(s) + 1, Len(st)) = << >> /\ SubSeq(st, Len(s) + 1, Len(st)) = << >>
      BY <3>1, SubSeqEmpty
    <3> QED
      BY <1>1, <3>2
  <2>2. CASE Len(t) > 0
    <3>1. Len(s) + 1 \in 1 .. Len(st) /\ Len(st) \in 1 .. Len(st)
      BY <1>1, <1>4, <2>2
    <3>2. SubSeq(all, Len(s) + 1, Len(st)) = SubSeq(st, Len(s) + 1, Len(st))
      BY <1>1, <3>1, SubSeqOfConcat1
    <3> QED
      BY <1>1, <3>2
  <2> QED
    BY <1>4, <2>1, <2>2
<1>8. all = (s \o t) \o u
  BY DEF st
<1> HIDE DEF all
<1> QED
  BY <1>1, <1>3, <1>5, <1>6, <1>7, <1>8 DEF tu

\* What stands where in two lists in one.
LEMMA ConcatElements ==
  ASSUME NEW S, NEW s \in Seq(S), NEW t \in Seq(S)
  PROVE  /\ s \o t \in Seq(S) /\ Len(s \o t) = Len(s) + Len(t)
         /\ \A i \in 1 .. Len(s) : (s \o t)[i] = s[i]
         /\ \A i \in 1 .. Len(t) : (s \o t)[Len(s) + i] = t[i]
<1>1. /\ s \o t \in Seq(S) /\ Len(s \o t) = Len(s) + Len(t)
      /\ \A i \in 1 .. Len(s) + Len(t) : (s \o t)[i] = IF i <= Len(s) THEN s[i] ELSE t[i - Len(s)]
  BY ConcatProperties
<1>2. Len(s) \in Nat /\ Len(t) \in Nat
  BY LenProperties
<1>3. ASSUME NEW i \in 1 .. Len(t) PROVE (s \o t)[Len(s) + i] = t[i]
  <2>1. Len(s) + i \in 1 .. Len(s) + Len(t) /\ ~ Len(s) + i <= Len(s) /\ (Len(s) + i) - Len(s) = i
    BY <1>2
  <2> QED
    BY <1>1, <2>1
<1>4. \A i \in 1 .. Len(s) : (s \o t)[i] = s[i]
  BY <1>1, <1>2
<1> QED
  BY <1>1, <1>3, <1>4

\* A list that stands in another.
LEMMA SubSeqIs ==
  ASSUME NEW S, NEW s \in Seq(S), NEW t \in Seq(S), NEW m \in Nat, m + Len(t) <= Len(s),
         \A i \in 1 .. Len(t) : s[m + i] = t[i]
  PROVE  SubSeq(s, m + 1, m + Len(t)) = t
<1> DEFINE n == m + Len(t)
           u == SubSeq(s, m + 1, n)
<1>1. Len(s) \in Nat /\ Len(t) \in Nat /\ \A i \in 1 .. Len(s) : s[i] \in S
  BY LenProperties, ElementOfSeq
<1>2. \A i \in m + 1 .. n : s[i] \in S
  BY <1>1
<1>3. m + 1 \in Int /\ n \in Int /\ n - (m + 1) + 1 = Len(t)
  BY <1>1
<1> HIDE DEF n
<1>4. /\ u \in Seq(S) /\ Len(u) = IF m + 1 <= n THEN n - (m + 1) + 1 ELSE 0
      /\ \A i \in 1 .. n - (m + 1) + 1 : u[i] = s[m + 1 + i - 1]
  BY <1>2, <1>3, SubSeqProperties
<1> HIDE DEF u
<1>5. Len(u) = Len(t)
  BY <1>1, <1>3, <1>4
<1>6. ASSUME NEW i \in 1 .. Len(u) PROVE u[i] = t[i]
  <2>1. i \in 1 .. n - (m + 1) + 1 /\ m + 1 + i - 1 = m + i /\ i \in 1 .. Len(t)
    BY <1>1, <1>3, <1>5
  <2> QED
    BY <1>4, <2>1
<1>7. u = t
  BY <1>4, <1>5, <1>6, SeqEqual
<1> QED
  BY <1>7 DEF u, n

\* A list stays one when what is at an index, present or not, is replaced by another
\* element of the same kind.
LEMMA ExceptType ==
  ASSUME NEW S, NEW s \in Seq(S), NEW i, NEW e, i \in DOMAIN s => e \in S
  PROVE  [s EXCEPT ![i] = e] \in Seq(S) /\ Len([s EXCEPT ![i] = e]) = Len(s)
<1>1. CASE i \in DOMAIN s
  BY <1>1, ExceptSeq, LenProperties
<1>2. CASE i \notin DOMAIN s
  <2>1. [s EXCEPT ![i] = e] = s
    BY <1>2, LenProperties
  <2> QED
    BY <2>1
<1> QED
  BY <1>1, <1>2

\* One element more, or none.
LEMMA AppendType ==
  ASSUME NEW S, NEW s \in Seq(S), NEW p \in S, NEW t, t = s \/ t = Append(s, p)
  PROVE  t \in Seq(S)
BY AppendProperties

-----------------------------------------------------------------------------
(* Parts of a list. *)

\* The elements of s behind the m-th, up to the n-th.
Part(s, m, n) == SubSeq(s, m + 1, n)

\* What a part is.
LEMMA PartFacts ==
  ASSUME NEW S, NEW s \in Seq(S), NEW n \in 0 .. Len(s), NEW m \in 0 .. n
  PROVE  /\ Part(s, m, n) \in Seq(S) /\ Len(Part(s, m, n)) = n - m
         /\ \A i \in 1 .. n - m : Part(s, m, n)[i] = s[m + i]
<1> DEFINE t == SubSeq(s, m + 1, n)
<1>1. Len(s) \in Nat /\ \A j \in 1 .. Len(s) : s[j] \in S
  BY LenProperties, ElementOfSeq
<1>2. \A j \in m + 1 .. n : s[j] \in S
  BY <1>1
<1>3. m + 1 \in Int /\ n \in Int /\ n - (m + 1) + 1 = n - m
  BY <1>1
<1>4. /\ t \in Seq(S) /\ Len(t) = IF m + 1 <= n THEN n - (m + 1) + 1 ELSE 0
      /\ \A i \in 1 .. n - (m + 1) + 1 : t[i] = s[m + 1 + i - 1]
  BY <1>2, <1>3, SubSeqProperties
<1> HIDE DEF t
<1>5. Len(t) = n - m
  BY <1>1, <1>3, <1>4
<1>6. ASSUME NEW i \in 1 .. n - m PROVE t[i] = s[m + i]
  <2>1. m + 1 + i - 1 = m + i
    BY <1>1
  <2> QED
    BY <1>3, <1>4, <2>1
<1> QED
  BY <1>4, <1>5, <1>6 DEF Part, t

\* What is one.
LEMMA PartIs ==
  ASSUME NEW S, NEW s \in Seq(S), NEW n \in 0 .. Len(s), NEW m \in 0 .. n,
         NEW t \in Seq(S), Len(t) = n - m, \A i \in 1 .. n - m : t[i] = s[m + i]
  PROVE  t = Part(s, m, n)
<1> DEFINE u == Part(s, m, n)
<1>1. u \in Seq(S) /\ Len(u) = n - m /\ \A i \in 1 .. n - m : u[i] = s[m + i]
  BY PartFacts
<1> HIDE DEF u
<1>2. Len(u) = Len(t) /\ \A i \in 1 .. Len(t) : u[i] = t[i]
  BY <1>1
<1>3. u = t
  BY <1>1, <1>2, SeqEqual
<1> QED
  BY <1>3 DEF u

\* The end of a part.
LEMMA PartOfPart ==
  ASSUME NEW S, NEW s \in Seq(S), NEW n \in 0 .. Len(s), NEW m \in 0 .. n, NEW k \in m .. n
  PROVE  /\ Part(Part(s, m, n), k - m, n - m) = Part(s, k, n)
         /\ Part(Part(s, m, n), 0, k - m) = Part(s, m, k)
<1> DEFINE u == Part(s, m, n)
           t == Part(u, k - m, n - m)
           v == Part(u, 0, k - m)
<1>0. Len(s) \in Nat
  BY LenProperties
<1>1. u \in Seq(S) /\ Len(u) = n - m /\ \A i \in 1 .. n - m : u[i] = s[m + i]
  BY PartFacts
<1> HIDE DEF u
<1>2. /\ n - m \in 0 .. Len(u) /\ k - m \in 0 .. n - m /\ k - m \in 0 .. Len(u)
      /\ 0 \in 0 .. k - m /\ n - m - (k - m) = n - k /\ k - m - 0 = k - m
      /\ k \in 0 .. n /\ k \in 0 .. Len(s) /\ m \in 0 .. k
  BY <1>0, <1>1
<1>p. PICK x, y : x = n - m /\ y = k - m
  OBVIOUS
<1>q. /\ u \in Seq(S) /\ x \in 0 .. Len(u) /\ y \in 0 .. x /\ y \in 0 .. Len(u) /\ 0 \in 0 .. y
  BY <1>1, <1>2, <1>p
<1>3. t \in Seq(S) /\ Len(t) = n - k /\ \A i \in 1 .. n - k : t[i] = u[k - m + i]
  <2>1. /\ Part(u, y, x) \in Seq(S) /\ Len(Part(u, y, x)) = x - y
        /\ \A i \in 1 .. x - y : Part(u, y, x)[i] = u[y + i]
    BY <1>q, PartFacts
  <2> QED
    BY <1>2, <1>p, <2>1
<1>4. v \in Seq(S) /\ Len(v) = k - m /\ \A i \in 1 .. k - m : v[i] = u[0 + i]
  <2>1. /\ Part(u, 0, y) \in Seq(S) /\ Len(Part(u, 0, y)) = y - 0
        /\ \A i \in 1 .. y - 0 : Part(u, 0, y)[i] = u[0 + i]
    BY <1>q, PartFacts
  <2> QED
    BY <1>2, <1>p, <2>1
<1> HIDE DEF t, v
<1>5. \A i \in 1 .. n - k : t[i] = s[k + i]
  <2> TAKE i \in 1 .. n - k
  <2>1. k - m + i \in 1 .. n - m /\ m + (k - m + i) = k + i
    BY <1>0
  <2> QED
    BY <1>1, <1>3, <2>1
<1>6. \A i \in 1 .. k - m : v[i] = s[m + i]
  <2> TAKE i \in 1 .. k - m
  <2>1. 0 + i = i /\ i \in 1 .. n - m
    BY <1>0
  <2> QED
    BY <1>1, <1>4, <2>1
<1>7. t = Part(s, k, n)
  BY <1>2, <1>3, <1>5, PartIs
<1>8. v = Part(s, m, k)
  BY <1>2, <1>4, <1>6, PartIs
<1> QED
  BY <1>7, <1>8 DEF t, u, v

\* A part and the next.
LEMMA PartsJoin ==
  ASSUME NEW S, NEW s \in Seq(S), NEW n \in 0 .. Len(s), NEW m \in 0 .. n, NEW k \in m .. n
  PROVE  Part(s, m, k) \o Part(s, k, n) = Part(s, m, n)
<1> DEFINE t == Part(s, m, k)
           u == Part(s, k, n)
           v == t \o u
<1>0. Len(s) \in Nat /\ k \in 0 .. n /\ k \in 0 .. Len(s) /\ m \in 0 .. k
  BY LenProperties
<1>1. t \in Seq(S) /\ Len(t) = k - m /\ \A i \in 1 .. k - m : t[i] = s[m + i]
  BY <1>0, PartFacts
<1>2. u \in Seq(S) /\ Len(u) = n - k /\ \A i \in 1 .. n - k : u[i] = s[k + i]
  BY <1>0, PartFacts
<1> HIDE DEF t, u
<1>3. /\ v \in Seq(S) /\ Len(v) = Len(t) + Len(u)
      /\ \A i \in 1 .. Len(t) : v[i] = t[i]
      /\ \A i \in 1 .. Len(u) : v[Len(t) + i] = u[i]
  <2>1. t \in Seq(S) /\ u \in Seq(S)
    BY <1>1, <1>2
  <2> QED
    BY <2>1, ConcatElements
<1> HIDE DEF v
<1>4. Len(v) = n - m
  BY <1>0, <1>1, <1>2, <1>3
<1>5. ASSUME NEW i \in 1 .. n - m PROVE v[i] = s[m + i]
  <2>1. CASE i <= k - m
    <3>1. i \in 1 .. k - m /\ i \in 1 .. Len(t)
      BY <1>0, <1>1, <2>1
    <3> QED
      BY <1>1, <1>3, <3>1
  <2>2. CASE ~ i <= k - m
    <3>1. PICK j \in 1 .. n - k : k - m + j = i /\ k + j = m + i
      <4>1. i - (k - m) \in 1 .. n - k /\ k - m + (i - (k - m)) = i /\ k + (i - (k - m)) = m + i
        BY <1>0, <2>2
      <4> QED
        BY <4>1
    <3>2. v[Len(t) + j] = u[j]
      BY <1>2, <1>3
    <3> QED
      BY <1>1, <1>2, <3>1, <3>2
  <2> QED
    BY <2>1, <2>2
<1>6. v = Part(s, m, n)
  BY <1>0, <1>3, <1>4, <1>5, PartIs
<1> QED
  BY <1>6 DEF t, u, v

\* Parts of a list that has grown.
LEMMA PartOfConcat ==
  ASSUME NEW S, NEW s \in Seq(S), NEW t \in Seq(S), NEW n \in 0 .. Len(s), NEW m \in 0 .. n
  PROVE  /\ Part(s \o t, m, n) = Part(s, m, n)
         /\ Part(s \o t, m, Len(s \o t)) = Part(s, m, Len(s)) \o t
<1> DEFINE u == s \o t
           p == Part(s, m, n)
           q == Part(s, m, Len(s))
           v == q \o t
<1>0. Len(s) \in Nat /\ Len(t) \in Nat /\ Len(s) \in 0 .. Len(s) /\ m \in 0 .. Len(s)
  BY LenProperties
<1>1. /\ u \in Seq(S) /\ Len(u) = Len(s) + Len(t)
      /\ \A i \in 1 .. Len(s) : u[i] = s[i]
      /\ \A i \in 1 .. Len(t) : u[Len(s) + i] = t[i]
  BY ConcatElements
<1>2. p \in Seq(S) /\ Len(p) = n - m /\ \A i \in 1 .. n - m : p[i] = s[m + i]
  BY PartFacts
<1>3. q \in Seq(S) /\ Len(q) = Len(s) - m /\ \A i \in 1 .. Len(s) - m : q[i] = s[m + i]
  BY <1>0, PartFacts
<1> HIDE DEF u, p, q
<1>4. /\ v \in Seq(S) /\ Len(v) = Len(q) + Len(t)
      /\ \A i \in 1 .. Len(q) : v[i] = q[i]
      /\ \A i \in 1 .. Len(t) : v[Len(q) + i] = t[i]
  <2>1. q \in Seq(S)
    BY <1>3
  <2> QED
    BY <2>1, ConcatElements
<1> HIDE DEF v
<1>5. p = Part(u, m, n)
  <2>1. n \in 0 .. Len(u)
    BY <1>0, <1>1
  <2>2. \A i \in 1 .. n - m : p[i] = u[m + i]
    <3> TAKE i \in 1 .. n - m
    <3>1. m + i \in 1 .. Len(s)
      BY <1>0
    <3> QED
      BY <1>1, <1>2, <3>1
  <2> QED
    BY <1>1, <1>2, <2>1, <2>2, PartIs
<1>6. v = Part(u, m, Len(u))
  <2>1. Len(u) \in 0 .. Len(u) /\ m \in 0 .. Len(u) /\ Len(v) = Len(u) - m
    BY <1>0, <1>1, <1>3, <1>4
  <2>2. ASSUME NEW i \in 1 .. Len(u) - m PROVE v[i] = u[m + i]
    <3>1. CASE i <= Len(s) - m
      <4>1. m + i \in 1 .. Len(s) /\ i \in 1 .. Len(q) /\ i \in 1 .. Len(s) - m
        BY <1>0, <1>3, <3>1
      <4> QED
        BY <1>1, <1>3, <1>4, <4>1
    <3>2. CASE ~ i <= Len(s) - m
      <4>1. PICK j \in 1 .. Len(t) : Len(s) + j = m + i /\ Len(q) + j = i
        <5>1. /\ i - (Len(s) - m) \in 1 .. Len(t)
              /\ Len(s) + (i - (Len(s) - m)) = m + i /\ Len(q) + (i - (Len(s) - m)) = i
          BY <1>0, <1>1, <1>3, <3>2
        <5> QED
          BY <5>1
      <4> QED
        BY <1>1, <1>4, <4>1
    <3> QED
      BY <3>1, <3>2
  <2> QED
    BY <1>1, <1>4, <2>1, <2>2, PartIs
<1> QED
  BY <1>5, <1>6 DEF u, v, p, q

\* The first element of a part that is not empty, and the rest.
LEMMA PartHead ==
  ASSUME NEW S, NEW s \in Seq(S), NEW n \in 0 .. Len(s), NEW m \in 0 .. n - 1
  PROVE  /\ Part(s, m, n) # << >> /\ Head(Part(s, m, n)) = s[m + 1]
         /\ Tail(Part(s, m, n)) = Part(s, m + 1, n)
         /\ \A k \in 0 .. m : Append(Part(s, k, m), s[m + 1]) = Part(s, k, m + 1)
<1> DEFINE t == Part(s, m, n)
<1>0. /\ Len(s) \in Nat /\ m \in 0 .. n /\ m + 1 \in 0 .. n
      /\ m \in 0 .. Len(s) /\ m + 1 \in 0 .. Len(s)
  BY LenProperties
<1>1. t \in Seq(S) /\ Len(t) = n - m /\ \A i \in 1 .. n - m : t[i] = s[m + i]
  BY <1>0, PartFacts
<1> HIDE DEF t
<1>2. t # << >> /\ 1 \in 1 .. n - m
  BY <1>0, <1>1, EmptySeq
<1>3. /\ Head(t) = t[1] /\ Tail(t) \in Seq(S) /\ Len(Tail(t)) = Len(t) - 1
      /\ \A i \in 1 .. Len(Tail(t)) : Tail(t)[i] = t[i + 1]
  BY <1>1, <1>2, HeadTailProperties
<1> DEFINE u == Tail(t)
<1>4. u \in Seq(S) /\ Len(u) = n - (m + 1) /\ \A i \in 1 .. n - (m + 1) : u[i] = t[i + 1]
  BY <1>0, <1>1, <1>3
<1> HIDE DEF u
<1>5. \A i \in 1 .. n - (m + 1) : u[i] = s[m + 1 + i]
  <2> TAKE i \in 1 .. n - (m + 1)
  <2>1. i + 1 \in 1 .. n - m /\ m + (i + 1) = m + 1 + i
    BY <1>0
  <2> QED
    BY <1>1, <1>4, <2>1
<1>6. u = Part(s, m + 1, n)
  BY <1>0, <1>4, <1>5, PartIs
<1>7. ASSUME NEW k \in 0 .. m PROVE Append(Part(s, k, m), s[m + 1]) = Part(s, k, m + 1)
  <2> DEFINE a == Part(s, k, m)
             c == Append(a, s[m + 1])
  <2>1. a \in Seq(S) /\ Len(a) = m - k /\ \A i \in 1 .. m - k : a[i] = s[k + i]
    BY <1>0, PartFacts
  <2>2. s[m + 1] \in S
    BY <1>0, ElementOfSeq
  <2> HIDE DEF a
  <2>3. /\ c \in Seq(S) /\ Len(c) = Len(a) + 1 /\ c[Len(a) + 1] = s[m + 1]
        /\ \A i \in 1 .. Len(a) : c[i] = a[i]
    BY <2>1, <2>2, AppendProperties
  <2> HIDE DEF c
  <2>4. Len(c) = m + 1 - k /\ k \in 0 .. m + 1
    BY <1>0, <2>1, <2>3
  <2>5. ASSUME NEW i \in 1 .. m + 1 - k PROVE c[i] = s[k + i]
    <3>1. CASE i <= m - k
      BY <1>0, <2>1, <2>3, <3>1, SMTT(30)
    <3>2. CASE ~ i <= m - k
      <4>1. i = Len(a) + 1 /\ k + i = m + 1
        BY <1>0, <2>1, <3>2
      <4> QED
        BY <2>3, <4>1
    <3> QED
      BY <3>1, <3>2
  <2>6. c = Part(s, k, m + 1)
    BY <1>0, <2>3, <2>4, <2>5, PartIs
  <2> QED
    BY <2>6 DEF c, a
<1>8. Head(t) = s[m + 1]
  <2>1. t[1] = s[m + 1]
    BY <1>1, <1>2
  <2> QED
    BY <1>3, <2>1
<1> QED
  BY <1>2, <1>6, <1>7, <1>8 DEF u, t

-----------------------------------------------------------------------------
(* The elements of a list, and lists without repetitions. *)

\* The elements of a list are those at its positions.
LEMMA RangeFacts ==
  ASSUME NEW S, NEW s \in Seq(S)
  PROVE  /\ \A i \in 1 .. Len(s) : s[i] \in Range(s)
         /\ \A x \in Range(s) : x \in S /\ \E i \in 1 .. Len(s) : x = s[i]
         /\ IsInjective(s) <=> \A i, j \in 1 .. Len(s) : s[i] = s[j] => i = j
<1>1. DOMAIN s = 1 .. Len(s) /\ \A i \in 1 .. Len(s) : s[i] \in S
  BY LenProperties, ElementOfSeq
<1> QED
  BY <1>1 DEF Range, IsInjective

\* One list behind another.
LEMMA ConcatRange ==
  ASSUME NEW S, NEW s \in Seq(S), NEW t \in Seq(S)
  PROVE  /\ Range(s \o t) = Range(s) \cup Range(t)
         /\ IsInjective(s \o t) <=>
              IsInjective(s) /\ IsInjective(t) /\ Range(s) \cap Range(t) = {}
<1> DEFINE u == s \o t
           m == Len(s)
           n == Len(t)
<1>1. m \in Nat /\ n \in Nat
  BY LenProperties
<1>2. /\ u \in Seq(S) /\ Len(u) = m + n
      /\ \A i \in 1 .. m + n : u[i] = IF i <= m THEN s[i] ELSE t[i - m]
  BY ConcatProperties
<1>s. /\ \A i \in 1 .. m : s[i] \in Range(s)
      /\ \A x \in Range(s) : \E i \in 1 .. m : x = s[i]
      /\ IsInjective(s) <=> \A i, j \in 1 .. m : s[i] = s[j] => i = j
  BY RangeFacts
<1>t. /\ \A i \in 1 .. n : t[i] \in Range(t)
      /\ \A x \in Range(t) : \E i \in 1 .. n : x = t[i]
      /\ IsInjective(t) <=> \A i, j \in 1 .. n : t[i] = t[j] => i = j
  BY RangeFacts
<1> HIDE DEF u, m, n
<1>u. /\ \A i \in 1 .. m + n : u[i] \in Range(u)
      /\ \A x \in Range(u) : \E i \in 1 .. m + n : x = u[i]
      /\ IsInjective(u) <=> \A i, j \in 1 .. m + n : u[i] = u[j] => i = j
  <2>0. u \in Seq(S)
    BY <1>2
  <2>1. /\ \A i \in 1 .. Len(u) : u[i] \in Range(u)
        /\ \A x \in Range(u) : x \in S /\ \E i \in 1 .. Len(u) : x = u[i]
        /\ IsInjective(u) <=> \A i, j \in 1 .. Len(u) : u[i] = u[j] => i = j
    BY <2>0, RangeFacts, Zenon
  <2> QED
    BY <1>2, <2>1
<1>4. \A i \in 1 .. m : i \in 1 .. m + n /\ u[i] = s[i]
  BY <1>1, <1>2
<1>5. \A i \in 1 .. n : m + i \in 1 .. m + n /\ u[m + i] = t[i]
  <2> TAKE i \in 1 .. n
  <2>1. m + i \in 1 .. m + n /\ ~ m + i <= m /\ (m + i) - m = i
    BY <1>1
  <2> QED
    BY <1>2, <2>1
<1>6. \A i \in 1 .. m + n : i \in 1 .. m \/ \E k \in 1 .. n : i = m + k
  <2> TAKE i \in 1 .. m + n
  <2>1. CASE ~ i <= m
    <3>1. i - m \in 1 .. n /\ i = m + (i - m)
      BY <1>1, <2>1
    <3> QED
      BY <3>1
  <2> QED
    BY <1>1, <2>1
<1>7. Range(u) = Range(s) \cup Range(t)
  <2>1. ASSUME NEW x \in Range(u) PROVE x \in Range(s) \cup Range(t)
    <3>1. PICK i \in 1 .. m + n : x = u[i]
      BY <1>u
    <3> QED
      BY <1>s, <1>t, <1>4, <1>5, <1>6, <3>1
  <2>2. \A x \in Range(s) \cup Range(t) : x \in Range(u)
    BY <1>s, <1>t, <1>u, <1>4, <1>5
  <2> QED
    BY <2>1, <2>2
<1>8. ASSUME IsInjective(u)
      PROVE  IsInjective(s) /\ IsInjective(t) /\ Range(s) \cap Range(t) = {}
  <2>1. \A i, j \in 1 .. m : s[i] = s[j] => i = j
    BY <1>s, <1>u, <1>4, <1>8
  <2>2. \A i, j \in 1 .. n : t[i] = t[j] => i = j
    <3> SUFFICES ASSUME NEW i \in 1 .. n, NEW j \in 1 .. n, t[i] = t[j] PROVE i = j
      OBVIOUS
    <3>1. m + i = m + j
      BY <1>u, <1>5, <1>8
    <3> QED
      BY <1>1, <3>1
  <2>3. ASSUME NEW i \in 1 .. m, NEW j \in 1 .. n PROVE s[i] # t[j]
    <3>1. i # m + j
      BY <1>1
    <3> QED
      BY <1>u, <1>4, <1>5, <1>8, <3>1
  <2> QED
    BY <1>s, <1>t, <2>1, <2>2, <2>3
<1>9. ASSUME IsInjective(s), IsInjective(t), Range(s) \cap Range(t) = {}
      PROVE  IsInjective(u)
  <2> SUFFICES ASSUME NEW i \in 1 .. m + n, NEW j \in 1 .. m + n, u[i] = u[j] PROVE i = j
    BY <1>u
  <2>1. \A k \in 1 .. m : s[k] \in Range(s)
    BY <1>s
  <2>2. \A k \in 1 .. n : t[k] \in Range(t)
    BY <1>t
  <2>3. CASE i \in 1 .. m /\ j \in 1 .. m
    BY <1>s, <1>4, <1>9, <2>3
  <2>4. ASSUME NEW k \in 1 .. n, NEW l \in 1 .. n, i = m + k, j = m + l PROVE i = j
    BY <1>t, <1>5, <1>9, <2>4
  <2>5. ASSUME NEW k \in 1 .. n, i = m + k, j \in 1 .. m PROVE FALSE
    BY <1>4, <1>5, <1>9, <2>1, <2>2, <2>5
  <2>6. ASSUME NEW k \in 1 .. n, j = m + k, i \in 1 .. m PROVE FALSE
    BY <1>4, <1>5, <1>9, <2>1, <2>2, <2>6
  <2> QED
    BY <1>6, <2>3, <2>4, <2>5, <2>6
<1> QED
  BY <1>7, <1>8, <1>9 DEF u

\* One element more.
LEMMA AppendRange ==
  ASSUME NEW S, NEW s \in Seq(S), NEW e \in S
  PROVE  /\ Range(Append(s, e)) = Range(s) \cup {e}
         /\ IsInjective(s) /\ e \notin Range(s) => IsInjective(Append(s, e))
<1>1. <<e>> \in Seq(S) /\ Len(<<e>>) = 1 /\ <<e>>[1] = e
  OBVIOUS
<1>2. Range(<<e>>) = {e} /\ IsInjective(<<e>>)
  BY DEF Range, IsInjective
<1>3. Append(s, e) = s \o <<e>>
  BY <1>1, AppendIsConcat
<1> DEFINE t == <<e>>
<1>4. t \in Seq(S) /\ Range(t) = {e} /\ IsInjective(t) /\ Append(s, e) = s \o t
  BY <1>1, <1>2, <1>3
<1> HIDE DEF t
<1>5. /\ Range(s \o t) = Range(s) \cup Range(t)
      /\ IsInjective(s \o t) <=>
           IsInjective(s) /\ IsInjective(t) /\ Range(s) \cap Range(t) = {}
  BY <1>4, ConcatRange, Zenon
<1> QED
  BY <1>4, <1>5

\* One element less, where none is repeated.
LEMMA WithoutRange ==
  ASSUME NEW S, NEW s \in Seq(S), IsInjective(s), NEW i \in 1 .. Len(s)
  PROVE  IsInjective(Without(s, i)) /\ Range(Without(s, i)) = Range(s) \ {s[i]}
<1> DEFINE t == Without(s, i)
           old(j) == IF j < i THEN j ELSE j + 1
<1>1. Len(s) \in Nat /\ \A j, k \in 1 .. Len(s) : s[j] = s[k] => j = k
  BY LenProperties, RangeFacts
<1>2. /\ t \in Seq(S) /\ Len(t) = Len(s) - 1
      /\ \A j \in 1 .. Len(s) - 1 : t[j] = s[old(j)]
  BY WithoutFacts
<1>s. /\ \A j \in 1 .. Len(s) : s[j] \in Range(s)
      /\ \A x \in Range(s) : \E j \in 1 .. Len(s) : x = s[j]
  BY RangeFacts
<1>4. /\ \A j \in 1 .. Len(s) - 1 : old(j) \in 1 .. Len(s) /\ old(j) # i
      /\ \A j, k \in 1 .. Len(s) - 1 : old(j) = old(k) => j = k
      /\ \A k \in 1 .. Len(s) : k # i => \E j \in 1 .. Len(s) - 1 : old(j) = k
  <2>1. \A k \in 1 .. Len(s) : k # i =>
          LET j == IF k < i THEN k ELSE k - 1 IN j \in 1 .. Len(s) - 1 /\ old(j) = k
    BY <1>1
  <2> QED
    BY <1>1, <2>1
<1> HIDE DEF t, old
<1>t. /\ \A j \in 1 .. Len(s) - 1 : t[j] \in Range(t)
      /\ \A x \in Range(t) : \E j \in 1 .. Len(s) - 1 : x = t[j]
      /\ IsInjective(t) <=> \A j, k \in 1 .. Len(s) - 1 : t[j] = t[k] => j = k
  <2>0. t \in Seq(S)
    BY <1>2
  <2>1. /\ \A j \in 1 .. Len(t) : t[j] \in Range(t)
        /\ \A x \in Range(t) : x \in S /\ \E j \in 1 .. Len(t) : x = t[j]
        /\ IsInjective(t) <=> \A j, k \in 1 .. Len(t) : t[j] = t[k] => j = k
    BY <2>0, RangeFacts, Zenon
  <2> QED
    BY <1>2, <2>1
<1>5. IsInjective(t)
  BY <1>1, <1>2, <1>t, <1>4
<1>6. Range(t) = Range(s) \ {s[i]}
  <2>1. ASSUME NEW x \in Range(t) PROVE x \in Range(s) \ {s[i]}
    <3>1. PICK j \in 1 .. Len(s) - 1 : x = t[j]
      BY <1>t
    <3>2. x = s[old(j)] /\ old(j) \in 1 .. Len(s) /\ old(j) # i
      BY <1>2, <1>4, <3>1
    <3> QED
      BY <1>1, <1>s, <3>2
  <2>2. ASSUME NEW x \in Range(s) \ {s[i]} PROVE x \in Range(t)
    <3>1. PICK k \in 1 .. Len(s) : x = s[k]
      BY <1>s
    <3>2. PICK j \in 1 .. Len(s) - 1 : old(j) = k
      BY <1>4, <2>2, <3>1
    <3> QED
      BY <1>2, <1>t, <3>1, <3>2
  <2> QED
    BY <2>1, <2>2
<1> QED
  BY <1>5, <1>6 DEF t

\* The head of a list goes.
LEMMA TailRange ==
  ASSUME NEW S, NEW s \in Seq(S), s # << >>, IsInjective(s)
  PROVE  /\ Head(s) \in Range(s)
         /\ IsInjective(Tail(s)) /\ Range(Tail(s)) = Range(s) \ {Head(s)}
<1>1. /\ Len(s) \in Nat /\ Len(s) >= 1 /\ Head(s) = s[1]
      /\ Tail(s) \in Seq(S) /\ Len(Tail(s)) = Len(s) - 1
      /\ \A i \in 1 .. Len(s) - 1 : Tail(s)[i] = s[i + 1]
  BY HeadTailProperties, EmptySeq, LenProperties
<1>2. 1 \in 1 .. Len(s)
  BY <1>1
<1> DEFINE t == Without(s, 1)
<1>3. /\ t \in Seq(S) /\ Len(t) = Len(s) - 1
      /\ \A i \in 1 .. Len(s) - 1 : t[i] = IF i < 1 THEN s[i] ELSE s[i + 1]
  BY <1>2, WithoutFacts, Zenon
<1>4. IsInjective(t) /\ Range(t) = Range(s) \ {s[1]}
  BY <1>2, WithoutRange, Zenon
<1> HIDE DEF t
<1>5. Tail(s) = t
  BY <1>1, <1>3, SeqEqual
<1>6. s[1] \in Range(s)
  BY <1>2, LenProperties DEF Range
<1> QED
  BY <1>1, <1>4, <1>5, <1>6
=============================================================================
