------------------------- MODULE PacketFramerProofs -------------------------
(***************************************************************************)
(* Proofs about PacketFramer: for any messages, any text between them and  *)
(* any cuts of the stream, that every packet that is not hit by a stray    *)
(* start byte or a time-out is found, that what is found are packets that  *)
(* were sent, in order, and that the getters read them back.               *)
(***************************************************************************)
EXTENDS PacketFramer, PacketsProofs

-----------------------------------------------------------------------------
(* Stray start bytes. *)

\* Text of bytes is walked over byte by byte: a start byte that is not taken along by the
\* one in front of it takes along what comes next.
LEMMA MasksNext ==
  ASSUME NEW t \in Seq(Byte), NEW x \in Byte
  PROVE  /\ ~ Masks(<< >>)
         /\ Masks(Append(t, x)) <=> x = PACKET_START_0 /\ ~ Masks(t)
<1> DEFINE n == Len(t)
           u == Append(t, x)
           Run(s, k) == /\ \A i \in k .. Len(s) : s[i] = PACKET_START_0
                        /\ k = 1 \/ s[k - 1] # PACKET_START_0
<1>0. /\ n \in Nat /\ u \in Seq(Byte) /\ Len(u) = n + 1 /\ u[n + 1] = x
      /\ \A i \in 1 .. n : u[i] = t[i]
  BY LenProperties, AppendProperties
<1>1. DOMAIN t = 1 .. n /\ DOMAIN u = 1 .. n + 1 /\ DOMAIN << >> = {}
  BY <1>0, LenProperties
<1>2. /\ Masks(t) <=> \E k \in 1 .. n : (n - k) % 2 = 0 /\ Run(t, k)
      /\ Masks(u) <=> \E k \in 1 .. n + 1 : (n + 1 - k) % 2 = 0 /\ Run(u, k)
      /\ ~ Masks(<< >>)
  BY <1>0, <1>1 DEF Masks
<1> HIDE DEF u, n
<1>3. \A k \in 1 .. n : Run(u, k) <=> x = PACKET_START_0 /\ Run(t, k)
  <2> TAKE k \in 1 .. n
  <2>1. k = 1 \/ (k - 1 \in 1 .. n /\ u[k - 1] = t[k - 1])
    BY <1>0
  <2>2. \A i \in k .. n + 1 : i = n + 1 \/ (i \in k .. n /\ i \in 1 .. n)
    BY <1>0
  <2>3. n + 1 \in k .. n + 1 /\ \A i \in k .. n : i \in k .. n + 1 /\ i \in 1 .. n
    BY <1>0
  <2>4. (\A i \in k .. n + 1 : u[i] = PACKET_START_0) <=>
          x = PACKET_START_0 /\ \A i \in k .. n : t[i] = PACKET_START_0
    BY <1>0, <2>2, <2>3
  <2> QED
    BY <1>0, <2>1, <2>4 DEF n
<1>4. Run(u, n + 1) <=> x = PACKET_START_0 /\ (n = 0 \/ t[n] # PACKET_START_0)
  <2>1. \A i \in n + 1 .. n + 1 : i = n + 1
    BY <1>0
  <2>2. n + 1 \in n + 1 .. n + 1 /\ (n + 1 = 1 <=> n = 0) /\ n + 1 - 1 = n
    BY <1>0
  <2>3. n = 0 \/ (n \in 1 .. n /\ u[n] = t[n])
    BY <1>0
  <2> QED
    BY <1>0, <2>1, <2>2, <2>3
<1>5. \A k, l \in 1 .. n : Run(t, k) /\ Run(t, l) => k = l
  <2> SUFFICES ASSUME NEW k \in 1 .. n, NEW l \in 1 .. n, Run(t, k), Run(t, l), k < l
               PROVE  FALSE
    BY <1>0
  <2>1. l - 1 \in k .. n /\ l # 1
    BY <1>0
  <2> QED
    BY <2>1 DEF n
<1>6. ASSUME n # 0, t[n] = PACKET_START_0
      PROVE  \E k \in 1 .. n : Run(t, k)
  <2> DEFINE T == {k \in 1 .. n : \A i \in k .. n : t[i] = PACKET_START_0}
  <2>1. n \in T /\ T \subseteq Nat
    BY <1>0, <1>6
  <2>2. PICK k \in T : \A l \in T : k <= l
    <3> HIDE DEF T
    <3> QED
      BY <2>1, SmallestInSet
  <2>3. CASE k = 1
    BY <2>2, <2>3 DEF n
  <2>4. CASE k # 1
    <3>1. k \in 1 .. n /\ k - 1 \in 1 .. n /\ ~ k <= k - 1
      BY <1>0, <2>2, <2>4
    <3>2. k - 1 \notin T
      BY <2>2, <3>1
    <3>3. PICK i \in k - 1 .. n : t[i] # PACKET_START_0
      BY <3>1, <3>2
    <3>4. i = k - 1
      BY <1>0, <2>2, <3>1, <3>3
    <3>5. Run(t, k)
      BY <2>2, <3>3, <3>4 DEF n
    <3> QED
      BY <3>1, <3>5
  <2> QED
    BY <2>3, <2>4
<1>7. \A k \in 1 .. n : (n - k) % 2 = 0 <=> (n + 1 - k) % 2 # 0
  <2> TAKE k \in 1 .. n
  <2>1. PICK m \in Nat : m = n - k /\ m + 1 = n + 1 - k
    BY <1>0
  <2>2. m % 2 = 0 <=> (m + 1) % 2 # 0
    BY <2>1
  <2> QED
    BY <2>1, <2>2
<1>8. \A k \in 1 .. n : Run(t, k) => t[n] = PACKET_START_0
  <2> TAKE k \in 1 .. n
  <2>1. n \in k .. n
    BY <1>0
  <2> QED
    BY <2>1 DEF n
<1>9. (n + 1 - (n + 1)) % 2 = 0 /\ n + 1 \in 1 .. n + 1
  BY <1>0
<1>10. \A k \in 1 .. n + 1 : k = n + 1 \/ k \in 1 .. n
  BY <1>0
<1>11. \A k \in 1 .. n : k \in 1 .. n + 1 /\ n # 0
  BY <1>0
<1> HIDE DEF Run
<1>12. Masks(u) <=> x = PACKET_START_0 /\ ~ Masks(t)
  <2>1. ASSUME Masks(u) PROVE x = PACKET_START_0 /\ ~ Masks(t)
    <3>1. PICK k \in 1 .. n + 1 : (n + 1 - k) % 2 = 0 /\ Run(u, k)
      BY <1>2, <2>1
    <3>2. CASE k = n + 1
      BY <1>2, <1>4, <1>8, <1>11, <3>1, <3>2
    <3>3. CASE k \in 1 .. n
      <4>1. x = PACKET_START_0 /\ Run(t, k) /\ ~ (n - k) % 2 = 0
        BY <1>3, <1>7, <3>1, <3>3
      <4>2. ASSUME NEW l \in 1 .. n, (n - l) % 2 = 0, Run(t, l) PROVE FALSE
        <5>1. k = l
          BY <1>5, <3>3, <4>1, <4>2
        <5> QED
          BY <4>1, <4>2, <5>1
      <4> QED
        BY <1>2, <4>1, <4>2
    <3> QED
      BY <1>10, <3>2, <3>3
  <2>2. ASSUME x = PACKET_START_0, ~ Masks(t) PROVE Masks(u)
    <3>1. CASE n = 0 \/ t[n] # PACKET_START_0
      BY <1>2, <1>4, <1>9, <2>2, <3>1
    <3>2. CASE n # 0 /\ t[n] = PACKET_START_0
      <4>1. PICK k \in 1 .. n : Run(t, k)
        BY <1>6, <3>2
      <4>2. (n + 1 - k) % 2 = 0
        BY <1>2, <1>7, <2>2, <4>1
      <4> QED
        BY <1>2, <1>3, <1>11, <2>2, <4>1, <4>2
    <3> QED
      BY <3>1, <3>2
  <2> QED
    BY <2>1, <2>2
<1> QED
  BY <1>2, <1>12 DEF u

-----------------------------------------------------------------------------
(* Scanning. *)

\* A length is a natural number.
LEMMA LengthType ==
  ASSUME NEW b \in Seq(Byte), NEW i \in 1 .. Len(b), i + 1 <= Len(b)
  PROVE  LengthAt(b, i) \in Nat
<1> DEFINE two == SubSeq(b, i, i + 1)
<1>1. Len(b) \in Nat /\ b[i] \in Byte /\ b[i + 1] \in Byte
  <2>1. Len(b) \in Nat
    BY LenProperties
  <2>2. i + 1 \in 1 .. Len(b)
    BY <2>1
  <2> QED
    BY <2>1, <2>2, ElementOfSeq
<1>2. \A j \in i .. i + 1 : b[j] \in Byte
  <2>1. \A j \in i .. i + 1 : j = i \/ j = i + 1
    BY <1>1
  <2> QED
    BY <1>1, <2>1
<1>3. /\ two \in Seq(Byte) /\ Len(two) = 2 /\ two[1] = b[i] /\ two[2] = b[i + 1]
  <2>1. i \in Int /\ i + 1 \in Int /\ i <= i + 1 /\ (i + 1) - i + 1 = 2
    BY <1>1
  <2>2. /\ two \in Seq(Byte) /\ Len(two) = IF i <= i + 1 THEN (i + 1) - i + 1 ELSE 0
        /\ \A j \in 1 .. (i + 1) - i + 1 : two[j] = b[i + j - 1]
    BY <1>2, <2>1, SubSeqProperties
  <2>3. i + 1 - 1 = i /\ i + 2 - 1 = i + 1 /\ 1 \in 1 .. 2 /\ 2 \in 1 .. 2
    BY <1>1
  <2>4. two[1] = b[i + 1 - 1] /\ two[2] = b[i + 2 - 1]
    BY <2>1, <2>2, <2>3
  <2> QED
    BY <2>1, <2>2, <2>3, <2>4
<1>4. LengthAt(b, i) = FromBytes(two, FALSE)
  BY Zenon DEF LengthAt
<1> HIDE DEF two
<1>5. Len(two) \in Sizes /\ two \in Seq(Byte) /\ FALSE \in BOOLEAN
  BY <1>3 DEF Sizes
<1>6. FromBytes(two, FALSE) = Number(First(two, FALSE), two)
  BY <1>5, FromBytesIs, Zenon
<1>7. First(two, FALSE) = two[1]
  BY DEF First
<1>8. PICK h : h = First(two, FALSE)
  OBVIOUS
<1>9. h = two[1]
  BY <1>7, <1>8, Zenon
<1>10. FromBytes(two, FALSE) = Number(h, two)
  BY <1>6, <1>8, Zenon
<1> DEFINE long == LengthAt(b, i)
<1>11. long = Number(h, two)
  BY <1>4, <1>10, Zenon
<1> HIDE DEF long
<1>12. Number(h, two) = h * 256 + two[2]
  <2>1. Len(two) = 2
    BY <1>3
  <2> QED
    BY <2>1 DEF Number
<1>13. two[1] \in 0 .. 255 /\ two[2] \in 0 .. 255
  BY <1>1, <1>3 DEF Byte
<1>14. long \in Nat
  <2>1. \A x, y \in 0 .. 255 : x * 256 + y \in Nat
    OBVIOUS
  <2>2. two[1] * 256 + two[2] \in Nat
    BY <1>13, <2>1, Zenon
  <2>3. long = two[1] * 256 + two[2]
    BY <1>9, <1>11, <1>12, Zenon
  <2> QED
    BY <2>2, <2>3, Zenon
<1> QED
  BY <1>14 DEF long

\* Nothing is found.
Nothing == [results |-> << >>, last |-> 0]

\* What is found from an index on, given what is found further on.
FoundFrom(b, i, scan) ==
  IF i > Len(b) \/ Incomplete(b, i) THEN Nothing
  ELSE IF PacketAt(b, i) THEN Before(b, i, scan[StopIndex(b, i) + 1])
  ELSE scan[NextIndex(b, i)]

Scans(scan, b) == \A i \in 1 .. Len(b) + 5 : scan[i] = FoundFrom(b, i, scan)

\* The index only goes forward.
Further(b, i) ==
  /\ i + 1 <= NextIndex(b, i) /\ NextIndex(b, i) <= i + 5 /\ NextIndex(b, i) \in Nat
  /\ PacketAt(b, i) =>
       /\ i + 1 <= StopIndex(b, i) + 1 /\ StopIndex(b, i) + 1 <= Len(b) + 1
       /\ StopIndex(b, i) + 1 \in Nat

\* It does so everywhere.
LEMMA Forward ==
  ASSUME NEW b \in Seq(Byte), NEW i \in 1 .. Len(b), ~ Incomplete(b, i)
  PROVE  Further(b, i)
<1>1. Len(b) \in Nat
  BY LenProperties
<1>2. i + 1 <= NextIndex(b, i) /\ NextIndex(b, i) <= i + 5 /\ NextIndex(b, i) \in Nat
  BY DEF NextIndex
<1>3. ASSUME PacketAt(b, i)
      PROVE  /\ i + 1 <= StopIndex(b, i) + 1 /\ StopIndex(b, i) + 1 <= Len(b) + 1
             /\ StopIndex(b, i) + 1 \in Nat
  <2>1. ~ i + 4 > Len(b) /\ ~ i + 4 + LengthAt(b, i + 2) > Len(b)
    BY <1>3 DEF Incomplete, PacketAt
  <2>2. i + 2 \in 1 .. Len(b) /\ i + 2 + 1 <= Len(b)
    BY <1>1, <2>1
  <2>3. LengthAt(b, i + 2) \in Nat
    BY <2>2, LengthType
  <2> QED
    BY <1>1, <2>1, <2>3 DEF StopIndex
<1> QED
  BY <1>2, <1>3 DEF Further

\* There is what Scan is defined as.
LEMMA ScanIs ==
  ASSUME NEW b \in Seq(Byte)
  PROVE  \E scan : Scans(scan, b) /\ Scan(b) = scan[1]
<1> DEFINE n == Len(b) + 5
           From(scan, m) == \A i \in m .. n : scan[i] = FoundFrom(b, i, scan)
           Exists(k) == \E scan : scan = [i \in n + 1 - k .. n |-> scan[i]] /\ From(scan, n + 1 - k)
           T == {k \in 0 .. n : Exists(k)}
<1>1. Len(b) \in Nat /\ n \in Nat
  BY LenProperties
<1>2. 0 \in T
  <2> DEFINE scan == [i \in n + 1 - 0 .. n |-> 0]
  <2>1. \A i \in n + 1 - 0 .. n : FALSE
    BY <1>1
  <2>2. scan = [i \in n + 1 - 0 .. n |-> scan[i]]
    OBVIOUS
  <2>3. Exists(0)
    BY <2>1, <2>2
  <2> HIDE DEF Exists, n
  <2> QED
    BY <1>1, <2>3
<1>3. ASSUME NEW k \in 0 .. n - 1, k \in T PROVE k + 1 \in T
  <2> DEFINE m == n + 1 - k
  <2>1. PICK f : f = [i \in m .. n |-> f[i]] /\ From(f, m)
    BY <1>3
  <2>2. m \in 2 .. n + 1 /\ n + 1 - (k + 1) = m - 1 /\ k + 1 \in 0 .. n
    BY <1>1
  <2> HIDE DEF m
  <2> DEFINE g == [i \in m - 1 .. n |-> IF i = m - 1 THEN FoundFrom(b, m - 1, f) ELSE f[i]]
  <2>3. \A i \in m .. n : i \in m - 1 .. n /\ i # m - 1
    BY <1>1, <2>2
  <2>4. \A i \in m .. n : g[i] = f[i]
    BY <2>3
  <2>5. g[m - 1] = FoundFrom(b, m - 1, f)
    BY <1>1, <2>2
  <2>6. g = [i \in m - 1 .. n |-> g[i]]
    OBVIOUS
  <2> HIDE DEF g
  <2>7. ASSUME NEW i \in m - 1 .. n PROVE FoundFrom(b, i, g) = FoundFrom(b, i, f)
    <3>1. CASE i > Len(b) \/ Incomplete(b, i)
      BY <3>1 DEF FoundFrom
    <3>2. CASE ~ (i > Len(b) \/ Incomplete(b, i))
      <4>1. i \in 1 .. Len(b)
        BY <1>1, <2>2, <3>2
      <4>2. Further(b, i)
        BY <3>2, <4>1, Forward
      <4>3. /\ NextIndex(b, i) \in m .. n
            /\ PacketAt(b, i) => StopIndex(b, i) + 1 \in m .. n
        BY <1>1, <2>2, <4>1, <4>2 DEF Further
      <4>4. /\ g[NextIndex(b, i)] = f[NextIndex(b, i)]
            /\ PacketAt(b, i) => g[StopIndex(b, i) + 1] = f[StopIndex(b, i) + 1]
        BY <2>4, <4>3
      <4> QED
        BY <4>4, Zenon DEF FoundFrom
    <3> QED
      BY <3>1, <3>2
  <2>8. From(g, m - 1)
    <3>1. ASSUME NEW i \in m - 1 .. n PROVE g[i] = FoundFrom(b, i, g)
      <4>1. CASE i = m - 1
        BY <2>5, <2>7, <4>1
      <4>2. CASE i # m - 1
        <5>1. i \in m .. n
          BY <1>1, <2>2, <4>2
        <5>2. f[i] = FoundFrom(b, i, f)
          BY <2>1, <5>1
        <5> QED
          BY <2>4, <2>7, <5>1, <5>2
      <4> QED
        BY <4>1, <4>2
    <3> QED
      BY <3>1
  <2>9. Exists(k + 1)
    BY <2>2, <2>6, <2>8
  <2> HIDE DEF Exists, n
  <2> QED
    BY <2>2, <2>9
<1>4. n \in T
  <2>1. \A k \in 0 .. n - 1 : k \in T => k + 1 \in T
    BY <1>3
  <2> HIDE DEF T, n
  <2>2. \A k \in 0 .. n : k \in T
    BY <1>1, <1>2, <2>1, UpToInduction, Zenon
  <2> QED
    BY <1>1, <2>2
<1> DEFINE R(scan) == scan = [i \in 1 .. n |-> FoundFrom(b, i, scan)]
<1>5. PICK scan : scan = [i \in n + 1 - n .. n |-> scan[i]] /\ From(scan, n + 1 - n)
  BY <1>4
<1>6. n + 1 - n = 1
  BY <1>1
<1> HIDE DEF n
<1>7. scan = [i \in 1 .. n |-> scan[i]] /\ \A i \in 1 .. n : scan[i] = FoundFrom(b, i, scan)
  BY <1>5, <1>6
<1>8. [i \in 1 .. n |-> scan[i]] = [i \in 1 .. n |-> FoundFrom(b, i, scan)]
  BY <1>7
<1>9. R(scan)
  BY <1>7, <1>8
<1>10. Scan(b) = (CHOOSE s : R(s))[1]
  BY Zenon DEF Scan, FoundFrom, Nothing, n
<1> HIDE DEF R
<1>11. R(CHOOSE s : R(s))
  BY <1>9, Zenon
<1>12. PICK s : R(s) /\ Scan(b) = s[1]
  BY <1>10, <1>11, Zenon
<1>13. Scans(s, b)
  BY <1>12 DEF R, Scans, n
<1> QED
  BY <1>12, <1>13

\* The two start bytes.
Pair(b, i) == b[i] = PACKET_START_0 /\ i < Len(b) /\ b[i + 1] = PACKET_START_1

\* Where the start bytes are not, the index goes one or two bytes forward.
LEMMA Skip ==
  ASSUME NEW b \in Seq(Byte), NEW scan, Scans(scan, b), NEW i \in 1 .. Len(b), ~ Pair(b, i)
  PROVE  scan[i] = IF b[i] = PACKET_START_0 THEN scan[i + 2] ELSE scan[i + 1]
<1>1. Len(b) \in Nat
  BY LenProperties
<1>2. i \in 1 .. Len(b) + 5 /\ i + 1 \in 1 .. Len(b) + 5 /\ i + 2 \in 1 .. Len(b) + 5
  BY <1>1
<1>3. scan[i] = FoundFrom(b, i, scan) /\ scan[i + 2] = FoundFrom(b, i + 2, scan)
  BY <1>2 DEF Scans
<1>4. ~ i > Len(b)
  BY <1>1
<1>5. CASE b[i] # PACKET_START_0
  <2>1. ~ Incomplete(b, i) /\ ~ PacketAt(b, i) /\ NextIndex(b, i) = i + 1
    BY <1>5 DEF Incomplete, PacketAt, NextIndex
  <2> QED
    BY <1>3, <1>4, <1>5, <2>1 DEF FoundFrom
<1>6. CASE b[i] = PACKET_START_0 /\ i = Len(b)
  <2>1. Incomplete(b, i) /\ i + 2 > Len(b)
    BY <1>1, <1>6 DEF Incomplete
  <2> QED
    BY <1>3, <1>6, <2>1 DEF FoundFrom
<1>7. CASE b[i] = PACKET_START_0 /\ i # Len(b)
  <2>1. b[i + 1] # PACKET_START_1 /\ ~ i + 1 > Len(b)
    BY <1>1, <1>7 DEF Pair
  <2>2. ~ Incomplete(b, i) /\ ~ PacketAt(b, i) /\ NextIndex(b, i) = i + 2
    BY <1>7, <2>1 DEF Incomplete, PacketAt, NextIndex
  <2> QED
    BY <1>3, <1>4, <1>7, <2>2 DEF FoundFrom
<1> QED
  BY <1>5, <1>6, <1>7

\* A text t stands in b behind the index o.
Stands(t, b, o) == o + Len(t) <= Len(b) /\ \A i \in 1 .. Len(t) : b[o + i] = t[i]

\* Scanning walks over t, and a stray start byte at its end takes the next byte along.
Walked(scan, o, t) ==
  scan[o + 1] = IF Masks(t) THEN scan[o + Len(t) + 2] ELSE scan[o + Len(t) + 1]

\* It does so where the two start bytes are not.
LEMMA Walk ==
  ASSUME NEW b \in Seq(Byte), NEW scan, Scans(scan, b), NEW o \in Nat,
         NEW t \in Seq(Byte), Stands(t, b, o), \A i \in 1 .. Len(t) : ~ Pair(b, o + i)
  PROVE  Walked(scan, o, t)
<1> DEFINE n == Len(t)
           m(j) == Masks(SubSeq(t, 1, j))
           T == {j \in 0 .. n : scan[o + 1] = IF m(j) THEN scan[o + j + 2] ELSE scan[o + j + 1]}
<1>1. n \in Nat /\ Len(b) \in Nat
  BY LenProperties
<1>2. ~ m(0)
  <2>1. SubSeq(t, 1, 0) = << >>
    BY SubSeqEmpty
  <2> QED
    BY <2>1, MasksNext, 0 \in Byte, EmptySeq DEF Byte
<1>3. ASSUME NEW j \in 0 .. n - 1
      PROVE  m(j + 1) <=> t[j + 1] = PACKET_START_0 /\ ~ m(j)
  <2>1. j + 1 \in 1 .. Len(t) /\ j + 1 - 1 = j /\ j \in 0 .. Len(t)
    BY <1>1
  <2>2. SubSeq(t, 1, j + 1) = Append(SubSeq(t, 1, j), t[j + 1])
    <3>1. SubSeq(t, 1, j + 1) = Append(SubSeq(t, 1, j + 1 - 1), t[j + 1])
      BY <2>1, OneMore
    <3> QED
      BY <2>1, <3>1
  <2>3. SubSeq(t, 1, j) \in Seq(Byte) /\ t[j + 1] \in Byte
    BY <2>1, SplitFacts, ElementOfSeq
  <2>4. PICK u \in Seq(Byte), x \in Byte : u = SubSeq(t, 1, j) /\ x = t[j + 1]
    BY <2>3
  <2>5. Masks(Append(u, x)) <=> x = PACKET_START_0 /\ ~ Masks(u)
    BY MasksNext
  <2> QED
    BY <2>2, <2>4, <2>5
<1>4. 0 \in T
  <2>1. o + 0 + 1 = o + 1
    OBVIOUS
  <2> HIDE DEF m
  <2> QED
    BY <1>1, <1>2, <2>1
<1>5. ASSUME NEW j \in 0 .. n - 1, j \in T PROVE j + 1 \in T
  <2>1. /\ o + (j + 1) \in 1 .. Len(b) /\ o + (j + 1) + 1 = o + (j + 1) + 1
        /\ o + j + 1 = o + (j + 1) /\ o + j + 2 = o + (j + 1) + 1 /\ j + 1 \in 1 .. n
        /\ o + (j + 1) + 2 = o + (j + 1) + 2 /\ j + 1 \in 0 .. n
    BY <1>1 DEF Stands
  <2>2. b[o + (j + 1)] = t[j + 1] /\ ~ Pair(b, o + (j + 1))
    BY <2>1 DEF Stands
  <2>3. scan[o + (j + 1)] = IF t[j + 1] = PACKET_START_0 THEN scan[o + (j + 1) + 2]
                            ELSE scan[o + (j + 1) + 1]
    BY <2>1, <2>2, Skip
  <2>4. scan[o + 1] = IF m(j) THEN scan[o + (j + 1) + 1] ELSE scan[o + (j + 1)]
    BY <1>5, <2>1
  <2>5. m(j + 1) <=> t[j + 1] = PACKET_START_0 /\ ~ m(j)
    BY <1>3
  <2> HIDE DEF m
  <2>6. scan[o + 1] = IF m(j + 1) THEN scan[o + (j + 1) + 2] ELSE scan[o + (j + 1) + 1]
    BY <2>3, <2>4, <2>5
  <2> QED
    BY <2>1, <2>6
<1>6. \A j \in 0 .. n - 1 : j \in T => j + 1 \in T
  BY <1>5
<1> HIDE DEF T
<1>7. \A j \in 0 .. n : j \in T
  BY <1>1, <1>4, <1>6, UpToInduction, Zenon
<1>8. SubSeq(t, 1, n) = t
  BY SubSeqFull
<1>9. n \in T
  BY <1>1, <1>7
<1> QED
  BY <1>8, <1>9 DEF T, Walked

\* Beyond the end nothing is found.
LEMMA Beyond ==
  ASSUME NEW b \in Seq(Byte), NEW scan, Scans(scan, b), NEW i \in Len(b) + 1 .. Len(b) + 5
  PROVE  scan[i] = Nothing
<1>1. i \in 1 .. Len(b) + 5 /\ i > Len(b)
  BY LenProperties
<1> QED
  BY <1>1 DEF Scans, FoundFrom

\* Where no start bytes are left, nothing is found.
LEMMA WalkOut ==
  ASSUME NEW b \in Seq(Byte), NEW scan, Scans(scan, b), NEW o \in 0 .. Len(b),
         \A i \in o + 1 .. Len(b) : ~ Pair(b, i)
  PROVE  scan[o + 1] = Nothing
<1> DEFINE t == SubSeq(b, o + 1, Len(b))
<1>1. Len(b) \in Nat
  BY LenProperties
<1>2. t \in Seq(Byte) /\ Len(t) = Len(b) - o /\ \A i \in 1 .. Len(b) - o : t[i] = b[o + i]
  BY SplitFacts
<1> HIDE DEF t
<1>3. Stands(t, b, o)
  BY <1>1, <1>2 DEF Stands
<1>4. \A i \in 1 .. Len(t) : ~ Pair(b, o + i)
  <2> TAKE i \in 1 .. Len(t)
  <2>1. o + i \in o + 1 .. Len(b)
    BY <1>1, <1>2
  <2> QED
    BY <2>1
<1>5. scan[o + 1] = IF Masks(t) THEN scan[o + Len(t) + 2] ELSE scan[o + Len(t) + 1]
  <2>1. o \in Nat /\ t \in Seq(Byte)
    BY <1>2
  <2> QED
    <3>1. Walked(scan, o, t)
      BY <1>3, <1>4, <2>1, Walk, Zenon
    <3> QED
      BY <3>1 DEF Walked
<1>6. o + Len(t) + 2 \in Len(b) + 1 .. Len(b) + 5 /\ o + Len(t) + 1 \in Len(b) + 1 .. Len(b) + 5
  BY <1>1, <1>2
<1>7. scan[o + Len(t) + 2] = Nothing /\ scan[o + Len(t) + 1] = Nothing
  BY <1>6, Beyond
<1> QED
  BY <1>5, <1>7

\* What frames a packet.
Whole(p) ==
  /\ p \in Seq(Byte) /\ Len(p) >= 14
  /\ p[1] = PACKET_START_0 /\ p[2] = PACKET_START_1 /\ p[Len(p)] = PACKET_STOP
  /\ FromBytes(SubSeq(p, 3, 4), FALSE) = Len(p) - 5

\* As far as b goes, t stands in it behind the index o.
Agrees(t, b, o) == \A i \in 1 .. Len(t) : o + i <= Len(b) => b[o + i] = t[i]

\* The length of a packet that has begun.
LEMMA LengthRead ==
  ASSUME NEW b \in Seq(Byte), NEW o \in Nat, NEW p, Whole(p), Agrees(p, b, o), o + 4 <= Len(b)
  PROVE  LengthAt(b, o + 3) = Len(p) - 5
<1> DEFINE two == SubSeq(p, 3, 4)
<1>1. Len(b) \in Nat /\ Len(p) \in Nat /\ p \in Seq(Byte) /\ Len(p) >= 14
  BY LenProperties DEF Whole
<1>2. two \in Seq(Byte) /\ Len(two) = 2 /\ two[1] = p[3] /\ two[2] = p[4]
  <2>1. \A j \in 3 .. 4 : p[j] \in Byte
    BY <1>1, ElementOfSeq
  <2>2. /\ two \in Seq(Byte) /\ Len(two) = IF 3 <= 4 THEN 4 - 3 + 1 ELSE 0
        /\ \A j \in 1 .. 4 - 3 + 1 : two[j] = p[3 + j - 1]
    BY <2>1, SubSeqProperties
  <2> QED
    BY <2>2
<1>3. b[o + 3] = p[3] /\ b[o + 4] = p[4]
  BY <1>1 DEF Agrees
<1>4. FromBytes(two, FALSE) = Len(p) - 5
  BY Zenon DEF Whole
<1> HIDE DEF two
<1>5. SubSeq(b, o + 2 + 1, o + 2 + Len(two)) = two
  <2>1. o + 2 \in Nat /\ o + 2 + Len(two) <= Len(b) /\ two \in Seq(Byte)
    BY <1>1, <1>2
  <2>2. o + 2 + 1 = o + 3 /\ o + 2 + 2 = o + 4
    OBVIOUS
  <2>3. \A i \in 1 .. Len(two) : i = 1 \/ i = 2
    BY <1>2
  <2>4. \A i \in 1 .. Len(two) : b[o + 2 + i] = two[i]
    BY <1>2, <1>3, <2>2, <2>3
  <2> QED
    BY <2>1, <2>4, SubSeqIs
<1>6. o + 2 + 1 = o + 3 /\ o + 2 + Len(two) = o + 3 + 1
  BY <1>2
<1>7. LengthAt(b, o + 3) = FromBytes(two, FALSE)
  BY <1>5, <1>6, Zenon DEF LengthAt
<1> QED
  BY <1>4, <1>7, Zenon

\* A packet that ends at e is found in front of the rest.
With(p, e, rest) ==
  [results |-> <<Parsed(reader, p)>> \o rest.results,
   last |-> IF rest.last = 0 THEN e ELSE rest.last]

\* A packet that has arrived is found where it stands; one that has not is waited for.
Taken(scan, b, o, p) ==
  scan[o + 1] = IF o + Len(p) <= Len(b) THEN With(p, o + Len(p), scan[o + Len(p) + 1])
                ELSE Nothing

\* This is what the two start bytes and the length are for.
LEMMA PacketStands ==
  ASSUME NEW b \in Seq(Byte), NEW scan, Scans(scan, b), NEW o \in 0 .. Len(b) - 1,
         NEW p, Whole(p), Parses(reader, p), Agrees(p, b, o)
  PROVE  Taken(scan, b, o, p)
<1>1. /\ Len(b) \in Nat /\ Len(p) \in Nat /\ p \in Seq(Byte) /\ Len(p) >= 14
      /\ p[1] = PACKET_START_0 /\ p[2] = PACKET_START_1 /\ p[Len(p)] = PACKET_STOP
  BY LenProperties DEF Whole
<1>2. o \in Nat /\ o + 1 \in 1 .. Len(b) + 5 /\ ~ o + 1 > Len(b) /\ o + 1 + 1 = o + 2
      /\ o + 1 + 2 = o + 3 /\ o + 1 + 4 = o + 5
  BY <1>1
<1>3. scan[o + 1] = FoundFrom(b, o + 1, scan)
  BY <1>2 DEF Scans
<1>4. /\ b[o + 1] = PACKET_START_0
      /\ o + 2 <= Len(b) => b[o + 1 + 1] = PACKET_START_1
  BY <1>1, <1>2 DEF Agrees
<1>5. o + 5 <= Len(b) => LengthAt(b, o + 1 + 2) = Len(p) - 5
  BY <1>1, <1>2, LengthRead
<1>6. CASE ~ o + Len(p) <= Len(b)
  <2>1. Incomplete(b, o + 1)
    <3>1. CASE o + 2 > Len(b)
      BY <1>2, <1>4, <3>1 DEF Incomplete
    <3>2. CASE o + 2 <= Len(b) /\ o + 5 > Len(b)
      BY <1>2, <1>4, <3>2 DEF Incomplete
    <3>3. CASE o + 5 <= Len(b)
      <4>1. o + 1 + 4 + LengthAt(b, o + 1 + 2) > Len(b)
        BY <1>1, <1>2, <1>5, <1>6, <3>3
      <4> QED
        BY <1>1, <1>2, <1>4, <3>3, <4>1 DEF Incomplete
    <3> QED
      BY <1>1, <1>2, <3>1, <3>2, <3>3
  <2> QED
    BY <1>3, <1>6, <2>1 DEF FoundFrom, Taken
<1>7. CASE o + Len(p) <= Len(b)
  <2>1. /\ StopIndex(b, o + 1) = o + Len(p)
        /\ o + 1 + 4 + LengthAt(b, o + 1 + 2) = o + Len(p)
    BY <1>1, <1>2, <1>5, <1>7 DEF StopIndex
  <2>2. ~ Incomplete(b, o + 1)
    <3>1. b[o + 1 + 1] = PACKET_START_1 /\ ~ o + 1 + 1 > Len(b) /\ ~ o + 1 + 4 > Len(b)
          /\ ~ o + Len(p) > Len(b)
      BY <1>1, <1>2, <1>4, <1>7
    <3> QED
      BY <2>1, <3>1 DEF Incomplete
  <2>3. b[o + Len(p)] = PACKET_STOP
    BY <1>1, <1>7 DEF Agrees
  <2>4. PacketAt(b, o + 1)
    <3>1. o + 2 <= Len(b)
      BY <1>1, <1>2, <1>7
    <3> QED
      BY <1>4, <2>1, <2>3, <3>1 DEF PacketAt
  <2>5. SubSeq(b, o + 1, o + Len(p)) = p
    <3>1. \A i \in 1 .. Len(p) : b[o + i] = p[i]
      BY <1>1, <1>2, <1>7 DEF Agrees
    <3> QED
      BY <1>1, <1>2, <1>7, <3>1, SubSeqIs
  <2>6. scan[o + 1] = Before(b, o + 1, scan[o + Len(p) + 1])
    BY <1>2, <1>3, <2>1, <2>2, <2>4 DEF FoundFrom
  <2>7. Results(p) = <<Parsed(reader, p)>>
    BY DEF Results
  <2>8. Before(b, o + 1, scan[o + Len(p) + 1]) = With(p, o + Len(p), scan[o + Len(p) + 1])
    BY <2>1, <2>5, <2>7, Zenon DEF Before, With
  <2> QED
    BY <1>7, <2>6, <2>8 DEF Taken
<1> QED
  BY <1>6, <1>7

\* Packets in whose body the two start bytes are not.
LEMMA BodyPairs ==
  ASSUME NEW p, Whole(p),
         ~ \E i \in 3 .. Len(p) - 1 : SubSeq(p, i, i + 1) = <<PACKET_START_0, PACKET_START_1>>
  PROVE  \A i \in 2 .. Len(p) : ~ Pair(p, i)
<1>1. /\ Len(p) \in Nat /\ Len(p) >= 14 /\ p \in Seq(Byte) /\ p[2] = PACKET_START_1
  BY LenProperties DEF Whole
<1>2. ASSUME NEW i \in 2 .. Len(p), Pair(p, i) PROVE FALSE
  <2>1. p[i] = PACKET_START_0 /\ i < Len(p) /\ p[i + 1] = PACKET_START_1
    BY <1>2 DEF Pair
  <2>2. i # 2
    BY <1>1, <2>1 DEF PACKET_START_0, PACKET_START_1
  <2>3. i \in 3 .. Len(p) - 1
    BY <1>1, <2>1, <2>2
  <2> DEFINE two == <<PACKET_START_0, PACKET_START_1>>
  <2>4. /\ two \in Seq(Byte) /\ Len(two) = 2 /\ two[1] = PACKET_START_0 /\ two[2] = PACKET_START_1
    BY DEF PACKET_START_0, PACKET_START_1, Byte
  <2>5. PICK m \in Nat : m + 1 = i /\ m + 2 = i + 1
    BY <1>1, <2>3
  <2> HIDE DEF two
  <2>6. m + Len(two) <= Len(p) /\ \A j \in 1 .. Len(two) : p[m + j] = two[j]
    <3>1. \A j \in 1 .. Len(two) : j = 1 \/ j = 2
      BY <2>4
    <3>2. p[m + 1] = two[1] /\ p[m + 2] = two[2]
      BY <2>1, <2>4, <2>5
    <3> QED
      BY <1>1, <2>3, <2>4, <2>5, <3>1, <3>2
  <2>7. SubSeq(p, m + 1, m + Len(two)) = two
    BY <1>1, <2>4, <2>6, SubSeqIs
  <2>8. SubSeq(p, i, i + 1) = two
    BY <2>4, <2>5, <2>7
  <2> QED
    BY <2>3, <2>8 DEF two
<1> QED
  BY <1>2

\* A packet whose first byte is taken along is walked over.
Passed(scan, b, o, p) ==
  scan[o + 2] = IF o + Len(p) <= Len(b) THEN scan[o + Len(p) + 1] ELSE Nothing

\* It is, if the start bytes are not in its body.
LEMMA SpoiledStands ==
  ASSUME NEW b \in Seq(Byte), NEW scan, Scans(scan, b), NEW o \in 0 .. Len(b) - 1,
         NEW p, Whole(p), \A i \in 2 .. Len(p) : ~ Pair(p, i), Agrees(p, b, o)
  PROVE  Passed(scan, b, o, p)
<1>1. /\ Len(b) \in Nat /\ Len(p) \in Nat /\ p \in Seq(Byte) /\ Len(p) >= 14
      /\ p[Len(p)] # PACKET_START_0
  BY LenProperties DEF Whole, PACKET_STOP, PACKET_START_0
<1>2. ASSUME NEW j \in 2 .. Len(p), o + j <= Len(b) PROVE ~ Pair(b, o + j)
  <2> SUFFICES ASSUME Pair(b, o + j) PROVE FALSE
    OBVIOUS
  <2>1. p[j] = PACKET_START_0 /\ o + j < Len(b) /\ b[o + j + 1] = PACKET_START_1
    BY <1>1, <1>2 DEF Pair, Agrees
  <2>2. j < Len(p) /\ j + 1 \in 1 .. Len(p) /\ o + (j + 1) <= Len(b) /\ o + (j + 1) = o + j + 1
    BY <1>1, <2>1
  <2>3. b[o + (j + 1)] = p[j + 1]
    BY <2>2 DEF Agrees
  <2>4. Pair(p, j)
    BY <2>1, <2>2, <2>3 DEF Pair
  <2> QED
    BY <2>4
<1>3. CASE ~ o + Len(p) <= Len(b)
  <2>1. o + 1 \in 0 .. Len(b) /\ o + 1 + 1 = o + 2
    BY <1>1
  <2>2. \A i \in o + 1 + 1 .. Len(b) : ~ Pair(b, i)
    <3> TAKE i \in o + 1 + 1 .. Len(b)
    <3>1. i - o \in 2 .. Len(p) /\ o + (i - o) = i /\ i <= Len(b)
      BY <1>1, <1>3
    <3>2. ~ Pair(b, o + (i - o))
      BY <1>2, <3>1
    <3> QED
      BY <3>1, <3>2
  <2>3. scan[o + 1 + 1] = Nothing
    BY <2>1, <2>2, WalkOut
  <2> QED
    BY <1>3, <2>1, <2>3 DEF Passed
<1>4. CASE o + Len(p) <= Len(b)
  <2> DEFINE t == SubSeq(p, 1 + 1, Len(p))
  <2>1. t \in Seq(Byte) /\ Len(t) = Len(p) - 1 /\ \A i \in 1 .. Len(p) - 1 : t[i] = p[1 + i]
    <3>1. 1 \in 0 .. Len(p)
      BY <1>1
    <3> QED
      BY <1>1, <3>1, SplitFacts
  <2> HIDE DEF t
  <2>2. Stands(t, b, o + 1)
    <3>1. \A i \in 1 .. Len(t) : b[o + 1 + i] = t[i]
      <4> TAKE i \in 1 .. Len(t)
      <4>1. 1 + i \in 1 .. Len(p) /\ o + (1 + i) <= Len(b) /\ o + (1 + i) = o + 1 + i
        BY <1>1, <1>4, <2>1
      <4> QED
        BY <2>1, <4>1 DEF Agrees
    <3> QED
      BY <1>1, <1>4, <2>1, <3>1 DEF Stands
  <2>3. \A i \in 1 .. Len(t) : ~ Pair(b, o + 1 + i)
    <3> TAKE i \in 1 .. Len(t)
    <3>1. 1 + i \in 2 .. Len(p) /\ o + (1 + i) <= Len(b) /\ o + (1 + i) = o + 1 + i
      BY <1>1, <1>4, <2>1
    <3> QED
      BY <1>2, <3>1
  <2>4. Walked(scan, o + 1, t)
    <3>1. o + 1 \in Nat /\ t \in Seq(Byte)
      BY <1>1, <2>1
    <3> QED
      BY <2>2, <2>3, <3>1, Walk, Zenon
  <2>5. ~ Masks(t)
    <3>1. t[Len(t)] # PACKET_START_0
      BY <1>1, <2>1
    <3>2. DOMAIN t = 1 .. Len(t)
      BY <2>1, LenProperties
    <3>3. \A k \in 1 .. Len(t) : Len(t) \in k .. Len(t)
      BY <1>1, <2>1
    <3> QED
      BY <3>1, <3>2, <3>3 DEF Masks
  <2>6. o + 1 + 1 = o + 2 /\ o + 1 + Len(t) + 1 = o + Len(p) + 1
    BY <1>1, <2>1
  <2>7. scan[o + 1 + 1] = scan[o + 1 + Len(t) + 1]
    BY <2>4, <2>5 DEF Walked
  <2> QED
    BY <1>4, <2>6, <2>7 DEF Passed
<1> QED
  BY <1>3, <1>4

\* A debug message has the two start bytes at most where it ends.
LEMMA TextPairs ==
  ASSUME NEW b \in Seq(Byte), NEW o \in Nat, NEW gap \in Seq(DebugBytes), Agrees(gap, b, o),
         NEW i \in 1 .. Len(gap), o + i <= Len(b), Pair(b, o + i)
  PROVE  i = Len(gap) /\ o + Len(gap) < Len(b) /\ b[o + Len(gap) + 1] = PACKET_START_1
<1>1. Len(b) \in Nat /\ Len(gap) \in Nat /\ \A j \in 1 .. Len(gap) : gap[j] \in DebugBytes
  BY LenProperties, ElementOfSeq
<1>2. gap[i] = PACKET_START_0 /\ o + i < Len(b) /\ b[o + i + 1] = PACKET_START_1
  BY <1>1 DEF Pair, Agrees
<1>3. CASE i # Len(gap)
  <2>1. i + 1 \in 1 .. Len(gap) /\ o + (i + 1) <= Len(b) /\ o + (i + 1) = o + i + 1
    BY <1>1, <1>2, <1>3
  <2>2. gap[i + 1] = PACKET_START_1
    BY <1>2, <2>1 DEF Agrees
  <2>3. {PACKET_START_0, PACKET_START_1} \subseteq DebugBytes
    BY <1>1, <1>2, <2>1, <2>2
  <2> QED
    BY <2>3, FramerAssumption, Zenon
<1> QED
  BY <1>2, <1>3

\* In the debug message behind the last packet nothing is found.
LEMMA TextStands ==
  ASSUME NEW b \in Seq(Byte), NEW scan, Scans(scan, b), NEW o \in 0 .. Len(b),
         NEW gap \in Seq(DebugBytes), Agrees(gap, b, o), Len(b) <= o + Len(gap)
  PROVE  scan[o + 1] = Nothing
<1>1. Len(b) \in Nat /\ Len(gap) \in Nat /\ o \in Nat
  BY LenProperties
<1>2. ASSUME NEW i \in o + 1 .. Len(b), Pair(b, i) PROVE FALSE
  <2>1. PICK j \in 1 .. Len(gap) : o + j = i /\ o + j <= Len(b)
    <3>1. i - o \in 1 .. Len(gap) /\ o + (i - o) = i /\ i <= Len(b)
      BY <1>1
    <3> QED
      BY <3>1
  <2>2. Pair(b, o + j)
    BY <1>2, <2>1
  <2>3. o + Len(gap) < Len(b)
    BY <1>1, <2>1, <2>2, TextPairs
  <2> QED
    BY <1>1, <2>3
<1> QED
  BY <1>2, WalkOut

\* What is found from the beginning of a debug message on, behind which is a packet.
Staged(scan, b, o, gap, p, e) ==
  scan[o + 1] = IF e > Len(b) THEN Nothing
                ELSE IF Masks(gap) THEN scan[e + 1] ELSE With(p, e, scan[e + 1])

\* It is the packet, unless a start byte is left over in front of it.
LEMMA Stage ==
  ASSUME NEW b \in Seq(Byte), NEW scan, Scans(scan, b), NEW o \in 0 .. Len(b),
         NEW gap \in Seq(DebugBytes), Agrees(gap, b, o),
         NEW p, Whole(p), Parses(reader, p), Agrees(p, b, o + Len(gap)),
         Masks(gap) => \A i \in 2 .. Len(p) : ~ Pair(p, i),
         NEW e, e = o + Len(gap) + Len(p)
  PROVE  Staged(scan, b, o, gap, p, e)
<1> DEFINE q == o + Len(gap)
<1>1. /\ Len(b) \in Nat /\ Len(gap) \in Nat /\ o \in Nat /\ q \in Nat
      /\ Len(p) \in Nat /\ Len(p) >= 14 /\ p[1] = PACKET_START_0 /\ e = q + Len(p)
  BY LenProperties DEF Whole
<1>2. CASE Len(b) <= q
  <2>1. scan[o + 1] = Nothing
    BY <1>2, TextStands
  <2>2. e > Len(b)
    BY <1>1, <1>2
  <2> QED
    BY <2>1, <2>2 DEF Staged
<1>3. CASE q < Len(b)
  <2>1. Stands(gap, b, o)
    <3>1. \A i \in 1 .. Len(gap) : o + i <= Len(b)
      BY <1>1, <1>3
    <3> QED
      BY <1>1, <1>3, <3>1 DEF Stands, Agrees
  <2>2. ASSUME NEW i \in 1 .. Len(gap), Pair(b, o + i) PROVE FALSE
    <3>1. o + i <= Len(b)
      BY <1>1, <1>3
    <3>2. b[q + 1] = PACKET_START_1
      BY <1>1, <2>2, <3>1, TextPairs
    <3>3. b[q + 1] = PACKET_START_0
      <4>1. 1 \in 1 .. Len(p) /\ q + 1 <= Len(b)
        BY <1>1, <1>3
      <4>2. \A j \in 1 .. Len(p) : q + j <= Len(b) => b[q + j] = p[j]
        BY DEF Agrees
      <4> HIDE DEF q
      <4> QED
        BY <1>1, <4>1, <4>2
    <3> QED
      BY <3>2, <3>3 DEF PACKET_START_0, PACKET_START_1
  <2>3. gap \in Seq(Byte)
    <3>1. \A i \in 1 .. Len(gap) : gap[i] \in Byte
      BY ElementOfSeq, FramerAssumption
    <3>2. gap = [i \in 1 .. Len(gap) |-> gap[i]]
      OBVIOUS
    <3>3. gap \in [1 .. Len(gap) -> Byte]
      BY <3>1, <3>2
    <3> QED
      BY <1>1, <3>3, FunctionIsSeq
  <2>4. Walked(scan, o, gap)
    <3>1. \A i \in 1 .. Len(gap) : ~ Pair(b, o + i)
      BY <2>2
    <3> QED
      BY <1>1, <2>1, <2>3, <3>1, Walk, Zenon
  <2>5. q \in 0 .. Len(b) - 1 /\ (~ e > Len(b) <=> q + Len(p) <= Len(b))
    BY <1>1, <1>3
  <2>6. CASE Masks(gap)
    <3>1. scan[o + 1] = scan[q + 2]
      BY <2>4, <2>6 DEF Walked
    <3>2. Passed(scan, b, q, p)
      BY <2>5, <2>6, SpoiledStands, Zenon
    <3> QED
      BY <1>1, <2>5, <2>6, <3>1, <3>2 DEF Passed, Staged
  <2>7. CASE ~ Masks(gap)
    <3>1. scan[o + 1] = scan[q + 1]
      BY <2>4, <2>7 DEF Walked
    <3>2. Taken(scan, b, q, p)
      BY <2>5, PacketStands, Zenon
    <3> QED
      BY <1>1, <2>5, <2>7, <3>1, <3>2 DEF Taken, Staged
  <2> QED
    BY <2>6, <2>7
<1> QED
  BY <1>1, <1>2, <1>3

-----------------------------------------------------------------------------
(* The packets that are sent. *)

\* What the result of a packet without error is.
ResultOf(m, num) ==
  [type |-> 0, num |-> num, category |-> m.category, data |-> Data(Formats[m.category], m.args)]

\* Whatever a packet is numbered, the end it is sent to reads it.
Fine(r, m, num) ==
  /\ Whole(PacketOf(m, num)) /\ Len(PacketOf(m, num)) = Len(PacketOf(m, 0))
  /\ Parses(r, PacketOf(m, num)) /\ Parsed(r, PacketOf(m, num)) = ResultOf(m, num)
  /\ Get(r, Data(Formats[m.category], m.args), Formats[m.category]) =
       [values |-> m.args, rest |-> << >>]

\* Every message makes such packets.
LEMMA PacketFacts ==
  ASSUME NEW r \in Readers, NEW m \in Messages[r], NEW num \in 0 .. MaxPackets
  PROVE  Fine(r, m, num)
<1> DEFINE formats == Formats[m.category]
           category == m.category
           args == m.args
           data == Data(formats, args)
           p == PacketOf(m, num)
<1>1. /\ category \in Seq(Byte \ {PACKET_SEP}) /\ formats \in Seq(Keys)
      /\ ReadableCategory(r, category)
      /\ args \in Seq(Range(args)) /\ Len(args) = Len(formats)
      /\ \A i \in DOMAIN args : Fits(formats[i], args[i])
      /\ Fitting(Len(PacketOf(m, 0)) - 5, 2, FALSE)
  BY MessagesAssumption, Zenon
<1>2. \A i \in DOMAIN args : Readable(r, formats[i], args[i])
  BY StringsAssumption, Zenon
<1>3. DOMAIN args = 1 .. Len(formats)
  BY <1>1, LenProperties
<1>4. \A i \in 1 .. Len(formats) : Fits(formats[i], args[i]) /\ Readable(r, formats[i], args[i])
  BY <1>1, <1>2, <1>3, Zenon
<1>5. \A i \in 1 .. Len(formats) : Fits(formats[i], args[i])
  BY <1>4, Zenon
<1>6. MaxPackets \in Nat /\ Fitting(MaxPackets, 4, FALSE)
  BY FramerAssumption, Zenon
<1>7. num \in Nat /\ 0 \in Nat /\ 0 \in Types
  BY <1>6 DEF Types
<1>8. Fitting(num, 4, FALSE)
  BY <1>6, FittingLess, Zenon
<1>9. /\ p = MakePacket(0, num, category, formats, args)
      /\ PacketOf(m, 0) = MakePacket(0, 0, category, formats, args)
  BY Zenon DEF PacketOf
<1> HIDE DEF formats, category, args, p
<1>10. Len(p) = 13 + Len(category) + Len(data)
  BY <1>1, <1>5, <1>7, <1>9, PacketLength, Zenon
<1>11. Len(PacketOf(m, 0)) = 13 + Len(category) + Len(data)
  <2>1. Len(MakePacket(0, 0, category, formats, args)) = 13 + Len(category) + Len(data)
    BY <1>1, <1>5, <1>7, PacketLength, Zenon
  <2> QED
    BY <1>9, <2>1, Zenon
<1>12. Fitting(8 + Len(category) + Len(data), 2, FALSE)
  <2>1. data \in Seq(Byte)
    BY <1>1, <1>5, DataType, Zenon
  <2>2. Len(category) \in Nat /\ Len(data) \in Nat
    BY <1>1, <2>1, LenProperties
  <2>3. (13 + Len(category) + Len(data)) - 5 = 8 + Len(category) + Len(data)
    BY <2>2
  <2> QED
    BY <1>1, <1>11, <2>3, Zenon
<1>13. Packed(r, p, 0, num, category, data)
  <2>1. r \in BothEnds
    BY DEF Readers, BothEnds
  <2> QED
    BY <1>1, <1>5, <1>7, <1>8, <1>9, <1>12, <2>1, PacketReadBack, Zenon
<1>14. Get(r, data, formats) = [values |-> args, rest |-> << >>]
  BY <1>1, <1>4, GettersReadBack, Zenon
<1>15. Whole(p)
  <2>1. Len(category) \in Nat /\ Len(category) > 0
    <3>1. category # << >>
      BY <1>1, Zenon DEF ReadableCategory, IsCategory
    <3> QED
      BY <1>1, <3>1, LenProperties, EmptySeq
  <2>2. data \in Seq(Byte)
    BY <1>1, <1>5, DataType, Zenon
  <2>3. Len(data) \in Nat
    BY <2>2, LenProperties
  <2>4. Len(p) >= 14
    BY <1>10, <2>1, <2>3
  <2> QED
    BY <1>13, <2>4, Zenon DEF Packed, Whole
<1>16. Parses(r, p)
  BY <1>13, Zenon DEF Packed
<1>17. Parsed(r, p) = ResultOf(m, num)
  BY <1>13, Zenon DEF Packed, ResultOf, data, formats, category, args
<1>18. Len(p) = Len(PacketOf(m, 0))
  BY <1>10, <1>11, Zenon
<1> QED
  BY <1>14, <1>15, <1>16, <1>17, <1>18, Zenon DEF Fine, data, formats, category, args, p

-----------------------------------------------------------------------------
(* The stream. *)

\* What has been sent.
SentType == reader \in Readers /\ sent \in Seq(Messages[reader]) /\ Num <= MaxPackets

Packet(k) == PacketOf(sent[k + 1], k)

\* Each of these packets is read by the other end.
LEMMA SentFacts ==
  ASSUME SentType
  PROVE  /\ Num \in Nat
         /\ \A k \in 0 .. Num - 1 : /\ sent[k + 1] \in Messages[reader]
                                    /\ Fine(reader, sent[k + 1], k)
                                    /\ Len(Packet(k)) = Length(k) /\ Length(k) \in Nat
                                    /\ Length(k) >= 14
<1>1. Num \in Nat /\ MaxPackets \in Nat /\ Num <= MaxPackets /\ reader \in Readers
  BY LenProperties, FramerAssumption DEF SentType, Num
<1>2. ASSUME NEW k \in 0 .. Num - 1
      PROVE  sent[k + 1] \in Messages[reader] /\ Fine(reader, sent[k + 1], k)
  <2>1. k + 1 \in 1 .. Len(sent) /\ k \in 0 .. MaxPackets
    BY <1>1 DEF Num
  <2>2. sent[k + 1] \in Messages[reader]
    BY <2>1, ElementOfSeq DEF SentType
  <2> QED
    BY <1>1, <2>1, <2>2, PacketFacts
<1>3. \A k : Len(Packet(k)) = Length(k)
  BY Zenon DEF Packet, Length
<1>4. ASSUME NEW k \in 0 .. Num - 1 PROVE Length(k) \in Nat /\ Length(k) >= 14
  <2>1. Whole(Packet(k))
    BY <1>2, Zenon DEF Fine, Packet
  <2>2. Packet(k) \in Seq(Byte) /\ Len(Packet(k)) >= 14
    BY <2>1 DEF Whole
  <2>3. Len(Packet(k)) \in Nat
    BY <2>2, LenProperties
  <2> QED
    BY <1>3, <2>2, <2>3
<1> QED
  BY <1>1, <1>2, <1>3, <1>4

\* All that has been written so far: debug messages and packets in turn, of which the k-th
\* begins where the one before it has ended, and the debug message after the last packet.
Layout(all, ends, gaps) ==
  /\ all \in Seq(Byte) /\ ends \in [0 .. Num -> Nat] /\ gaps \in [0 .. Num -> Seq(DebugBytes)]
  /\ ends[0] = 0 /\ gaps[Num] = text /\ Len(all) = ends[Num] + Len(text)
  /\ \A k \in 0 .. Num : Stands(gaps[k], all, ends[k])
  /\ \A k \in 0 .. Num - 1 : /\ ends[k + 1] = ends[k] + Len(gaps[k]) + Length(k)
                             /\ Stands(Packet(k), all, ends[k] + Len(gaps[k]))
  /\ \A k, l \in 0 .. Num : k < l => ends[k] < ends[l]
  /\ reader = "host" => \A k \in 0 .. Num - 1 : Masks(gaps[k]) <=> k \in spoiled
  /\ reader = "board" => \A k \in 0 .. Num : gaps[k] = << >>

\* What stands in the stream stands in the part of it that is scanned.
LEMMA AgreesPart ==
  ASSUME NEW all \in Seq(Byte), NEW r \in 0 .. Len(all), NEW base \in 0 .. r,
         NEW t, NEW m \in Nat, base <= m, Stands(t, all, m), Len(t) \in Nat
  PROVE  Agrees(t, Part(all, base, r), m - base)
<1> DEFINE b == Part(all, base, r)
<1>1. b \in Seq(Byte) /\ Len(b) = r - base /\ \A i \in 1 .. r - base : b[i] = all[base + i]
  BY PartFacts
<1> HIDE DEF b
<1>2. ASSUME NEW i \in 1 .. Len(t), m - base + i <= Len(b)
      PROVE  b[m - base + i] = t[i]
  <2>1. Len(all) \in Nat
    BY LenProperties
  <2>2. PICK j \in 1 .. r - base : j = m - base + i /\ base + j = m + i
    <3>1. m - base + i \in 1 .. r - base /\ base + (m - base + i) = m + i
      BY <1>1, <1>2, <2>1
    <3> QED
      BY <3>1
  <2>3. all[m + i] = t[i]
    BY DEF Stands
  <2> QED
    BY <1>1, <2>2, <2>3
<1>3. Agrees(t, b, m - base)
  BY <1>2 DEF Agrees
<1> QED
  BY <1>3 DEF b

\* What a parsed packet may be.
Outcome == {Parsed(end, p) : end \in Readers, p \in Seq(Byte)}

\* Every end's are some.
LEMMA OutcomeIs ==
  ASSUME NEW end \in Readers, NEW p \in Seq(Byte)
  PROVE  Parsed(end, p) \in Outcome
BY DEF Outcome

\* Results that are those of packets lo .. hi - 1, in order.
Right(s, lo, hi) ==
  /\ \A i \in 1 .. Len(s) : /\ s[i].num \in lo .. hi - 1
                            /\ s[i] = ResultOf(sent[s[i].num + 1], s[i].num)
  /\ \A i, j \in 1 .. Len(s) : i < j => s[i].num < s[j].num

Has(s, num) == \E i \in 1 .. Len(s) : s[i].num = num

\* Two lists of results, one behind the other, are one.
Joined(s, t, lo, mid, hi) ==
  /\ s \o t \in Seq(Outcome)
  /\ Right(s, lo, mid) /\ Right(t, mid, hi) => Right(s \o t, lo, hi)
  /\ \A k : Has(s, k) \/ Has(t, k) => Has(s \o t, k)

\* Results of earlier packets and of later ones.
LEMMA RightJoin ==
  ASSUME NEW s \in Seq(Outcome), NEW t \in Seq(Outcome), NEW lo \in Int, NEW mid \in Int,
         NEW hi \in Int, lo <= mid, mid <= hi
  PROVE  Joined(s, t, lo, mid, hi)
<1> DEFINE u == s \o t
<1>1. /\ u \in Seq(Outcome) /\ Len(u) = Len(s) + Len(t)
      /\ \A i \in 1 .. Len(s) : u[i] = s[i]
      /\ \A i \in 1 .. Len(t) : u[Len(s) + i] = t[i]
  BY ConcatElements
<1>2. Len(s) \in Nat /\ Len(t) \in Nat
  BY LenProperties
<1> HIDE DEF u
<1>3. \A i \in 1 .. Len(u) : i \in 1 .. Len(s) \/ \E k \in 1 .. Len(t) : i = Len(s) + k
  <2> TAKE i \in 1 .. Len(u)
  <2>1. CASE ~ i <= Len(s)
    <3>1. i - Len(s) \in 1 .. Len(t) /\ i = Len(s) + (i - Len(s))
      BY <1>1, <1>2, <2>1
    <3> QED
      BY <3>1
  <2> QED
    BY <1>1, <1>2, <2>1
<1>4. ASSUME Right(s, lo, mid), Right(t, mid, hi) PROVE Right(u, lo, hi)
  <2> DEFINE r(x) == ResultOf(sent[x + 1], x)
  <2>1. /\ \A i \in 1 .. Len(s) : s[i].num \in lo .. mid - 1 /\ s[i] = r(s[i].num)
        /\ \A i, j \in 1 .. Len(s) : i < j => s[i].num < s[j].num
    BY <1>4, Zenon DEF Right
  <2>2. /\ \A i \in 1 .. Len(t) : t[i].num \in mid .. hi - 1 /\ t[i] = r(t[i].num)
        /\ \A i, j \in 1 .. Len(t) : i < j => t[i].num < t[j].num
    BY <1>4, Zenon DEF Right
  <2>6. \A v, l, h : (/\ \A i \in 1 .. Len(v) : v[i].num \in l .. h - 1 /\ v[i] = r(v[i].num)
                      /\ \A i, j \in 1 .. Len(v) : i < j => v[i].num < v[j].num)
                     => Right(v, l, h)
    BY Zenon DEF Right
  <2> HIDE DEF r
  <2>3. ASSUME NEW i \in 1 .. Len(u) PROVE u[i].num \in lo .. hi - 1 /\ u[i] = r(u[i].num)
    <3>1. CASE i \in 1 .. Len(s)
      <4>1. u[i] = s[i]
        BY <1>1, <3>1
      <4>2. s[i].num \in lo .. mid - 1 /\ s[i] = r(s[i].num)
        BY <2>1, <3>1
      <4>3. \A x \in lo .. mid - 1 : x \in lo .. hi - 1
        OBVIOUS
      <4> QED
        BY <4>1, <4>2, <4>3, Zenon
    <3>2. ASSUME NEW k \in 1 .. Len(t), i = Len(s) + k
          PROVE  u[i].num \in lo .. hi - 1 /\ u[i] = r(u[i].num)
      <4>1. u[i] = t[k]
        BY <1>1, <3>2
      <4>2. t[k].num \in mid .. hi - 1 /\ t[k] = r(t[k].num)
        BY <2>2
      <4>3. \A x \in mid .. hi - 1 : x \in lo .. hi - 1
        OBVIOUS
      <4> QED
        BY <4>1, <4>2, <4>3, Zenon
    <3> QED
      BY <1>3, <3>1, <3>2
  <2>4. ASSUME NEW i \in 1 .. Len(u), NEW j \in 1 .. Len(u), i < j PROVE u[i].num < u[j].num
    <3>1. CASE i \in 1 .. Len(s) /\ j \in 1 .. Len(s)
      BY <1>1, <2>1, <2>4, <3>1
    <3>2. ASSUME NEW l \in 1 .. Len(t), i \in 1 .. Len(s), j = Len(s) + l
          PROVE  u[i].num < u[j].num
      <4>1. u[i].num \in lo .. mid - 1 /\ u[j].num \in mid .. hi - 1
        BY <1>1, <2>1, <2>2, <3>2
      <4> QED
        BY <4>1, SMTT(30)
    <3>3. ASSUME NEW k \in 1 .. Len(t), NEW l \in 1 .. Len(t), i = Len(s) + k, j = Len(s) + l
          PROVE  u[i].num < u[j].num
      <4>1. k < l /\ u[i] = t[k] /\ u[j] = t[l]
        BY <1>1, <1>2, <2>4, <3>3
      <4> QED
        BY <2>2, <4>1
    <3>4. ASSUME NEW k \in 1 .. Len(t), i = Len(s) + k, j \in 1 .. Len(s) PROVE FALSE
      BY <1>2, <2>4, <3>4
    <3> QED
      BY <1>3, <3>1, <3>2, <3>3, <3>4
  <2> QED
    BY <2>3, <2>4, <2>6
<1>5. ASSUME NEW k, Has(s, k) \/ Has(t, k) PROVE Has(u, k)
  <2>1. \A i \in 1 .. Len(s) : i \in 1 .. Len(u)
    BY <1>1, <1>2
  <2>2. \A i \in 1 .. Len(t) : Len(s) + i \in 1 .. Len(u)
    BY <1>1, <1>2
  <2>3. ASSUME NEW i \in 1 .. Len(s), s[i].num = k PROVE Has(u, k)
    BY <1>1, <2>1, <2>3 DEF Has
  <2>4. ASSUME NEW i \in 1 .. Len(t), t[i].num = k PROVE Has(u, k)
    <3>1. Len(s) + i \in 1 .. Len(u) /\ u[Len(s) + i].num = k
      BY <1>1, <2>2, <2>4
    <3> QED
      BY <3>1 DEF Has
  <2> QED
    BY <1>5, <2>3, <2>4 DEF Has
<1> QED
  BY <1>1, <1>4, <1>5, Zenon DEF u, Joined

\* The numbers of right results.
LEMMA RightNums ==
  ASSUME NEW s, NEW lo, NEW hi, Right(s, lo, hi)
  PROVE  \A i \in 1 .. Len(s) : s[i].num \in lo .. hi - 1
BY Zenon DEF Right

\* Results that are right for fewer packets.
LEMMA RightWider ==
  ASSUME NEW s, NEW lo \in Int, NEW mid \in Int, NEW hi \in Int, NEW top \in Int,
         lo <= mid, hi <= top, Right(s, mid, hi)
  PROVE  Right(s, lo, top)
<1>1. \A x \in mid .. hi - 1 : x \in lo .. top - 1
  OBVIOUS
<1> QED
  BY <1>1, Zenon DEF Right

\* Where no packet is left there is no result.
LEMMA RightNone ==
  ASSUME NEW s \in Seq(Outcome), NEW k \in Int, Right(s, k, k)
  PROVE  Len(s) = 0
<1>1. \A i \in 1 .. Len(s) : s[i].num \in k .. k - 1
  BY RightNums, Zenon
<1>2. \A i \in 1 .. Len(s) : FALSE
  <2>1. \A x : ~ x \in k .. k - 1
    OBVIOUS
  <2> QED
    BY <1>1, <2>1, Zenon
<1> QED
  BY <1>2, LenProperties

-----------------------------------------------------------------------------
(* What the host finds. *)

\* No packet that is hit has start bytes in its body.
Innocent == \A num \in spoiled : ~ Deceptive(num)

\* What is found from packet k on, in what the host holds up to r: packets up to d, each but
\* the spoiled ones, and of those behind, none has arrived in full.
Finds(R, ends, base, r, k, d) ==
  /\ R.last = (IF d = k THEN 0 ELSE ends[d] - base) /\ ends[d] <= r
  /\ R.results \in Seq(Outcome) /\ Right(R.results, k, d)
  /\ \A j \in k .. d - 1 : j \in spoiled \/ Has(R.results, j)
  /\ \A j \in d .. Num - 1 : j \in spoiled \/ ends[j + 1] > r

\* A list without results.
LEMMA NothingFound ==
  ASSUME NEW ends, NEW base, NEW r, NEW k \in Nat, ends[k] <= r,
         \A j \in k .. Num - 1 : j \in spoiled \/ ends[j + 1] > r
  PROVE  Finds(Nothing, ends, base, r, k, k)
<1>1. << >> \in Seq(Outcome) /\ Len(<< >>) = 0
  BY EmptySeq
<1>2. \A i \in 1 .. 0 : FALSE
  OBVIOUS
<1>3. Right(<< >>, k, k)
  BY <1>1, <1>2, Zenon DEF Right
<1>4. \A j \in k .. k - 1 : FALSE
  OBVIOUS
<1> QED
  BY <1>1, <1>3, <1>4 DEF Finds, Nothing

\* The result of one packet.
LEMMA OneFound ==
  ASSUME reader \in Readers, NEW p \in Seq(Byte), NEW k \in Nat,
         Parsed(reader, p) = ResultOf(sent[k + 1], k)
  PROVE  /\ <<Parsed(reader, p)>> \in Seq(Outcome) /\ Right(<<Parsed(reader, p)>>, k, k + 1)
         /\ Has(<<Parsed(reader, p)>>, k)
<1> DEFINE s == <<Parsed(reader, p)>>
<1>1. Parsed(reader, p) \in Outcome
  BY OutcomeIs
<1>2. PICK x \in Outcome : x = Parsed(reader, p)
  BY <1>1
<1>3. <<x>> \in Seq(Outcome) /\ Len(<<x>>) = 1 /\ <<x>>[1] = x
  OBVIOUS
<1>4. x = ResultOf(sent[k + 1], k) /\ x.num = k
  BY <1>2 DEF ResultOf
<1>5. s = <<x>>
  BY <1>2
<1> HIDE DEF s
<1>6. s \in Seq(Outcome) /\ Len(s) = 1 /\ s[1] = x
  BY <1>3, <1>5
<1>7. k \in k .. k + 1 - 1
  OBVIOUS
<1>8. \A i \in 1 .. 1 : i = 1
  OBVIOUS
<1>9. \A i, j \in 1 .. 1 : ~ i < j
  OBVIOUS
<1>10. Right(s, k, k + 1)
  <2> DEFINE r(y) == ResultOf(sent[y + 1], y)
  <2>1. \A v, l, h : (/\ \A i \in 1 .. Len(v) : v[i].num \in l .. h - 1 /\ v[i] = r(v[i].num)
                      /\ \A i, j \in 1 .. Len(v) : i < j => v[i].num < v[j].num)
                     => Right(v, l, h)
    BY Zenon DEF Right
  <2>2. x = r(k)
    BY <1>4
  <2> HIDE DEF r
  <2>3. ASSUME NEW i \in 1 .. Len(s)
        PROVE  s[i].num \in k .. k + 1 - 1 /\ s[i] = r(s[i].num)
    <3>1. i = 1
      BY <1>6
    <3>2. s[i] = x
      BY <1>6, <3>1
    <3> QED
      BY <1>4, <1>7, <2>2, <3>2
  <2>4. \A i, j \in 1 .. Len(s) : i < j => s[i].num < s[j].num
    BY <1>6, <1>9, Zenon
  <2> QED
    BY <2>1, <2>3, <2>4
<1>11. Has(s, k)
  BY <1>4, <1>6 DEF Has
<1> QED
  BY <1>6, <1>10, <1>11 DEF s

\* What is found from packet k on, if what is scanned goes so far.
Onward(scan, ends, base, r, k) ==
  ends[k] <= r =>
    \E d \in k .. Num : Finds(scan[ends[k] - base + 1], ends, base, r, k, d)

\* What is found from a debug message on, given what is found behind the next packet.
LEMMA StageFinds ==
  ASSUME SentType, reader = "host", Innocent, NEW all, NEW ends, NEW gaps, Layout(all, ends, gaps),
         NEW c \in 0 .. Num, NEW r \in 0 .. Len(all), ends[c] <= r,
         NEW b, b = Part(all, ends[c], r), NEW scan, Scans(scan, b),
         NEW k \in c .. Num - 1, Onward(scan, ends, ends[c], r, k + 1)
  PROVE  Onward(scan, ends, ends[c], r, k)
<1> SUFFICES ASSUME ends[k] <= r
             PROVE  \E d \in k .. Num : Finds(scan[ends[k] - ends[c] + 1], ends, ends[c], r, k, d)
  BY DEF Onward
<1>0. ends[k + 1] <= r =>
        \E d \in k + 1 .. Num :
          Finds(scan[ends[k + 1] - ends[c] + 1], ends, ends[c], r, k + 1, d)
  BY Zenon DEF Onward
<1> DEFINE base == ends[c]
           gap == gaps[k]
           p == Packet(k)
           o == ends[k] - base
           e == ends[k + 1] - base
<1>1. /\ Num \in Nat /\ c \in Nat /\ k \in Nat
      /\ k \in 0 .. Num - 1 /\ k + 1 \in 0 .. Num /\ k \in 0 .. Num
  BY SentFacts
<1>2. Fine(reader, sent[k + 1], k) /\ Len(p) = Length(k) /\ Length(k) \in Nat /\ Length(k) >= 14
  BY <1>1, SentFacts
<1>3. /\ Whole(p) /\ Parses(reader, p) /\ Parsed(reader, p) = ResultOf(sent[k + 1], k)
      /\ p \in Seq(Byte)
  <2>1. Whole(p) /\ Parses(reader, p) /\ Parsed(reader, p) = ResultOf(sent[k + 1], k)
    BY <1>2, Zenon DEF Fine, Packet
  <2>2. p \in Seq(Byte)
    BY <2>1 DEF Whole
  <2> QED
    BY <2>1, <2>2
<1>4. /\ all \in Seq(Byte) /\ ends \in [0 .. Num -> Nat] /\ gap \in Seq(DebugBytes)
      /\ Stands(gap, all, ends[k]) /\ Stands(p, all, ends[k] + Len(gap))
      /\ ends[k + 1] = ends[k] + Len(gap) + Length(k)
      /\ \A i, j \in 0 .. Num : i < j => ends[i] < ends[j]
      /\ Masks(gap) <=> k \in spoiled
  <2> HIDE DEF p
  <2> QED
    BY <1>1, Zenon DEF Layout, p
<1> HIDE DEF p, gap
<1>5. /\ base \in Nat /\ ends[k] \in Nat /\ ends[k + 1] \in Nat /\ Len(gap) \in Nat
      /\ base <= ends[k] /\ r \in Nat /\ base \in 0 .. r
  <2>1. base \in Nat /\ ends[k] \in Nat /\ ends[k + 1] \in Nat /\ Len(gap) \in Nat
    BY <1>1, <1>4, LenProperties
  <2>2. Len(all) \in Nat
    BY <1>4, LenProperties
  <2>3. c = k \/ c < k
    BY <1>1
  <2> QED
    BY <1>1, <1>4, <2>1, <2>2, <2>3
<1>6. b \in Seq(Byte) /\ Len(b) = r - base
  <2>1. all \in Seq(Byte)
    BY <1>4
  <2> QED
    BY <1>5, <2>1, PartFacts
<1>7. Agrees(gap, b, o) /\ Agrees(p, b, o + Len(gap))
  <2>1. all \in Seq(Byte)
    BY <1>4
  <2>2. Agrees(gap, b, o)
    BY <1>4, <1>5, <2>1, AgreesPart
  <2>3. ends[k] + Len(gap) \in Nat /\ base <= ends[k] + Len(gap) /\ Len(p) \in Nat
        /\ (ends[k] + Len(gap)) - base = o + Len(gap)
    BY <1>2, <1>5, SMTT(30)
  <2>4. Agrees(p, b, (ends[k] + Len(gap)) - base)
    BY <1>4, <1>5, <2>1, <2>3, AgreesPart
  <2> QED
    BY <2>2, <2>3, <2>4
<1>8. Masks(gap) => \A i \in 2 .. Len(p) : ~ Pair(p, i)
  <2> SUFFICES ASSUME Masks(gap) PROVE \A i \in 2 .. Len(p) : ~ Pair(p, i)
    OBVIOUS
  <2>1. ~ Deceptive(k)
    BY <1>4 DEF Innocent
  <2>2. ~ \E i \in 3 .. Len(p) - 1 : SubSeq(p, i, i + 1) = <<PACKET_START_0, PACKET_START_1>>
    BY <2>1, Zenon DEF Deceptive, p, Packet
  <2> QED
    BY <1>3, <2>2, BodyPairs
<1>9. o \in 0 .. Len(b) /\ e = o + Len(gap) + Len(p) /\ (e > Len(b) <=> ~ ends[k + 1] <= r)
      /\ e > 0 /\ o \in Int
  <2> DEFINE F(eb, ek, en, lg, lp, x) ==
               /\ ek - eb \in 0 .. x - eb /\ en - eb = (ek - eb) + lg + lp
               /\ (en - eb > x - eb <=> ~ en <= x) /\ en - eb > 0 /\ ek - eb \in Int
  <2>1. \A eb, ek, en, lg, lp, x \in Nat :
          en = ek + lg + lp /\ eb <= ek /\ ek <= x /\ lp >= 14 => F(eb, ek, en, lg, lp, x)
    OBVIOUS
  <2> HIDE DEF F
  <2>2. Len(p) \in Nat /\ Len(p) >= 14 /\ ends[k + 1] = ends[k] + Len(gap) + Len(p)
    BY <1>2, <1>4
  <2>3. F(base, ends[k], ends[k + 1], Len(gap), Len(p), r)
    <3> HIDE DEF base
    <3> QED
      BY <1>5, <2>1, <2>2, Zenon
  <2>4. /\ o \in 0 .. r - base /\ e = o + Len(gap) + Len(p) /\ (e > r - base <=> ~ ends[k + 1] <= r)
        /\ e > 0 /\ o \in Int
    BY <2>3, Zenon DEF F
  <2>5. Len(b) = r - base
    BY <1>6
  <2> HIDE DEF o, e, base
  <2> QED
    BY <2>4, <2>5, Zenon
<1>10. Staged(scan, b, o, gap, p, e)
  <2>1. b \in Seq(Byte) /\ gap \in Seq(DebugBytes)
    BY <1>4, <1>6
  <2> HIDE DEF o, e
  <2> QED
    BY <1>3, <1>7, <1>8, <1>9, <2>1, Stage
<1>11. CASE ~ ends[k + 1] <= r
  <2>1. scan[o + 1] = Nothing
    BY <1>9, <1>10, <1>11 DEF Staged
  <2>2. \A j \in k .. Num - 1 : j \in spoiled \/ ends[j + 1] > r
    <3> TAKE j \in k .. Num - 1
    <3>1. j + 1 \in 0 .. Num /\ (k + 1 = j + 1 \/ k + 1 < j + 1) /\ ends[j + 1] \in Nat
      BY <1>1, <1>4
    <3> QED
      BY <1>1, <1>4, <1>5, <1>11, <3>1, SMTT(30)
  <2>3. Finds(Nothing, ends, base, r, k, k)
    BY <1>1, <2>2, NothingFound
  <2>4. k \in k .. Num
    BY <1>1
  <2> QED
    BY <2>1, <2>3, <2>4
<1>12. CASE ends[k + 1] <= r
  <2> DEFINE rest == scan[e + 1]
  <2>1. PICK d \in k + 1 .. Num : Finds(rest, ends, base, r, k + 1, d)
    BY <1>0, <1>12
  <2> HIDE DEF rest, base
  <2>2. /\ rest.last = (IF d = k + 1 THEN 0 ELSE ends[d] - base) /\ ends[d] <= r
        /\ rest.results \in Seq(Outcome) /\ Right(rest.results, k + 1, d)
        /\ \A j \in k + 1 .. d - 1 : j \in spoiled \/ Has(rest.results, j)
        /\ \A j \in d .. Num - 1 : j \in spoiled \/ ends[j + 1] > r
    BY <2>1, Zenon DEF Finds
  <2>3. /\ d \in 0 .. Num /\ k < d /\ ends[d] \in Nat
        /\ d \in Nat /\ d \in Int /\ k \in Int /\ k + 1 \in Int
        /\ k <= k + 1 /\ k + 1 <= d
    BY <1>1, <1>4
  <2>4. \A j \in k .. Num - 1 : j = k \/ j \in k + 1 .. Num - 1
    BY <1>1
  <2>5. CASE Masks(gap)
    <3>1. scan[o + 1] = rest
      BY <1>9, <1>10, <1>12, <2>5 DEF Staged, rest
    <3>2. k \in spoiled
      BY <1>4, <2>5
    <3>3. CASE d = k + 1
      <4>1. rest.last = 0 /\ Right(rest.results, k + 1, k + 1)
        BY <2>2, <3>3
      <4>3. Len(rest.results) = 0
        <5>1. k + 1 \in Int /\ rest.results \in Seq(Outcome)
          BY <2>2, <2>3
        <5> QED
          BY <4>1, <5>1, RightNone, Zenon
      <4>4. \A i \in 1 .. Len(rest.results) : FALSE
        BY <4>3
      <4>5. Right(rest.results, k, k)
        BY <4>4, Zenon DEF Right
      <4>6. \A j \in k .. k - 1 : FALSE
        BY <1>1
      <4>7. \A j \in k .. Num - 1 : j \in spoiled \/ ends[j + 1] > r
        BY <2>2, <2>4, <3>2, <3>3
      <4>8. Finds(rest, ends, base, r, k, k)
        BY <2>2, <4>1, <4>5, <4>6, <4>7, Zenon DEF Finds
      <4>9. k \in k .. Num
        BY <1>1
      <4> QED
        BY <3>1, <4>8, <4>9 DEF base
    <3>4. CASE d # k + 1
      <4>1. rest.last = (IF d = k THEN 0 ELSE ends[d] - base)
        BY <2>2, <2>3, <3>4
      <4>2. Right(rest.results, k, d)
        <5>1. \A x \in k + 1 .. d - 1 : x \in k .. d - 1
          BY <1>1, <2>3
        <5> QED
          BY <2>2, <5>1, Zenon DEF Right
      <4>3. \A j \in k .. d - 1 : j \in spoiled \/ Has(rest.results, j)
        <5>1. \A j \in k .. d - 1 : j = k \/ j \in k + 1 .. d - 1
          BY <1>1, <2>3
        <5> QED
          BY <2>2, <3>2, <5>1
      <4>4. Finds(rest, ends, base, r, k, d)
        BY <2>2, <4>1, <4>2, <4>3, Zenon DEF Finds
      <4>5. d \in k .. Num
        BY <1>1, <2>3
      <4> QED
        BY <3>1, <4>4, <4>5 DEF base
    <3> QED
      BY <3>3, <3>4
  <2>6. CASE ~ Masks(gap)
    <3> DEFINE s == <<Parsed(reader, p)>>
               t == rest.results
               R == With(p, e, rest)
    <3>1. scan[o + 1] = R
      BY <1>9, <1>10, <1>12, <2>6 DEF Staged, rest
    <3>2. s \in Seq(Outcome) /\ Right(s, k, k + 1) /\ Has(s, k)
      <4>1. reader \in Readers
        BY DEF SentType
      <4> QED
        BY <1>1, <1>3, <4>1, OneFound
    <3>3. R.results = s \o t /\ R.last = IF rest.last = 0 THEN e ELSE rest.last
      BY DEF With
    <3> HIDE DEF R, s, t
    <3>4. t \in Seq(Outcome) /\ Right(t, k + 1, d)
      BY <2>2 DEF t
    <3>5. /\ s \o t \in Seq(Outcome) /\ Right(s \o t, k, d)
          /\ \A j : Has(s, j) \/ Has(t, j) => Has(s \o t, j)
      <4>1. s \in Seq(Outcome) /\ t \in Seq(Outcome)
        BY <3>2, <3>4
      <4>2. /\ s \o t \in Seq(Outcome)
            /\ Right(s, k, k + 1) /\ Right(t, k + 1, d) => Right(s \o t, k, d)
            /\ \A j : Has(s, j) \/ Has(t, j) => Has(s \o t, j)
        <5>1. Joined(s, t, k, k + 1, d)
          BY <2>3, <4>1, RightJoin, Zenon
        <5> QED
          BY <5>1, Zenon DEF Joined
      <4> QED
        BY <3>2, <3>4, <4>2, Zenon
    <3>6. R.last = IF d = k THEN 0 ELSE ends[d] - base
      <4>1. CASE d = k + 1
        <5>1. R.last = e
          <6>1. rest.last = 0
            BY <2>2, <4>1
          <6> QED
            BY <3>3, <6>1, Zenon
        <5> QED
          BY <2>3, <4>1, <5>1 DEF base
      <4>2. CASE d # k + 1
        <5>1. ends[k + 1] < ends[d] /\ d # k
          BY <1>1, <1>4, <2>3, <4>2
        <5>2. rest.last = ends[d] - base /\ rest.last # 0
          <6>1. rest.last = ends[d] - base
            BY <2>2, <4>2
          <6>2. PICK eb, en, ed \in Nat : eb = base /\ en = ends[k + 1] /\ ed = ends[d]
            BY <1>5, <2>3 DEF base
          <6>3. en < ed /\ en - eb > 0
            BY <1>9, <5>1, <6>2
          <6>4. ed - eb # 0
            BY <6>2, <6>3, SMTT(30)
          <6> QED
            BY <6>1, <6>2, <6>4
        <5> QED
          BY <3>3, <5>1, <5>2
      <4> QED
        BY <4>1, <4>2
    <3>7. \A j \in k .. d - 1 : j \in spoiled \/ Has(s \o t, j)
      <4>1. \A j \in k .. d - 1 : j = k \/ j \in k + 1 .. d - 1
        BY <1>1, <2>3
      <4> QED
        BY <2>2, <3>2, <3>5, <4>1, Zenon DEF t
    <3>8. Finds(R, ends, base, r, k, d)
      BY <2>2, <3>3, <3>5, <3>6, <3>7, Zenon DEF Finds
    <3>9. d \in k .. Num
      BY <1>1, <2>3
    <3> QED
      BY <3>1, <3>8, <3>9 DEF base
  <2> QED
    BY <2>5, <2>6
<1> QED
  BY <1>11, <1>12

\* What is found in a part of the stream that begins where a packet has ended.
FindsFrom(R, ends, r, c) == \E d \in c .. Num : Finds(R, ends, ends[c], r, c, d)

\* It is each packet in it that is not spoiled.
LEMMA ScanFinds ==
  ASSUME SentType, reader = "host", Innocent, NEW all, NEW ends, NEW gaps, Layout(all, ends, gaps),
         NEW c \in 0 .. Num, NEW r \in 0 .. Len(all), ends[c] <= r,
         NEW b, b = Part(all, ends[c], r)
  PROVE  FindsFrom(Scan(b), ends, r, c)
<1> DEFINE base == ends[c]
<1>1. Num \in Nat /\ c \in Nat
  BY SentFacts
<1>2. /\ all \in Seq(Byte) /\ ends \in [0 .. Num -> Nat] /\ gaps \in [0 .. Num -> Seq(DebugBytes)]
      /\ gaps[Num] = text /\ Len(all) = ends[Num] + Len(text)
      /\ \A k \in 0 .. Num : Stands(gaps[k], all, ends[k])
      /\ \A i, j \in 0 .. Num : i < j => ends[i] < ends[j]
  BY Zenon DEF Layout
<1>3. base \in Nat /\ r \in Nat /\ base \in 0 .. r /\ Len(all) \in Nat /\ ends[Num] \in Nat
      /\ base <= ends[Num] /\ Num \in 0 .. Num
  <2>1. Len(all) \in Nat /\ base \in Nat /\ Num \in 0 .. Num
    BY <1>1, <1>2, LenProperties
  <2>2. c = Num \/ c < Num
    BY <1>1
  <2> QED
    BY <1>2, <2>1, <2>2
<1>4. b \in Seq(Byte) /\ Len(b) = r - base
  <2>1. all \in Seq(Byte)
    BY <1>2
  <2> QED
    BY <1>3, <2>1, PartFacts
<1>5. PICK scan : Scans(scan, b) /\ Scan(b) = scan[1]
  BY <1>4, ScanIs
<1> DEFINE T == {j \in 0 .. Num - c : Onward(scan, ends, base, r, Num - j)}
<1>6. Onward(scan, ends, base, r, Num)
  <2> SUFFICES ASSUME ends[Num] <= r
               PROVE  \E d \in Num .. Num : Finds(scan[ends[Num] - base + 1], ends, base, r, Num, d)
    BY DEF Onward
  <2> DEFINE o == ends[Num] - base
             gap == gaps[Num]
  <2>1. gap \in Seq(DebugBytes) /\ gap = text /\ Stands(gap, all, ends[Num])
    BY <1>2, <1>3
  <2> HIDE DEF gap
  <2>2. Len(gap) \in Nat
    BY <2>1, LenProperties
  <2>3. Agrees(gap, b, o)
    <3>1. all \in Seq(Byte)
      BY <1>2
    <3> QED
      BY <1>3, <2>1, <2>2, <3>1, AgreesPart
  <2>4. o \in 0 .. Len(b) /\ Len(b) <= o + Len(gap)
    <3>1. Len(all) = ends[Num] + Len(gap)
      BY <1>2, <2>1
    <3> DEFINE F(eb, en, lg, x) == en - eb \in 0 .. x - eb /\ x - eb <= en - eb + lg
    <3>2. \A eb, en, lg, x, la \in Nat :
            la = en + lg /\ x <= la /\ eb <= en /\ en <= x => F(eb, en, lg, x)
      OBVIOUS
    <3>3. r <= Len(all)
      BY <1>3
    <3> HIDE DEF F
    <3>4. F(base, ends[Num], Len(gap), r)
      <4> HIDE DEF base
      <4> QED
        BY <1>3, <2>2, <3>1, <3>2, <3>3, Zenon
    <3>5. o \in 0 .. r - base /\ r - base <= o + Len(gap)
      BY <3>4, Zenon DEF F
    <3> HIDE DEF o, base
    <3> QED
      BY <1>4, <3>5, Zenon
  <2>5. scan[o + 1] = Nothing
    <3>1. b \in Seq(Byte)
      BY <1>4
    <3> HIDE DEF o
    <3> QED
      BY <1>5, <2>1, <2>3, <2>4, <3>1, TextStands
  <2>6. \A j \in Num .. Num - 1 : FALSE
    BY <1>1
  <2>7. Finds(Nothing, ends, base, r, Num, Num)
    <3>1. \A j \in Num .. Num - 1 : j \in spoiled \/ ends[j + 1] > r
      BY <2>6
    <3> HIDE DEF base
    <3> QED
      BY <1>1, <3>1, NothingFound
  <2>8. Num \in Num .. Num
    BY <1>1
  <2> HIDE DEF base
  <2> QED
    BY <2>5, <2>7, <2>8 DEF o
<1>7. ASSUME NEW j \in 0 .. Num - c - 1, j \in T PROVE j + 1 \in T
  <2> DEFINE k == Num - (j + 1)
  <2>1. k \in c .. Num - 1 /\ k + 1 = Num - j /\ j + 1 \in 0 .. Num - c
    BY <1>1
  <2>2. Onward(scan, ends, base, r, k + 1)
    BY <1>7, <2>1
  <2>3. Onward(scan, ends, base, r, k)
    <3>1. Scans(scan, b) /\ k \in c .. Num - 1
      BY <1>5, <2>1
    <3> HIDE DEF k
    <3> QED
      BY <2>2, <3>1, StageFinds
  <2> QED
    BY <2>1, <2>3
<1>8. Onward(scan, ends, base, r, c)
  <2> DEFINE n == Num - c
  <2>1. n \in Nat /\ 0 \in 0 .. n /\ Num - 0 = Num /\ Num - n = c /\ n \in 0 .. n
    BY <1>1
  <2>2. 0 \in T
    BY <1>6, <2>1
  <2>3. \A j \in 0 .. n - 1 : j \in T => j + 1 \in T
    BY <1>7
  <2> HIDE DEF T, n
  <2>4. \A j \in 0 .. n : j \in T
    BY <2>1, <2>2, <2>3, UpToInduction, Zenon
  <2>5. n \in T
    BY <2>1, <2>4
  <2>6. Onward(scan, ends, base, r, Num - n)
    BY <2>5 DEF T
  <2> QED
    BY <2>1, <2>6
<1>9. PICK d \in c .. Num : Finds(scan[base - base + 1], ends, base, r, c, d)
  BY <1>8, Zenon DEF Onward
<1>10. base - base + 1 = 1
  BY <1>3
<1> QED
  BY <1>5, <1>9, <1>10, Zenon DEF FindsFrom

-----------------------------------------------------------------------------
(* Writing. *)

\* The first n messages stay what they are.
Earlier(n) == \A k \in 0 .. n - 1 : sent'[k + 1] = sent[k + 1]

\* Their packets, too.
Kept(k) ==
  /\ Packet(k)' = Packet(k) /\ Length(k)' = Length(k) /\ (Deceptive(k)' <=> Deceptive(k))
  /\ sent'[k + 1] = sent[k + 1]

\* A packet is what its message and its number say.
LEMMA EarlierKept ==
  ASSUME NEW n \in Nat, Earlier(n), NEW k \in 0 .. n - 1
  PROVE  Kept(k)
<1>1. sent'[k + 1] = sent[k + 1]
  BY DEF Earlier
<1>2. PacketOf(sent[k + 1], k)' = PacketOf(sent[k + 1], k)
  BY <1>1, Zenon DEF PacketOf
<1>3. Packet(k)' = Packet(k)
  BY <1>2, Zenon DEF Packet
<1>4. Length(k)' = Length(k)
  BY <1>2, Zenon DEF Length
<1>5. Deceptive(k)' <=> Deceptive(k)
  BY <1>2, Zenon DEF Deceptive
<1> QED
  BY <1>1, <1>3, <1>4, <1>5 DEF Kept

\* What stands in the stream still stands there when it gets longer.
LEMMA StandsConcat ==
  ASSUME NEW S, NEW s \in Seq(S), NEW t \in Seq(S), NEW u, NEW m \in Nat, Len(u) \in Nat,
         Stands(u, s, m)
  PROVE  Stands(u, s \o t, m)
<1>1. /\ s \o t \in Seq(S) /\ Len(s \o t) = Len(s) + Len(t)
      /\ \A i \in 1 .. Len(s) : (s \o t)[i] = s[i]
  BY ConcatElements
<1>2. Len(s) \in Nat /\ Len(t) \in Nat
  BY LenProperties
<1> DEFINE v == s \o t
<1> HIDE DEF v
<1>3. Len(v) = Len(s) + Len(t) /\ \A i \in 1 .. Len(s) : v[i] = s[i]
  BY <1>1 DEF v
<1>4. m + Len(u) <= Len(s) /\ \A i \in 1 .. Len(u) : s[m + i] = u[i]
  BY DEF Stands
<1>5. \A i \in 1 .. Len(u) : m + i \in 1 .. Len(s)
  BY <1>2, <1>4
<1>6. Stands(u, v, m)
  BY <1>2, <1>3, <1>4, <1>5 DEF Stands
<1> QED
  BY <1>6 DEF v

\* What is added stands at the end.
LEMMA StandsLast ==
  ASSUME NEW S, NEW s \in Seq(S), NEW t \in Seq(S)
  PROVE  Stands(t, s \o t, Len(s)) /\ Stands(<< >>, s \o t, Len(s \o t))
<1>1. /\ s \o t \in Seq(S) /\ Len(s \o t) = Len(s) + Len(t)
      /\ \A i \in 1 .. Len(t) : (s \o t)[Len(s) + i] = t[i]
  BY ConcatElements
<1>2. Len(s) \in Nat /\ Len(t) \in Nat
  BY LenProperties
<1>3. Len(<< >>) = 0 /\ \A i \in 1 .. 0 : FALSE
  BY EmptySeq
<1>4. Stands(t, s \o t, Len(s))
  BY <1>1, <1>2 DEF Stands
<1>5. Stands(<< >>, s \o t, Len(s \o t))
  BY <1>1, <1>2, <1>3 DEF Stands
<1> QED
  BY <1>4, <1>5

\* The stream gets longer, and nothing else that concerns the packets up to n changes.
Grown(n, all, ends) ==
  /\ SentType' /\ reader' = reader /\ buffer' = buffer /\ found' = found
  /\ Num' = n \/ Num' = n + 1
  /\ Earlier(n)
  /\ spoiled \subseteq spoiled' /\ spoiled' \subseteq 0 .. Num' - 1
  /\ reader = "board" =>
       spoiled' = spoiled /\ Num' = n + 1 /\ Length(n)' <= MAX_PACKET_LEN
  /\ \E extra, e, g :
       /\ extra \in Seq(Byte)
       /\ Layout(all \o extra, e, g)' /\ wire' = wire \o extra
       /\ \A k \in 0 .. n : e[k] = ends[k]
       /\ Num' = n + 1 => e[n + 1] > Len(all)

\* It does with a packet.
LEMMA SendGrows ==
  ASSUME SentType, SendPacket, spoiled \subseteq 0 .. Num - 1, NEW n, n = Num,
         NEW all, NEW ends, NEW gaps, Layout(all, ends, gaps)
  PROVE  Grown(n, all, ends)
<1>1. /\ n \in Nat /\ n < MaxPackets /\ MaxPackets \in Nat /\ n = Len(sent)
      /\ n \in 0 .. n /\ n \in 0 .. MaxPackets
  <2>1. n \in Nat /\ MaxPackets \in Nat /\ n < MaxPackets
    BY SentFacts, FramerAssumption DEF SendPacket
  <2> QED
    BY <2>1 DEF Num
<1>2. PICK m \in Messages[reader] : /\ Writable(m) /\ wire' = wire \o PacketOf(m, n)
                                    /\ sent' = Append(sent, m)
  BY Zenon DEF SendPacket
<1>3. /\ reader' = reader /\ buffer' = buffer /\ found' = found /\ text' = << >>
      /\ spoiled' = IF Masks(text) THEN spoiled \cup {n} ELSE spoiled
  BY DEF SendPacket
<1>4. /\ sent' \in Seq(Messages[reader]) /\ Len(sent') = n + 1 /\ sent'[n + 1] = m
      /\ \A i \in 1 .. n : sent'[i] = sent[i]
  BY <1>1, <1>2, AppendProperties DEF SentType
<1>5. Earlier(n)
  <2>1. \A k \in 0 .. n - 1 : k + 1 \in 1 .. n
    BY <1>1
  <2> QED
    BY <1>4, <2>1 DEF Earlier
<1>6. SentType' /\ Num' = n + 1
  BY <1>1, <1>3, <1>4 DEF SentType, Num
<1>7. Fine(reader, m, n)
  BY <1>1, PacketFacts DEF SentType
<1> DEFINE p == PacketOf(m, n)
<1>8. Packet(n)' = p /\ Length(n)' = Len(p)
  BY <1>4, Zenon DEF Packet, Length
<1>9. p \in Seq(Byte) /\ Len(p) >= 14 /\ Len(p) \in Nat
  <2>1. Whole(p)
    BY <1>7, Zenon DEF Fine
  <2>2. p \in Seq(Byte) /\ Len(p) >= 14
    BY <2>1, Zenon DEF Whole
  <2> QED
    BY <2>2, LenProperties
<1>10. reader = "board" => Len(p) <= MAX_PACKET_LEN
  BY <1>2, Zenon DEF Writable
<1> HIDE DEF p
<1>11. /\ all \in Seq(Byte) /\ ends \in [0 .. n -> Nat] /\ gaps \in [0 .. n -> Seq(DebugBytes)]
       /\ ends[0] = 0 /\ gaps[n] = text /\ Len(all) = ends[n] + Len(text)
       /\ \A k \in 0 .. n : Stands(gaps[k], all, ends[k])
       /\ \A k \in 0 .. n - 1 : /\ ends[k + 1] = ends[k] + Len(gaps[k]) + Length(k)
                                /\ Stands(Packet(k), all, ends[k] + Len(gaps[k]))
       /\ \A k, l \in 0 .. n : k < l => ends[k] < ends[l]
       /\ reader = "host" => \A k \in 0 .. n - 1 : Masks(gaps[k]) <=> k \in spoiled
       /\ reader = "board" => \A k \in 0 .. n : gaps[k] = << >>
  BY Zenon DEF Layout
<1> DEFINE long == all \o p
           e == [k \in 0 .. n + 1 |-> IF k = n + 1 THEN Len(all) + Len(p) ELSE ends[k]]
           g == [k \in 0 .. n + 1 |-> IF k = n + 1 THEN << >> ELSE gaps[k]]
<1>12. /\ long \in Seq(Byte) /\ Len(long) = Len(all) + Len(p)
       /\ Stands(p, long, Len(all)) /\ Stands(<< >>, long, Len(long))
  BY <1>9, <1>11, ConcatElements, StandsLast, SMTT(30)
<1>13. ASSUME NEW u, NEW x \in Nat, Len(u) \in Nat, Stands(u, all, x) PROVE Stands(u, long, x)
  <2>1. all \in Seq(Byte) /\ p \in Seq(Byte)
    BY <1>9, <1>11
  <2> QED
    BY <1>13, <2>1, StandsConcat
<1>14. /\ Len(all) \in Nat /\ Len(text) \in Nat
       /\ \A k \in 0 .. n : Len(gaps[k]) \in Nat /\ ends[k] \in Nat
  <2>1. \A k \in 0 .. n : gaps[k] \in Seq(DebugBytes) /\ ends[k] \in Nat
    BY <1>11
  <2> QED
    BY <1>1, <1>11, <2>1, LenProperties
<1> HIDE DEF long
<1>15. /\ e \in [0 .. n + 1 -> Nat] /\ e[n + 1] = Len(all) + Len(p)
       /\ \A k \in 0 .. n : e[k] = ends[k] /\ k \in 0 .. n + 1
  BY <1>1, <1>9, <1>11, <1>14, SMTT(30)
<1>16. /\ g \in [0 .. n + 1 -> Seq(DebugBytes)] /\ g[n + 1] = << >>
       /\ \A k \in 0 .. n : g[k] = gaps[k]
  <2>1. << >> \in Seq(DebugBytes) /\ n + 1 \in 0 .. n + 1
    BY <1>1, EmptySeq
  <2>2. \A k \in 0 .. n : k # n + 1 /\ k \in 0 .. n + 1
    BY <1>1
  <2>3. \A k \in 0 .. n + 1 : k # n + 1 => k \in 0 .. n
    BY <1>1
  <2> QED
    BY <1>11, <2>1, <2>2, <2>3
<1> HIDE DEF e, g
<1>17. 0 \in 0 .. n /\ \A k \in 0 .. n + 1 : k = n + 1 \/ k \in 0 .. n
  BY <1>1
<1>18. \A k \in 0 .. n + 1 : Stands(g[k], long, e[k])
  <2>1. Stands(g[n + 1], long, e[n + 1])
    BY <1>12, <1>15, <1>16
  <2>2. \A k \in 0 .. n : Stands(gaps[k], long, ends[k])
    BY <1>11, <1>13, <1>14
  <2> QED
    BY <1>15, <1>16, <1>17, <2>1, <2>2
<1>19. ASSUME NEW k \in 0 .. n
       PROVE  /\ e[k + 1] = e[k] + Len(g[k]) + Length(k)'
              /\ Stands(Packet(k)', long, e[k] + Len(g[k]))
  <2>1. CASE k = n
    <3>1. /\ e[k + 1] = Len(all) + Len(p) /\ e[k] = ends[n] /\ g[k] = text
          /\ Len(all) = ends[n] + Len(text)
      BY <1>1, <1>11, <1>15, <1>16, <2>1
    <3> QED
      BY <1>8, <1>12, <2>1, <3>1
  <2>2. CASE k # n
    <3>1. k \in 0 .. n - 1 /\ k + 1 \in 0 .. n
      BY <1>1, <2>2
    <3>2. Packet(k)' = Packet(k) /\ Length(k)' = Length(k)
      BY <1>1, <1>5, <3>1, EarlierKept DEF Kept
    <3>3. ends[k] + Len(gaps[k]) \in Nat
      BY <1>14
    <3>4. Len(Packet(k)) \in Nat
      BY <3>1, SentFacts
    <3>5. Stands(Packet(k), all, ends[k] + Len(gaps[k]))
      BY <1>11, <3>1
    <3>6. Stands(Packet(k), long, ends[k] + Len(gaps[k]))
      BY <1>13, <3>3, <3>4, <3>5
    <3> QED
      BY <1>11, <1>15, <1>16, <3>1, <3>2, <3>6
  <2> QED
    BY <2>1, <2>2
<1>20. \A k, l \in 0 .. n + 1 : k < l => e[k] < e[l]
  <2>1. \A k \in 0 .. n : ends[k] < Len(all) + Len(p)
    <3> TAKE k \in 0 .. n
    <3>1. k = n \/ k < n
      BY <1>1
    <3> QED
      BY <1>1, <1>9, <1>11, <1>14, <3>1
  <2> TAKE k, l \in 0 .. n + 1
  <2> HAVE k < l
  <2>2. k \in 0 .. n
    BY <1>1
  <2> QED
    BY <1>11, <1>15, <1>17, <2>1, <2>2
<1>21. ASSUME reader = "host"
       PROVE  \A k \in 0 .. n : Masks(g[k]) <=> k \in spoiled'
  <2> TAKE k \in 0 .. n
  <2>1. n \notin spoiled
    BY <1>1
  <2>2. CASE k = n
    BY <1>3, <1>11, <1>16, <2>1, <2>2
  <2>3. CASE k # n
    <3>1. k \in 0 .. n - 1
      BY <1>1, <2>3
    <3>2. k \in spoiled' <=> k \in spoiled
      BY <1>3, <2>3
    <3> QED
      BY <1>11, <1>16, <1>21, <3>1, <3>2
  <2> QED
    BY <2>2, <2>3
<1>22. reader = "board" => \A k \in 0 .. n + 1 : g[k] = << >>
  BY <1>11, <1>16, <1>17
<1>23. Layout(long, e, g)'
  <2>1. Len(text') = 0
    BY <1>3, EmptySeq
  <2>2. Len(long) = e[n + 1] + Len(text')
    BY <1>9, <1>12, <1>14, <1>15, <2>1
  <2>3. e[0] = 0
    BY <1>11, <1>15, <1>17
  <2>4. Num' = n + 1 /\ Num' - 1 = n
    <3>1. (n + 1) - 1 = n
      BY <1>1
    <3> QED
      BY <1>6, <3>1, Zenon
  <2>5. /\ long \in Seq(Byte) /\ e \in [0 .. Num' -> Nat] /\ g \in [0 .. Num' -> Seq(DebugBytes)]
        /\ e[0] = 0 /\ g[Num'] = text' /\ Len(long) = e[Num'] + Len(text')
    <3>1. e \in [0 .. Num' -> Nat] /\ g \in [0 .. Num' -> Seq(DebugBytes)]
      BY <1>15, <1>16, <2>4, Zenon
    <3>2. g[Num'] = text' /\ Len(long) = e[Num'] + Len(text')
      BY <1>3, <1>16, <2>2, <2>4, Zenon
    <3> QED
      BY <1>12, <2>3, <3>1, <3>2, Zenon
  <2>6. \A k \in 0 .. Num' : Stands(g[k], long, e[k])
    BY <1>18, <2>4, Zenon
  <2>7. \A k \in 0 .. Num' - 1 : /\ e[k + 1] = e[k] + Len(g[k]) + Length(k)'
                                 /\ Stands(Packet(k)', long, e[k] + Len(g[k]))
    BY <1>19, <2>4, Zenon
  <2>8. \A k, l \in 0 .. Num' : k < l => e[k] < e[l]
    BY <1>20, <2>4, Zenon
  <2>9. reader' = "host" => \A k \in 0 .. Num' - 1 : Masks(g[k]) <=> k \in spoiled'
    BY <1>3, <1>21, <2>4, Zenon
  <2>10. reader' = "board" => \A k \in 0 .. Num' : g[k] = << >>
    BY <1>3, <1>22, <2>4, Zenon
  <2> QED
    BY <2>5, <2>6, <2>7, <2>8, <2>9, <2>10, Zenon DEF Layout
<1>24. /\ spoiled \subseteq spoiled' /\ spoiled' \subseteq 0 .. Num' - 1
       /\ reader = "board" => spoiled' = spoiled
  <2>1. reader = "board" => text = << >>
    BY <1>1, <1>11
  <2>2. ~ Masks(<< >>)
    BY MasksNext, 0 \in Byte, EmptySeq DEF Byte
  <2>3. \A x \in 0 .. n - 1 : x \in 0 .. n + 1 - 1
    BY <1>1
  <2>4. n \in 0 .. n + 1 - 1
    BY <1>1
  <2> QED
    BY <1>3, <1>6, <2>1, <2>2, <2>3, <2>4
<1>25. e[n + 1] > Len(all) /\ wire' = wire \o p
  BY <1>2, <1>9, <1>14, <1>15 DEF p
<1> QED
  <2>1. \E extra, e1, g1 :
          /\ extra \in Seq(Byte)
          /\ Layout(all \o extra, e1, g1)' /\ wire' = wire \o extra
          /\ \A k \in 0 .. n : e1[k] = ends[k]
          /\ Num' = n + 1 => e1[n + 1] > Len(all)
    BY <1>9, <1>15, <1>23, <1>25 DEF long
  <2>2. reader = "board" => Length(n)' <= MAX_PACKET_LEN
    BY <1>8, <1>10
  <2> QED
    BY <1>3, <1>5, <1>6, <1>24, <2>1, <2>2, Zenon DEF Grown

\* It does with a byte of a debug message.
LEMMA DebugGrows ==
  ASSUME SentType, Debug, spoiled \subseteq 0 .. Num - 1, NEW n, n = Num,
         NEW all, NEW ends, NEW gaps, Layout(all, ends, gaps)
  PROVE  Grown(n, all, ends)
<1>1. n \in Nat /\ reader = "host" /\ reader # "board" /\ n \in 0 .. n
  <2>1. n \in Nat /\ reader = "host"
    BY SentFacts DEF Debug
  <2> QED
    BY <2>1
<1>2. PICK byte \in DebugBytes : wire' = Append(wire, byte) /\ text' = Append(text, byte)
  BY Zenon DEF Debug
<1>3. reader' = reader /\ buffer' = buffer /\ found' = found /\ spoiled' = spoiled /\ sent' = sent
  BY DEF Debug
<1>4. Num' = n /\ Num' = Num /\ SentType'
  BY <1>3 DEF Num, SentType
<1>5. Earlier(n)
  BY <1>3 DEF Earlier
<1>6. /\ all \in Seq(Byte) /\ ends \in [0 .. n -> Nat] /\ gaps \in [0 .. n -> Seq(DebugBytes)]
      /\ ends[0] = 0 /\ gaps[n] = text /\ Len(all) = ends[n] + Len(text)
      /\ \A k \in 0 .. n : Stands(gaps[k], all, ends[k])
      /\ \A k \in 0 .. n - 1 : /\ ends[k + 1] = ends[k] + Len(gaps[k]) + Length(k)
                               /\ Stands(Packet(k), all, ends[k] + Len(gaps[k]))
      /\ \A k, l \in 0 .. n : k < l => ends[k] < ends[l]
      /\ reader = "host" => \A k \in 0 .. n - 1 : Masks(gaps[k]) <=> k \in spoiled
  BY Zenon DEF Layout
<1>7. byte \in Byte /\ text \in Seq(DebugBytes)
  BY <1>1, <1>6, FramerAssumption
<1>0. PICK t : t = text'
  OBVIOUS
<1> DEFINE p == <<byte>>
           long == all \o p
           g == [k \in 0 .. n |-> IF k = n THEN t ELSE gaps[k]]
<1>8. p \in Seq(Byte) /\ Len(p) = 1 /\ p[1] = byte
  BY <1>7
<1>9. wire' = wire \o p
  BY <1>2, AppendIsConcat
<1>10. text' \in Seq(DebugBytes) /\ Len(text') = Len(text) + 1 /\ text' = text \o p
  <2>1. text' = text \o p
    BY <1>2, AppendIsConcat
  <2>2. text' \in Seq(DebugBytes) /\ Len(text') = Len(text) + 1
    BY <1>2, <1>7, AppendProperties
  <2> QED
    BY <2>1, <2>2
<1> HIDE DEF p
<1>11. /\ long \in Seq(Byte) /\ Len(long) = Len(all) + 1 /\ Stands(p, long, Len(all))
  <2>1. all \in Seq(Byte) /\ p \in Seq(Byte)
    BY <1>6, <1>8
  <2>2. long \in Seq(Byte) /\ Len(long) = Len(all) + Len(p)
    BY <2>1, ConcatElements
  <2>3. Stands(p, long, Len(all))
    BY <2>1, StandsLast
  <2> QED
    BY <1>8, <2>2, <2>3
<1>12. ASSUME NEW u, NEW x \in Nat, Len(u) \in Nat, Stands(u, all, x) PROVE Stands(u, long, x)
  <2>1. all \in Seq(Byte) /\ p \in Seq(Byte)
    BY <1>6, <1>8
  <2> QED
    BY <1>12, <2>1, StandsConcat
<1>13. /\ Len(all) \in Nat /\ Len(text) \in Nat
       /\ \A k \in 0 .. n : Len(gaps[k]) \in Nat /\ ends[k] \in Nat
  <2>1. \A k \in 0 .. n : gaps[k] \in Seq(DebugBytes) /\ ends[k] \in Nat
    BY <1>6
  <2> QED
    BY <1>1, <1>6, <2>1, LenProperties
<1> HIDE DEF long
<1>14. /\ g \in [0 .. n -> Seq(DebugBytes)] /\ g[n] = text'
       /\ \A k \in 0 .. n - 1 : k \in 0 .. n /\ k + 1 \in 0 .. n /\ g[k] = gaps[k]
  <2>1. \A k \in 0 .. n - 1 : k \in 0 .. n /\ k + 1 \in 0 .. n /\ k # n
    BY <1>1
  <2>2. t \in Seq(DebugBytes) /\ t = text'
    BY <1>0, <1>10
  <2> QED
    BY <1>1, <1>6, <2>1, <2>2
<1> HIDE DEF g
<1>15. Stands(text', long, ends[n])
  <2>1. Stands(text, long, ends[n])
    BY <1>1, <1>6, <1>12, <1>13
  <2>2. long[ends[n] + (Len(text) + 1)] = byte
    <3>1. Len(all) + 1 = ends[n] + (Len(text) + 1) /\ 1 \in 1 .. Len(p)
      BY <1>1, <1>6, <1>8, <1>13
    <3> QED
      BY <1>8, <1>11, <3>1 DEF Stands
  <2>3. text'[Len(text) + 1] = byte /\ \A i \in 1 .. Len(text) : text'[i] = text[i]
    BY <1>2, <1>7, AppendProperties
  <2>4. \A i \in 1 .. Len(text') : i = Len(text) + 1 \/ i \in 1 .. Len(text)
    BY <1>10, <1>13
  <2>5. \A i \in 1 .. Len(text') : long[ends[n] + i] = text'[i]
    BY <2>1, <2>2, <2>3, <2>4 DEF Stands
  <2>6. ends[n] + Len(text') <= Len(long)
    BY <1>1, <1>6, <1>10, <1>11, <1>13
  <2> QED
    BY <2>5, <2>6 DEF Stands
<1>16. \A k \in 0 .. n : Stands(g[k], long, ends[k])
  <2> TAKE k \in 0 .. n
  <2>1. CASE k = n
    BY <1>14, <1>15, <2>1
  <2>2. CASE k # n
    <3>1. k \in 0 .. n - 1
      BY <1>1, <2>2
    <3> QED
      BY <1>6, <1>12, <1>13, <1>14, <3>1
  <2> QED
    BY <2>1, <2>2
<1>17. ASSUME NEW k \in 0 .. n - 1
       PROVE  /\ ends[k + 1] = ends[k] + Len(g[k]) + Length(k)'
              /\ Stands(Packet(k)', long, ends[k] + Len(g[k]))
  <2>1. Packet(k)' = Packet(k) /\ Length(k)' = Length(k)
    BY <1>1, <1>5, EarlierKept DEF Kept
  <2>2. ends[k] + Len(gaps[k]) \in Nat
    BY <1>13, <1>14
  <2>3. Len(Packet(k)) \in Nat
    BY SentFacts
  <2>4. Stands(Packet(k), all, ends[k] + Len(gaps[k]))
    BY <1>6
  <2>5. Stands(Packet(k), long, ends[k] + Len(gaps[k]))
    BY <1>12, <2>2, <2>3, <2>4
  <2> QED
    BY <1>6, <1>14, <2>1, <2>5
<1>18. \A k \in 0 .. n - 1 : Masks(g[k]) <=> k \in spoiled
  BY <1>1, <1>6, <1>14
<1>19. Layout(long, ends, g)'
  <2>1. Len(long) = ends[n] + Len(text')
    BY <1>1, <1>6, <1>10, <1>11, <1>13
  <2>2. /\ long \in Seq(Byte) /\ ends \in [0 .. Num' -> Nat] /\ g \in [0 .. Num' -> Seq(DebugBytes)]
        /\ ends[0] = 0 /\ g[Num'] = text' /\ Len(long) = ends[Num'] + Len(text')
    <3>1. ends \in [0 .. Num' -> Nat] /\ g \in [0 .. Num' -> Seq(DebugBytes)] /\ ends[0] = 0
      BY <1>4, <1>6, <1>14, Zenon
    <3>2. g[Num'] = text' /\ Len(long) = ends[Num'] + Len(text')
      BY <1>4, <1>14, <2>1, Zenon
    <3> QED
      BY <1>11, <3>1, <3>2, Zenon
  <2>3. \A k \in 0 .. Num' : Stands(g[k], long, ends[k])
    BY <1>4, <1>16, Zenon
  <2>4. \A k \in 0 .. Num' - 1 : /\ ends[k + 1] = ends[k] + Len(g[k]) + Length(k)'
                                 /\ Stands(Packet(k)', long, ends[k] + Len(g[k]))
    BY <1>4, <1>17, Zenon
  <2>5. \A k, l \in 0 .. Num' : k < l => ends[k] < ends[l]
    BY <1>4, <1>6, Zenon
  <2>6. reader' = "host" => \A k \in 0 .. Num' - 1 : Masks(g[k]) <=> k \in spoiled'
    BY <1>3, <1>4, <1>18, Zenon
  <2>7. reader' = "board" => \A k \in 0 .. Num' : g[k] = << >>
    BY <1>1, <1>3, Zenon
  <2> QED
    BY <2>2, <2>3, <2>4, <2>5, <2>6, <2>7, Zenon DEF Layout
<1>20. \E extra, e, g1 :
         /\ extra \in Seq(Byte)
         /\ Layout(all \o extra, e, g1)' /\ wire' = wire \o extra
         /\ \A k \in 0 .. n : e[k] = ends[k]
         /\ Num' = n + 1 => e[n + 1] > Len(all)
  <2>1. ~ Num' = n + 1
    <3>1. ~ n = n + 1
      BY <1>1
    <3> QED
      BY <1>4, <3>1, Zenon
  <2> QED
    BY <1>8, <1>9, <1>19, <2>1 DEF long
<1>21. spoiled \subseteq spoiled' /\ spoiled' \subseteq 0 .. Num' - 1
  BY <1>3, <1>4, Zenon
<1> QED
  BY <1>1, <1>3, <1>4, <1>5, <1>20, <1>21, Zenon DEF Grown

-----------------------------------------------------------------------------
(* What is under way. *)

\* The reader has taken r bytes.
Unread(all, r) == r \in 0 .. Len(all) /\ wire = Part(all, r, Len(all))

\* What is written comes last.
LEMMA UnreadGrows ==
  ASSUME NEW all \in Seq(Byte), NEW extra \in Seq(Byte), NEW r, Unread(all, r),
         wire' = wire \o extra
  PROVE  Unread(all \o extra, r)'
<1>1. r \in 0 .. Len(all) /\ wire = Part(all, r, Len(all)) /\ Len(all) \in Nat
  BY LenProperties DEF Unread
<1>2. Len(all) \in 0 .. Len(all)
  BY <1>1
<1> DEFINE long == all \o extra
<1>3. Part(long, r, Len(long)) = Part(all, r, Len(all)) \o extra
  BY <1>1, <1>2, PartOfConcat
<1>4. Len(long) = Len(all) + Len(extra) /\ Len(extra) \in Nat
  BY ConcatElements, LenProperties
<1> HIDE DEF long
<1>5. r \in 0 .. Len(long)
  BY <1>1, <1>4
<1>6. wire' = Part(long, r, Len(long))
  BY <1>1, <1>3, Zenon
<1>7. Unread(long, r)'
  BY <1>5, <1>6, Zenon DEF Unread
<1> QED
  BY <1>7 DEF long

\* What is read comes first.
LEMMA UnreadShrinks ==
  ASSUME NEW all \in Seq(Byte), NEW r, Unread(all, r), NEW k \in 1 .. Len(wire),
         wire' = SubSeq(wire, k + 1, Len(wire)), NEW q, q = r + k
  PROVE  /\ Unread(all, q)' /\ SubSeq(wire, 1, k) = Part(all, r, q)
         /\ q \in r + 1 .. Len(all)
<1> DEFINE n == Len(all)
<1>1. r \in 0 .. n /\ wire = Part(all, r, n) /\ n \in Nat /\ n \in 0 .. Len(all)
  BY LenProperties DEF Unread
<1> HIDE DEF n
<1>2. Len(wire) = n - r
  BY <1>1, PartFacts
<1>3. q \in r .. n /\ q \in 0 .. n /\ q - r = k /\ q \in r + 1 .. n
  BY <1>1, <1>2
<1>4. Part(Part(all, r, n), q - r, n - r) = Part(all, q, n)
  BY <1>1, <1>3, PartOfPart
<1>5. Part(Part(all, r, n), 0, q - r) = Part(all, r, q)
  BY <1>1, <1>3, PartOfPart
<1>6. wire' = Part(all, q, n)
  <2>1. wire' = Part(wire, k, Len(wire))
    BY DEF Part
  <2>2. wire' = Part(Part(all, r, n), q - r, n - r)
    BY <1>1, <1>2, <1>3, <2>1, Zenon
  <2> QED
    BY <1>4, <2>2, Zenon
<1>7. SubSeq(wire, 1, k) = Part(all, r, q)
  <2>1. Part(wire, 0, k) = SubSeq(wire, 1, k)
    <3>1. 0 + 1 = 1
      OBVIOUS
    <3> QED
      BY <3>1, Zenon DEF Part
  <2>2. Part(wire, 0, k) = Part(Part(all, r, n), 0, q - r)
    BY <1>1, <1>3, Zenon
  <2> QED
    BY <1>5, <2>1, <2>2, Zenon
<1>8. Unread(all, q)'
  BY <1>3, <1>6, Zenon DEF Unread, n
<1> QED
  BY <1>3, <1>7, <1>8 DEF n

\* What is innocent has been so.
LEMMA InnocentBefore ==
  ASSUME NEW n \in Nat, spoiled \subseteq 0 .. n - 1, spoiled \subseteq spoiled', Earlier(n),
         Innocent'
  PROVE  Innocent
<1>1. ASSUME NEW k \in spoiled PROVE ~ Deceptive(k)
  <2>1. k \in spoiled' /\ k \in 0 .. n - 1
    BY <1>1
  <2>2. ~ Deceptive(k)'
    BY <2>1, Zenon DEF Innocent
  <2>3. Deceptive(k)' <=> Deceptive(k)
    BY <2>1, EarlierKept DEF Kept
  <2> QED
    BY <2>2, <2>3
<1> QED
  BY <1>1 DEF Innocent

\* What is right stays so.
LEMMA RightKept ==
  ASSUME NEW n \in Nat, Earlier(n), NEW c \in 0 .. n, NEW s, Right(s, 0, c)
  PROVE  Right(s, 0, c)'
<1>1. ASSUME NEW i \in 1 .. Len(s)
      PROVE  s[i].num \in 0 .. c - 1 /\ s[i] = ResultOf(sent'[s[i].num + 1], s[i].num)
  <2>1. s[i].num \in 0 .. c - 1 /\ s[i] = ResultOf(sent[s[i].num + 1], s[i].num)
    BY Zenon DEF Right
  <2>2. PICK k : k = s[i].num
    OBVIOUS
  <2>3. k \in 0 .. n - 1
    BY <2>1, <2>2
  <2>4. sent'[k + 1] = sent[k + 1]
    BY <2>3 DEF Earlier
  <2> QED
    BY <2>1, <2>2, <2>4, Zenon
<1>2. \A i, j \in 1 .. Len(s) : i < j => s[i].num < s[j].num
  BY Zenon DEF Right
<1> QED
  BY <1>1, <1>2, Zenon DEF Right

-----------------------------------------------------------------------------
(* The host. *)

\* The host is through with the packets up to c: it has found each but the spoiled ones, it
\* keeps what has arrived behind them, and no later one has arrived in full.
HostHas(all, ends, r, c) ==
  /\ ends[c] <= r /\ buffer = Part(all, ends[c], r)
  /\ found \in Seq(Outcome) /\ Right(found, 0, c)
  /\ \A k \in 0 .. c - 1 : k \in spoiled \/ Has(found, k)
  /\ \A k \in c .. Num - 1 : k \in spoiled \/ ends[k + 1] > r

HostReads(all, ends, r) == Innocent => \E c \in 0 .. Num : HostHas(all, ends, r, c)

HostInv ==
  \E all, ends, gaps, r :
    Layout(all, ends, gaps) /\ Unread(all, r) /\ HostReads(all, ends, r)

\* What is written waits.
LEMMA HostGrows ==
  ASSUME spoiled \subseteq 0 .. Num - 1, NEW n \in Nat, n = Num,
         NEW all, NEW ends, NEW gaps, Layout(all, ends, gaps), NEW r, Unread(all, r),
         HostReads(all, ends, r), Grown(n, all, ends)
  PROVE  HostInv'
<1>1. /\ reader' = reader /\ buffer' = buffer /\ found' = found
      /\ Num' = n \/ Num' = n + 1
      /\ Earlier(n)
      /\ spoiled \subseteq spoiled'
  BY Zenon DEF Grown
<1>2. PICK extra, e, g :
        /\ extra \in Seq(Byte)
        /\ Layout(all \o extra, e, g)' /\ wire' = wire \o extra
        /\ \A k \in 0 .. n : e[k] = ends[k]
        /\ Num' = n + 1 => e[n + 1] > Len(all)
  BY Zenon DEF Grown
<1>3. all \in Seq(Byte) /\ ends \in [0 .. n -> Nat]
  BY Zenon DEF Layout
<1>4. r \in 0 .. Len(all) /\ Len(all) \in Nat /\ r \in Nat
  BY <1>3, LenProperties DEF Unread
<1> DEFINE long == all \o extra
<1>5. Unread(long, r)'
  BY <1>2, <1>3, UnreadGrows
<1>6. ASSUME Innocent' PROVE \E c \in 0 .. Num' : HostHas(long, e, r, c)'
  <2>1. Innocent
    <3>1. spoiled \subseteq 0 .. n - 1
      OBVIOUS
    <3> QED
      BY <1>1, <1>6, <3>1, InnocentBefore
  <2>2. PICK c \in 0 .. n : HostHas(all, ends, r, c)
    BY <2>1 DEF HostReads
  <2>3. /\ ends[c] <= r /\ buffer = Part(all, ends[c], r)
        /\ found \in Seq(Outcome) /\ Right(found, 0, c)
        /\ \A k \in 0 .. c - 1 : k \in spoiled \/ Has(found, k)
        /\ \A k \in c .. n - 1 : k \in spoiled \/ ends[k + 1] > r
    BY <2>2, Zenon DEF HostHas
  <2>4. e[c] = ends[c] /\ ends[c] \in 0 .. r
    BY <1>2, <1>3, <1>4, <2>3
  <2>5. buffer' = Part(long, e[c], r)
    <3>1. Part(long, ends[c], r) = Part(all, ends[c], r)
      BY <1>2, <1>3, <1>4, <2>4, PartOfConcat
    <3> QED
      BY <1>1, <2>3, <2>4, <3>1, Zenon
  <2>6. PICK s : s = found
    OBVIOUS
  <2>7. Right(s, 0, c)'
    BY <1>1, <2>3, <2>6, RightKept
  <2>8. found' = s /\ s \in Seq(Outcome)
    BY <1>1, <2>3, <2>6
  <2>9. Right(found, 0, c)'
    BY <2>7, <2>8, Zenon DEF Right
  <2>10. \A k \in 0 .. c - 1 : k \in spoiled' \/ Has(found, k)'
    <3>1. \A k : Has(found, k)' <=> Has(found, k)
      BY <1>1, Zenon DEF Has
    <3> QED
      BY <1>1, <2>3, <3>1, Zenon
  <2>11. \A k \in c .. Num' - 1 : k \in spoiled' \/ e[k + 1] > r
    <3> TAKE k \in c .. Num' - 1
    <3>1. Num' - 1 \in Int /\ (k \in c .. n - 1 \/ (k = n /\ Num' = n + 1))
      <4>1. CASE Num' = n
        BY <4>1
      <4>2. CASE Num' = n + 1
        BY <4>2
      <4> QED
        BY <1>1, <4>1, <4>2
    <3>2. CASE k \in c .. n - 1
      <4>1. k + 1 \in 0 .. n
        BY <3>2
      <4>2. e[k + 1] = ends[k + 1]
        BY <1>2, <4>1
      <4> QED
        BY <1>1, <2>3, <3>2, <4>2
    <3>3. CASE k = n /\ Num' = n + 1
      <4>1. e[n + 1] > Len(all)
        BY <1>2, <3>3
      <4>2. e[n + 1] \in Nat
        <5>1. e \in [0 .. Num' -> Nat]
          BY <1>2, Zenon DEF Layout
        <5> QED
          BY <3>3, <5>1
      <4> QED
        BY <1>4, <3>3, <4>1, <4>2
    <3> QED
      BY <3>1, <3>2, <3>3
  <2>12. c \in 0 .. Num'
    <3>1. c \in 0 .. n /\ c \in 0 .. n + 1
      OBVIOUS
    <3> QED
      BY <1>1, <3>1, Zenon
  <2>13. HostHas(long, e, r, c)'
    BY <2>3, <2>4, <2>5, <2>8, <2>9, <2>10, <2>11, Zenon DEF HostHas
  <2> QED
    BY <2>12, <2>13
<1> HIDE DEF long
<1>7. HostReads(long, e, r)'
  BY <1>6, Zenon DEF HostReads
<1>8. Layout(long, e, g)'
  BY <1>2, Zenon DEF long
<1> QED
  BY <1>5, <1>7, <1>8, Zenon DEF HostInv

\* Reading leaves alone what has been written.
LEMMA LayoutKept ==
  ASSUME reader' = reader, sent' = sent, text' = text, reader = "host" => spoiled' = spoiled,
         NEW all, NEW ends, NEW gaps, Layout(all, ends, gaps)
  PROVE  Layout(all, ends, gaps)'
<1>1. Num' = Num
  BY DEF Num
<1>2. \A k : Packet(k)' = Packet(k)
  BY Zenon DEF Packet
<1>3. \A k : Length(k)' = Length(k)
  BY Zenon DEF Length
<1>4. /\ all \in Seq(Byte) /\ ends \in [0 .. Num' -> Nat] /\ gaps \in [0 .. Num' -> Seq(DebugBytes)]
      /\ ends[0] = 0 /\ gaps[Num'] = text' /\ Len(all) = ends[Num'] + Len(text')
  BY <1>1, Zenon DEF Layout
<1>5. \A k \in 0 .. Num' : Stands(gaps[k], all, ends[k])
  BY <1>1, Zenon DEF Layout
<1>6. \A k \in 0 .. Num' - 1 : /\ ends[k + 1] = ends[k] + Len(gaps[k]) + Length(k)'
                               /\ Stands(Packet(k)', all, ends[k] + Len(gaps[k]))
  BY <1>1, <1>2, <1>3, Zenon DEF Layout
<1>7. \A k, l \in 0 .. Num' : k < l => ends[k] < ends[l]
  BY <1>1, Zenon DEF Layout
<1>8. reader' = "host" => \A k \in 0 .. Num' - 1 : Masks(gaps[k]) <=> k \in spoiled'
  BY <1>1, Zenon DEF Layout
<1>9. reader' = "board" => \A k \in 0 .. Num' : gaps[k] = << >>
  BY <1>1, Zenon DEF Layout
<1> QED
  BY <1>4, <1>5, <1>6, <1>7, <1>8, <1>9, Zenon DEF Layout

\* What is read is parsed behind what was left over.
LEMMA HostUpdates ==
  ASSUME SentType, reader = "host", Update, NEW all, NEW ends, NEW gaps, Layout(all, ends, gaps),
         NEW r, Unread(all, r), HostReads(all, ends, r)
  PROVE  HostInv'
<1>1. PICK k \in 1 .. Len(wire) :
        /\ wire' = SubSeq(wire, k + 1, Len(wire))
        /\ buffer' = ParseBuffer(buffer \o SubSeq(wire, 1, k)).buffer
        /\ found' = found \o ParseBuffer(buffer \o SubSeq(wire, 1, k)).results
  BY Zenon DEF Update
<1>2. reader' = reader /\ sent' = sent /\ text' = text /\ spoiled' = spoiled
  BY DEF Update
<1>3. Layout(all, ends, gaps)'
  BY <1>2, LayoutKept
<1>4. all \in Seq(Byte) /\ ends \in [0 .. Num -> Nat] /\ Num \in Nat
  BY SentFacts, Zenon DEF Layout
<1>5. r \in 0 .. Len(all) /\ Len(all) \in Nat /\ r \in Nat
  BY <1>4, LenProperties DEF Unread
<1>6. PICK q : q = r + k
  OBVIOUS
<1>7. /\ Unread(all, q)' /\ SubSeq(wire, 1, k) = Part(all, r, q)
      /\ q \in r + 1 .. Len(all)
  BY <1>1, <1>4, <1>6, UnreadShrinks
<1>8. q \in 0 .. Len(all) /\ r <= q /\ q \in Nat
  BY <1>5, <1>7
<1>9. ASSUME Innocent PROVE \E d \in 0 .. Num : HostHas(all, ends, q, d)'
  <2>1. PICK c \in 0 .. Num : HostHas(all, ends, r, c)
    BY <1>9 DEF HostReads
  <2>2. /\ ends[c] <= r /\ buffer = Part(all, ends[c], r)
        /\ found \in Seq(Outcome) /\ Right(found, 0, c)
        /\ \A j \in 0 .. c - 1 : j \in spoiled \/ Has(found, j)
    BY <2>1, Zenon DEF HostHas
  <2>3. ends[c] \in Nat /\ ends[c] <= q /\ ends[c] \in 0 .. q /\ r \in ends[c] .. q
    BY <1>4, <1>5, <1>8, <2>2
  <2>4. PICK b : b = Part(all, ends[c], q)
    OBVIOUS
  <2>5. buffer \o SubSeq(wire, 1, k) = b
    <3>1. Part(all, ends[c], r) \o Part(all, r, q) = Part(all, ends[c], q)
      BY <1>4, <1>8, <2>3, PartsJoin
    <3> QED
      BY <1>7, <2>2, <2>4, <3>1, Zenon
  <2>6. FindsFrom(Scan(b), ends, q, c)
    BY <1>3, <1>8, <1>9, <2>3, <2>4, ScanFinds
  <2>7. PICK d \in c .. Num : Finds(Scan(b), ends, ends[c], q, c, d)
    BY <2>6 DEF FindsFrom
  <2>8. PICK R : R = Scan(b)
    OBVIOUS
  <2>9. /\ R.last = (IF d = c THEN 0 ELSE ends[d] - ends[c]) /\ ends[d] <= q
        /\ R.results \in Seq(Outcome) /\ Right(R.results, c, d)
        /\ \A j \in c .. d - 1 : j \in spoiled \/ Has(R.results, j)
        /\ \A j \in d .. Num - 1 : j \in spoiled \/ ends[j + 1] > q
    BY <2>7, <2>8, Zenon DEF Finds
  <2>10. /\ found' = found \o R.results /\ buffer' = SubSeq(b, R.last + 1, Len(b))
    BY <1>1, <2>5, <2>8, Zenon DEF ParseBuffer
  <2>11. /\ d \in 0 .. Num /\ d \in Int /\ c \in Int /\ 0 \in Int /\ 0 <= c /\ c <= d
         /\ ends[d] \in Nat
    BY <1>4
  <2>12. PICK t \in Seq(Outcome) : t = R.results
    BY <2>9
  <2>13. Joined(found, t, 0, c, d)
    BY <2>2, <2>11, RightJoin, Zenon
  <2>14. /\ found \o t \in Seq(Outcome) /\ Right(found \o t, 0, d)
         /\ \A j : Has(found, j) \/ Has(t, j) => Has(found \o t, j)
    BY <2>2, <2>9, <2>12, <2>13, Zenon DEF Joined
  <2>15. buffer' = Part(all, ends[d], q)
    <3>1. Len(b) = q - ends[c]
      BY <1>4, <1>8, <2>3, <2>4, PartFacts, ZenonT(30)
    <3>2. R.last = ends[d] - ends[c] /\ ends[d] \in ends[c] .. q
      <4>1. CASE d = c
        BY <2>3, <2>9, <2>11, <4>1
      <4>2. CASE d # c
        <5>1. c < d
          BY <2>11, <4>2
        <5>2. ends[c] < ends[d]
          BY <2>11, <5>1 DEF Layout
        <5> QED
          BY <1>8, <2>3, <2>9, <2>11, <4>2, <5>2
      <4> QED
        BY <4>1, <4>2
    <3>3. Part(Part(all, ends[c], q), ends[d] - ends[c], q - ends[c]) = Part(all, ends[d], q)
      BY <1>4, <1>8, <2>3, <3>2, PartOfPart
    <3>4. buffer' = Part(b, R.last, Len(b))
      BY <2>10, Zenon DEF Part
    <3> QED
      BY <2>4, <3>1, <3>2, <3>3, <3>4, Zenon
  <2>16. \A j \in 0 .. d - 1 : j \in spoiled \/ Has(found \o t, j)
    <3>1. \A j \in 0 .. d - 1 : j \in 0 .. c - 1 \/ j \in c .. d - 1
      BY <2>11
    <3> QED
      BY <2>2, <2>9, <2>12, <2>14, <3>1, Zenon
  <2>17. PICK s : s = found \o t
    OBVIOUS
  <2>18. found' = s /\ s \in Seq(Outcome)
    BY <2>10, <2>12, <2>14, <2>17
  <2>19. Right(found, 0, d)'
    <3>1. Right(s, 0, d)
      BY <2>14, <2>17
    <3> QED
      BY <1>2, <2>18, <3>1, Zenon DEF Right
  <2>20. \A j \in 0 .. d - 1 : j \in spoiled' \/ Has(found, j)'
    BY <1>2, <2>16, <2>17, <2>18, Zenon DEF Has
  <2>21. \A j \in d .. Num' - 1 : j \in spoiled' \/ ends[j + 1] > q
    BY <1>2, <2>9, Zenon DEF Num
  <2>22. HostHas(all, ends, q, d)'
    BY <2>9, <2>15, <2>18, <2>19, <2>20, <2>21, Zenon DEF HostHas
  <2> QED
    BY <2>11, <2>22
<1>10. Innocent' => Innocent
  BY <1>2 DEF Innocent, Deceptive
<1>11. HostReads(all, ends, q)'
  <2>1. Num' = Num
    BY <1>2 DEF Num
  <2> QED
    BY <1>9, <1>10, <2>1, Zenon DEF HostReads
<1> QED
  BY <1>3, <1>7, <1>11, Zenon DEF HostInv

-----------------------------------------------------------------------------
(* The stream to a board. *)

\* It has packets only, one behind the other.
Rows(all, ends) ==
  /\ all \in Seq(Byte) /\ ends \in [0 .. Num -> Nat] /\ ends[0] = 0 /\ Len(all) = ends[Num]
  /\ \A k \in 0 .. Num - 1 : ends[k + 1] = ends[k] + Length(k) /\ Stands(Packet(k), all, ends[k])
  /\ \A k, l \in 0 .. Num : k < l => ends[k] < ends[l]

\* A host writes no text.
LEMMA RowsFacts ==
  ASSUME SentType, reader = "board", NEW all, NEW ends, NEW gaps, Layout(all, ends, gaps)
  PROVE  Rows(all, ends)
<1>1. Num \in Nat /\ Num \in 0 .. Num
  <2>1. Num \in Nat
    BY SentFacts
  <2> QED
    BY <2>1
<1>2. /\ all \in Seq(Byte) /\ ends \in [0 .. Num -> Nat] /\ ends[0] = 0
      /\ gaps[Num] = text /\ Len(all) = ends[Num] + Len(text)
      /\ \A k \in 0 .. Num - 1 : /\ ends[k + 1] = ends[k] + Len(gaps[k]) + Length(k)
                                 /\ Stands(Packet(k), all, ends[k] + Len(gaps[k]))
      /\ \A k, l \in 0 .. Num : k < l => ends[k] < ends[l]
      /\ \A k \in 0 .. Num : gaps[k] = << >>
  BY Zenon DEF Layout
<1>3. Len(<< >>) = 0 /\ ends[Num] \in Nat
  BY <1>1, <1>2, EmptySeq
<1>4. Len(all) = ends[Num]
  BY <1>1, <1>2, <1>3
<1>5. ASSUME NEW k \in 0 .. Num - 1
      PROVE  ends[k + 1] = ends[k] + Length(k) /\ Stands(Packet(k), all, ends[k])
  <2>1. k \in 0 .. Num /\ ends[k] \in Nat
    BY <1>1, <1>2
  <2>2. gaps[k] = << >> /\ ends[k] + Len(gaps[k]) = ends[k]
    BY <1>2, <1>3, <2>1
  <2> QED
    BY <1>2, <2>2
<1> QED
  BY <1>2, <1>4, <1>5, Zenon DEF Rows

\* The sum of the lengths is where the packets end.
LEMMA TotalIs ==
  ASSUME SentType, NEW all, NEW ends, Rows(all, ends), NEW n \in 0 .. Num
  PROVE  Total(n) = ends[n]
<1> DEFINE R(t) == t = [i \in 0 .. n |-> IF i = 0 THEN 0 ELSE t[i - 1] + Length(i - 1)]
<1>1. Num \in Nat /\ n \in Nat /\ n \in 0 .. n /\ 0 \in 0 .. n
  <2>1. Num \in Nat
    BY SentFacts
  <2> QED
    BY <2>1
<1>2. /\ ends \in [0 .. Num -> Nat] /\ ends[0] = 0
      /\ \A k \in 0 .. Num - 1 : ends[k + 1] = ends[k] + Length(k)
  BY Zenon DEF Rows
<1>3. \A i \in 0 .. n : i # 0 => i - 1 \in 0 .. n /\ i - 1 \in 0 .. Num - 1 /\ (i - 1) + 1 = i
  BY <1>1
<1>4. \A i \in 0 .. n : i # 0 => ends[i] = ends[i - 1] + Length(i - 1)
  BY <1>2, <1>3
<1> DEFINE f == [i \in 0 .. n |-> ends[i]]
<1>5. R(f)
  <2>1. \A i \in 0 .. n : ends[i] = IF i = 0 THEN 0 ELSE f[i - 1] + Length(i - 1)
    BY <1>2, <1>3, <1>4
  <2>2. f = [i \in 0 .. n |-> IF i = 0 THEN 0 ELSE f[i - 1] + Length(i - 1)]
    BY <2>1
  <2> QED
    BY <2>2
<1>6. Total(n) = (CHOOSE t : R(t))[n]
  BY Zenon DEF Total
<1> HIDE DEF R
<1>7. PICK t : R(t) /\ Total(n) = t[n]
  BY <1>5, <1>6, Zenon
<1> DEFINE T == {i \in 0 .. n : t[i] = ends[i]}
<1>8. 0 \in T
  BY <1>1, <1>2, <1>7 DEF R
<1>9. \A i \in 0 .. n - 1 : i \in T => i + 1 \in T
  <2> TAKE i \in 0 .. n - 1
  <2> HAVE i \in T
  <2>1. i + 1 \in 0 .. n /\ i + 1 # 0 /\ (i + 1) - 1 = i
    BY <1>1
  <2>2. t[i + 1] = t[(i + 1) - 1] + Length((i + 1) - 1)
    BY <1>7, <2>1 DEF R
  <2>3. ends[i + 1] = ends[(i + 1) - 1] + Length((i + 1) - 1)
    BY <1>4, <2>1
  <2>4. t[i] = ends[i]
    OBVIOUS
  <2>5. t[i + 1] = ends[i + 1]
    BY <2>1, <2>2, <2>3, <2>4, Zenon
  <2> QED
    BY <2>1, <2>5
<1> HIDE DEF T
<1>10. \A i \in 0 .. n : i \in T
  BY <1>1, <1>8, <1>9, UpToInduction, Zenon
<1>11. n \in T
  BY <1>1, <1>10
<1> QED
  BY <1>7, <1>11 DEF T

\* The packet whose byte was read last.
LEMMA CurrentIs ==
  ASSUME SentType, NEW all, NEW ends, Rows(all, ends), NEW r, Unread(all, r),
         NEW c \in 0 .. Num - 1, ends[c] < r, r <= ends[c + 1]
  PROVE  Current = c
<1>1. Num \in Nat /\ c \in 0 .. Num /\ c + 1 \in 0 .. Num /\ Num \in 0 .. Num
  <2>1. Num \in Nat
    BY SentFacts
  <2> QED
    BY <2>1
<1>2. /\ all \in Seq(Byte) /\ ends \in [0 .. Num -> Nat] /\ Len(all) = ends[Num]
      /\ \A k, l \in 0 .. Num : k < l => ends[k] < ends[l]
  BY Zenon DEF Rows
<1>3. Total(Num) - Len(wire) = r
  <2>1. Total(Num) = Len(all)
    BY <1>1, <1>2, TotalIs
  <2>2. r \in 0 .. Len(all) /\ wire = Part(all, r, Len(all))
    BY DEF Unread
  <2>3. Len(all) \in Nat /\ Len(all) \in 0 .. Len(all)
    <3>1. Len(all) \in Nat
      BY <1>2, LenProperties
    <3> QED
      BY <3>1
  <2>4. Len(wire) = Len(all) - r
    BY <1>2, <2>2, <2>3, PartFacts
  <2> QED
    BY <2>1, <2>2, <2>3, <2>4
<1> DEFINE At(k) == Total(k) < r /\ r <= Total(k + 1)
<1>4. \A k \in 0 .. Num - 1 : At(k) <=> ends[k] < r /\ r <= ends[k + 1]
  <2> TAKE k \in 0 .. Num - 1
  <2>1. k \in 0 .. Num /\ k + 1 \in 0 .. Num
    BY <1>1
  <2>2. Total(k) = ends[k] /\ Total(k + 1) = ends[k + 1]
    BY <2>1, TotalIs
  <2> QED
    BY <2>2
<1>5. Current = CHOOSE k \in 0 .. Num - 1 : At(k)
  BY <1>3, Zenon DEF Current
<1>6. \A k \in 0 .. Num - 1 : At(k) => k = c
  <2> SUFFICES ASSUME NEW k \in 0 .. Num - 1, ends[k] < r, r <= ends[k + 1], k # c
               PROVE  FALSE
    BY <1>4
  <2>0. r \in Nat
    <3>1. Len(all) \in Nat
      BY <1>2, LenProperties
    <3> QED
      BY <3>1 DEF Unread
  <2>1. k \in 0 .. Num /\ k + 1 \in 0 .. Num /\ ends[k] \in Nat /\ ends[k + 1] \in Nat
    BY <1>1, <1>2
  <2>2. ends[c] \in Nat /\ ends[c + 1] \in Nat
    BY <1>1, <1>2
  <2>3. CASE k < c
    <3>1. k + 1 = c \/ k + 1 < c
      BY <2>3
    <3>2. ends[k + 1] <= ends[c]
      BY <1>1, <1>2, <2>1, <2>2, <3>1
    <3> QED
      BY <2>0, <2>1, <2>2, <3>2
  <2>4. CASE c < k
    <3>1. c + 1 = k \/ c + 1 < k
      BY <2>4
    <3>2. ends[c + 1] <= ends[k]
      BY <1>1, <1>2, <2>1, <2>2, <3>1
    <3> QED
      BY <2>0, <2>1, <2>2, <3>2
  <2> QED
    BY <2>3, <2>4
<1>7. At(c)
  BY <1>4
<1> HIDE DEF At
<1> QED
  BY <1>5, <1>6, <1>7

\* There is one as soon as a byte has been read.
LEMMA CurrentType ==
  ASSUME SentType, NEW all, NEW ends, Rows(all, ends), NEW r, Unread(all, r), r > 0
  PROVE  Current \in 0 .. Num - 1
<1>1. Num \in Nat /\ Num \in 0 .. Num
  <2>1. Num \in Nat
    BY SentFacts
  <2> QED
    BY <2>1
<1>2. all \in Seq(Byte) /\ ends \in [0 .. Num -> Nat] /\ ends[0] = 0 /\ Len(all) = ends[Num]
  BY Zenon DEF Rows
<1>3. r \in Nat /\ r <= ends[Num]
  <2>1. Len(all) \in Nat
    BY <1>2, LenProperties
  <2> QED
    BY <1>2, <2>1 DEF Unread
<1> DEFINE T == {k \in 0 .. Num : r <= ends[k]}
<1>4. Num \in T /\ T \subseteq Nat
  BY <1>1, <1>3
<1>5. PICK m \in T : \A k \in T : m <= k
  <2> HIDE DEF T
  <2> QED
    BY <1>4, SmallestInSet
<1>6. m \in 0 .. Num /\ r <= ends[m] /\ m # 0
  BY <1>2, <1>3, <1>5
<1>7. PICK c \in 0 .. Num - 1 : c + 1 = m
  <2>1. m - 1 \in 0 .. Num - 1 /\ (m - 1) + 1 = m
    BY <1>1, <1>6
  <2> QED
    BY <2>1
<1>8. ends[c] < r
  <2>1. c \in 0 .. Num /\ ~ m <= c
    BY <1>1, <1>7
  <2>2. ~ r <= ends[c]
    BY <1>5, <2>1
  <2> QED
    BY <1>2, <1>3, <2>1, <2>2
<1>9. r <= ends[c + 1]
  BY <1>6, <1>7
<1>10. Current = c
  BY <1>8, <1>9, CurrentIs
<1> QED
  BY <1>10

-----------------------------------------------------------------------------
(* A byte that a board reads. *)

\* What readPacket does with it.
Takes(c) ==
  CASE Len(buffer) = 0 -> buffer' = Begun(c) /\ UNCHANGED found
    [] Len(buffer) = 1 -> buffer' = Started(c) /\ UNCHANGED found
    [] OTHER -> Consume(Append(buffer, c))

\* It depends on how many there are.
LEMMA TakesIs ==
  ASSUME NEW c, Takes(c)
  PROVE  /\ Len(buffer) = 0 => buffer' = Begun(c) /\ found' = found
         /\ Len(buffer) = 1 => buffer' = Started(c) /\ found' = found
         /\ Len(buffer) # 0 /\ Len(buffer) # 1 => Consume(Append(buffer, c))
<1> DEFINE len == Len(buffer)
           A == buffer' = Begun(c) /\ found' = found
           B == buffer' = Started(c) /\ found' = found
           C == Consume(Append(buffer, c))
<1>1. (CASE len = 0 -> A [] len = 1 -> B [] OTHER -> C)
  BY Zenon DEF Takes
<1> HIDE DEF len, A, B, C
<1>2. /\ len = 0 => A
      /\ len = 1 => B
      /\ len # 0 /\ len # 1 => C
  BY <1>1
<1> QED
  BY <1>2, Zenon DEF len, A, B, C

\* The next byte of a packet of which all bytes have been read: the last one ends it, unless
\* there are too many.
Took(p, j) ==
  /\ j + 1 < Len(p) => buffer' = Part(p, 0, j + 1) /\ found' = found
  /\ j + 1 = Len(p) =>
       /\ buffer' = << >>
       /\ Len(p) = MAX_PACKET_LEN => found' = found
       /\ Len(p) # MAX_PACKET_LEN => found' = found \o <<Parsed(reader, p)>>

\* This is what the start bytes and the length are for, on a board.
LEMMA ByteRead ==
  ASSUME NEW p, Whole(p), Parses(reader, p), Len(p) <= MAX_PACKET_LEN,
         NEW j \in 0 .. Len(p) - 1, buffer = Part(p, 0, j), Takes(p[j + 1])
  PROVE  Took(p, j)
<1>1. /\ p \in Seq(Byte) /\ Len(p) >= 14 /\ Len(p) \in Nat
      /\ p[1] = PACKET_START_0 /\ p[2] = PACKET_START_1
  BY LenProperties DEF Whole
<1>2. MAX_PACKET_LEN \in Nat
  BY LengthAssumption
<1>3. j \in 0 .. Len(p) /\ j + 1 \in 0 .. Len(p) /\ 0 \in 0 .. j /\ 0 \in 0 .. j + 1
      /\ j - 0 = j /\ (j + 1) - 0 = j + 1
  BY <1>1
<1>4. Len(buffer) = j /\ buffer \in Seq(Byte)
  BY <1>1, <1>3, PartFacts
<1>5. PICK b : b = Part(p, 0, j + 1)
  OBVIOUS
<1>6. b \in Seq(Byte) /\ Len(b) = j + 1 /\ \A i \in 1 .. j + 1 : b[i] = p[i]
  <2>1. /\ Part(p, 0, j + 1) \in Seq(Byte) /\ Len(Part(p, 0, j + 1)) = (j + 1) - 0
        /\ \A i \in 1 .. (j + 1) - 0 : Part(p, 0, j + 1)[i] = p[0 + i]
    BY <1>1, <1>3, PartFacts
  <2>2. \A i \in 1 .. j + 1 : 0 + i = i
    OBVIOUS
  <2> QED
    BY <1>3, <1>5, <2>1, <2>2
<1>7. Append(buffer, p[j + 1]) = b
  <2>1. Len(p) \in 0 .. Len(p) /\ j \in 0 .. Len(p) - 1 /\ 0 \in 0 .. j
    BY <1>1, <1>3
  <2>2. Append(Part(p, 0, j), p[j + 1]) = Part(p, 0, j + 1)
    BY <1>1, <2>1, PartHead
  <2> QED
    BY <1>5, <2>2, Zenon
<1>8. CASE j = 0
  <2>1. buffer' = Begun(p[1]) /\ found' = found
    BY <1>4, <1>8, TakesIs
  <2>2. b = <<PACKET_START_0>>
    <3>1. Len(b) = 1 /\ b[1] = PACKET_START_0
      BY <1>1, <1>6, <1>8
    <3>2. PICK u : u = <<PACKET_START_0>>
      OBVIOUS
    <3>3. u \in Seq(Byte) /\ Len(u) = 1 /\ u[1] = PACKET_START_0
      BY <3>2 DEF PACKET_START_0, Byte
    <3>4. Len(b) = Len(u) /\ \A i \in 1 .. Len(b) : b[i] = u[i]
      <4>1. \A i \in 1 .. 1 : i = 1
        OBVIOUS
      <4> QED
        BY <3>1, <3>3, <4>1
    <3>5. b = u
      BY <1>6, <3>3, <3>4, SeqEqual
    <3> QED
      BY <3>2, <3>5
  <2>3. Begun(p[1]) = <<PACKET_START_0>>
    BY <1>1 DEF Begun
  <2> QED
    BY <1>1, <1>5, <1>8, <2>1, <2>2, <2>3 DEF Took
<1>9. CASE j = 1
  <2>1. buffer' = Started(p[2]) /\ found' = found
    BY <1>4, <1>9, TakesIs
  <2>2. Started(p[2]) = b
    <3>1. j + 1 = 2
      BY <1>9
    <3>2. Append(buffer, p[2]) = b
      BY <1>7, <3>1, Zenon
    <3> QED
      BY <1>1, <3>2 DEF Started
  <2>3. j + 1 # Len(p)
    <3>1. Len(p) # 2
      <4>1. \A x \in Nat : x >= 14 => x # 2
        OBVIOUS
      <4>2. Len(p) \in Nat /\ Len(p) >= 14
        BY <1>1, Zenon
      <4> QED
        BY <4>1, <4>2, Zenon
    <3>2. j + 1 = 2
      BY <1>9
    <3> QED
      BY <3>1, <3>2, Zenon
  <2>4. buffer' = Part(p, 0, j + 1) /\ found' = found
    <3>1. buffer' = b
      BY <2>1, <2>2
    <3> QED
      BY <1>5, <2>1, <3>1
  <2> QED
    BY <2>3, <2>4, Zenon DEF Took
<1>10. CASE j # 0 /\ j # 1
  <2>1. Consume(b)
    BY <1>4, <1>7, <1>10, TakesIs
  <2>2. Len(b) > 4 => Announced(b) = Len(p) - 5
    <3> SUFFICES ASSUME Len(b) > 4 PROVE Announced(b) = Len(p) - 5
      OBVIOUS
    <3>1. Agrees(p, b, 0)
      <4>1. \A i \in 1 .. Len(p) : 0 + i <= Len(b) => b[0 + i] = p[i]
        BY <1>6
      <4> QED
        BY <4>1 DEF Agrees
    <3>2. 0 \in Nat /\ 0 + 4 <= Len(b) /\ 0 + 3 = 3
      BY <1>6
    <3>3. LengthAt(b, 0 + 3) = Len(p) - 5
      BY <1>6, <3>1, <3>2, LengthRead
    <3> QED
      BY <3>2, <3>3, Zenon DEF Announced
  <2>3. CASE j + 1 < Len(p)
    <3>1. ~ GivesUp(b) /\ ~ Ends(b)
      BY <1>1, <1>2, <1>6, <2>2, <2>3 DEF GivesUp, Ends
    <3>2. buffer' = b /\ found' = found
      BY <2>1, <3>1 DEF Consume
    <3>3. j + 1 # Len(p)
      BY <1>1, <2>3
    <3> QED
      BY <1>5, <3>2, <3>3 DEF Took
  <2>4. CASE j + 1 = Len(p)
    <3>1. b = p
      <4>1. Len(b) = Len(p) /\ \A i \in 1 .. Len(b) : b[i] = p[i]
        BY <1>6, <2>4
      <4> QED
        BY <1>1, <1>6, <4>1, SeqEqual
    <3>2. Ends(b) /\ (GivesUp(b) <=> Len(p) = MAX_PACKET_LEN)
      BY <1>1, <1>2, <1>6, <2>2, <2>4 DEF GivesUp, Ends
    <3>3. buffer' = << >> /\ found' = IF GivesUp(b) THEN found ELSE found \o Results(b)
      BY <2>1, <3>2 DEF Consume
    <3>4. Results(b) = <<Parsed(reader, p)>>
      BY <3>1, Zenon DEF Results
    <3>5. ~ j + 1 < Len(p)
      BY <1>1, <2>4
    <3> QED
      BY <3>2, <3>3, <3>4, <3>5 DEF Took
  <2> QED
    BY <1>1, <2>3, <2>4
<1> QED
  BY <1>8, <1>9, <1>10

\* What a board has read of a packet after a time-out: at most a first start byte.
Leftover(buf, p, j) ==
  buf = << >> \/ (buf = <<PACKET_START_0>> /\ j \in 3 .. Len(p) - 1 /\ p[j] = PACKET_START_0)

\* It stays so, if the start bytes are not in its body.
LEMMA ByteSkipped ==
  ASSUME NEW p, Whole(p), \A i \in 2 .. Len(p) : ~ Pair(p, i), NEW j \in 1 .. Len(p) - 1,
         Leftover(buffer, p, j), Takes(p[j + 1]), NEW q, q = j + 1
  PROVE  Leftover(buffer', p, q) /\ found' = found
<1>1. /\ p \in Seq(Byte) /\ Len(p) >= 14 /\ Len(p) \in Nat
      /\ p[2] = PACKET_START_1 /\ p[Len(p)] = PACKET_STOP
  BY LenProperties DEF Whole
<1>2. q \in 2 .. Len(p) /\ p[q] = p[j + 1]
  BY <1>1
<1>3. CASE buffer = << >>
  <2>1. Len(buffer) = 0
    BY <1>3, EmptySeq
  <2>2. buffer' = Begun(p[q]) /\ found' = found
    BY <1>2, <2>1, TakesIs
  <2>3. CASE p[q] = PACKET_START_0
    <3>1. q # 2 /\ q # Len(p)
      BY <1>1, <2>3 DEF PACKET_START_0, PACKET_START_1, PACKET_STOP
    <3>2. q \in 3 .. Len(p) - 1
      BY <1>1, <1>2, <3>1
    <3> QED
      BY <2>2, <2>3, <3>2 DEF Begun, Leftover
  <2>4. CASE p[q] # PACKET_START_0
    BY <2>2, <2>4 DEF Begun, Leftover
  <2> QED
    BY <2>3, <2>4
<1>4. CASE buffer = <<PACKET_START_0>> /\ j \in 3 .. Len(p) - 1 /\ p[j] = PACKET_START_0
  <2>1. Len(buffer) = 1
    BY <1>4
  <2>2. buffer' = Started(p[q]) /\ found' = found
    BY <1>2, <2>1, TakesIs
  <2>3. j \in 2 .. Len(p) /\ j < Len(p)
    BY <1>1, <1>4
  <2>4. p[q] # PACKET_START_1
    BY <1>2, <1>4, <2>3 DEF Pair
  <2> QED
    BY <2>2, <2>4 DEF Started, Leftover
<1> QED
  BY <1>3, <1>4 DEF Leftover

-----------------------------------------------------------------------------
(* The board. *)

\* A packet of which a part is taken for a whole one, if the board gives up there.
Severable(num) ==
  /\ reader = "board"
  /\ \E n \in 2 .. Length(num) - 1 :
       Parses(reader, SubSeq(PacketOf(sent[num + 1], num), 1, n))

\* No packet that is hit is taken for others or, cut off, for a whole one.
Intact == Innocent /\ \A num \in spoiled : ~ Severable(num)

\* The board is through with the packets up to c: it has found each but the spoiled ones and
\* those that are too long, and keeps what it has read of the next one.
BoardHas(ends, r, c) ==
  /\ ends[c] <= r
  /\ c < Num => r < ends[c + 1]
  /\ c = Num => buffer = << >>
  /\ c < Num /\ c \notin spoiled => buffer = Part(Packet(c), 0, r - ends[c])
  /\ c \in spoiled => r > ends[c] /\ Leftover(buffer, Packet(c), r - ends[c])
  /\ spoiled \subseteq 0 .. c
  /\ found \in Seq(Outcome) /\ (Intact => Right(found, 0, c))
  /\ \A k \in 0 .. c - 1 : k \in spoiled \/ TooLong(k) \/ Has(found, k)

BoardHolds(ends, r) == Innocent => \E c \in 0 .. Num : BoardHas(ends, r, c)

Short == \A k \in 0 .. Num - 1 : Length(k) <= MAX_PACKET_LEN

BoardInv ==
  /\ Short
  /\ \E all, ends, gaps, r :
       /\ Layout(all, ends, gaps) /\ Unread(all, r)
       /\ buffer # << >> => r > 0
       /\ BoardHolds(ends, r)

\* What can be severed could be.
LEMMA SeverableKept ==
  ASSUME NEW n \in Nat, Earlier(n), reader' = reader, NEW k \in 0 .. n - 1
  PROVE  (Severable(k)' <=> Severable(k)) /\ (TooLong(k)' <=> TooLong(k))
<1>1. Kept(k)
  BY EarlierKept
<1>2. PacketOf(sent[k + 1], k)' = PacketOf(sent[k + 1], k) /\ Length(k)' = Length(k)
  BY <1>1, Zenon DEF Kept, PacketOf
<1>3. Severable(k)' <=> Severable(k)
  BY <1>2, Zenon DEF Severable
<1>4. TooLong(k)' <=> TooLong(k)
  BY <1>2, Zenon DEF TooLong
<1> QED
  BY <1>3, <1>4

\* What is intact has been so.
LEMMA IntactBefore ==
  ASSUME NEW n \in Nat, spoiled \subseteq 0 .. n - 1, spoiled \subseteq spoiled', Earlier(n),
         reader' = reader, Intact'
  PROVE  Intact
<1>1. Innocent
  BY InnocentBefore DEF Intact
<1>2. ASSUME NEW k \in spoiled PROVE ~ Severable(k)
  <2>1. k \in spoiled' /\ k \in 0 .. n - 1
    BY <1>2
  <2>2. ~ Severable(k)'
    BY <2>1, Zenon DEF Intact
  <2>3. Severable(k)' <=> Severable(k)
    BY <2>1, SeverableKept
  <2> QED
    BY <2>2, <2>3
<1> QED
  BY <1>1, <1>2 DEF Intact

\* What is written waits.
LEMMA BoardGrows ==
  ASSUME SentType, reader = "board", spoiled \subseteq 0 .. Num - 1, NEW n \in Nat, n = Num,
         NEW all, NEW ends, NEW gaps, Layout(all, ends, gaps), NEW r, Unread(all, r),
         buffer # << >> => r > 0, BoardHolds(ends, r), Short, Grown(n, all, ends)
  PROVE  BoardInv'
<1>1. /\ reader' = reader /\ buffer' = buffer /\ found' = found
      /\ Num' = n + 1 /\ spoiled' = spoiled /\ Length(n)' <= MAX_PACKET_LEN
      /\ Earlier(n)
  BY Zenon DEF Grown
<1>2. PICK extra, e, g :
        /\ extra \in Seq(Byte)
        /\ Layout(all \o extra, e, g)' /\ wire' = wire \o extra
        /\ \A k \in 0 .. n : e[k] = ends[k]
        /\ Num' = n + 1 => e[n + 1] > Len(all)
  BY Zenon DEF Grown
<1>3. all \in Seq(Byte) /\ ends \in [0 .. n -> Nat] /\ Len(all) = ends[n]
  BY RowsFacts, Zenon DEF Rows
<1>4. r \in 0 .. Len(all) /\ Len(all) \in Nat /\ r \in Nat
  BY <1>3, LenProperties DEF Unread
<1>5. e[n + 1] \in Nat /\ e[n + 1] > Len(all) /\ r < e[n + 1]
  <2>1. e \in [0 .. Num' -> Nat]
    BY <1>2, Zenon DEF Layout
  <2>2. n + 1 \in 0 .. n + 1
    OBVIOUS
  <2>3. e[n + 1] \in Nat
    BY <1>1, <2>1, <2>2
  <2> QED
    BY <1>1, <1>2, <1>4, <2>3
<1>6. Short'
  <2>1. \A k \in 0 .. n - 1 : Length(k)' <= MAX_PACKET_LEN
    <3> TAKE k \in 0 .. n - 1
    <3>1. Length(k)' = Length(k)
      BY <1>1, EarlierKept DEF Kept
    <3>2. Length(k) <= MAX_PACKET_LEN
      BY DEF Short
    <3> QED
      BY <3>1, <3>2
  <2>2. \A k \in 0 .. (n + 1) - 1 : k = n \/ k \in 0 .. n - 1
    OBVIOUS
  <2>3. \A k \in 0 .. (n + 1) - 1 : Length(k)' <= MAX_PACKET_LEN
    BY <1>1, <2>1, <2>2, Zenon
  <2> QED
    BY <1>1, <2>3, Zenon DEF Short
<1> DEFINE long == all \o extra
<1>7. Unread(long, r)'
  BY <1>2, <1>3, UnreadGrows
<1>8. ASSUME Innocent' PROVE \E c \in 0 .. Num' : BoardHas(e, r, c)'
  <2>0. spoiled \subseteq 0 .. n - 1 /\ spoiled \subseteq spoiled'
    BY <1>1
  <2>1. Innocent
    BY <1>1, <1>8, <2>0, InnocentBefore
  <2>2. PICK c \in 0 .. n : BoardHas(ends, r, c)
    BY <2>1 DEF BoardHolds
  <2>3. /\ ends[c] <= r
        /\ c < n => r < ends[c + 1]
        /\ c = n => buffer = << >>
        /\ c < n /\ c \notin spoiled => buffer = Part(Packet(c), 0, r - ends[c])
        /\ c \in spoiled => r > ends[c] /\ Leftover(buffer, Packet(c), r - ends[c])
        /\ spoiled \subseteq 0 .. c
        /\ found \in Seq(Outcome) /\ (Intact => Right(found, 0, c))
        /\ \A k \in 0 .. c - 1 : k \in spoiled \/ TooLong(k) \/ Has(found, k)
    BY <2>2, Zenon DEF BoardHas
  <2>4. e[c] = ends[c] /\ ends[c] \in Nat
    BY <1>2, <1>3
  <2>5. c < Num' /\ c # Num' /\ r < e[c + 1]
    <3>1. c < n + 1 /\ c # n + 1
      OBVIOUS
    <3>2. c = n \/ (c < n /\ c + 1 \in 0 .. n)
      OBVIOUS
    <3>3. r < e[c + 1]
      BY <1>2, <1>5, <2>3, <3>2
    <3> QED
      BY <1>1, <3>1, <3>3, Zenon
  <2>6. c \notin spoiled' => buffer' = Part(Packet(c)', 0, r - e[c])
    <3> SUFFICES ASSUME c \notin spoiled PROVE buffer = Part(Packet(c)', 0, r - ends[c])
      BY <1>1, <2>4
    <3>1. CASE c < n
      <4>1. c \in 0 .. n - 1
        BY <3>1
      <4>2. Packet(c)' = Packet(c)
        BY <1>1, <4>1, EarlierKept DEF Kept
      <4> QED
        BY <2>3, <3>1, <4>2
    <3>2. CASE c = n
      <4>1. r - ends[c] = 0 /\ buffer = << >>
        BY <1>3, <1>4, <2>3, <2>4, <3>2
      <4>2. \A x : Part(x, 0, 0) = << >>
        <5>1. 0 + 1 = 1 /\ 1 > 0
          OBVIOUS
        <5> QED
          BY <5>1, SubSeqEmpty DEF Part
      <4> QED
        BY <4>1, <4>2, Zenon
    <3> QED
      BY <3>1, <3>2
  <2>7. c \in spoiled' => r > e[c] /\ Leftover(buffer', Packet(c)', r - e[c])
    <3> SUFFICES ASSUME c \in spoiled PROVE r > ends[c] /\ Leftover(buffer, Packet(c)', r - ends[c])
      BY <1>1, <2>4
    <3>1. c \in 0 .. n - 1
      BY <2>0
    <3>2. Packet(c)' = Packet(c)
      BY <1>1, <3>1, EarlierKept DEF Kept
    <3> QED
      BY <2>3, <3>2
  <2>8. PICK s : s = found
    OBVIOUS
  <2>9. found' = s /\ s \in Seq(Outcome)
    BY <1>1, <2>3, <2>8
  <2>10. Intact' => Right(found, 0, c)'
    <3> SUFFICES ASSUME Intact' PROVE Right(found, 0, c)'
      OBVIOUS
    <3>1. Intact
      BY <1>1, <2>0, IntactBefore
    <3>2. Right(s, 0, c)
      BY <2>3, <2>8, <3>1
    <3>3. Right(s, 0, c)'
      BY <1>1, <3>2, RightKept
    <3> QED
      BY <2>9, <3>3, Zenon DEF Right
  <2>11. \A k \in 0 .. c - 1 : k \in spoiled' \/ TooLong(k)' \/ Has(found, k)'
    <3> TAKE k \in 0 .. c - 1
    <3>1. k \in 0 .. n - 1
      OBVIOUS
    <3>2. TooLong(k)' <=> TooLong(k)
      BY <1>1, <3>1, SeverableKept
    <3>3. Has(found, k)' <=> Has(found, k)
      BY <1>1, Zenon DEF Has
    <3> QED
      BY <1>1, <2>3, <3>2, <3>3
  <2>12. c \in 0 .. Num'
    <3>1. c \in 0 .. n + 1
      OBVIOUS
    <3> QED
      BY <1>1, <3>1, Zenon
  <2>13. e[c] <= r /\ spoiled' \subseteq 0 .. c
    BY <1>1, <2>3, <2>4
  <2>14. BoardHas(e, r, c)'
    BY <2>5, <2>6, <2>7, <2>9, <2>10, <2>11, <2>13, Zenon DEF BoardHas
  <2> QED
    BY <2>12, <2>14
<1> HIDE DEF long
<1>9. BoardHolds(e, r)'
  BY <1>8, Zenon DEF BoardHolds
<1>10. Layout(long, e, g)'
  BY <1>2, Zenon DEF long
<1>11. buffer' # << >> => r > 0
  BY <1>1
<1> QED
  BY <1>6, <1>7, <1>9, <1>10, <1>11, Zenon DEF BoardInv

\* Reading changes nothing about the packets.
Same ==
  /\ Num' = Num
  /\ \A k : /\ Packet(k)' = Packet(k) /\ Length(k)' = Length(k)
            /\ TooLong(k)' <=> TooLong(k)
            /\ Severable(k)' <=> Severable(k)
            /\ Deceptive(k)' <=> Deceptive(k)
  /\ \A s, lo, hi : Right(s, lo, hi)' <=> Right(s, lo, hi)

\* They depend on the messages.
LEMMA SentKept ==
  ASSUME sent' = sent, reader' = reader
  PROVE  Same
<1>1. Num' = Num
  BY DEF Num
<1>2. \A k : Packet(k)' = Packet(k)
  BY Zenon DEF Packet
<1>3. \A k : Length(k)' = Length(k)
  BY Zenon DEF Length
<1>4. \A k : TooLong(k)' <=> TooLong(k)
  BY <1>3, Zenon DEF TooLong
<1>5. \A k : Severable(k)' <=> Severable(k)
  BY <1>3, Zenon DEF Severable
<1>6. \A k : Deceptive(k)' <=> Deceptive(k)
  BY Zenon DEF Deceptive
<1>7. \A s, lo, hi : Right(s, lo, hi)' <=> Right(s, lo, hi)
  BY Zenon DEF Right
<1> QED
  BY <1>1, <1>2, <1>3, <1>4, <1>5, <1>6, <1>7, Zenon DEF Same

\* The packet that the next byte belongs to.
Coming(all, ends, r, c, p, j) ==
  /\ c \in 0 .. Num - 1 /\ Num \in Nat /\ r \in Nat /\ r + 1 \in 0 .. Len(all)
  /\ Whole(p) /\ Parses(reader, p) /\ Parsed(reader, p) = ResultOf(sent[c + 1], c)
  /\ Len(p) = Length(c) /\ Len(p) >= 14 /\ Len(p) \in Nat /\ p \in Seq(Byte)
  /\ j \in 0 .. Len(p) - 1 /\ ends[c] + j = r /\ ends[c + 1] = ends[c] + Len(p)
  /\ ends[c] \in Nat /\ all[r + 1] = p[j + 1]

\* It is the one behind those that are through.
LEMMA NextByte ==
  ASSUME SentType, reader = "board", NEW all, NEW ends, Rows(all, ends), NEW r, Unread(all, r),
         r < Len(all), NEW c \in 0 .. Num, ends[c] <= r, c < Num => r < ends[c + 1],
         NEW p, p = Packet(c), NEW j, j = r - ends[c]
  PROVE  Coming(all, ends, r, c, p, j)
<1>1. /\ all \in Seq(Byte) /\ ends \in [0 .. Num -> Nat] /\ Len(all) = ends[Num]
      /\ \A k \in 0 .. Num - 1 : /\ ends[k + 1] = ends[k] + Length(k)
                                 /\ Stands(Packet(k), all, ends[k])
  BY Zenon DEF Rows
<1>2. Num \in Nat /\ r \in Nat /\ Len(all) \in Nat /\ r + 1 \in 0 .. Len(all)
  <2>1. Num \in Nat /\ Len(all) \in Nat
    BY <1>1, SentFacts, LenProperties
  <2> QED
    BY <2>1 DEF Unread
<1>3. c \in 0 .. Num - 1
  <2>1. c # Num
    BY <1>1, <1>2
  <2> QED
    BY <1>2, <2>1
<1>4. /\ Fine(reader, sent[c + 1], c)
      /\ Len(Packet(c)) = Length(c) /\ Length(c) \in Nat /\ Length(c) >= 14
  BY <1>3, SentFacts
<1>5. Whole(p) /\ Parses(reader, p) /\ Parsed(reader, p) = ResultOf(sent[c + 1], c)
  BY <1>4, Zenon DEF Fine, Packet
<1>6. p \in Seq(Byte)
  BY <1>5, Zenon DEF Whole
<1>7. Len(p) = Length(c) /\ Len(p) >= 14 /\ Len(p) \in Nat
  BY <1>4
<1>8. ends[c + 1] = ends[c] + Len(p) /\ Stands(p, all, ends[c]) /\ ends[c] \in Nat
  BY <1>1, <1>3, <1>7
<1>9. r < ends[c + 1]
  BY <1>2, <1>3
<1>10. /\ j \in 0 .. Len(p) - 1 /\ j + 1 \in 1 .. Len(p)
       /\ ends[c] + j = r /\ ends[c] + (j + 1) = r + 1
  <2>1. \A e, x, l \in Nat :
          e <= x /\ x < e + l =>
            /\ x - e \in 0 .. l - 1 /\ (x - e) + 1 \in 1 .. l
            /\ e + (x - e) = x /\ e + ((x - e) + 1) = x + 1
    OBVIOUS
  <2>2. r < ends[c] + Len(p)
    BY <1>8, <1>9, Zenon
  <2> QED
    BY <1>2, <1>7, <1>8, <2>1, <2>2, Zenon
<1>11. all[r + 1] = p[j + 1]
  BY <1>8, <1>10 DEF Stands
<1> QED
  BY <1>2, <1>3, <1>5, <1>6, <1>7, <1>8, <1>10, <1>11, Zenon DEF Coming

\* Having read the last byte of a packet the board is through with it.
LEMMA BoardPasses ==
  ASSUME sent' = sent, reader' = reader, spoiled' = spoiled, NEW all, NEW ends, Rows(all, ends),
         NEW c \in 0 .. Num - 1, Num \in Nat, NEW d, d = c + 1, NEW q, q = ends[d],
         spoiled \subseteq 0 .. c, buffer' = << >>, found' \in Seq(Outcome),
         NEW s, s = found', Intact => Right(s, 0, d),
         \A k \in 0 .. c : k \in spoiled \/ TooLong(k) \/ Has(s, k)
  PROVE  BoardHas(ends, q, d)'
<1>1. Same
  BY SentKept
<1>2. d \in 0 .. Num /\ d \in Nat /\ d - 1 = c /\ c < d
  OBVIOUS
<1>3. ends \in [0 .. Num -> Nat] /\ \A k, l \in 0 .. Num : k < l => ends[k] < ends[l]
  BY Zenon DEF Rows
<1>4. ends[d] <= q /\ q \in Nat
  BY <1>2, <1>3
<1>5. d < Num => q < ends[d + 1]
  <2>1. d < Num => d + 1 \in 0 .. Num /\ d < d + 1
    BY <1>2
  <2> QED
    BY <1>2, <1>3, <2>1
<1>6. Part(Packet(d), 0, q - ends[d]) = << >>
  <2>1. q - ends[d] = 0
    BY <1>4
  <2>2. \A x : Part(x, 0, 0) = << >>
    <3>1. 0 + 1 = 1 /\ 1 > 0
      OBVIOUS
    <3> QED
      BY <3>1, SubSeqEmpty DEF Part
  <2> QED
    BY <2>1, <2>2, Zenon
<1>7. d \notin spoiled
  BY <1>2
<1>8. spoiled \subseteq 0 .. d
  BY <1>2
<1>9. Innocent' <=> Innocent
  BY <1>1, Zenon DEF Same, Innocent
<1>10. Intact' <=> Intact
  BY <1>1, <1>9, Zenon DEF Same, Intact
<1>11. Intact' => Right(found, 0, d)'
  <2>1. Right(s, 0, d)' <=> Right(s, 0, d)
    BY <1>1, Zenon DEF Same
  <2>2. Right(found, 0, d)' <=> Right(s, 0, d)'
    BY Zenon DEF Right
  <2> QED
    BY <1>10, <2>1, <2>2, Zenon
<1>12. \A k \in 0 .. d - 1 : k \in spoiled' \/ TooLong(k)' \/ Has(found, k)'
  <2>1. \A k : Has(found, k)' <=> Has(s, k)
    BY Zenon DEF Has
  <2>2. \A k : TooLong(k)' <=> TooLong(k)
    BY <1>1, Zenon DEF Same
  <2> QED
    BY <1>2, <2>1, <2>2, Zenon
<1>13. Num' = Num /\ Packet(d)' = Packet(d)
  BY <1>1, Zenon DEF Same
<1>14. d \notin spoiled' /\ spoiled' \subseteq 0 .. d
  BY <1>7, <1>8
<1>15. buffer' = Part(Packet(d)', 0, q - ends[d])
  BY <1>6, <1>13, Zenon
<1>16. d < Num' => q < ends[d + 1]
  BY <1>5, <1>13, Zenon
<1> QED
  BY <1>4, <1>11, <1>12, <1>14, <1>15, <1>16, Zenon DEF BoardHas

\* A byte of a packet that has not been interrupted.
LEMMA BoardFollows ==
  ASSUME sent' = sent, reader' = reader, spoiled' = spoiled, NEW all, NEW ends, Rows(all, ends),
         NEW r, NEW c, NEW p, NEW j, Coming(all, ends, r, c, p, j), p = Packet(c),
         BoardHas(ends, r, c), c \notin spoiled, Len(p) <= MAX_PACKET_LEN, reader = "board",
         Takes(p[j + 1]), NEW q, q = r + 1
  PROVE  \E d \in 0 .. Num : BoardHas(ends, q, d)'
<1>1. /\ c \in 0 .. Num - 1 /\ Num \in Nat /\ r \in Nat
      /\ Whole(p) /\ Parses(reader, p) /\ Parsed(reader, p) = ResultOf(sent[c + 1], c)
      /\ Len(p) = Length(c) /\ Len(p) >= 14 /\ Len(p) \in Nat /\ p \in Seq(Byte)
      /\ j \in 0 .. Len(p) - 1 /\ ends[c] + j = r /\ ends[c + 1] = ends[c] + Len(p)
      /\ ends[c] \in Nat
  BY Zenon DEF Coming
<1>2. /\ buffer = Part(p, 0, r - ends[c])
      /\ spoiled \subseteq 0 .. c
      /\ found \in Seq(Outcome) /\ (Intact => Right(found, 0, c))
      /\ \A k \in 0 .. c - 1 : k \in spoiled \/ TooLong(k) \/ Has(found, k)
  <2>1. c < Num
    BY <1>1
  <2> QED
    BY <2>1, Zenon DEF BoardHas
<1>3. r - ends[c] = j /\ q = ends[c] + (j + 1)
  BY <1>1, SMTT(30)
<1>4. buffer = Part(p, 0, j)
  BY <1>2, <1>3, Zenon
<1>5. Took(p, j)
  <2>1. j \in 0 .. Len(p) - 1 /\ Whole(p) /\ Parses(reader, p)
    BY <1>1
  <2> QED
    BY <1>4, <2>1, ByteRead, Zenon
<1>6. Same
  BY SentKept
<1>7. PICK d : d = c + 1
  OBVIOUS
<1>8. d \in 0 .. Num /\ c \in 0 .. Num /\ c <= d /\ d \in Int /\ c \in Int /\ 0 \in Int /\ 0 <= c
  BY <1>1, <1>7
<1>9. CASE j + 1 < Len(p)
  <2>1. buffer' = Part(p, 0, j + 1) /\ found' = found
    BY <1>5, <1>9, Zenon DEF Took
  <2>2. q - ends[c] = j + 1 /\ ends[c] <= q /\ q < ends[c + 1]
    BY <1>1, <1>3, <1>9
  <2>3. Num' = Num /\ Packet(c)' = p /\ c # Num
    BY <1>1, <1>6 DEF Same
  <2>4. buffer' = Part(Packet(c)', 0, q - ends[c])
    BY <2>1, <2>2, <2>3, Zenon
  <2>5. PICK s : s = found
    OBVIOUS
  <2>6. found' = s /\ s \in Seq(Outcome)
    BY <1>2, <2>1, <2>5
  <2>7. Intact' <=> Intact
    BY <1>6, Zenon DEF Same, Intact, Innocent
  <2>8. Intact' => Right(found, 0, c)'
    <3>1. Right(s, 0, c)' <=> Right(s, 0, c)
      BY <1>6, Zenon DEF Same
    <3>2. Right(found, 0, c)' <=> Right(s, 0, c)'
      BY <2>6, Zenon DEF Right
    <3> QED
      BY <1>2, <2>5, <2>7, <3>1, <3>2, Zenon
  <2>9. \A k \in 0 .. c - 1 : k \in spoiled' \/ TooLong(k)' \/ Has(found, k)'
    <3>1. \A k : Has(found, k)' <=> Has(found, k)
      BY <2>1, Zenon DEF Has
    <3>2. \A k : TooLong(k)' <=> TooLong(k)
      BY <1>6, Zenon DEF Same
    <3> QED
      BY <1>2, <3>1, <3>2, Zenon
  <2>10. BoardHas(ends, q, c)'
    BY <1>2, <2>2, <2>3, <2>4, <2>6, <2>8, <2>9, Zenon DEF BoardHas
  <2> QED
    BY <1>8, <2>10
<1>10. CASE j + 1 = Len(p)
  <2>1. /\ buffer' = << >>
        /\ Len(p) = MAX_PACKET_LEN => found' = found
        /\ Len(p) # MAX_PACKET_LEN => found' = found \o <<Parsed(reader, p)>>
    BY <1>5, <1>10, Zenon DEF Took
  <2>2. q = ends[d]
    BY <1>1, <1>3, <1>7, <1>10
  <2>3. \A k \in 0 .. c : k = c \/ k \in 0 .. c - 1
    BY <1>1
  <2>4. PICK s : s = found'
    OBVIOUS
  <2>5. /\ s \in Seq(Outcome) /\ (Intact => Right(s, 0, d))
        /\ \A k \in 0 .. c : k \in spoiled \/ TooLong(k) \/ Has(s, k)
    <3>1. CASE Len(p) = MAX_PACKET_LEN
      <4>1. s = found
        BY <2>1, <2>4, <3>1
      <4>2. TooLong(c)
        BY <1>1, <3>1 DEF TooLong
      <4>3. Intact => Right(found, 0, d)
        <5> SUFFICES ASSUME Intact PROVE Right(found, 0, d)
          OBVIOUS
        <5>1. Right(found, 0, c) /\ 0 <= 0
          BY <1>2
        <5> QED
          BY <1>8, <5>1, RightWider
      <4> QED
        BY <1>2, <2>3, <4>1, <4>2, <4>3
    <3>2. CASE Len(p) # MAX_PACKET_LEN
      <4>1. PICK one : one = <<Parsed(reader, p)>>
        OBVIOUS
      <4>2. one \in Seq(Outcome) /\ Right(one, c, c + 1) /\ Has(one, c)
        <5>1. c \in Nat /\ reader \in Readers
          BY <1>1 DEF Readers
        <5> QED
          BY <1>1, <4>1, <5>1, OneFound
      <4>3. Right(one, c, d)
        BY <1>7, <4>2
      <4>4. Joined(found, one, 0, c, d)
        BY <1>2, <1>8, <4>2, RightJoin, Zenon
      <4>5. s = found \o one
        BY <2>1, <2>4, <3>2, <4>1
      <4>6. /\ s \in Seq(Outcome) /\ (Right(found, 0, c) => Right(s, 0, d))
            /\ \A k : Has(found, k) \/ Has(one, k) => Has(s, k)
        BY <4>3, <4>4, <4>5, Zenon DEF Joined
      <4> QED
        BY <1>2, <2>3, <4>2, <4>6, Zenon
    <3> QED
      BY <3>1, <3>2
  <2>6. BoardHas(ends, q, d)'
    <3>1. found' \in Seq(Outcome)
      BY <2>4, <2>5
    <3> QED
      BY <1>1, <1>2, <1>7, <2>1, <2>2, <2>4, <2>5, <3>1, BoardPasses
  <2> QED
    BY <1>8, <2>6
<1>11. j + 1 < Len(p) \/ j + 1 = Len(p)
  BY <1>1
<1> QED
  BY <1>9, <1>10, <1>11

\* A byte of a packet in which the board has given up.
LEMMA BoardSkips ==
  ASSUME sent' = sent, reader' = reader, spoiled' = spoiled, NEW all, NEW ends, Rows(all, ends),
         NEW r, NEW c, NEW p, NEW j, Coming(all, ends, r, c, p, j), p = Packet(c),
         BoardHas(ends, r, c), c \in spoiled, Innocent, reader = "board",
         Takes(p[j + 1]), NEW q, q = r + 1
  PROVE  \E d \in 0 .. Num : BoardHas(ends, q, d)'
<1>1. /\ c \in 0 .. Num - 1 /\ Num \in Nat /\ r \in Nat
      /\ Whole(p) /\ Len(p) >= 14 /\ Len(p) \in Nat /\ p \in Seq(Byte)
      /\ j \in 0 .. Len(p) - 1 /\ ends[c] + j = r /\ ends[c + 1] = ends[c] + Len(p)
      /\ ends[c] \in Nat
  BY Zenon DEF Coming
<1>2. /\ r > ends[c] /\ Leftover(buffer, p, r - ends[c])
      /\ spoiled \subseteq 0 .. c
      /\ found \in Seq(Outcome) /\ (Intact => Right(found, 0, c))
      /\ \A k \in 0 .. c - 1 : k \in spoiled \/ TooLong(k) \/ Has(found, k)
  BY Zenon DEF BoardHas
<1>3. r - ends[c] = j /\ q = ends[c] + (j + 1) /\ j \in 1 .. Len(p) - 1
  BY <1>1, <1>2, SMTT(30)
<1>4. PICK i : i = j + 1
  OBVIOUS
<1>5. \A k \in 2 .. Len(p) : ~ Pair(p, k)
  <2>1. ~ Deceptive(c)
    BY DEF Innocent
  <2>2. ~ \E k \in 3 .. Len(p) - 1 : SubSeq(p, k, k + 1) = <<PACKET_START_0, PACKET_START_1>>
    BY <2>1, Zenon DEF Deceptive, Packet
  <2> QED
    BY <1>1, <2>2, BodyPairs
<1>6. Leftover(buffer', p, i) /\ found' = found
  <2>1. Leftover(buffer, p, j)
    BY <1>2, <1>3, Zenon
  <2> QED
    BY <1>1, <1>3, <1>4, <1>5, <2>1, ByteSkipped
<1>7. Same
  BY SentKept
<1>8. PICK d : d = c + 1
  OBVIOUS
<1>9. d \in 0 .. Num /\ c \in 0 .. Num /\ c <= d /\ d \in Int /\ c \in Int /\ 0 \in Int
  BY <1>1, <1>8
<1>10. PICK s : s = found
  OBVIOUS
<1>11. found' = s /\ s \in Seq(Outcome)
  BY <1>2, <1>6, <1>10
<1>12. CASE j + 1 < Len(p)
  <2>1. q - ends[c] = i /\ ends[c] <= q /\ q < ends[c + 1] /\ q > ends[c]
    BY <1>1, <1>3, <1>4, <1>12
  <2>2. Num' = Num /\ Packet(c)' = p /\ c # Num
    BY <1>1, <1>7 DEF Same
  <2>3. Leftover(buffer', Packet(c)', q - ends[c])
    BY <1>6, <2>1, <2>2, Zenon
  <2>4. Intact' <=> Intact
    BY <1>7, Zenon DEF Same, Intact, Innocent
  <2>5. Intact' => Right(found, 0, c)'
    <3>1. Right(s, 0, c)' <=> Right(s, 0, c)
      BY <1>7, Zenon DEF Same
    <3>2. Right(found, 0, c)' <=> Right(s, 0, c)'
      BY <1>11, Zenon DEF Right
    <3> QED
      BY <1>2, <1>10, <2>4, <3>1, <3>2, Zenon
  <2>6. \A k \in 0 .. c - 1 : k \in spoiled' \/ TooLong(k)' \/ Has(found, k)'
    <3>1. \A k : Has(found, k)' <=> Has(found, k)
      BY <1>6, Zenon DEF Has
    <3>2. \A k : TooLong(k)' <=> TooLong(k)
      BY <1>7, Zenon DEF Same
    <3> QED
      BY <1>2, <3>1, <3>2, Zenon
  <2>7. BoardHas(ends, q, c)'
    BY <1>2, <1>11, <2>1, <2>2, <2>3, <2>5, <2>6, Zenon DEF BoardHas
  <2> QED
    BY <1>9, <2>7
<1>13. CASE j + 1 = Len(p)
  <2>1. buffer' = << >>
    <3>1. ~ i \in 3 .. Len(p) - 1
      BY <1>1, <1>4, <1>13
    <3> QED
      BY <1>6, <3>1, Zenon DEF Leftover
  <2>2. q = ends[d]
    BY <1>1, <1>3, <1>8, <1>13
  <2>3. \A k \in 0 .. c : k = c \/ k \in 0 .. c - 1
    BY <1>1
  <2>4. \A k \in 0 .. c : k \in spoiled \/ TooLong(k) \/ Has(s, k)
    BY <1>2, <1>10, <2>3
  <2>5. Intact => Right(s, 0, d)
    <3> SUFFICES ASSUME Intact PROVE Right(s, 0, d)
      OBVIOUS
    <3>1. Right(s, 0, c) /\ 0 <= 0
      BY <1>2, <1>10
    <3> QED
      BY <1>9, <3>1, RightWider
  <2>6. BoardHas(ends, q, d)'
    <3>1. found' \in Seq(Outcome) /\ s = found'
      BY <1>11
    <3> QED
      BY <1>1, <1>2, <1>8, <2>1, <2>2, <2>4, <2>5, <3>1, BoardPasses
  <2> QED
    BY <1>9, <2>6
<1>14. j + 1 < Len(p) \/ j + 1 = Len(p)
  BY <1>1
<1> QED
  BY <1>12, <1>13, <1>14

\* What is read is kept, or dropped, or found.
LEMMA BoardAdvances ==
  ASSUME SentType, reader = "board", BoardReads, NEW all, NEW ends, NEW gaps,
         Layout(all, ends, gaps), NEW r, Unread(all, r), BoardHolds(ends, r), Short
  PROVE  BoardInv'
<1>1. wire # << >> /\ wire' = Tail(wire) /\ Takes(Head(wire))
  BY Zenon DEF BoardReads, Takes
<1>2. reader' = reader /\ sent' = sent /\ text' = text /\ spoiled' = spoiled
  BY DEF BoardReads
<1>3. Layout(all, ends, gaps)' /\ Same
  BY <1>2, LayoutKept, SentKept
<1>4. Rows(all, ends)
  BY RowsFacts
<1>5. all \in Seq(Byte)
  BY <1>4, Zenon DEF Rows
<1>6. r \in 0 .. Len(all) /\ wire = Part(all, r, Len(all)) /\ Len(all) \in Nat
      /\ Len(all) \in 0 .. Len(all)
  <2>1. Len(all) \in Nat
    BY <1>5, LenProperties
  <2> QED
    BY <2>1 DEF Unread
<1>7. r < Len(all)
  <2> SUFFICES ASSUME r = Len(all) PROVE FALSE
    BY <1>6
  <2>1. r + 1 > Len(all)
    BY <1>6
  <2>2. Part(all, r, Len(all)) = << >>
    BY <1>6, <2>1, SubSeqEmpty DEF Part
  <2> QED
    BY <1>1, <1>6, <2>2
<1>8. PICK q : q = r + 1
  OBVIOUS
<1>9. Head(wire) = all[r + 1] /\ wire' = Part(all, q, Len(all))
  <2>1. r \in 0 .. Len(all) - 1
    BY <1>6, <1>7
  <2>2. /\ Head(Part(all, r, Len(all))) = all[r + 1]
        /\ Tail(Part(all, r, Len(all))) = Part(all, r + 1, Len(all))
    BY <1>5, <1>6, <2>1, PartHead
  <2> QED
    BY <1>1, <1>6, <1>8, <2>2, Zenon
<1>10. q \in 0 .. Len(all) /\ q > 0
  BY <1>6, <1>7, <1>8
<1>11. Unread(all, q)'
  BY <1>9, <1>10, Zenon DEF Unread
<1>12. ASSUME Innocent PROVE \E d \in 0 .. Num : BoardHas(ends, q, d)'
  <2>1. PICK c \in 0 .. Num : BoardHas(ends, r, c)
    BY <1>12 DEF BoardHolds
  <2>2. ends[c] <= r /\ (c < Num => r < ends[c + 1])
    BY <2>1, Zenon DEF BoardHas
  <2>3. PICK p : p = Packet(c)
    OBVIOUS
  <2>4. PICK j : j = r - ends[c]
    OBVIOUS
  <2>5. Coming(all, ends, r, c, p, j)
    BY <1>4, <1>7, <2>2, <2>3, <2>4, NextByte
  <2>6. c \in 0 .. Num - 1 /\ Len(p) = Length(c) /\ all[r + 1] = p[j + 1]
    BY <2>5, Zenon DEF Coming
  <2>7. Len(p) <= MAX_PACKET_LEN
    BY <2>6 DEF Short
  <2>8. Takes(p[j + 1])
    BY <1>1, <1>9, <2>6, Zenon
  <2>9. CASE c \notin spoiled
    BY <1>2, <1>4, <1>8, <2>1, <2>3, <2>5, <2>7, <2>8, <2>9, BoardFollows
  <2>10. CASE c \in spoiled
    BY <1>2, <1>4, <1>8, <1>12, <2>1, <2>3, <2>5, <2>8, <2>10, BoardSkips
  <2> QED
    BY <2>9, <2>10
<1>13. Innocent' => Innocent
  BY <1>2, <1>3, Zenon DEF Same, Innocent
<1>14. BoardHolds(ends, q)'
  <2>1. Num' = Num
    BY <1>3, Zenon DEF Same
  <2> QED
    BY <1>12, <1>13, <2>1, Zenon DEF BoardHolds
<1>15. Short'
  BY <1>3, Zenon DEF Same, Short
<1>16. buffer' # << >> => q > 0
  BY <1>10
<1> QED
  BY <1>3, <1>11, <1>14, <1>15, <1>16, Zenon DEF BoardInv

\* Giving up costs the packet that is being read, and finds nothing in what is intact.
LEMMA BoardGivesUp ==
  ASSUME SentType, reader = "board", BoardTimesOut, spoiled \subseteq 0 .. Num - 1,
         NEW all, NEW ends, NEW gaps,
         Layout(all, ends, gaps), NEW r, Unread(all, r), r > 0, BoardHolds(ends, r), Short
  PROVE  BoardInv' /\ spoiled' \subseteq 0 .. Num' - 1
<1>1. /\ buffer # << >> /\ buffer' = << >> /\ spoiled' = spoiled \cup {Current}
      /\ found' = IF Len(buffer) = 1 THEN found ELSE found \o Results(buffer)
      /\ reader' = reader /\ sent' = sent /\ wire' = wire /\ text' = text
  BY DEF BoardTimesOut
<1>2. Layout(all, ends, gaps)' /\ Same
  <2>1. reader = "host" => spoiled' = spoiled
    OBVIOUS
  <2> QED
    BY <1>1, <2>1, LayoutKept, SentKept
<1>3. Rows(all, ends)
  BY RowsFacts
<1>4. Unread(all, r)'
  BY <1>1 DEF Unread
<1>5. Current \in 0 .. Num - 1
  BY <1>3, CurrentType
<1>6. Num' = Num /\ spoiled' \subseteq 0 .. Num - 1
  BY <1>1, <1>2, <1>5, Zenon DEF Same
<1>7. Innocent' => Innocent
  BY <1>1, <1>2, Zenon DEF Same, Innocent
<1>8. ASSUME Innocent PROVE \E d \in 0 .. Num : BoardHas(ends, r, d)'
  <2>1. PICK c \in 0 .. Num : BoardHas(ends, r, c)
    BY <1>8 DEF BoardHolds
  <2>2. /\ ends[c] <= r
        /\ c < Num => r < ends[c + 1]
        /\ c = Num => buffer = << >>
        /\ c < Num /\ c \notin spoiled => buffer = Part(Packet(c), 0, r - ends[c])
        /\ c \in spoiled => r > ends[c] /\ Leftover(buffer, Packet(c), r - ends[c])
        /\ spoiled \subseteq 0 .. c
        /\ found \in Seq(Outcome) /\ (Intact => Right(found, 0, c))
        /\ \A k \in 0 .. c - 1 : k \in spoiled \/ TooLong(k) \/ Has(found, k)
    BY <2>1, Zenon DEF BoardHas
  <2>3. Num \in Nat /\ c \in 0 .. Num - 1 /\ c < Num /\ c # Num /\ c \in Nat
    <3>1. Num \in Nat
      BY SentFacts
    <3> QED
      BY <1>1, <2>2, <3>1
  <2>4. Len(Packet(c)) = Length(c) /\ Length(c) \in Nat /\ Fine(reader, sent[c + 1], c)
    BY <2>3, SentFacts
  <2>5. ends[c] \in Nat /\ ends[c + 1] = ends[c] + Length(c) /\ r \in Nat /\ ends[c + 1] \in Nat
    <3>1. /\ all \in Seq(Byte) /\ ends \in [0 .. Num -> Nat]
          /\ \A k \in 0 .. Num - 1 : ends[k + 1] = ends[k] + Length(k)
      BY <1>3, Zenon DEF Rows
    <3>2. Len(all) \in Nat
      BY <3>1, LenProperties
    <3>3. r \in Nat
      BY <3>2 DEF Unread
    <3> QED
      BY <2>3, <3>1, <3>3
  <2>6. PICK p : p = Packet(c)
    OBVIOUS
  <2>7. PICK j : j = r - ends[c]
    OBVIOUS
  <2>8. p \in Seq(Byte) /\ Len(p) = Length(c) /\ j \in 0 .. Len(p) - 1 /\ j \in 0 .. Len(p)
    <3>1. Whole(p)
      BY <2>4, <2>6, Zenon DEF Fine, Packet
    <3>2. p \in Seq(Byte)
      BY <3>1, Zenon DEF Whole
    <3>3. Len(p) = Length(c)
      BY <2>4, <2>6
    <3>4. j \in 0 .. Length(c) - 1 /\ j \in 0 .. Length(c)
      BY <2>2, <2>3, <2>4, <2>5, <2>7
    <3> QED
      BY <3>2, <3>3, <3>4
  <2>9. r > ends[c]
    <3>1. CASE c \notin spoiled
      <4>1. buffer = Part(p, 0, j)
        BY <2>2, <2>3, <2>6, <2>7, <3>1, Zenon
      <4>2. j # 0
        <5>1. \A x : Part(x, 0, 0) = << >>
          <6>1. 0 + 1 = 1 /\ 1 > 0
            OBVIOUS
          <6> QED
            BY <6>1, SubSeqEmpty DEF Part
        <5> QED
          BY <1>1, <4>1, <5>1, Zenon
      <4> QED
        BY <2>2, <2>5, <2>7, <4>2
    <3> QED
      BY <2>2, <3>1
  <2>10. Current = c
    <3>1. r <= ends[c + 1]
      BY <2>2, <2>3, <2>5
    <3> QED
      BY <1>3, <2>3, <2>9, <3>1, CurrentIs
  <2>11. spoiled' = spoiled \cup {c} /\ c \in spoiled' /\ spoiled' \subseteq 0 .. c
    BY <1>1, <2>2, <2>3, <2>10
  <2>12. \/ Len(buffer) = 1
         \/ /\ c \notin spoiled /\ buffer = Part(p, 0, j) /\ Len(buffer) = j
            /\ j \in 2 .. Len(p) - 1 /\ buffer \in Seq(Byte)
    <3>1. CASE c \in spoiled
      <4>1. buffer = <<PACKET_START_0>>
        BY <1>1, <2>2, <3>1 DEF Leftover
      <4> QED
        BY <4>1
    <3>2. CASE c \notin spoiled
      <4>1. buffer = Part(p, 0, j)
        BY <2>2, <2>3, <2>6, <2>7, <3>2, Zenon
      <4>2. 0 \in 0 .. j /\ j - 0 = j
        BY <2>8
      <4>3. Len(buffer) = j /\ buffer \in Seq(Byte)
        BY <2>8, <4>1, <4>2, PartFacts
      <4>4. j # 0
        BY <2>5, <2>7, <2>9
      <4>5. j = 1 \/ j \in 2 .. Len(p) - 1
        <5>1. \A x, y \in Nat : x \in 0 .. y - 1 /\ x # 0 => x = 1 \/ x \in 2 .. y - 1
          OBVIOUS
        <5>2. Len(p) \in Nat /\ j \in Nat
          BY <2>4, <2>8
        <5> QED
          BY <2>8, <4>4, <5>1, <5>2, Zenon
      <4> QED
        BY <3>2, <4>1, <4>3, <4>5, Zenon
    <3> QED
      BY <3>1, <3>2, Zenon
  <2>13. PICK s : s = found'
    OBVIOUS
  <2>14. PICK t : t = IF Len(buffer) = 1 THEN << >> ELSE Results(buffer)
    OBVIOUS
  <2>15. t \in Seq(Outcome)
    <3>1. << >> \in Seq(Outcome)
      BY EmptySeq
    <3>2. CASE Len(buffer) = 1
      BY <2>14, <3>1, <3>2
    <3>3. CASE Len(buffer) # 1
      <4>1. buffer \in Seq(Byte)
        BY <2>12, <3>3
      <4>2. Parsed(reader, buffer) \in Outcome
        <5>1. reader \in Readers
          BY <1>1 DEF Readers
        <5> QED
          BY <4>1, <5>1, OutcomeIs
      <4>3. PICK x \in Outcome : x = Parsed(reader, buffer)
        BY <4>2
      <4>4. <<x>> \in Seq(Outcome)
        OBVIOUS
      <4>5. t = Results(buffer)
        BY <2>14, <3>3
      <4>6. t = <<x>> \/ t = << >>
        BY <4>3, <4>5 DEF Results
      <4> QED
        BY <3>1, <4>4, <4>6
    <3> QED
      BY <3>2, <3>3
  <2>16. s = found \o t
    <3>1. CASE Len(buffer) = 1
      <4>1. s = found /\ t = << >>
        BY <1>1, <2>13, <2>14, <3>1
      <4>2. found \o << >> = found
        BY <2>2, ConcatEmptySeq
      <4> QED
        BY <4>1, <4>2, Zenon
    <3>2. CASE Len(buffer) # 1
      BY <1>1, <2>13, <2>14, <3>2
    <3> QED
      BY <3>1, <3>2
  <2>17. Joined(found, t, 0, c, c)
    <3>1. 0 \in Int /\ c \in Int /\ 0 <= c /\ c <= c
      BY <2>3
    <3> QED
      BY <2>2, <2>15, <3>1, RightJoin, Zenon
  <2>18. s \in Seq(Outcome) /\ \A k : Has(found, k) => Has(s, k)
    BY <2>16, <2>17, Zenon DEF Joined
  <2>19. Intact' => Right(s, 0, c)
    <3> SUFFICES ASSUME Intact' PROVE Right(s, 0, c)
      OBVIOUS
    <3>1. Intact
      <4>1. \A k \in spoiled : k \in spoiled'
        BY <2>11
      <4> QED
        BY <1>2, <1>8, <4>1, Zenon DEF Same, Intact
    <3>2. ~ Severable(c)
      BY <1>2, <2>11, Zenon DEF Same, Intact
    <3>3. s = found
      <4>1. CASE Len(buffer) = 1
        BY <1>1, <2>13, <4>1
      <4>2. CASE Len(buffer) # 1
        <5>1. buffer = Part(p, 0, j) /\ j \in 2 .. Length(c) - 1
          BY <2>8, <2>12, <4>2
        <5>2. Part(p, 0, j) = SubSeq(PacketOf(sent[c + 1], c), 1, j)
          <6>1. 0 + 1 = 1
            OBVIOUS
          <6> QED
            BY <2>6, <6>1, Zenon DEF Part, Packet
        <5>3. ~ Parses(reader, buffer)
          BY <3>2, <5>1, <5>2, Zenon DEF Severable
        <5>4. t = << >>
          BY <2>14, <4>2, <5>3 DEF Results
        <5>5. found \o << >> = found
          BY <2>2, ConcatEmptySeq
        <5> QED
          BY <2>16, <5>4, <5>5, Zenon
      <4> QED
        BY <4>1, <4>2
    <3> QED
      BY <2>2, <3>1, <3>3
  <2>20. Intact' => Right(found, 0, c)'
    <3>1. Right(s, 0, c)' <=> Right(s, 0, c)
      BY <1>2, Zenon DEF Same
    <3>2. Right(found, 0, c)' <=> Right(s, 0, c)'
      BY <2>13, Zenon DEF Right
    <3> QED
      BY <2>19, <3>1, <3>2, Zenon
  <2>21. \A k \in 0 .. c - 1 : k \in spoiled' \/ TooLong(k)' \/ Has(found, k)'
    <3>1. \A k : Has(found, k)' <=> Has(s, k)
      BY <2>13, Zenon DEF Has
    <3>2. \A k : TooLong(k)' <=> TooLong(k)
      BY <1>2, Zenon DEF Same
    <3>3. \A k \in spoiled : k \in spoiled'
      BY <2>11
    <3> QED
      BY <2>2, <2>18, <3>1, <3>2, <3>3, Zenon
  <2>22. Leftover(buffer', Packet(c)', r - ends[c])
    BY <1>1, Zenon DEF Leftover
  <2>23. found' \in Seq(Outcome)
    BY <2>13, <2>18
  <2>24. (c < Num' => r < ends[c + 1]) /\ c # Num'
    BY <1>6, <2>2, <2>3, Zenon
  <2>25. BoardHas(ends, r, c)'
    BY <2>2, <2>9, <2>11, <2>20, <2>21, <2>22, <2>23, <2>24, Zenon DEF BoardHas
  <2> QED
    BY <2>25
<1>9. BoardHolds(ends, r)'
  BY <1>6, <1>7, <1>8, Zenon DEF BoardHolds
<1>10. Short'
  BY <1>2, Zenon DEF Same, Short
<1>11. buffer' # << >> => r > 0
  OBVIOUS
<1>12. BoardInv'
  BY <1>2, <1>4, <1>9, <1>10, <1>11, Zenon DEF BoardInv
<1> QED
  BY <1>6, <1>12, Zenon

-----------------------------------------------------------------------------
(* The inductive invariant. *)

FramerInv ==
  /\ SentType /\ spoiled \subseteq 0 .. Num - 1
  /\ reader = "host" => HostInv
  /\ reader = "board" => BoardInv

\* Nothing has been written yet.
LEMMA InitFramer ==
  ASSUME Init
  PROVE  FramerInv
<1>1. /\ reader \in Readers /\ sent = << >> /\ wire = << >> /\ text = << >> /\ buffer = << >>
      /\ found = << >> /\ spoiled = {}
  BY DEF Init
<1>2. Num = 0 /\ Len(<< >>) = 0
  BY <1>1, EmptySeq DEF Num
<1>3. SentType
  <2>1. MaxPackets \in Nat
    BY FramerAssumption
  <2>2. sent \in Seq(Messages[reader])
    BY <1>1, EmptySeq
  <2> QED
    BY <1>1, <1>2, <2>1, <2>2 DEF SentType
<1>4. PICK ends : ends = [k \in 0 .. 0 |-> 0]
  OBVIOUS
<1>5. PICK gaps : gaps = [k \in 0 .. 0 |-> << >>]
  OBVIOUS
<1>6. /\ 0 \in 0 .. 0 /\ \A k \in 0 .. 0 : k = 0
      /\ \A k \in 0 .. 0 - 1 : FALSE
      /\ \A k, l \in 0 .. 0 : ~ k < l
  OBVIOUS
<1>7. ends[0] = 0 /\ gaps[0] = << >>
  BY <1>4, <1>5, <1>6
<1>8. ends \in [0 .. 0 -> Nat] /\ gaps \in [0 .. 0 -> Seq(DebugBytes)]
  <2>1. << >> \in Seq(DebugBytes)
    BY EmptySeq
  <2> QED
    BY <1>4, <1>5, <2>1
<1>9. Stands(<< >>, << >>, 0)
  <2>1. \A i \in 1 .. 0 : FALSE
    OBVIOUS
  <2>2. 0 + 0 <= 0
    OBVIOUS
  <2> QED
    BY <1>2, <2>1, <2>2, Zenon DEF Stands
<1>10. Layout(<< >>, ends, gaps)
  <2>1. << >> \in Seq(Byte)
    BY EmptySeq
  <2>2. Len(<< >>) = ends[Num] + Len(text)
    BY <1>1, <1>2, <1>7
  <2>3. \A k \in 0 .. Num : Stands(gaps[k], << >>, ends[k])
    BY <1>2, <1>6, <1>7, <1>9, Zenon
  <2>4. \A k \in 0 .. Num : gaps[k] = << >>
    BY <1>2, <1>6, <1>7, Zenon
  <2>5. \A k \in 0 .. Num - 1 : FALSE
    BY <1>2, <1>6, Zenon
  <2>6. \A k, l \in 0 .. Num : k < l => ends[k] < ends[l]
    BY <1>2, <1>6, Zenon
  <2>7. ends \in [0 .. Num -> Nat] /\ gaps \in [0 .. Num -> Seq(DebugBytes)]
    BY <1>2, <1>8, Zenon
  <2>8. ends[0] = 0 /\ gaps[Num] = text
    BY <1>1, <1>2, <1>7, Zenon
  <2> QED
    BY <2>1, <2>2, <2>3, <2>4, <2>5, <2>6, <2>7, <2>8, Zenon DEF Layout
<1>11. << >> = Part(<< >>, 0, 0)
  <2>1. 0 + 1 = 1 /\ 1 > 0
    OBVIOUS
  <2> QED
    BY <2>1, SubSeqEmpty DEF Part
<1>12. Unread(<< >>, 0)
  BY <1>1, <1>2, <1>6, <1>11, Zenon DEF Unread
<1>13. found \in Seq(Outcome) /\ Right(found, 0, 0)
  <2>1. \A i \in 1 .. 0 : FALSE
    OBVIOUS
  <2>2. found \in Seq(Outcome)
    BY <1>1, EmptySeq
  <2> QED
    BY <1>1, <1>2, <2>1, <2>2, Zenon DEF Right
<1>14. ends[0] <= 0
  BY <1>7
<1>15. HostInv
  <2>1. buffer = Part(<< >>, ends[0], 0)
    BY <1>1, <1>7, <1>11, Zenon
  <2>2. HostHas(<< >>, ends, 0, 0)
    BY <1>2, <1>6, <1>13, <1>14, <2>1, Zenon DEF HostHas
  <2>3. HostReads(<< >>, ends, 0)
    BY <1>2, <1>6, <2>2, Zenon DEF HostReads
  <2> QED
    BY <1>10, <1>12, <2>3, Zenon DEF HostInv
<1>16. BoardInv
  <2>1. ~ 0 < Num /\ spoiled \subseteq 0 .. 0 /\ 0 \notin spoiled
    BY <1>1, <1>2
  <2>2. BoardHas(ends, 0, 0)
    BY <1>1, <1>6, <1>13, <1>14, <2>1, Zenon DEF BoardHas
  <2>3. BoardHolds(ends, 0)
    BY <1>2, <1>6, <2>2, Zenon DEF BoardHolds
  <2>4. Short
    BY <1>2, <1>6, Zenon DEF Short
  <2> QED
    BY <1>1, <1>10, <1>12, <2>3, <2>4, Zenon DEF BoardInv
<1> QED
  BY <1>1, <1>3, <1>15, <1>16 DEF FramerInv

\* The host's steps keep it.
LEMMA HostNext ==
  ASSUME FramerInv, reader = "host", [Next]_vars
  PROVE  FramerInv'
<1>1. SentType /\ spoiled \subseteq 0 .. Num - 1 /\ HostInv /\ Num \in Nat
  BY SentFacts DEF FramerInv
<1>2. PICK all, ends, gaps, r :
        Layout(all, ends, gaps) /\ Unread(all, r) /\ HostReads(all, ends, r)
  BY <1>1, Zenon DEF HostInv
<1>3. PICK n \in Nat : n = Num
  BY <1>1
<1>4. ASSUME Grown(n, all, ends) PROVE FramerInv'
  <2>1. HostInv'
    BY <1>1, <1>2, <1>3, <1>4, HostGrows
  <2>2. SentType' /\ reader' = reader /\ spoiled' \subseteq 0 .. Num' - 1
    BY <1>4, Zenon DEF Grown
  <2> QED
    BY <2>1, <2>2 DEF FramerInv
<1>5. CASE SendPacket
  BY <1>1, <1>2, <1>3, <1>4, <1>5, SendGrows
<1>6. CASE Debug
  BY <1>1, <1>2, <1>3, <1>4, <1>6, DebugGrows
<1>7. ASSUME reader' = reader, sent' = sent, spoiled' = spoiled, HostInv' PROVE FramerInv'
  <2>1. SentType' /\ Num' = Num
    BY <1>1, <1>7 DEF SentType, Num
  <2>2. spoiled' \subseteq 0 .. Num' - 1
    BY <1>1, <1>7, <2>1, Zenon
  <2> QED
    BY <1>7, <2>1, <2>2 DEF FramerInv
<1>8. CASE Update
  <2>1. HostInv'
    BY <1>1, <1>2, <1>8, HostUpdates
  <2>2. reader' = reader /\ sent' = sent /\ spoiled' = spoiled
    BY <1>8 DEF Update
  <2> QED
    BY <1>7, <2>1, <2>2
<1>9. CASE UNCHANGED vars
  <2>1. /\ reader' = reader /\ sent' = sent /\ wire' = wire /\ text' = text
        /\ buffer' = buffer /\ found' = found /\ spoiled' = spoiled
    BY <1>9 DEF vars
  <2>2. Layout(all, ends, gaps)' /\ Same
    BY <1>2, <2>1, LayoutKept, SentKept
  <2>3. Unread(all, r)'
    BY <1>2, <2>1 DEF Unread
  <2>4. \A c : HostHas(all, ends, r, c) => HostHas(all, ends, r, c)'
    <3>1. \A k : Has(found, k)' <=> Has(found, k)
      BY <2>1, Zenon DEF Has
    <3>2. \A c : Right(found, 0, c)' <=> Right(found, 0, c)
      BY <2>1, Zenon DEF Right
    <3> QED
      BY <2>1, <2>2, <3>1, <3>2, Zenon DEF HostHas, Same
  <2>5. Innocent' => Innocent
    BY <2>1, <2>2, Zenon DEF Innocent, Same
  <2>6. HostReads(all, ends, r)'
    BY <1>2, <2>2, <2>4, <2>5, Zenon DEF HostReads, Same
  <2>7. HostInv'
    BY <2>2, <2>3, <2>6, Zenon DEF HostInv
  <2> QED
    BY <1>7, <2>1, <2>7
<1>10. CASE BoardReads \/ BoardTimesOut
  BY <1>10 DEF BoardReads, BoardTimesOut
<1> QED
  BY <1>5, <1>6, <1>8, <1>9, <1>10 DEF Next

\* The board's steps keep it.
LEMMA BoardNext ==
  ASSUME FramerInv, reader = "board", [Next]_vars
  PROVE  FramerInv'
<1>1. SentType /\ spoiled \subseteq 0 .. Num - 1 /\ BoardInv /\ Num \in Nat
  BY SentFacts DEF FramerInv
<1>2. Short
  BY <1>1 DEF BoardInv
<1>3. PICK all, ends, gaps, r :
        /\ Layout(all, ends, gaps) /\ Unread(all, r)
        /\ buffer # << >> => r > 0
        /\ BoardHolds(ends, r)
  BY <1>1, Zenon DEF BoardInv
<1>4. PICK n \in Nat : n = Num
  BY <1>1
<1>5. CASE SendPacket
  <2>1. Grown(n, all, ends)
    BY <1>1, <1>3, <1>4, <1>5, SendGrows
  <2>2. BoardInv'
    BY <1>1, <1>2, <1>3, <1>4, <2>1, BoardGrows
  <2>3. SentType' /\ reader' = reader /\ spoiled' \subseteq 0 .. Num' - 1
    BY <2>1, Zenon DEF Grown
  <2> QED
    BY <2>2, <2>3 DEF FramerInv
<1>6. ASSUME reader' = reader, sent' = sent, BoardInv', spoiled' \subseteq 0 .. Num' - 1
      PROVE  FramerInv'
  <2>1. SentType'
    BY <1>1, <1>6 DEF SentType, Num
  <2> QED
    BY <1>6, <2>1 DEF FramerInv
<1>7. CASE BoardReads
  <2>1. BoardInv'
    BY <1>1, <1>2, <1>3, <1>7, BoardAdvances
  <2>2. reader' = reader /\ sent' = sent /\ spoiled' = spoiled
    BY <1>7 DEF BoardReads
  <2>3. Num' = Num
    BY <2>2 DEF Num
  <2>4. spoiled' \subseteq 0 .. Num' - 1
    BY <1>1, <2>2, <2>3, Zenon
  <2> QED
    BY <1>6, <2>1, <2>2, <2>4
<1>8. CASE BoardTimesOut
  <2>1. reader' = reader /\ sent' = sent /\ buffer # << >>
    BY <1>8 DEF BoardTimesOut
  <2>2. BoardInv' /\ spoiled' \subseteq 0 .. Num' - 1
    BY <1>1, <1>2, <1>3, <1>8, <2>1, BoardGivesUp
  <2> QED
    BY <1>6, <2>1, <2>2
<1>9. CASE UNCHANGED vars
  <2>1. /\ reader' = reader /\ sent' = sent /\ wire' = wire /\ text' = text
        /\ buffer' = buffer /\ found' = found /\ spoiled' = spoiled
    BY <1>9 DEF vars
  <2>2. Layout(all, ends, gaps)' /\ Same
    BY <1>3, <2>1, LayoutKept, SentKept
  <2>3. Unread(all, r)'
    BY <1>3, <2>1 DEF Unread
  <2>4. Innocent' => Innocent
    BY <2>1, <2>2, Zenon DEF Innocent, Same
  <2>5. Intact' => Intact
    BY <2>1, <2>2, <2>4, Zenon DEF Intact, Same
  <2>6. \A c : BoardHas(ends, r, c) => BoardHas(ends, r, c)'
    <3>1. \A k : Has(found, k)' <=> Has(found, k)
      BY <2>1, Zenon DEF Has
    <3>2. \A c : Right(found, 0, c)' <=> Right(found, 0, c)
      BY <2>1, Zenon DEF Right
    <3>3. \A x, j : Leftover(buffer, x, j)' <=> Leftover(buffer, x, j)
      BY <2>1, Zenon DEF Leftover
    <3> QED
      BY <2>1, <2>2, <2>5, <3>1, <3>2, <3>3, Zenon DEF BoardHas, Same
  <2>7. BoardHolds(ends, r)'
    BY <1>3, <2>2, <2>4, <2>6, Zenon DEF BoardHolds, Same
  <2>8. Short'
    BY <1>2, <2>2, Zenon DEF Short, Same
  <2>9. buffer' # << >> => r > 0
    BY <1>3, <2>1
  <2>10. BoardInv'
    BY <2>2, <2>3, <2>7, <2>8, <2>9, Zenon DEF BoardInv
  <2>11. spoiled' \subseteq 0 .. Num' - 1
    BY <1>1, <2>1, <2>2, Zenon DEF Same
  <2> QED
    BY <1>6, <2>1, <2>10, <2>11
<1>10. CASE Update \/ Debug
  BY <1>10 DEF Update, Debug
<1> QED
  BY <1>5, <1>7, <1>8, <1>9, <1>10 DEF Next

\* The invariant holds in every state.
LEMMA FramerInvariant == Spec => []FramerInv
<1>1. Init => FramerInv
  BY InitFramer
<1>2. FramerInv /\ [Next]_vars => FramerInv'
  <2>1. FramerInv => reader \in Readers
    BY DEF FramerInv, SentType
  <2> QED
    BY <2>1, HostNext, BoardNext DEF Readers
<1> QED
  BY <1>1, <1>2, PTL DEF Spec

-----------------------------------------------------------------------------
(* What it says about the properties. *)

\* When nothing is under way, every packet has been read to its end.
LEMMA AllRead ==
  ASSUME SentType, NEW all, NEW ends, NEW gaps, Layout(all, ends, gaps), NEW r,
         Unread(all, r), wire = << >>
  PROVE  \A k \in 0 .. Num - 1 : ends[k + 1] <= r
<1>1. /\ all \in Seq(Byte) /\ ends \in [0 .. Num -> Nat] /\ gaps \in [0 .. Num -> Seq(DebugBytes)]
      /\ gaps[Num] = text /\ Len(all) = ends[Num] + Len(text)
      /\ \A k, l \in 0 .. Num : k < l => ends[k] < ends[l]
  BY Zenon DEF Layout
<1>2. Num \in Nat /\ Len(all) \in Nat /\ r \in 0 .. Len(all) /\ Len(all) \in 0 .. Len(all)
  <2>1. Num \in Nat /\ Len(all) \in Nat
    BY <1>1, SentFacts, LenProperties
  <2>2. r \in 0 .. Len(all)
    BY DEF Unread
  <2> QED
    BY <2>1, <2>2
<1>3. r = Len(all)
  <2>1. wire = Part(all, r, Len(all)) /\ r \in 0 .. Len(all)
    BY Zenon DEF Unread
  <2>2. Len(Part(all, r, Len(all))) = Len(all) - r
    BY <1>1, <1>2, PartFacts
  <2>3. Len(Part(all, r, Len(all))) = 0
    <3>1. Part(all, r, Len(all)) = << >>
      BY <2>1, Zenon
    <3> QED
      BY <3>1, EmptySeq, Zenon
  <2> QED
    BY <1>2, <2>2, <2>3
<1>4. Len(text) \in Nat
  <2>1. text \in Seq(DebugBytes)
    BY <1>1, <1>2
  <2> QED
    BY <2>1, LenProperties
<1> SUFFICES ASSUME NEW k \in 0 .. Num - 1 PROVE ends[k + 1] <= r
  OBVIOUS
<1>5. k + 1 \in 0 .. Num /\ Num \in 0 .. Num /\ (k + 1 = Num \/ k + 1 < Num)
  BY <1>2
<1>6. ends[k + 1] \in Nat /\ ends[Num] \in Nat
  BY <1>1, <1>5
<1>7. ends[k + 1] = ends[Num] \/ ends[k + 1] < ends[Num]
  BY <1>1, <1>5, Zenon
<1>8. r = ends[Num] + Len(text)
  BY <1>1, <1>3
<1> QED
  BY <1>4, <1>6, <1>7, <1>8

\* No packet in front of the one that is read next is missing, and there is none behind.
LEMMA AllFoundFollows ==
  ASSUME FramerInv
  PROVE  AllFound
<1>1. SentType /\ Num \in Nat /\ reader \in Readers
  BY SentFacts DEF FramerInv, SentType
<1> SUFFICES ASSUME wire = << >>, Innocent, NEW num \in (0 .. Num - 1) \ spoiled
             PROVE  TooLong(num) \/ \E i \in DOMAIN found : found[i].num = num
  BY Zenon DEF AllFound, Innocent
<1>2. num \in 0 .. Num - 1 /\ num \notin spoiled
  OBVIOUS
<1>3. ASSUME found \in Seq(Outcome), Has(found, num)
      PROVE  \E i \in DOMAIN found : found[i].num = num
  <2>1. DOMAIN found = 1 .. Len(found)
    BY <1>3, LenProperties
  <2> QED
    BY <1>3, <2>1, Zenon DEF Has
<1>4. CASE reader = "host"
  <2>1. PICK all, ends, gaps, r :
          Layout(all, ends, gaps) /\ Unread(all, r) /\ HostReads(all, ends, r)
    BY <1>4, Zenon DEF FramerInv, HostInv
  <2>2. PICK c \in 0 .. Num : HostHas(all, ends, r, c)
    BY <2>1, Zenon DEF HostReads
  <2>3. /\ found \in Seq(Outcome)
        /\ \A k \in 0 .. c - 1 : k \in spoiled \/ Has(found, k)
        /\ \A k \in c .. Num - 1 : k \in spoiled \/ ends[k + 1] > r
    BY <2>2, Zenon DEF HostHas
  <2>4. ends[num + 1] <= r
    BY <1>1, <1>2, <2>1, AllRead
  <2>5. ~ ends[num + 1] > r
    <3>1. \A x, y \in Nat : x <= y => ~ x > y
      OBVIOUS
    <3>2. ends[num + 1] \in Nat /\ r \in Nat
      <4>1. ends \in [0 .. Num -> Nat] /\ all \in Seq(Byte)
        BY <2>1, Zenon DEF Layout
      <4>2. num + 1 \in 0 .. Num
        BY <1>1, <1>2
      <4>3. Len(all) \in Nat
        BY <4>1, LenProperties
      <4>4. r \in 0 .. Len(all)
        BY <2>1, Zenon DEF Unread
      <4> QED
        BY <4>1, <4>2, <4>3, <4>4
    <3> QED
      BY <2>4, <3>1, <3>2, Zenon
  <2>6. num \in 0 .. c - 1 \/ num \in c .. Num - 1
    BY <1>1, <1>2
  <2>7. Has(found, num)
    BY <1>2, <2>3, <2>5, <2>6, Zenon
  <2> QED
    BY <1>3, <2>3, <2>7
<1>5. CASE reader = "board"
  <2>1. PICK all, ends, gaps, r :
          Layout(all, ends, gaps) /\ Unread(all, r) /\ BoardHolds(ends, r)
    BY <1>5, Zenon DEF FramerInv, BoardInv
  <2>2. PICK c \in 0 .. Num : BoardHas(ends, r, c)
    BY <2>1, Zenon DEF BoardHolds
  <2>3. /\ c < Num => r < ends[c + 1]
        /\ found \in Seq(Outcome)
        /\ \A k \in 0 .. c - 1 : k \in spoiled \/ TooLong(k) \/ Has(found, k)
    BY <2>2, Zenon DEF BoardHas
  <2>4. ~ c < Num
    <3> SUFFICES ASSUME c < Num PROVE FALSE
      OBVIOUS
    <3>1. c \in 0 .. Num - 1
      BY <1>1
    <3>2. ends[c + 1] <= r
      BY <1>1, <2>1, <3>1, AllRead
    <3>3. r < ends[c + 1]
      BY <2>3
    <3>4. \A x, y \in Nat : x <= y => ~ y < x
      OBVIOUS
    <3>5. ends[c + 1] \in Nat /\ r \in Nat
      <4>1. ends \in [0 .. Num -> Nat] /\ all \in Seq(Byte)
        BY <2>1, Zenon DEF Layout
      <4>2. c + 1 \in 0 .. Num
        BY <1>1, <3>1
      <4>3. Len(all) \in Nat
        BY <4>1, LenProperties
      <4>4. r \in 0 .. Len(all)
        BY <2>1, Zenon DEF Unread
      <4> QED
        BY <4>1, <4>2, <4>3, <4>4
    <3> QED
      BY <3>2, <3>3, <3>4, <3>5, Zenon
  <2>5. num \in 0 .. c - 1
    BY <1>1, <1>2, <2>4
  <2>6. TooLong(num) \/ Has(found, num)
    BY <1>2, <2>3, <2>5, Zenon
  <2> QED
    BY <1>3, <2>3, <2>6
<1> QED
  BY <1>1, <1>4, <1>5 DEF Readers

\* What is found is right, as far as the packets that are hit are intact.
LEMMA FoundRight ==
  ASSUME FramerInv, Intact
  PROVE  \E c \in 0 .. Num : found \in Seq(Outcome) /\ Right(found, 0, c)
<1>1. reader \in Readers /\ Innocent
  BY DEF FramerInv, SentType, Intact
<1>2. CASE reader = "host"
  <2>1. PICK all, ends, r : HostReads(all, ends, r)
    BY <1>2, Zenon DEF FramerInv, HostInv
  <2> QED
    BY <1>1, <2>1, Zenon DEF HostReads, HostHas
<1>3. CASE reader = "board"
  <2>1. PICK ends, r : BoardHolds(ends, r)
    BY <1>3, Zenon DEF FramerInv, BoardInv
  <2> QED
    BY <1>1, <2>1, Zenon DEF BoardHolds, BoardHas
<1> QED
  BY <1>1, <1>2, <1>3 DEF Readers

\* Right results are those of packets that were sent, and the getters read them.
LEMMA InOrderFollows ==
  ASSUME FramerInv, Intact
  PROVE  FoundInOrder /\ ReadBack
<1>1. SentType /\ Num \in Nat
  BY SentFacts DEF FramerInv
<1>2. PICK c \in 0 .. Num : found \in Seq(Outcome) /\ Right(found, 0, c)
  BY FoundRight
<1>3. DOMAIN found = 1 .. Len(found)
  BY <1>2, LenProperties
<1>4. ASSUME NEW i \in DOMAIN found
      PROVE  /\ found[i].num < Num
             /\ found[i].category = sent[found[i].num + 1].category
             /\ Get(reader, found[i].data, Formats[found[i].category]) =
                  [values |-> sent[found[i].num + 1].args, rest |-> << >>]
  <2>1. found[i].num \in 0 .. c - 1 /\ found[i] = ResultOf(sent[found[i].num + 1], found[i].num)
    BY <1>2, <1>3, <1>4, Zenon DEF Right
  <2>2. PICK k : k = found[i].num
    OBVIOUS
  <2>3. PICK m : m = sent[k + 1]
    OBVIOUS
  <2>4. k \in 0 .. Num - 1 /\ k < Num
    BY <1>1, <2>1, <2>2
  <2>5. Fine(reader, m, k)
    BY <1>1, <2>3, <2>4, SentFacts
  <2>6. found[i] = ResultOf(m, k)
    BY <2>1, <2>2, <2>3, Zenon
  <2>7. found[i].category = m.category /\ found[i].data = Data(Formats[m.category], m.args)
    BY <2>6 DEF ResultOf
  <2>8. Get(reader, found[i].data, Formats[found[i].category]) =
          [values |-> m.args, rest |-> << >>]
    BY <2>5, <2>7, Zenon DEF Fine
  <2> QED
    BY <2>2, <2>3, <2>4, <2>7, <2>8, Zenon
<1>5. \A i, j \in DOMAIN found : i < j => found[i].num < found[j].num
  BY <1>2, <1>3, Zenon DEF Right
<1> QED
  BY <1>4, <1>5, Zenon DEF FoundInOrder, ReadBack

\* parse_buffer and readPacket: a packet that is not hit by a stray start byte or by a time-out
\* is found when the last byte of it has been read, whatever it contains and however the stream
\* is cut; so no call waits for bytes that have arrived, or drops some of a later packet.
THEOREM AllFoundCorrect == Spec => []AllFound
<1>1. FramerInv => AllFound
  BY AllFoundFollows
<1> QED
  BY <1>1, FramerInvariant, PTL

\* parse_buffer and readPacket: the results are those of packets that were sent, each at most
\* once and in order, in every state in which no packet that was hit has start bytes in its body
\* or is one that, cut off, passes for a whole one.
THEOREM InOrderCorrect ==
  Spec => []((\A num \in spoiled : ~ Deceptive(num) /\ ~ Severable(num)) => FoundInOrder)
<1>1. FramerInv => ((\A num \in spoiled : ~ Deceptive(num) /\ ~ Severable(num)) => FoundInOrder)
  BY InOrderFollows DEF Intact, Innocent
<1> QED
  BY <1>1, FramerInvariant, PTL

\* The getters of a result, in Python and on the board: in these states they return what the
\* packet was made of, and nothing is left over.
THEOREM ReadBackCorrect ==
  Spec => []((\A num \in spoiled : ~ Deceptive(num) /\ ~ Severable(num)) => ReadBack)
<1>1. FramerInv => ((\A num \in spoiled : ~ Deceptive(num) /\ ~ Severable(num)) => ReadBack)
  BY InOrderFollows DEF Intact, Innocent
<1> QED
  BY <1>1, FramerInvariant, PTL
=============================================================================
