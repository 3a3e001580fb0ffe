--------------------------- MODULE PacketsProofs ---------------------------
(***************************************************************************)
(* Proofs about Packets: that a packet is found well-formed and read back  *)
(* as it was written, whatever bytes its data has, and that the getters    *)
(* give the arguments it was made of, as far as the end has room for them. *)
(***************************************************************************)
EXTENDS Packets, ListProofs

-----------------------------------------------------------------------------
(* Folds. *)

\* The largest element of a set of numbers.
LEMMA MaxIs ==
  ASSUME NEW S, S \subseteq Int, NEW m \in S, \A x \in S : x <= m
  PROVE  Max(S) = m
<1> DEFINE Largest(x) == x \in S /\ \A y \in S : x >= y
<1>1. Largest(m)
  OBVIOUS
<1>2. \A x : Largest(x) => x = m
  OBVIOUS
<1>3. Max(S) = CHOOSE x : Largest(x)
  BY Zenon DEF Max
<1> HIDE DEF Largest
<1>4. Largest(CHOOSE x : Largest(x))
  BY <1>1, Zenon
<1> QED
  BY <1>2, <1>3, <1>4, Zenon

\* A fold over a list: what it is for each subset of the positions, taken from the left.
FoldsTo(h, base, s, op) ==
  \A t \in SUBSET DOMAIN s :
    h[t] = IF t = {} THEN base ELSE op[h[t \ {Max(t)}]][s[Max(t)]]

\* There is such a function.
LEMMA FoldDefined ==
  ASSUME NEW A, NEW B, NEW base \in A, NEW s \in Seq(B), NEW op \in [A -> [B -> A]]
  PROVE  \E h \in [SUBSET DOMAIN s -> A] : FoldsTo(h, base, s, op)
<1> DEFINE n == Len(s)
           Defined(k) == \E h \in [SUBSET (1 .. k) -> A] :
             \A t \in SUBSET (1 .. k) :
               h[t] = IF t = {} THEN base ELSE op[h[t \ {Max(t)}]][s[Max(t)]]
           T == {k \in 0 .. n : Defined(k)}
<1>1. n \in Nat /\ DOMAIN s = 1 .. n /\ \A i \in 1 .. n : s[i] \in B
  BY LenProperties, ElementOfSeq
<1> HIDE DEF n
<1>2. 0 \in T
  <2>1. [t \in SUBSET (1 .. 0) |-> base] \in [SUBSET (1 .. 0) -> A]
    OBVIOUS
  <2>2. \A t \in SUBSET (1 .. 0) : t = {}
    OBVIOUS
  <2>3. Defined(0)
    BY <2>1, <2>2
  <2> HIDE DEF Defined
  <2> QED
    BY <1>1, <2>3
<1>3. ASSUME NEW k \in 0 .. n - 1, k \in T
      PROVE  k + 1 \in T
  <2>1. k + 1 \in 1 .. n /\ s[k + 1] \in B
    BY <1>1
  <2>2. PICK h \in [SUBSET (1 .. k) -> A] :
          \A t \in SUBSET (1 .. k) :
            h[t] = IF t = {} THEN base ELSE op[h[t \ {Max(t)}]][s[Max(t)]]
    BY <1>3
  <2> DEFINE g == [t \in SUBSET (1 .. k + 1) |->
                     IF k + 1 \in t THEN op[h[t \ {k + 1}]][s[k + 1]] ELSE h[t]]
  <2>3. \A t \in SUBSET (1 .. k + 1) : t \ {k + 1} \in SUBSET (1 .. k)
    BY <1>1
  <2>4. \A t \in SUBSET (1 .. k + 1) : k + 1 \notin t => t \in SUBSET (1 .. k)
    BY <1>1
  <2>5. g \in [SUBSET (1 .. k + 1) -> A]
    BY <2>1, <2>2, <2>3, <2>4
  <2>6. ASSUME NEW t \in SUBSET (1 .. k + 1)
        PROVE  g[t] = IF t = {} THEN base ELSE op[g[t \ {Max(t)}]][s[Max(t)]]
    <3>1. CASE k + 1 \in t
      <4>1. Max(t) = k + 1
        <5>1. t \subseteq Int /\ \A x \in t : x <= k + 1
          BY <1>1
        <5> QED
          BY <3>1, <5>1, MaxIs, Zenon
      <4>2. g[t] = op[h[t \ {k + 1}]][s[k + 1]]
        BY <3>1
      <4>3. g[t \ {k + 1}] = h[t \ {k + 1}]
        OBVIOUS
      <4> QED
        BY <3>1, <4>1, <4>2, <4>3
    <3>2. CASE k + 1 \notin t /\ t # {}
      <4>1. t \in SUBSET (1 .. k)
        BY <3>2, <2>4
      <4>2. g[t] = h[t] /\ g[t \ {Max(t)}] = h[t \ {Max(t)}]
        BY <3>2
      <4> QED
        BY <2>2, <3>2, <4>1, <4>2
    <3>3. CASE t = {}
      BY <2>2, <3>3
    <3> QED
      BY <3>1, <3>2, <3>3
  <2>7. Defined(k + 1)
    BY <2>5, <2>6
  <2> HIDE DEF Defined
  <2> QED
    BY <1>1, <2>1, <2>7
<1>4. n \in T
  <2> HIDE DEF T
  <2>1. \A k \in 0 .. n - 1 : k \in T => k + 1 \in T
    BY <1>3
  <2>2. \A k \in 0 .. n : k \in T
    BY <1>1, <1>2, <2>1, UpToInduction, Zenon
  <2> QED
    BY <1>1, <2>2
<1> QED
  BY <1>1, <1>4 DEF FoldsTo

\* A set of positions, if not empty, has a last one.
LEMMA MaxInList ==
  ASSUME NEW n \in Nat, NEW t, t \subseteq 1 .. n, t # {}
  PROVE  Max(t) \in t
<1> DEFINE Left == {k \in 0 .. n : n - k \in t}
<1>1. Left \subseteq Nat
  OBVIOUS
<1>2. Left # {}
  <2>1. PICK x \in t : TRUE
    OBVIOUS
  <2>2. n - x \in 0 .. n /\ n - (n - x) = x
    BY <2>1
  <2> QED
    BY <2>1, <2>2
<1> HIDE DEF Left
<1>3. PICK k \in Left : \A l \in Left : k <= l
  BY <1>1, <1>2, SmallestInSet
<1>4. k \in Nat /\ n - k \in t
  BY <1>3 DEF Left
<1>5. t \subseteq Int
  OBVIOUS
<1>6. ASSUME NEW x \in t PROVE x <= n - k
  <2>1. x \in 1 .. n /\ n - x \in 0 .. n /\ n - (n - x) = x
    BY <1>6
  <2>2. n - x \in Left
    BY <2>1 DEF Left
  <2> QED
    BY <1>3, <1>4, <2>1, <2>2
<1>7. \A x \in t : x <= n - k
  BY <1>6
<1>8. Max(t) = n - k
  BY <1>4, <1>5, <1>7, MaxIs, Zenon
<1> QED
  BY <1>4, <1>8

\* The first positions of a list, of which a fold takes one after another.
LEMMA FirstPositions ==
  ASSUME NEW B, NEW s \in Seq(B), NEW i \in 1 .. Len(s)
  PROVE  /\ 1 .. i \in SUBSET DOMAIN s /\ 1 .. i # {}
         /\ Max(1 .. i) = i /\ (1 .. i) \ {Max(1 .. i)} = 1 .. (i - 1)
<1>1. Len(s) \in Nat /\ DOMAIN s = 1 .. Len(s)
  BY LenProperties
<1>2. 1 .. i \subseteq Int /\ i \in 1 .. i /\ \A x \in 1 .. i : x <= i
  BY <1>1
<1>3. Max(1 .. i) = i
  BY <1>2, MaxIs, Zenon
<1>4. (1 .. i) \ {i} = 1 .. (i - 1)
  BY <1>1
<1> QED
  BY <1>1, <1>2, <1>3, <1>4

-----------------------------------------------------------------------------
(* Numbers. *)

\* Sums of bytes, in eight bits.
LEMMA ByteSum == 0 \in Byte /\ \A m, n \in Byte : (m + n) % 256 \in Byte
<1>1. ASSUME NEW m \in Byte, NEW n \in Byte
      PROVE  (m + n) % 256 \in Byte
  BY DEF Byte
<1>2. 0 \in Byte
  BY DEF Byte
<1> QED
  BY <1>1, <1>2

\* A checksum is a byte.
LEMMA ChecksumType ==
  ASSUME NEW s \in Seq(Byte)
  PROVE  Checksum(s) \in Byte
<1> DEFINE Folds(h) == h = [t \in SUBSET DOMAIN s |->
             IF t = {} THEN 0 ELSE (h[t \ {Max(t)}] + s[Max(t)]) % 256]
<1>0. 0 \in Byte /\ \A m, n \in Byte : (m + n) % 256 \in Byte
  BY ByteSum
<1>1. PICK op \in [Byte -> [Byte -> Byte]] : \A m, n \in Byte : op[m][n] = (m + n) % 256
  <2> DEFINE add == [m \in Byte |-> [n \in Byte |-> (m + n) % 256]]
  <2> HIDE DEF Byte
  <2>1. add \in [Byte -> [Byte -> Byte]]
    BY <1>0
  <2>2. \A m, n \in Byte : add[m][n] = (m + n) % 256
    OBVIOUS
  <2> QED
    BY <2>1, <2>2
<1>2. Len(s) \in Nat /\ DOMAIN s = 1 .. Len(s) /\ \A i \in 1 .. Len(s) : s[i] \in Byte
  BY LenProperties, ElementOfSeq
<1>3. PICK h \in [SUBSET DOMAIN s -> Byte] : FoldsTo(h, 0, s, op)
  <2> HIDE DEF Byte
  <2> QED
    BY <1>0, FoldDefined, Zenon
<1>4. ASSUME NEW t \in SUBSET DOMAIN s, t # {}
      PROVE  Max(t) \in DOMAIN s
  BY <1>2, <1>4, MaxInList
<1>5. Folds(h)
  <2>1. ASSUME NEW t \in SUBSET DOMAIN s, t # {}
        PROVE  h[t] = (h[t \ {Max(t)}] + s[Max(t)]) % 256
    <3>1. s[Max(t)] \in Byte /\ h[t \ {Max(t)}] \in Byte
      BY <1>2, <1>3, <1>4, <2>1
    <3>2. h[t] = op[h[t \ {Max(t)}]][s[Max(t)]]
      BY <1>3, <2>1 DEF FoldsTo
    <3> QED
      BY <1>1, <3>1, <3>2, ZenonT(30)
  <2>2. h = [t \in SUBSET DOMAIN s |-> h[t]]
    BY <1>3
  <2>3. \A t \in SUBSET DOMAIN s :
          h[t] = IF t = {} THEN 0 ELSE (h[t \ {Max(t)}] + s[Max(t)]) % 256
    BY <1>3, <2>1 DEF FoldsTo
  <2> QED
    BY <2>2, <2>3
<1>6. Checksum(s) = (CHOOSE g : Folds(g))[DOMAIN s]
  BY Zenon DEF Checksum, FoldLeft, MapThenFoldSet
<1>7. ASSUME NEW g, Folds(g)
      PROVE  \A i \in 0 .. Len(s) : g[1 .. i] \in Byte
  <2> DEFINE T == {i \in 0 .. Len(s) : g[1 .. i] \in Byte}
  <2>1. 1 .. 0 = {} /\ {} \in SUBSET DOMAIN s
    OBVIOUS
  <2>2. 0 \in T
    BY <1>0, <1>2, <1>7, <2>1
  <2>3. ASSUME NEW i \in 0 .. Len(s) - 1, i \in T PROVE i + 1 \in T
    <3>1. i + 1 \in 1 .. Len(s) /\ i + 1 - 1 = i /\ i + 1 \in 0 .. Len(s)
      BY <1>2
    <3>2. /\ 1 .. i + 1 \in SUBSET DOMAIN s /\ 1 .. i + 1 # {}
          /\ Max(1 .. i + 1) = i + 1 /\ (1 .. i + 1) \ {Max(1 .. i + 1)} = 1 .. i
      BY <3>1, FirstPositions
    <3>3. g[1 .. i + 1] = (g[1 .. i] + s[i + 1]) % 256
      BY <1>7, <3>2
    <3>4. g[1 .. i] \in Byte /\ s[i + 1] \in Byte
      BY <1>2, <2>3, <3>1
    <3>5. g[1 .. i + 1] \in Byte
      BY <1>0, <3>3, <3>4
    <3> QED
      BY <3>1, <3>5
  <2>4. \A i \in 0 .. Len(s) - 1 : i \in T => i + 1 \in T
    BY <2>3
  <2> HIDE DEF T
  <2>5. \A i \in 0 .. Len(s) : i \in T
    BY <1>2, <2>2, <2>4, UpToInduction, Zenon
  <2> QED
    BY <2>5 DEF T
<1> HIDE DEF Folds
<1>8. Folds(CHOOSE g : Folds(g))
  BY <1>5, Zenon
<1> QED
  BY <1>2, <1>6, <1>7, <1>8

\* What FromBytes makes of the bytes behind the first.
Value(first, s) == FoldLeft(LAMBDA n, byte : n * 256 + byte, first, s)

\* f has the numbers on the way.
Horner(f, first, s) ==
  /\ f[0] = first
  /\ \A i \in 1 .. Len(s) : f[i] = f[i - 1] * 256 + s[i]
  /\ Value(first, s) = f[Len(s)]

\* A number is read byte after byte.
LEMMA HornerSteps ==
  ASSUME NEW s \in Seq(Byte), NEW first \in Int
  PROVE  \E f \in [0 .. Len(s) -> Int] : Horner(f, first, s)
<1> DEFINE Folds(h) == h = [t \in SUBSET DOMAIN s |->
             IF t = {} THEN first ELSE h[t \ {Max(t)}] * 256 + s[Max(t)]]
<1>1. PICK op \in [Int -> [Byte -> Int]] : \A m \in Int, n \in Byte : op[m][n] = m * 256 + n
  <2> DEFINE shift == [m \in Int |-> [n \in Byte |-> m * 256 + n]]
  <2>1. \A m \in Int, n \in Byte : m * 256 + n \in Int
    BY DEF Byte
  <2>2. shift \in [Int -> [Byte -> Int]]
    BY <2>1
  <2>3. \A m \in Int, n \in Byte : shift[m][n] = m * 256 + n
    OBVIOUS
  <2> QED
    BY <2>2, <2>3
<1>2. Len(s) \in Nat /\ DOMAIN s = 1 .. Len(s) /\ \A i \in 1 .. Len(s) : s[i] \in Byte
  BY LenProperties, ElementOfSeq
<1>3. PICK h \in [SUBSET DOMAIN s -> Int] : FoldsTo(h, first, s, op)
  <2> HIDE DEF Byte
  <2> QED
    BY <1>1, FoldDefined, Zenon
<1>4. ASSUME NEW t \in SUBSET DOMAIN s, t # {}
      PROVE  Max(t) \in DOMAIN s
  BY <1>2, <1>4, MaxInList
<1>5. Folds(h)
  <2>1. ASSUME NEW t \in SUBSET DOMAIN s, t # {}
        PROVE  h[t] = h[t \ {Max(t)}] * 256 + s[Max(t)]
    <3>1. s[Max(t)] \in Byte /\ h[t \ {Max(t)}] \in Int
      BY <1>2, <1>3, <1>4, <2>1
    <3>2. h[t] = op[h[t \ {Max(t)}]][s[Max(t)]]
      BY <1>3, <2>1 DEF FoldsTo
    <3> QED
      BY <1>1, <3>1, <3>2, ZenonT(30)
  <2>2. h = [t \in SUBSET DOMAIN s |-> h[t]]
    BY <1>3
  <2>3. \A t \in SUBSET DOMAIN s :
          h[t] = IF t = {} THEN first ELSE h[t \ {Max(t)}] * 256 + s[Max(t)]
    BY <1>3, <2>1 DEF FoldsTo
  <2> QED
    BY <2>2, <2>3
<1>6. Value(first, s) = (CHOOSE g : Folds(g))[DOMAIN s]
  BY Zenon DEF Value, FoldLeft, MapThenFoldSet
<1> DEFINE g == CHOOSE g : Folds(g)
           f == [i \in 0 .. Len(s) |-> g[1 .. i]]
<1>7. Folds(g)
  <2> HIDE DEF Folds
  <2> QED
    BY <1>5, Zenon
<1> HIDE DEF g
<1>8. f[0] = first
  <2>1. 1 .. 0 = {} /\ {} \in SUBSET DOMAIN s /\ 0 \in 0 .. Len(s)
    BY <1>2
  <2> QED
    BY <1>7, <2>1
<1>9. ASSUME NEW i \in 1 .. Len(s) PROVE f[i] = f[i - 1] * 256 + s[i]
  <2>1. i \in 0 .. Len(s) /\ i - 1 \in 0 .. Len(s)
    BY <1>2
  <2>2. /\ 1 .. i \in SUBSET DOMAIN s /\ 1 .. i # {}
        /\ Max(1 .. i) = i /\ (1 .. i) \ {Max(1 .. i)} = 1 .. (i - 1)
    BY FirstPositions
  <2> QED
    BY <1>7, <2>1, <2>2, ZenonT(30)
<1>10. Value(first, s) = f[Len(s)]
  <2>1. f[Len(s)] = g[1 .. Len(s)]
    BY <1>2
  <2> QED
    BY <1>2, <1>6, <2>1 DEF g
<1>11. f \in [0 .. Len(s) -> Int]
  <2>5. f = [i \in 0 .. Len(s) |-> f[i]]
    OBVIOUS
  <2> HIDE DEF f, Folds
  <2>0. \A m \in Int, n \in Byte : m * 256 + n \in Int
    BY DEF Byte
  <2> DEFINE T == {i \in 0 .. Len(s) : f[i] \in Int}
  <2>1. 0 \in T
    BY <1>2, <1>8
  <2>2. ASSUME NEW i \in 0 .. Len(s) - 1, i \in T PROVE i + 1 \in T
    <3>1. i + 1 \in 1 .. Len(s) /\ i + 1 - 1 = i /\ i + 1 \in 0 .. Len(s)
      BY <1>2
    <3>2. f[i + 1] = f[i] * 256 + s[i + 1] /\ f[i] \in Int /\ s[i + 1] \in Byte
      <4>1. f[i + 1] = f[i + 1 - 1] * 256 + s[i + 1]
        BY <1>9, <3>1
      <4>2. f[i] \in Int /\ s[i + 1] \in Byte
        BY <1>2, <2>2, <3>1
      <4> QED
        BY <3>1, <4>1, <4>2
    <3>3. f[i + 1] \in Int
      BY <2>0, <3>2
    <3> QED
      BY <3>1, <3>3
  <2>3. \A i \in 0 .. Len(s) - 1 : i \in T => i + 1 \in T
    BY <2>2
  <2> HIDE DEF T
  <2>4. \A i \in 0 .. Len(s) : i \in T
    BY <1>2, <2>1, <2>3, UpToInduction, Zenon
  <2> QED
    BY <2>4, <2>5 DEF T
<1> HIDE DEF f
<1> QED
  BY <1>8, <1>9, <1>10, <1>11 DEF Horner

\* The first byte of a number has its sign.
First(b, signed) == IF signed /\ b[1] >= 128 THEN b[1] - 256 ELSE b[1]

\* The number of up to four bytes, of which the first counts as given.
Number(first, b) ==
  CASE Len(b) = 1 -> first
    [] Len(b) = 2 -> first * 256 + b[2]
    [] Len(b) = 4 -> ((first * 256 + b[2]) * 256 + b[3]) * 256 + b[4]

\* How many bytes a number has.
Sizes == {1, 2, 4}

\* Numbers of one, two and four bytes.
LEMMA FromBytesIs ==
  ASSUME NEW b \in Seq(Byte), NEW signed, Len(b) \in Sizes
  PROVE  First(b, signed) \in Int /\ FromBytes(b, signed) = Number(First(b, signed), b)
<1> DEFINE first == First(b, signed)
           t == Tail(b)
<1>1. b # << >> /\ 1 \in 1 .. Len(b) /\ Len(b) \in Nat
  BY EmptySeq DEF Sizes
<1>0. \A i \in 1 .. Len(b) : b[i] \in Int
  <2>1. \A i \in 1 .. Len(b) : b[i] \in Byte
    BY ElementOfSeq
  <2>2. \A x \in Byte : x \in Int
    BY DEF Byte
  <2> QED
    BY <2>1, <2>2
<1>2. /\ t \in Seq(Byte) /\ Len(t) = Len(b) - 1
      /\ \A i \in 1 .. Len(t) : t[i] = b[i + 1]
  BY <1>1, HeadTailProperties
<1>3. first \in Int
  <2>1. b[1] \in Int
    BY <1>0, <1>1
  <2> QED
    BY <2>1 DEF First
<1>5. FromBytes(b, signed) = Value(first, t)
  BY Zenon DEF FromBytes, First, Value
<1> HIDE DEF first, t
<1>9. PICK f \in [0 .. Len(t) -> Int] : Horner(f, first, t)
  BY <1>2, <1>3, HornerSteps
<1>4. /\ f[0] = first
      /\ \A i \in 1 .. Len(t) : f[i] = f[i - 1] * 256 + t[i]
      /\ Value(first, t) = f[Len(t)]
  BY <1>9 DEF Horner
<1>6. CASE Len(b) = 1
  <2>1. Value(first, t) = Number(first, b)
    BY <1>2, <1>3, <1>4, <1>6 DEF Number
  <2> QED
    BY <1>3, <1>5, <2>1 DEF first
<1>7. CASE Len(b) = 2
  <2>1. Len(t) = 1 /\ t[1] = b[2]
    BY <1>2, <1>7
  <2>2. f[1] = f[0] * 256 + b[2]
    BY <1>4, <2>1
  <2> QED
    <3>1. Value(first, t) = Number(first, b)
      BY <1>3, <1>4, <1>7, <2>1, <2>2 DEF Number
    <3> QED
      BY <1>3, <1>5, <3>1 DEF first
<1>8. CASE Len(b) = 4
  <2>1. Len(t) = 3 /\ t[1] = b[2] /\ t[2] = b[3] /\ t[3] = b[4]
    BY <1>2, <1>8
  <2>2. f[1] = f[0] * 256 + b[2] /\ f[2] = f[1] * 256 + b[3] /\ f[3] = f[2] * 256 + b[4]
    BY <1>4, <2>1
  <2> QED
    <3>1. Value(first, t) = Number(first, b)
      BY <1>3, <1>4, <1>8, <2>1, <2>2 DEF Number
    <3> QED
      BY <1>3, <1>5, <3>1 DEF first
<1> QED
  BY <1>3, <1>6, <1>7, <1>8 DEF first, Sizes

\* What the powers of 256 are.
LEMMA Powers == 256 ^ 0 = 1 /\ 256 ^ 1 = 256 /\ 256 ^ 2 = 65536 /\ 256 ^ 3 = 16777216
BY SMT

\* A number without its last k bytes.
Quotient(n, k) == n \div 256 ^ k

\* One byte is cut off after the other.
LEMMA Quotients ==
  ASSUME NEW n \in Int
  PROVE  /\ Quotient(n, 0) = n /\ Quotient(n, 1) = n \div 256
         /\ Quotient(n, 2) = Quotient(n, 1) \div 256
         /\ Quotient(n, 3) = Quotient(n, 2) \div 256
<1>1. n \div 1 = n /\ (n \div 256) \div 256 = n \div 65536
  BY SMT
<1>2. (n \div 65536) \div 256 = n \div 16777216
  BY SMT
<1>3. Quotient(n, 0) = n /\ Quotient(n, 1) = n \div 256
  BY <1>1, Powers, SMT DEF Quotient
<1>4. Quotient(n, 2) = n \div 65536
  BY Powers, SMT DEF Quotient
<1>5. Quotient(n, 3) = n \div 16777216
  BY Powers, SMT DEF Quotient
<1>6. Quotient(n, 2) = Quotient(n, 1) \div 256
  BY <1>1, <1>3, <1>4, SMT
<1>7. Quotient(n, 3) = Quotient(n, 2) \div 256
  BY <1>2, <1>4, <1>5, SMT
<1> QED
  BY <1>3, <1>6, <1>7

\* The byte cut off.
LEMMA Remainder ==
  ASSUME NEW m \in Int
  PROVE  m \div 256 \in Int /\ m = (m \div 256) * 256 + (m % 256) /\ m % 256 \in Byte
<1>1. m \div 256 \in Int /\ m = (m \div 256) * 256 + (m % 256)
  BY SMT
<1>2. m % 256 \in Byte
  BY SMT DEF Byte
<1> QED
  BY <1>1, <1>2

\* All of these are numbers.
LEMMA QuotientType ==
  ASSUME NEW n \in Int
  PROVE  \A k \in 0 .. 3 : Quotient(n, k) \in Int
<1> DEFINE q(k) == Quotient(n, k)
<1>1. q(0) \in Int
  BY Quotients
<1>2. /\ q(1) = q(0) \div 256 /\ q(2) = q(1) \div 256 /\ q(3) = q(2) \div 256
  BY Quotients
<1> HIDE DEF q
<1>3. q(1) \in Int
  BY <1>1, <1>2, Remainder
<1>4. q(2) \in Int
  BY <1>2, <1>3, Remainder
<1>5. q(3) \in Int
  BY <1>2, <1>4, Remainder
<1>6. \A k \in 0 .. 3 : k = 0 \/ k = 1 \/ k = 2 \/ k = 3
  OBVIOUS
<1>7. \A k \in 0 .. 3 : q(k) \in Int
  BY <1>1, <1>3, <1>4, <1>5, <1>6
<1> QED
  BY <1>7 DEF q

\* What has been cut off can be put back.
LEMMA QuotientSteps ==
  ASSUME NEW n \in Int
  PROVE  /\ Quotient(n, 0) = n
         /\ Quotient(n, 0) = Quotient(n, 1) * 256 + (Quotient(n, 0) % 256)
         /\ Quotient(n, 1) = Quotient(n, 2) * 256 + (Quotient(n, 1) % 256)
         /\ Quotient(n, 2) = Quotient(n, 3) * 256 + (Quotient(n, 2) % 256)
<1>1. Quotient(n, 0) \in Int /\ Quotient(n, 1) \in Int /\ Quotient(n, 2) \in Int
  BY QuotientType
<1>2. /\ Quotient(n, 0) = n /\ Quotient(n, 1) = Quotient(n, 0) \div 256
      /\ Quotient(n, 2) = Quotient(n, 1) \div 256 /\ Quotient(n, 3) = Quotient(n, 2) \div 256
  BY Quotients
<1> DEFINE m0 == Quotient(n, 0)
           m1 == Quotient(n, 1)
           m2 == Quotient(n, 2)
<1>3. m0 \in Int /\ m1 \in Int /\ m2 \in Int
  BY <1>1
<1> HIDE DEF m0, m1, m2
<1>4. m0 = (m0 \div 256) * 256 + (m0 % 256)
  BY <1>3, Remainder
<1>5. m1 = (m1 \div 256) * 256 + (m1 % 256)
  BY <1>3, Remainder
<1>6. m2 = (m2 \div 256) * 256 + (m2 % 256)
  BY <1>3, Remainder
<1> QED
  BY <1>2, <1>4, <1>5, <1>6 DEF m0, m1, m2

\* The bytes of a number.
LEMMA ToBytesIs ==
  ASSUME NEW n \in Int, NEW w \in Sizes
  PROVE  /\ ToBytes(n, w) \in Seq(Byte) /\ Len(ToBytes(n, w)) = w
         /\ \A i \in 1 .. w : ToBytes(n, w)[i] = Quotient(n, w - i) % 256
<1>1. ASSUME NEW i \in 1 .. w PROVE Quotient(n, w - i) % 256 \in Byte
  <2>1. w - i \in 0 .. 3
    BY DEF Sizes
  <2>2. Quotient(n, w - i) \in Int
    BY <2>1, QuotientType
  <2> QED
    BY <2>2, Remainder
<1> DEFINE b == [i \in 1 .. w |-> Quotient(n, w - i) % 256]
<1>2. b \in [1 .. w -> Byte]
  BY <1>1
<1>3. w \in Nat
  BY DEF Sizes
<1>6. ToBytes(n, w) = b
  BY Zenon DEF ToBytes, Quotient
<1>4. \A i \in 1 .. w : b[i] = Quotient(n, w - i) % 256
  OBVIOUS
<1> HIDE DEF b
<1>5. b \in Seq(Byte) /\ Len(b) = w
  BY <1>2, <1>3, FunctionIsSeq
<1> QED
  BY <1>4, <1>5, <1>6, ZenonT(30)

\* The first byte, if it stands for a number in its range.
LEMMA FirstIs ==
  ASSUME NEW m, NEW b, b[1] = m % 256, NEW signed \in BOOLEAN,
         m \in IF signed THEN -128 .. 127 ELSE Byte
  PROVE  First(b, signed) = m
<1>1. CASE signed
  <2>1. m \in -128 .. 127
    BY <1>1
  <2>2. (IF m % 256 >= 128 THEN (m % 256) - 256 ELSE m % 256) = m
    BY <2>1, SMT
  <2> QED
    BY <1>1, <2>2 DEF First
<1>2. CASE ~ signed
  <2>1. m \in 0 .. 255
    BY <1>2 DEF Byte
  <2>2. m % 256 = m
    BY <2>1, SMT
  <2> QED
    BY <1>2, <2>2 DEF First
<1> QED
  BY <1>1, <1>2

\* The bytes of a number behind the first make it up again.
LEMMA NumberOf ==
  ASSUME NEW n \in Int, NEW w \in Sizes, NEW b \in Seq(Byte), Len(b) = w,
         \A i \in 1 .. w : b[i] = Quotient(n, w - i) % 256
  PROVE  Number(Quotient(n, w - 1), b) = n
<1>1. /\ Quotient(n, 0) = n
      /\ Quotient(n, 0) = Quotient(n, 1) * 256 + (Quotient(n, 0) % 256)
      /\ Quotient(n, 1) = Quotient(n, 2) * 256 + (Quotient(n, 1) % 256)
      /\ Quotient(n, 2) = Quotient(n, 3) * 256 + (Quotient(n, 2) % 256)
  BY QuotientSteps
<1>2. CASE w = 1
  BY <1>1, <1>2 DEF Number
<1>3. CASE w = 2
  <2>1. b[2] = Quotient(n, 0) % 256
    BY <1>3
  <2> QED
    BY <1>1, <1>3, <2>1 DEF Number
<1>4. CASE w = 4
  <2>1. b[2] = Quotient(n, 2) % 256 /\ b[3] = Quotient(n, 1) % 256 /\ b[4] = Quotient(n, 0) % 256
    BY <1>4
  <2>2. Number(Quotient(n, 3), b) = ((Quotient(n, 3) * 256 + b[2]) * 256 + b[3]) * 256 + b[4]
    BY <1>4 DEF Number
  <2>3. Quotient(n, 3) * 256 + b[2] = Quotient(n, 2)
    BY <1>1, <2>1
  <2>4. Quotient(n, 2) * 256 + b[3] = Quotient(n, 1)
    BY <1>1, <2>1
  <2> QED
    BY <1>1, <1>4, <2>1, <2>2, <2>3, <2>4
<1> QED
  BY <1>2, <1>3, <1>4 DEF Sizes

\* A number that fits is read back as it was.
LEMMA ReadNumber ==
  ASSUME NEW n \in Int, NEW w \in Sizes, NEW signed \in BOOLEAN,
         Fitting(n, w, signed)
  PROVE  FromBytes(ToBytes(n, w), signed) = n
<1>1. Quotient(n, w - 1) \in IF signed THEN -128 .. 127 ELSE Byte
  BY Zenon DEF Quotient, Fitting
<1>2. /\ ToBytes(n, w) \in Seq(Byte) /\ Len(ToBytes(n, w)) = w
      /\ \A i \in 1 .. w : ToBytes(n, w)[i] = Quotient(n, w - i) % 256
  BY ToBytesIs
<1>3. PICK b : b = ToBytes(n, w)
  OBVIOUS
<1>4. b \in Seq(Byte) /\ Len(b) = w /\ \A i \in 1 .. w : b[i] = Quotient(n, w - i) % 256
  BY <1>2, <1>3
<1>5. First(b, signed) = Quotient(n, w - 1)
  <2>1. 1 \in 1 .. w
    BY DEF Sizes
  <2>2. b[1] = Quotient(n, w - 1) % 256
    BY <1>4, <2>1
  <2> QED
    BY <1>1, <2>2, FirstIs
<1>6. FromBytes(b, signed) = Number(Quotient(n, w - 1), b)
  <2>1. Len(b) \in Sizes /\ b \in Seq(Byte)
    BY <1>4
  <2>2. FromBytes(b, signed) = Number(First(b, signed), b)
    BY <2>1, FromBytesIs, Zenon
  <2> QED
    BY <1>5, <2>2
<1>7. Number(Quotient(n, w - 1), b) = n
  <2>1. b \in Seq(Byte) /\ Len(b) = w
    BY <1>4, Zenon
  <2>2. \A i \in 1 .. w : b[i] = Quotient(n, w - i) % 256
    BY <1>4, Zenon
  <2> QED
    BY <2>1, <2>2, NumberOf, SMTT(30)
<1> QED
  BY <1>3, <1>6, <1>7

-----------------------------------------------------------------------------
(* Segments and the getters. *)

\* The keys for numbers.
NumberKeys == {"d", "u", "h", "g", "b", "c"}

\* What the keys say.
LEMMA KeyFacts ==
  /\ \A key \in Keys : key = "s" \/ key \in Floats \/ key \in NumberKeys
  /\ \A key \in NumberKeys :
       /\ key # "s" /\ key \notin Floats /\ Widths[key] \in Sizes
       /\ IsSigned(key) \in BOOLEAN /\ (IsSigned(key) <=> key \in {"d", "h", "b"})
  /\ \A key \in Floats : key # "s" /\ Widths[key] \in Nat
BY DEF Keys, Widths, Floats, NumberKeys, Sizes, IsSigned

\* A number has the width of its key and is read back.
LEMMA ReadSegmentNumber ==
  ASSUME NEW key \in NumberKeys, NEW arg, Fits(key, arg)
  PROVE  /\ Segment(key, arg) \in Seq(Byte) /\ Len(Segment(key, arg)) = Widths[key]
         /\ FromBytes(Segment(key, arg), IsSigned(key)) = arg
<1>1. key # "s" /\ key \notin Floats /\ Widths[key] \in Sizes
  BY KeyFacts
<1>2. Segment(key, arg) = ToBytes(arg, Widths[key])
  BY <1>1 DEF Segment
<1>6. key \notin Floats \cup {"s"}
  BY <1>1
<1>3. arg \in Int /\ Fitting(arg, Widths[key], IsSigned(key)) /\ IsSigned(key) \in BOOLEAN
  <2>1. arg \in Int /\ Fitting(arg, Widths[key], key \in {"d", "h", "b"})
    BY <1>6, Zenon DEF Fits
  <2>2. Fitting(arg, Widths[key], IsSigned(key))
    BY <2>1, Zenon DEF IsSigned
  <2> QED
    BY <2>1, <2>2, KeyFacts, Zenon
<1>4. ToBytes(arg, Widths[key]) \in Seq(Byte) /\ Len(ToBytes(arg, Widths[key])) = Widths[key]
  BY <1>1, <1>3, ToBytesIs
<1>5. FromBytes(ToBytes(arg, Widths[key]), IsSigned(key)) = arg
  BY <1>1, <1>3, ReadNumber, Zenon
<1> QED
  BY <1>2, <1>4, <1>5

\* A length in two bytes.
LEMMA LengthBytes ==
  ASSUME NEW n \in Nat, Fitting(n, 2, FALSE)
  PROVE  /\ ToBytes(n, 2) \in Seq(Byte) /\ Len(ToBytes(n, 2)) = 2
         /\ FromBytes(ToBytes(n, 2), FALSE) = n
<1>1. n \in Int /\ 2 \in Sizes /\ FALSE \in BOOLEAN
  BY DEF Sizes
<1>2. FromBytes(ToBytes(n, 2), FALSE) = n
  BY <1>1, ReadNumber, Zenon
<1> QED
  BY <1>1, <1>2, ToBytesIs, ZenonT(30)

\* A segment is a list of bytes.
LEMMA SegmentType ==
  ASSUME NEW key \in Keys, NEW arg, Fits(key, arg)
  PROVE  Segment(key, arg) \in Seq(Byte)
<1>1. CASE key \in NumberKeys
  BY <1>1, ReadSegmentNumber
<1>2. CASE key = "s"
  <2>1. arg \in Seq(Byte) /\ Fitting(Len(arg), 2, FALSE)
    BY <1>2, Zenon DEF Fits
  <2>2. Len(arg) \in Nat
    BY <2>1, LenProperties
  <2>3. ToBytes(Len(arg), 2) \in Seq(Byte)
    BY <2>1, <2>2, LengthBytes
  <2>4. ToBytes(Len(arg), 2) \o arg \in Seq(Byte)
    BY <2>1, <2>3, ConcatProperties
  <2> QED
    BY <1>2, <2>4 DEF Segment
<1>3. CASE key \in Floats
  <2>1. Widths[key] \in Nat /\ key # "s"
    BY <1>3, KeyFacts
  <2>2. arg \in [1 .. Widths[key] -> Byte]
    BY <1>3, <2>1 DEF Fits
  <2>3. arg \in Seq(Byte)
    BY <2>1, <2>2, FunctionIsSeq
  <2> QED
    BY <1>3, <2>1, <2>3 DEF Segment
<1> QED
  BY <1>1, <1>2, <1>3, KeyFacts

\* A board's String of bytes without 0.
LEMMA CStringIs ==
  ASSUME NEW arg \in Seq(Byte), 0 \notin Range(arg)
  PROVE  CString(arg) = arg
<1>1. DOMAIN arg = 1 .. Len(arg)
  BY LenProperties
<1>2. {i \in 1 .. Len(arg) : arg[i] = 0} = {}
  BY <1>1 DEF Range
<1>3. Zero(arg) = 0
  BY <1>2 DEF Zero, SelectInSeq
<1> QED
  BY <1>3 DEF CString

\* How a string is written.
LEMMA StringSegment ==
  ASSUME NEW arg
  PROVE  Segment("s", arg) = ToBytes(Len(arg), 2) \o arg
BY DEF Segment, Floats

\* A string behind its length is found there.
LEMMA ReadString ==
  ASSUME NEW arg \in Seq(Byte), Fitting(Len(arg), 2, FALSE), NEW more \in Seq(Byte), NEW rest,
         rest = (ToBytes(Len(arg), 2) \o arg) \o more
  PROVE  /\ Len(ToBytes(Len(arg), 2) \o arg) = Len(arg) + 2
         /\ FromBytes(SubSeq(rest, 1, 2), FALSE) = Len(arg)
         /\ SubSeq(rest, 3, Len(arg) + 2) = arg
<1>1. Len(arg) \in Nat
  BY LenProperties
<1>2. PICK front : front = ToBytes(Len(arg), 2)
  OBVIOUS
<1>3. FromBytes(front, FALSE) = Len(arg)
  BY <1>1, <1>2, LengthBytes, Zenon
<1>4. front \in Seq(Byte) /\ Len(front) = 2
  BY <1>1, <1>2, LengthBytes, Zenon
<1>5. Len(front \o arg) = Len(front) + Len(arg)
  BY <1>4, ConcatProperties
<1>6. /\ SubSeq((front \o arg) \o more, 1, Len(front)) = front
      /\ SubSeq((front \o arg) \o more, Len(front) + 1, Len(front) + Len(arg)) = arg
  <2>1. front \in Seq(Byte)
    BY <1>4
  <2> HIDE DEF Byte
  <2> QED
    BY <2>1, ConcatMiddle
<1>7. rest = (front \o arg) \o more
  BY <1>2, Zenon
<1>8. SubSeq(rest, 1, 2) = front /\ SubSeq(rest, 3, Len(arg) + 2) = arg
  <2>1. Len(front) + 1 = 3 /\ Len(front) + Len(arg) = Len(arg) + 2
    BY <1>1, <1>4
  <2> QED
    BY <1>4, <1>6, <1>7, <2>1, Zenon
<1>9. Len(front \o arg) = Len(arg) + 2
  BY <1>1, <1>4, <1>5
<1> QED
  BY <1>2, <1>3, <1>8, <1>9, Zenon

\* A getter gives the argument whose segment is in front, and moves behind it.
Reads(end, key, arg, more, values) ==
  GetNext(end, [values |-> values, rest |-> Segment(key, arg) \o more], key) =
    [values |-> Append(values, arg), rest |-> more]

\* It does so for what is readable.
LEMMA GetNextIs ==
  ASSUME NEW end, NEW key \in Keys, NEW arg, Fits(key, arg),
         Readable(end, key, arg), NEW more \in Seq(Byte), NEW values
  PROVE  Reads(end, key, arg, more, values)
<1> DEFINE segment == Segment(key, arg)
           rest == segment \o more
           next == IF key = "s" THEN GetString(end, rest) ELSE GetNumber(key, rest)
<1>1. segment \in Seq(Byte)
  BY SegmentType
<1>2. GetNext(end, [values |-> values, rest |-> rest], key) =
        [values |-> Append(values, next.value),
         rest |-> SubSeq(rest, next.width + 1, Len(rest))]
  BY DEF GetNext
<1> HIDE DEF segment, rest
<1>3. /\ rest \in Seq(Byte) /\ Len(rest) = Len(segment) + Len(more)
      /\ SubSeq(rest, 1, Len(segment)) = segment
      /\ SubSeq(rest, Len(segment) + 1, Len(rest)) = more
  BY <1>1, ConcatParts DEF rest
<1>4. next.value = arg /\ next.width = Len(segment)
  <2>1. CASE key \in NumberKeys
    <3>1. key # "s" /\ key \notin Floats
      BY <2>1, KeyFacts
    <3>2. Len(segment) = Widths[key] /\ FromBytes(segment, IsSigned(key)) = arg
      BY <2>1, ReadSegmentNumber DEF segment
    <3>3. SubSeq(rest, 1, Widths[key]) = segment
      BY <1>3, <3>2
    <3>4. GetNumber(key, rest) = [value |-> arg, width |-> Widths[key]]
      BY <3>1, <3>2, <3>3 DEF GetNumber
    <3> QED
      BY <3>1, <3>2, <3>4
  <2>2. CASE key \in Floats
    <3>1. key # "s" /\ Widths[key] \in Nat
      BY <2>2, KeyFacts
    <3>2. arg \in [1 .. Widths[key] -> Byte] /\ segment = arg
      BY <2>2, <3>1 DEF Fits, Segment, segment
    <3>3. Len(segment) = Widths[key]
      BY <3>1, <3>2, FunctionIsSeq
    <3>4. SubSeq(rest, 1, Widths[key]) = arg
      BY <1>3, <3>2, <3>3
    <3>5. GetNumber(key, rest) = [value |-> arg, width |-> Widths[key]]
      BY <2>2, <3>4 DEF GetNumber
    <3> QED
      BY <3>1, <3>3, <3>5
  <2>3. CASE key = "s"
    <3>1. arg \in Seq(Byte) /\ Fitting(Len(arg), 2, FALSE)
      BY <2>3, Zenon DEF Fits
    <3>2. Len(arg) \in Nat /\ Len(more) \in Nat
      BY <3>1, LenProperties
    <3>3. segment = ToBytes(Len(arg), 2) \o arg
      <4>1. Segment("s", arg) = ToBytes(Len(arg), 2) \o arg
        BY StringSegment
      <4> QED
        BY <2>3, <4>1, Zenon DEF segment
    <3>4. rest = (ToBytes(Len(arg), 2) \o arg) \o more
      BY <3>3, Zenon DEF rest
    <3>5. /\ Len(segment) = Len(arg) + 2
          /\ FromBytes(SubSeq(rest, 1, 2), FALSE) = Len(arg)
          /\ SubSeq(rest, 3, Len(arg) + 2) = arg
      BY <3>1, <3>3, <3>4, ReadString, Zenon
    <3>9. end = "board" /\ CString(arg) = arg
      BY <2>3, <3>1, CStringIs DEF Readable, FitsString
    <3>10. GetString(end, rest) = [value |-> arg, width |-> Len(arg) + 2]
      BY <3>5, <3>9 DEF GetString
    <3> QED
      BY <2>3, <3>5, <3>10
  <2> QED
    BY <2>1, <2>2, <2>3, KeyFacts
<1> QED
  BY <1>2, <1>3, <1>4 DEF rest, segment, Reads

-----------------------------------------------------------------------------
(* Data: segments one behind another. *)

\* What is left of the lists in ss behind the i-th.
Rests(r, ss) ==
  r[Len(ss)] = << >> /\ \A i \in 1 .. Len(ss) : r[i - 1] = ss[i] \o r[i]

\* A flattened list of lists begins with the first, and so on.
LEMMA FlattenIs ==
  ASSUME NEW B, NEW ss \in Seq(Seq(B))
  PROVE  \E r \in [0 .. Len(ss) -> Seq(B)] : Rests(r, ss) /\ r[0] = FlattenSeq(ss)
<1> DEFINE n == Len(ss)
           before == [i \in 1 .. n |-> [s \in Seq(B) |-> s \o ss[i]]]
           behind == [j \in 1 .. n |-> [s \in Seq(B) |-> ss[n - j + 1] \o s]]
           F(g) == g = [i \in 1 .. n |-> IF i = 1 THEN ss[i] ELSE g[i - 1] \o ss[i]]
<1>1. n \in Nat /\ \A i \in 1 .. n : ss[i] \in Seq(B)
  BY LenProperties, ElementOfSeq
<1>2. << >> \in Seq(B) /\ \A s, t \in Seq(B) : s \o t \in Seq(B)
  BY EmptySeq, ConcatProperties
<1> HIDE DEF n
<1>3. before \in [1 .. n -> [Seq(B) -> Seq(B)]]
  BY <1>1, <1>2
<1>4. behind \in [1 .. n -> [Seq(B) -> Seq(B)]]
  <2>1. \A j \in 1 .. n : n - j + 1 \in 1 .. n
    BY <1>1
  <2> QED
    BY <1>1, <1>2, <2>1
<1>5. PICK d \in [0 .. n -> Seq(B)] : Iterated(d, n, << >>, before)
  <2> HIDE DEF before
  <2> QED
    BY <1>1, <1>2, <1>3, Iterates
<1>6. PICK e \in [0 .. n -> Seq(B)] : Iterated(e, n, << >>, behind)
  <2> HIDE DEF behind
  <2> QED
    BY <1>1, <1>2, <1>4, Iterates
<1>7. d[0] = << >> /\ \A i \in 1 .. n : d[i - 1] \in Seq(B) /\ d[i] = d[i - 1] \o ss[i]
  <2>1. d[0] = << >>
    BY <1>5 DEF Iterated
  <2>2. ASSUME NEW i \in 1 .. n PROVE d[i - 1] \in Seq(B) /\ d[i] = d[i - 1] \o ss[i]
    <3>1. i - 1 \in 0 .. n
      BY <1>1
    <3>2. d[i - 1] \in Seq(B) /\ d[i] = before[i][d[i - 1]]
      BY <1>5, <3>1 DEF Iterated
    <3> QED
      BY <3>2
  <2> QED
    BY <2>1, <2>2
<1>h. \A s, t, u \in Seq(B) : (s \o t) \o u = s \o (t \o u)
  BY ConcatAssociative, SMTT(30)
<1>f. \A i \in 0 .. n - 1 : d[i + 1] = d[i] \o ss[i + 1]
  <2> TAKE i \in 0 .. n - 1
  <2>1. PICK j \in 1 .. n : j = i + 1 /\ j - 1 = i
    BY <1>1
  <2>2. d[j] = d[j - 1] \o ss[j]
    BY <1>7
  <2> QED
    BY <2>1, <2>2
<1> DEFINE r == [i \in 0 .. n |-> e[n - i]]
<1>8. r \in [0 .. n -> Seq(B)]
  <2>1. \A i \in 0 .. n : n - i \in 0 .. n
    BY <1>1
  <2> QED
    BY <1>6, <2>1
<1>9. r[n] = << >> /\ \A i \in 1 .. n : r[i - 1] = ss[i] \o r[i]
  <2>1. r[n] = << >>
    <3>1. n \in 0 .. n /\ n - n = 0
      BY <1>1
    <3> QED
      BY <1>6, <3>1 DEF Iterated
  <2>2. ASSUME NEW i \in 1 .. n PROVE r[i - 1] = ss[i] \o r[i]
    <3>1. /\ i \in 0 .. n /\ i - 1 \in 0 .. n /\ n - i + 1 \in 1 .. n /\ n - (n - i + 1) + 1 = i
          /\ n - (i - 1) = n - i + 1 /\ (n - i + 1) - 1 = n - i /\ n - i \in 0 .. n
      BY <1>1
    <3>2. e[n - i] \in Seq(B) /\ e[n - i + 1] = behind[n - i + 1][e[n - i]]
      BY <1>6, <3>1 DEF Iterated
    <3>3. e[n - i + 1] = ss[i] \o e[n - i]
      BY <3>1, <3>2
    <3> QED
      BY <3>1, <3>3
  <2> QED
    BY <2>1, <2>2
<1> HIDE DEF r, before, behind
<1>g. \A i \in 0 .. n - 1 : r[i] = ss[i + 1] \o r[i + 1]
  <2> TAKE i \in 0 .. n - 1
  <2>1. PICK j \in 1 .. n : j = i + 1 /\ j - 1 = i
    BY <1>1
  <2>2. r[j - 1] = ss[j] \o r[j]
    BY <1>9
  <2> QED
    BY <2>1, <2>2
<1>10. \A i \in 0 .. n : i \in {k \in 0 .. n : d[k] \o r[k] = r[0]}
  <2> DEFINE T == {k \in 0 .. n : d[k] \o r[k] = r[0]}
  <2>1. 0 \in T
    <3>1. r[0] \in Seq(B) /\ 0 \in 0 .. n
      BY <1>1, <1>8
    <3>2. << >> \o r[0] = r[0]
      BY <3>1, ConcatEmptySeq
    <3> QED
      BY <1>7, <3>1, <3>2
  <2>2. ASSUME NEW i \in 0 .. n - 1, i \in T PROVE i + 1 \in T
    <3>1. i + 1 \in 1 .. n /\ i + 1 - 1 = i /\ i + 1 \in 0 .. n /\ i \in 0 .. n
      BY <1>1
    <3>2. d[i + 1] = d[i] \o ss[i + 1] /\ r[i] = ss[i + 1] \o r[i + 1]
      BY <1>f, <1>g
    <3>3. d[i] \in Seq(B) /\ ss[i + 1] \in Seq(B) /\ r[i + 1] \in Seq(B)
      BY <1>1, <1>8, <3>1
    <3>4. (d[i] \o ss[i + 1]) \o r[i + 1] = d[i] \o (ss[i + 1] \o r[i + 1])
      BY <1>h, <3>3, Zenon
    <3>5. d[i + 1] \o r[i + 1] = d[i] \o r[i]
      BY <3>2, <3>4, Zenon
    <3>6. d[i] \o r[i] = r[0]
      BY <2>2
    <3> QED
      BY <3>1, <3>5, <3>6
  <2>3. \A i \in 0 .. n - 1 : i \in T => i + 1 \in T
    BY <2>2
  <2> HIDE DEF T
  <2>4. \A i \in 0 .. n : i \in T
    BY <1>1, <2>1, <2>3, UpToInduction, Zenon
  <2> QED
    BY <2>4 DEF T
<1>11. d[n] = r[0]
  <2>1. n \in 0 .. n
    BY <1>1
  <2>2. d[n] \o r[n] = r[0] /\ d[n] \in Seq(B)
    BY <1>10, <2>1
  <2>3. d[n] \o << >> = d[n]
    BY <2>2, ConcatEmptySeq
  <2> QED
    BY <1>9, <2>2, <2>3
<1>12. FlattenSeq(ss) = r[0]
  <2>1. CASE n = 0
    <3>1. ss = << >>
      BY <2>1, EmptySeq DEF n
    <3>2. FlattenSeq(ss) = ss
      BY <2>1, Zenon DEF FlattenSeq, n
    <3> QED
      BY <1>7, <1>11, <2>1, <3>1, <3>2
  <2>2. CASE n # 0
    <3>1. FlattenSeq(ss) = (CHOOSE g : F(g))[n]
      BY <2>2, Zenon DEF FlattenSeq, n
    <3>2. F([i \in 1 .. n |-> d[i]])
      <4> DEFINE h == [i \in 1 .. n |-> d[i]]
      <4>1. ASSUME NEW i \in 1 .. n PROVE d[i] = IF i = 1 THEN ss[i] ELSE h[i - 1] \o ss[i]
        <5>1. CASE i = 1
          <6>1. << >> \o ss[1] = ss[1]
            BY <1>1, <5>1, ConcatEmptySeq
          <6>2. 0 \in 0 .. n - 1 /\ 0 + 1 = 1
            BY <1>1, <2>2
          <6>3. d[1] = d[0] \o ss[1]
            BY <1>f, <6>2
          <6> QED
            BY <1>7, <5>1, <6>1, <6>3
        <5>2. CASE i # 1
          <6>1. i - 1 \in 1 .. n
            BY <1>1, <5>2
          <6> QED
            BY <1>7, <5>2, <6>1
        <5> QED
          BY <5>1, <5>2
      <4> QED
        BY <4>1
    <3>3. ASSUME NEW g, F(g) PROVE g[n] = d[n]
      <4> DEFINE T == {i \in 0 .. n : i = 0 \/ g[i] = d[i]}
      <4>1. 0 \in T
        BY <1>1
      <4>2. ASSUME NEW i \in 0 .. n - 1, i \in T PROVE i + 1 \in T
        <5>1. i + 1 \in 1 .. n /\ i + 1 - 1 = i /\ i + 1 \in 0 .. n
          BY <1>1
        <5>2. g[i + 1] = IF i + 1 = 1 THEN ss[i + 1] ELSE g[i] \o ss[i + 1]
          <6>1. PICK j \in 1 .. n : j = i + 1 /\ j - 1 = i
            BY <1>1
          <6>2. g[j] = IF j = 1 THEN ss[j] ELSE g[j - 1] \o ss[j]
            BY <3>3
          <6> QED
            BY <6>1, <6>2
        <5>3. d[i + 1] = d[i] \o ss[i + 1]
          BY <1>f
        <5>4. g[i + 1] = d[i + 1]
          <6>1. CASE i = 0
            <7>1. << >> \o ss[1] = ss[1]
              BY <1>1, <5>1, <6>1, ConcatEmptySeq
            <7>2. g[1] = ss[1] /\ d[1] = d[0] \o ss[1]
              <8>1. i + 1 = 1
                BY <6>1
              <8> QED
                BY <5>2, <5>3, <6>1, <8>1, Zenon
            <7> QED
              BY <1>7, <6>1, <7>1, <7>2
          <6>2. CASE i # 0
            <7>1. i + 1 # 1 /\ g[i] = d[i]
              BY <4>2, <6>2
            <7> QED
              BY <5>2, <5>3, <7>1
          <6> QED
            BY <6>1, <6>2
        <5> QED
          BY <5>1, <5>4
      <4>3. \A i \in 0 .. n - 1 : i \in T => i + 1 \in T
        BY <4>2
      <4> HIDE DEF T
      <4>4. \A i \in 0 .. n : i \in T
        BY <1>1, <4>1, <4>3, UpToInduction, Zenon
      <4> QED
        BY <1>1, <2>2, <4>4 DEF T
    <3> HIDE DEF F
    <3>4. F(CHOOSE g : F(g))
      BY <3>2, Zenon
    <3> QED
      BY <1>11, <3>1, <3>3, <3>4
  <2> QED
    BY <2>1, <2>2
<1>13. Rests(r, ss)
  BY <1>9 DEF Rests, n
<1> QED
  BY <1>8, <1>12, <1>13 DEF n

\* Data are the segments of the arguments; r is what is left behind each of them.
Segments(r, formats, args) ==
  /\ r[0] = Data(formats, args) /\ r[Len(formats)] = << >>
  /\ \A i \in 1 .. Len(formats) : r[i - 1] = Segment(formats[i], args[i]) \o r[i]

\* There is such a function.
LEMMA DataIs ==
  ASSUME NEW formats \in Seq(Keys), NEW args,
         \A i \in 1 .. Len(formats) : Fits(formats[i], args[i])
  PROVE  \E r \in [0 .. Len(formats) -> Seq(Byte)] : Segments(r, formats, args)
<1> DEFINE n == Len(formats)
<1> DEFINE ss == [i \in DOMAIN formats |-> Segment(formats[i], args[i])]
<1>1. n \in Nat /\ DOMAIN formats = 1 .. n /\ \A i \in 1 .. n : formats[i] \in Keys
  BY LenProperties, ElementOfSeq
<1>2. \A i \in 1 .. n : Segment(formats[i], args[i]) \in Seq(Byte)
  BY <1>1, SegmentType
<1>3. ss \in [1 .. n -> Seq(Byte)] /\ \A i \in 1 .. n : ss[i] = Segment(formats[i], args[i])
  BY <1>1, <1>2
<1>4. Data(formats, args) = FlattenSeq(ss)
  BY Zenon DEF Data
<1> HIDE DEF ss
<1>5. ss \in Seq(Seq(Byte)) /\ Len(ss) = n
  BY <1>1, <1>3, FunctionIsSeq
<1>6. PICK r \in [0 .. Len(ss) -> Seq(Byte)] : Rests(r, ss) /\ r[0] = FlattenSeq(ss)
  BY <1>5, FlattenIs
<1>7. r[n] = << >> /\ \A i \in 1 .. n : r[i - 1] = ss[i] \o r[i]
  BY <1>5, <1>6 DEF Rests
<1>8. \A i \in 1 .. n : r[i - 1] = Segment(formats[i], args[i]) \o r[i]
  BY <1>3, <1>7
<1>9. r \in [0 .. n -> Seq(Byte)] /\ r[0] = Data(formats, args)
  BY <1>4, <1>5, <1>6
<1> QED
  BY <1>7, <1>8, <1>9 DEF Segments

\* Data are bytes.
LEMMA DataType ==
  ASSUME NEW formats \in Seq(Keys), NEW args,
         \A i \in 1 .. Len(formats) : Fits(formats[i], args[i])
  PROVE  Data(formats, args) \in Seq(Byte)
<1>1. PICK r \in [0 .. Len(formats) -> Seq(Byte)] : Segments(r, formats, args)
  BY DataIs
<1> QED
  BY <1>1, LenProperties DEF Segments

\* The arguments up to the i-th.
LEMMA OneMore ==
  ASSUME NEW A, NEW s \in Seq(A), NEW i \in 1 .. Len(s)
  PROVE  SubSeq(s, 1, i) = Append(SubSeq(s, 1, i - 1), s[i])
<1>1. Len(s) \in Nat /\ s[i] \in A /\ 1 \in 1 .. Len(s) /\ i \in 1 .. Len(s)
  BY LenProperties, ElementOfSeq
<1>2. SubSeq(s, 1, i) = SubSeq(s, 1, i - 1) \o <<s[i]>>
  BY <1>1, SubSeqRecursiveSecond
<1>3. SubSeq(s, 1, i - 1) \in Seq(A)
  <2>1. i - 1 \in 0 .. Len(s)
    BY <1>1
  <2> QED
    BY <2>1, SplitFacts
<1> QED
  BY <1>1, <1>2, <1>3, AppendIsConcat

\* The getters give the arguments the data were made of and no byte is left: whatever the
\* numbers, strings and floats are, if the host gets no string and the board none with a 0
\* in it or of more than the 15 bytes that to_string has room for.
THEOREM GettersReadBack ==
  ASSUME NEW end, NEW formats \in Seq(Keys), NEW A, NEW args \in Seq(A),
         Len(args) = Len(formats),
         \A i \in 1 .. Len(formats) :
           Fits(formats[i], args[i]) /\ Readable(end, formats[i], args[i])
  PROVE  Get(end, Data(formats, args), formats) = [values |-> args, rest |-> << >>]
<1>1. PICK n : n = Len(formats)
  OBVIOUS
<1>2. n \in Nat /\ Len(args) = n /\ \A i \in 1 .. n : formats[i] \in Keys
  BY <1>1, LenProperties, ElementOfSeq
<1>12. PICK r \in [0 .. Len(formats) -> Seq(Byte)] : Segments(r, formats, args)
  <2>1. \A i \in 1 .. Len(formats) : Fits(formats[i], args[i])
    OBVIOUS
  <2> QED
    BY <2>1, DataIs
<1>3. /\ r \in [0 .. n -> Seq(Byte)]
      /\ r[0] = Data(formats, args) /\ r[n] = << >>
      /\ \A i \in 1 .. n : r[i - 1] = Segment(formats[i], args[i]) \o r[i]
  BY <1>1, <1>12 DEF Segments
<1> DEFINE data == Data(formats, args)
           G(g) == g = [i \in 0 .. n |-> IF i = 0 THEN [values |-> << >>, rest |-> data]
                                         ELSE GetNext(end, g[i - 1], formats[i])]
           read == [i \in 0 .. n |-> [values |-> SubSeq(args, 1, i), rest |-> r[i]]]
<1>4. Get(end, data, formats) = (CHOOSE g : G(g))[n]
  BY <1>1, Zenon DEF Get
<1>5. read[0] = [values |-> << >>, rest |-> data]
  <2>1. SubSeq(args, 1, 0) = << >> /\ 0 \in 0 .. n
    BY <1>2, SubSeqEmpty
  <2> QED
    BY <1>3, <2>1
<1>6. ASSUME NEW i \in 1 .. n
      PROVE  read[i] = GetNext(end, read[i - 1], formats[i])
  <2>1. i - 1 \in 0 .. n /\ i \in 0 .. n /\ i \in 1 .. Len(args) /\ i \in 1 .. Len(formats)
    BY <1>1, <1>2
  <2>2. SubSeq(args, 1, i) = Append(SubSeq(args, 1, i - 1), args[i])
    BY <2>1, OneMore
  <2>3. /\ formats[i] \in Keys /\ Fits(formats[i], args[i])
        /\ Readable(end, formats[i], args[i]) /\ r[i] \in Seq(Byte)
    BY <1>2, <1>3, <2>1
  <2>4. GetNext(end, [values |-> SubSeq(args, 1, i - 1),
                      rest |-> Segment(formats[i], args[i]) \o r[i]], formats[i])
          = [values |-> Append(SubSeq(args, 1, i - 1), args[i]), rest |-> r[i]]
    <3>1. Reads(end, formats[i], args[i], r[i], SubSeq(args, 1, i - 1))
      BY <2>3, GetNextIs, Zenon
    <3> QED
      BY <3>1, Zenon DEF Reads
  <2>5. r[i - 1] = Segment(formats[i], args[i]) \o r[i]
    BY <1>3
  <2>6. /\ read[i - 1] = [values |-> SubSeq(args, 1, i - 1), rest |-> r[i - 1]]
        /\ read[i] = [values |-> SubSeq(args, 1, i), rest |-> r[i]]
    BY <2>1, Zenon
  <2> HIDE DEF read
  <2> QED
    BY <2>2, <2>4, <2>5, <2>6, Zenon
<1>7. read = [i \in 0 .. n |-> read[i]]
  OBVIOUS
<1> HIDE DEF read, data
<1>8. G(read)
  <2>1. \A i \in 0 .. n : i = 0 \/ i \in 1 .. n
    BY <1>2
  <2>2. \A i \in 1 .. n : i # 0
    OBVIOUS
  <2>3. \A i \in 0 .. n : read[i] = IF i = 0 THEN [values |-> << >>, rest |-> data]
                                    ELSE GetNext(end, read[i - 1], formats[i])
    BY <1>5, <1>6, <2>1, <2>2, Zenon
  <2> QED
    BY <1>7, <2>3
<1>9. ASSUME NEW g, G(g) PROVE g[n] = read[n]
  <2> DEFINE T == {i \in 0 .. n : g[i] = read[i]}
  <2>1. 0 \in T
    BY <1>2, <1>5, <1>9
  <2>2. ASSUME NEW i \in 0 .. n - 1, i \in T PROVE i + 1 \in T
    <3>1. PICK j \in 1 .. n : j = i + 1 /\ j - 1 = i /\ j \in 0 .. n /\ j # 0
      BY <1>2
    <3>2. g[j] = GetNext(end, g[j - 1], formats[j])
      BY <1>9, <3>1
    <3>3. read[j] = GetNext(end, read[j - 1], formats[j])
      BY <1>6
    <3>4. g[i] = read[i]
      BY <2>2
    <3>5. g[j] = read[j]
      BY <3>1, <3>2, <3>3, <3>4, Zenon
    <3> QED
      BY <3>1, <3>5
  <2>3. \A i \in 0 .. n - 1 : i \in T => i + 1 \in T
    BY <2>2
  <2> HIDE DEF T
  <2>4. \A i \in 0 .. n : i \in T
    BY <1>2, <2>1, <2>3, UpToInduction, Zenon
  <2> QED
    BY <1>2, <2>4 DEF T
<1>10. read[n] = [values |-> args, rest |-> << >>]
  <2>1. n \in 0 .. n /\ SubSeq(args, 1, n) = args
    BY <1>2, SubSeqFull
  <2> QED
    BY <1>3, <2>1 DEF read
<1> HIDE DEF G
<1>11. G(CHOOSE g : G(g))
  BY <1>8, Zenon
<1> QED
  BY <1>4, <1>9, <1>10, <1>11, Zenon DEF data

-----------------------------------------------------------------------------
(* Packets. *)

\* What is written as two digits is read back, by both ends.
LEMMA HexIs ==
  ASSUME NEW n \in Byte, NEW end
  PROVE  /\ Hex(n) \in Seq(Byte) /\ Len(Hex(n)) = 2
         /\ FromHex(end, Hex(n)[1], Hex(n)[2]) = n
<1>1. n \div 16 \in 0 .. 15 /\ n % 16 \in 0 .. 15 /\ 16 * (n \div 16) + (n % 16) = n
  BY SMT DEF Byte
<1>2. ASSUME NEW d \in 0 .. 15
      PROVE  HexDigit(d) \in Byte /\ Digit(HexDigit(d)) = d
  <2>1. CASE d < 10
    <3>1. HexDigit(d) = 48 + d /\ 48 + d \in 48 .. 57 /\ (48 + d) - 48 = d
      BY <2>1 DEF HexDigit
    <3> QED
      BY <3>1 DEF Digit, Byte
  <2>2. CASE ~ d < 10
    <3>1. /\ HexDigit(d) = 87 + d /\ 87 + d \in 97 .. 102 /\ 87 + d \notin 48 .. 57
          /\ (87 + d) - 87 = d
      BY <2>2 DEF HexDigit
    <3> QED
      BY <3>1 DEF Digit, Byte
  <2> QED
    BY <2>1, <2>2
<1>3. PICK a, b : a = HexDigit(n \div 16) /\ b = HexDigit(n % 16)
  OBVIOUS
<1>4. a \in Byte /\ b \in Byte /\ Digit(a) = n \div 16 /\ Digit(b) = n % 16
  BY <1>1, <1>2, <1>3
<1>5. Hex(n) = <<a, b>>
  BY <1>3 DEF Hex
<1>6. FromHex(end, a, b) = 16 * Digit(a) + Digit(b)
  <2>1. Digit(a) < 16 /\ Digit(b) < 16
    BY <1>1, <1>4
  <2>2. ASSUME NEW d \in 0 .. 15 PROVE HexDigit(d) \notin White \cup {43} /\ HexDigit(d) # 45
    BY DEF HexDigit, White
  <2>3. a \notin White \cup {43} /\ a # 45 /\ Digit(b) # 16
    BY <1>1, <1>3, <1>4, <2>2
  <2> QED
    BY <2>1, <2>3 DEF FromHex
<1> QED
  BY <1>1, <1>4, <1>5, <1>6

\* What stands where in a packet, and that its checksum is right.
FramedWell(p, content) ==
  /\ p \in Seq(Byte) /\ Len(p) = Len(content) + 7
  /\ p[1] = PACKET_START_0 /\ p[2] = PACKET_START_1 /\ p[Len(p)] = PACKET_STOP
  /\ FromBytes(SubSeq(p, 3, 4), FALSE) = Len(content) + 2
  /\ Content(p) = content
  /\ \A end : RightChecksum(end, p)

\* A content is framed well, if its length fits.
LEMMA FramedIs ==
  ASSUME NEW content \in Seq(Byte), Fitting(Len(content) + 2, 2, FALSE)
  PROVE  FramedWell(Framed(content), content)
<1> DEFINE start == <<PACKET_START_0, PACKET_START_1>>
           check == Hex(Checksum(content))
           body == content \o check
           size == ToBytes(Len(body), 2)
           stop == <<PACKET_STOP>>
           front == start \o size
           most == front \o body
           p == most \o stop
<1>1. Framed(content) = p
  BY Zenon DEF Framed
<1>2. /\ start \in Seq(Byte) /\ Len(start) = 2 /\ stop \in Seq(Byte) /\ Len(stop) = 1
      /\ start[1] = PACKET_START_0 /\ start[2] = PACKET_START_1 /\ stop[1] = PACKET_STOP
  BY DEF PACKET_START_0, PACKET_START_1, PACKET_STOP, Byte
<1>3. Checksum(content) \in Byte
  BY ChecksumType
<1>4. check \in Seq(Byte) /\ Len(check) = 2
  BY <1>3, HexIs
<1>5. \A end : FromHex(end, check[1], check[2]) = Checksum(content)
  BY <1>3, HexIs
<1> HIDE DEF start, stop, check
<1>6. Len(content) \in Nat
  BY LenProperties
<1>7. /\ body \in Seq(Byte) /\ Len(body) = Len(content) + Len(check)
      /\ \A i \in 1 .. Len(content) : body[i] = content[i]
      /\ \A i \in 1 .. Len(check) : body[Len(content) + i] = check[i]
  BY <1>4, ConcatElements
<1> HIDE DEF body
<1>8. /\ size \in Seq(Byte) /\ Len(size) = 2
      /\ FromBytes(size, FALSE) = Len(content) + 2
  <2>1. Len(body) = Len(content) + 2 /\ Len(body) \in Nat
    BY <1>4, <1>6, <1>7
  <2>2. Fitting(Len(body), 2, FALSE)
    BY <2>1
  <2> QED
    BY <2>1, <2>2, LengthBytes
<1> HIDE DEF size
<1>9. /\ front \in Seq(Byte) /\ Len(front) = Len(start) + Len(size)
      /\ \A i \in 1 .. Len(start) : front[i] = start[i]
      /\ \A i \in 1 .. Len(size) : front[Len(start) + i] = size[i]
  <2>1. start \in Seq(Byte) /\ size \in Seq(Byte)
    BY <1>2, <1>8
  <2> QED
    BY <2>1, ConcatElements
<1> HIDE DEF front
<1>10. /\ most \in Seq(Byte) /\ Len(most) = Len(front) + Len(body)
       /\ \A i \in 1 .. Len(front) : most[i] = front[i]
       /\ \A i \in 1 .. Len(body) : most[Len(front) + i] = body[i]
  <2>1. front \in Seq(Byte) /\ body \in Seq(Byte)
    BY <1>7, <1>9
  <2> QED
    BY <2>1, ConcatElements
<1> HIDE DEF most
<1>11. /\ p \in Seq(Byte) /\ Len(p) = Len(most) + Len(stop)
       /\ \A i \in 1 .. Len(most) : p[i] = most[i]
       /\ \A i \in 1 .. Len(stop) : p[Len(most) + i] = stop[i]
  <2>1. most \in Seq(Byte) /\ stop \in Seq(Byte)
    BY <1>2, <1>10
  <2> QED
    BY <2>1, ConcatElements
<1> HIDE DEF p
<1>12. Len(front) = 4 /\ Len(body) = Len(content) + 2 /\ Len(p) = Len(content) + 7
       /\ Len(most) = Len(content) + 6 /\ Len(size) = 2
  BY <1>2, <1>4, <1>6, <1>7, <1>8, <1>9, <1>10, <1>11
<1>13. \A i \in 1 .. 4 : p[i] = front[i]
  BY <1>6, <1>10, <1>11, <1>12
<1>14. \A i \in 1 .. Len(content) + 2 : p[4 + i] = body[i]
  <2> TAKE i \in 1 .. Len(content) + 2
  <2>1. 4 + i \in 1 .. Len(most) /\ i \in 1 .. Len(body)
    BY <1>6, <1>12
  <2> QED
    BY <1>10, <1>11, <1>12, <2>1
<1>15. p[1] = PACKET_START_0 /\ p[2] = PACKET_START_1 /\ p[3] = size[1] /\ p[4] = size[2]
  BY <1>2, <1>9, <1>12, <1>13
<1>16. p[Len(p)] = PACKET_STOP
  BY <1>2, <1>6, <1>11, <1>12
<1>17. SubSeq(p, 3, 4) = size
  <2>1. 2 + Len(size) <= Len(p) /\ \A i \in 1 .. Len(size) : p[2 + i] = size[i]
    BY <1>6, <1>12, <1>15
  <2>2. p \in Seq(Byte) /\ size \in Seq(Byte) /\ 2 \in Nat
    BY <1>8, <1>11
  <2>3. SubSeq(p, 2 + 1, 2 + Len(size)) = size
    BY <2>1, <2>2, SubSeqIs
  <2> QED
    BY <1>12, <2>3
<1>18. Content(p) = content
  <2>1. 4 + Len(content) <= Len(p) /\ \A i \in 1 .. Len(content) : p[4 + i] = content[i]
    BY <1>6, <1>7, <1>12, <1>14
  <2>2. p \in Seq(Byte) /\ 4 \in Nat
    BY <1>11
  <2>3. SubSeq(p, 4 + 1, 4 + Len(content)) = content
    BY <2>1, <2>2, SubSeqIs
  <2>4. Len(p) - 3 = 4 + Len(content)
    BY <1>6, <1>12
  <2> QED
    BY <2>3, <2>4 DEF Content
<1>19. ASSUME NEW end PROVE RightChecksum(end, p)
  <2>1. p[Len(p) - 2] = check[1] /\ p[Len(p) - 1] = check[2]
    <3>1. /\ Len(content) + 1 \in 1 .. Len(content) + 2
          /\ Len(content) + 2 \in 1 .. Len(content) + 2
          /\ Len(p) - 2 = 4 + (Len(content) + 1) /\ Len(p) - 1 = 4 + (Len(content) + 2)
      BY <1>6, <1>12
    <3>2. body[Len(content) + 1] = check[1] /\ body[Len(content) + 2] = check[2]
      BY <1>4, <1>7
    <3> QED
      BY <1>14, <3>1, <3>2
  <2> QED
    BY <1>5, <1>18, <2>1, Zenon DEF RightChecksum
<1>20. FromBytes(SubSeq(p, 3, 4), FALSE) = Len(content) + 2
  BY <1>8, <1>17, Zenon
<1>21. FramedWell(p, content)
  BY <1>11, <1>12, <1>15, <1>16, <1>18, <1>19, <1>20, Zenon DEF FramedWell
<1> QED
  BY <1>1, <1>21, Zenon DEF p, most, front, size, body, start, stop, check

\* The smallest element of a set of numbers.
LEMMA MinIs ==
  ASSUME NEW S, S \subseteq Int, NEW m \in S, \A x \in S : m <= x
  PROVE  Min(S) = m
<1> DEFINE Smallest(x) == x \in S /\ \A y \in S : x =< y
<1>1. Smallest(m)
  OBVIOUS
<1>2. \A x : Smallest(x) => x = m
  OBVIOUS
<1>3. Min(S) = CHOOSE x : Smallest(x)
  BY Zenon DEF Min
<1> HIDE DEF Smallest
<1>4. Smallest(CHOOSE x : Smallest(x))
  BY <1>1, Zenon
<1> QED
  BY <1>2, <1>3, <1>4, Zenon

\* What a content holds.
Holds(content, type, num, category, data) ==
  /\ content \in Seq(Byte) /\ Len(content) = 6 + Len(category) + Len(data)
  /\ content[1] = type /\ SubSeq(content, 2, 5) = ToBytes(num, 4)
  /\ CategoryEnd(content) = 6 + Len(category)
  /\ SubSeq(content, 6, CategoryEnd(content) - 1) = category
  /\ SubSeq(content, CategoryEnd(content) + 1, Len(content)) = data

\* A list of some bytes is one of bytes.
LEMMA WiderSeq ==
  ASSUME NEW category \in Seq(Byte \ {PACKET_SEP})
  PROVE  category \in Seq(Byte)
<1>1. Len(category) \in Nat
  BY LenProperties
<1>2. \A i \in 1 .. Len(category) : category[i] \in Byte
  BY ElementOfSeq
<1>3. category = [i \in 1 .. Len(category) |-> category[i]]
  OBVIOUS
<1>4. category \in [1 .. Len(category) -> Byte]
  BY <1>2, <1>3
<1> QED
  BY <1>1, <1>4, FunctionIsSeq

\* What a header is.
LEMMA HeaderType ==
  ASSUME NEW type \in Types, NEW num \in Nat, NEW category \in Seq(Byte \ {PACKET_SEP})
  PROVE  Header(type, num, category) \in Seq(Byte)
<1> DEFINE front == <<type>>
           size == ToBytes(num, 4)
           sep == <<PACKET_SEP>>
<1>1. front \in Seq(Byte) /\ sep \in Seq(Byte)
  BY DEF PACKET_SEP, Types, Byte
<1>2. size \in Seq(Byte)
  <2>1. num \in Int /\ 4 \in Sizes
    BY DEF Sizes
  <2> QED
    BY <2>1, ToBytesIs, ZenonT(30)
<1>3. category \in Seq(Byte)
  BY WiderSeq
<1>4. Header(type, num, category) = ((front \o size) \o category) \o sep
  BY Zenon DEF Header
<1> HIDE DEF front, size, sep
<1> QED
  BY <1>1, <1>2, <1>3, <1>4, ConcatProperties

\* Behind a header, whose category has no separator in it, any data are found again.
LEMMA ContentIs ==
  ASSUME NEW type \in Types, NEW num \in Nat,
         NEW category \in Seq(Byte \ {PACKET_SEP}), NEW data \in Seq(Byte)
  PROVE  Holds(Header(type, num, category) \o data, type, num, category, data)
<1> DEFINE front == <<type>>
           size == ToBytes(num, 4)
           sep == <<PACKET_SEP>>
           some == front \o size
           most == some \o category
           header == most \o sep
           content == header \o data
<1>1. Header(type, num, category) \o data = content
  BY Zenon DEF Header
<1>2. /\ front \in Seq(Byte) /\ Len(front) = 1 /\ front[1] = type
      /\ sep \in Seq(Byte) /\ Len(sep) = 1 /\ sep[1] = PACKET_SEP
  BY DEF PACKET_SEP, Types, Byte
<1>3. size \in Seq(Byte) /\ Len(size) = 4
  <2>1. num \in Int /\ 4 \in Sizes
    BY DEF Sizes
  <2> QED
    BY <2>1, ToBytesIs, ZenonT(30)
<1>4. /\ category \in Seq(Byte) /\ Len(category) \in Nat /\ Len(data) \in Nat
      /\ \A i \in 1 .. Len(category) : category[i] # PACKET_SEP
  <2>1. Len(category) \in Nat /\ Len(data) \in Nat
    BY LenProperties
  <2>2. \A i \in 1 .. Len(category) : category[i] \in Byte \ {PACKET_SEP}
    BY ElementOfSeq
  <2> QED
    BY <2>1, <2>2, WiderSeq
<1> HIDE DEF front, size, sep
<1>5. /\ some \in Seq(Byte) /\ Len(some) = Len(front) + Len(size)
      /\ \A i \in 1 .. Len(front) : some[i] = front[i]
      /\ \A i \in 1 .. Len(size) : some[Len(front) + i] = size[i]
  <2>1. front \in Seq(Byte) /\ size \in Seq(Byte)
    BY <1>2, <1>3
  <2> QED
    BY <2>1, ConcatElements
<1> HIDE DEF some
<1>6. /\ most \in Seq(Byte) /\ Len(most) = Len(some) + Len(category)
      /\ \A i \in 1 .. Len(some) : most[i] = some[i]
      /\ \A i \in 1 .. Len(category) : most[Len(some) + i] = category[i]
  <2>1. some \in Seq(Byte) /\ category \in Seq(Byte)
    BY <1>4, <1>5
  <2> QED
    BY <2>1, ConcatElements
<1> HIDE DEF most
<1>7. /\ header \in Seq(Byte) /\ Len(header) = Len(most) + Len(sep)
      /\ \A i \in 1 .. Len(most) : header[i] = most[i]
      /\ \A i \in 1 .. Len(sep) : header[Len(most) + i] = sep[i]
  <2>1. most \in Seq(Byte) /\ sep \in Seq(Byte)
    BY <1>2, <1>6
  <2> QED
    BY <2>1, ConcatElements
<1> HIDE DEF header
<1>8. /\ content \in Seq(Byte) /\ Len(content) = Len(header) + Len(data)
      /\ \A i \in 1 .. Len(header) : content[i] = header[i]
      /\ \A i \in 1 .. Len(data) : content[Len(header) + i] = data[i]
  <2>1. header \in Seq(Byte) /\ data \in Seq(Byte)
    BY <1>7
  <2> QED
    BY <2>1, ConcatElements
<1> HIDE DEF content
<1>9. /\ Len(some) = 5 /\ Len(most) = 5 + Len(category) /\ Len(header) = 6 + Len(category)
      /\ Len(content) = 6 + Len(category) + Len(data)
  BY <1>2, <1>3, <1>4, <1>5, <1>6, <1>7, <1>8
<1>10. content[1] = type
  BY <1>2, <1>3, <1>4, <1>5, <1>6, <1>7, <1>8, <1>9
<1>11. \A i \in 1 .. 4 : content[1 + i] = size[i]
  <2> TAKE i \in 1 .. 4
  <2>1. some[1 + i] = size[i]
    BY <1>2, <1>3, <1>5
  <2>2. 1 + i \in 1 .. Len(some) /\ 1 + i \in 1 .. Len(most) /\ 1 + i \in 1 .. Len(header)
    BY <1>4, <1>9
  <2> QED
    BY <1>6, <1>7, <1>8, <2>1, <2>2
<1>12. \A i \in 1 .. Len(category) : content[5 + i] = category[i]
  <2> TAKE i \in 1 .. Len(category)
  <2>1. most[5 + i] = category[i]
    BY <1>6, <1>9
  <2>2. 5 + i \in 1 .. Len(most) /\ 5 + i \in 1 .. Len(header)
    BY <1>4, <1>9
  <2> QED
    BY <1>7, <1>8, <2>1, <2>2
<1>13. content[6 + Len(category)] = PACKET_SEP
  <2>1. header[6 + Len(category)] = PACKET_SEP
    <3>1. Len(most) + 1 = 6 + Len(category) /\ 1 \in 1 .. Len(sep)
      BY <1>2, <1>4, <1>9
    <3> QED
      BY <1>2, <1>7, <3>1
  <2>2. 6 + Len(category) \in 1 .. Len(header)
    BY <1>4, <1>9
  <2> QED
    BY <1>8, <2>1, <2>2
<1>14. \A i \in 1 .. Len(data) : content[(6 + Len(category)) + i] = data[i]
  BY <1>8, <1>9
<1>15. SubSeq(content, 2, 5) = size
  <2>1. 1 + Len(size) <= Len(content) /\ \A i \in 1 .. Len(size) : content[1 + i] = size[i]
    BY <1>3, <1>4, <1>9, <1>11
  <2>2. content \in Seq(Byte) /\ size \in Seq(Byte) /\ 1 \in Nat
    BY <1>3, <1>8
  <2>3. SubSeq(content, 1 + 1, 1 + Len(size)) = size
    BY <2>1, <2>2, SubSeqIs
  <2> QED
    BY <1>3, <2>3
<1>16. SubSeq(content, 6, 5 + Len(category)) = category
  <2>1. 5 + Len(category) <= Len(content)
    BY <1>4, <1>9
  <2>2. content \in Seq(Byte) /\ category \in Seq(Byte) /\ 5 \in Nat
    BY <1>4, <1>8
  <2>3. SubSeq(content, 5 + 1, 5 + Len(category)) = category
    BY <1>12, <2>1, <2>2, SubSeqIs
  <2> QED
    BY <2>3
<1>17. SubSeq(content, 6 + Len(category) + 1, Len(content)) = data
  <2>1. 6 + Len(category) \in Nat /\ 6 + Len(category) + Len(data) <= Len(content)
    BY <1>4, <1>9
  <2>2. content \in Seq(Byte)
    BY <1>8
  <2>3. SubSeq(content, 6 + Len(category) + 1, 6 + Len(category) + Len(data)) = data
    BY <1>14, <2>1, <2>2, SubSeqIs
  <2> QED
    BY <1>9, <2>3
<1>18. CategoryEnd(content) = 6 + Len(category)
  <2> DEFINE end == 6 + Len(category)
             seps == {i \in 6 .. Len(content) : content[i] = PACKET_SEP}
  <2>1. end \in Nat /\ end # 0 /\ end \in seps
    BY <1>4, <1>9, <1>13
  <2>2. ASSUME NEW i \in seps PROVE end <= i
    <3>1. CASE i < end
      <4>1. i - 5 \in 1 .. Len(category) /\ 5 + (i - 5) = i
        BY <1>4, <3>1
      <4>2. content[i] # PACKET_SEP
        BY <1>4, <1>12, <4>1
      <4> QED
        BY <4>2
    <3> QED
      BY <1>4, <3>1
  <2>3. seps \subseteq Int
    OBVIOUS
  <2>4. SepIndex(content) = IF seps # {} THEN Min(seps) ELSE 0
    BY Zenon DEF SepIndex, SelectInSubSeq
  <2> HIDE DEF end, seps
  <2>5. Min(seps) = end
    BY <2>1, <2>2, <2>3, MinIs, Zenon
  <2>6. SepIndex(content) = end
    BY <2>1, <2>4, <2>5
  <2> QED
    BY <2>1, <2>6 DEF CategoryEnd, end
<1>19. Holds(content, type, num, category, data)
  <2>1. CategoryEnd(content) - 1 = 5 + Len(category)
    BY <1>4, <1>18
  <2>2. SubSeq(content, 6, CategoryEnd(content) - 1) = category
    BY <1>16, <2>1
  <2>3. SubSeq(content, CategoryEnd(content) + 1, Len(content)) = data
    BY <1>17, <1>18
  <2>4. SubSeq(content, 2, 5) = ToBytes(num, 4)
    BY <1>15 DEF size
  <2>5. content \in Seq(Byte)
    BY <1>8
  <2> QED
    BY <1>9, <1>10, <1>18, <2>2, <2>3, <2>4, <2>5, Zenon DEF Holds
<1> QED
  BY <1>1, <1>19, Zenon DEF content, header, most, some, front, size, sep

\* Behind the length of a packet, its content is followed by other bytes.
LEMMA BehindLength ==
  ASSUME NEW p, NEW content \in Seq(Byte), FramedWell(p, content)
  PROVE  \E more \in Seq(Byte) : SubSeq(p, 5, Len(p)) = content \o more
<1> DEFINE n == Len(p)
<1>1. p \in Seq(Byte) /\ n = Len(content) + 7 /\ Content(p) = content
  BY Zenon DEF FramedWell
<1>2. Len(content) \in Nat
  BY LenProperties
<1>3. n \in 0 .. Len(p) /\ 4 \in 0 .. n /\ n - 3 \in 4 .. n /\ n - 3 \in 0 .. n
  BY <1>1, <1>2
<1>4. Part(p, 4, n - 3) \o Part(p, n - 3, n) = Part(p, 4, n)
  BY <1>1, <1>3, PartsJoin
<1>5. Part(p, n - 3, n) \in Seq(Byte)
  BY <1>1, <1>3, PartFacts
<1>6. Part(p, 4, n - 3) = content /\ Part(p, 4, n) = SubSeq(p, 5, n)
  <2>1. 4 + 1 = 5
    OBVIOUS
  <2> QED
    BY <1>1, <2>1, Zenon DEF Part, Content
<1> QED
  BY <1>4, <1>5, <1>6, Zenon

\* Lists of bytes, one behind another.
LEMMA OneBehindAnother ==
  ASSUME NEW s \in Seq(Byte), NEW t \in Seq(Byte), NEW u \in Seq(Byte)
  PROVE  (s \o t) \o u = s \o (t \o u)
<1>1. ASSUME NEW S, s \in Seq(S), t \in Seq(S), u \in Seq(S)
      PROVE  (s \o t) \o u = s \o (t \o u)
  BY <1>1, ConcatMiddle
<1> QED
  BY <1>1

BothEnds == {"host", "board"}

\* An end finds the category and where it ends.
FindsCategory(end, p, category) ==
  /\ CategoryEnd(Searched(end, p)) = 6 + Len(category)
  /\ SubSeq(Searched(end, p), 6, CategoryEnd(Searched(end, p)) - 1) = category

\* The separator both ends find is the first one, which is in the content.
LEMMA SearchedIs ==
  ASSUME NEW end \in BothEnds, NEW type \in Types, NEW num \in Nat,
         NEW category \in Seq(Byte \ {PACKET_SEP}), NEW data \in Seq(Byte), NEW p,
         NEW content \in Seq(Byte), content = Header(type, num, category) \o data,
         Header(type, num, category) \in Seq(Byte), FramedWell(p, content)
  PROVE  FindsCategory(end, p, category)
<1> DEFINE header == Header(type, num, category)
<1>1. PICK more \in Seq(Byte) : SubSeq(p, 5, Len(p)) = content \o more
  BY BehindLength
<1>2. PICK rest \in Seq(Byte) : Searched(end, p) = header \o rest
  <2>1. CASE end = "host"
    <3>1. Searched(end, p) = content
      BY <2>1, Zenon DEF Searched, FramedWell
    <3> QED
      BY <3>1, Zenon
  <2>2. CASE end = "board"
    <3>1. Searched(end, p) = (header \o data) \o more
      BY <1>1, <2>2 DEF Searched
    <3>2. PICK h \in Seq(Byte) : h = header
      OBVIOUS
    <3>3. (h \o data) \o more = h \o (data \o more)
      BY OneBehindAnother
    <3>4. data \o more \in Seq(Byte)
      BY ConcatParts
    <3> QED
      BY <3>1, <3>2, <3>3, <3>4, Zenon
  <2> QED
    BY <2>1, <2>2 DEF BothEnds
<1>3. Holds(header \o rest, type, num, category, rest)
  BY ContentIs
<1> HIDE DEF header
<1> QED
  BY <1>2, <1>3, Zenon DEF Holds, FindsCategory

\* The category is read as it was written.
LEMMA CategoryIs ==
  ASSUME NEW end \in BothEnds, NEW p, NEW category \in Seq(Byte), FindsCategory(end, p, category),
         ReadableCategory(end, category)
  PROVE  Category(end, p) = category
<1>1. SubSeq(Searched(end, p), 6, CategoryEnd(Searched(end, p)) - 1) = category
  BY Zenon DEF FindsCategory
<1>2. CASE end = "host"
  BY <1>1, <1>2, Zenon DEF Category
<1>3. CASE end = "board"
  <2>1. CString(category) = category
    BY <1>3, CStringIs DEF ReadableCategory, FitsString
  <2>2. end # "host"
    BY <1>3
  <2> QED
    BY <1>1, <2>1, <2>2, Zenon DEF Category
<1> QED
  BY <1>2, <1>3 DEF BothEnds

\* How a packet is made, and that an end takes it for one with what went into it.
Packed(end, p, type, num, category, data) ==
  /\ p \in Seq(Byte) /\ Len(p) = 13 + Len(category) + Len(data)
  /\ p[1] = PACKET_START_0 /\ p[2] = PACKET_START_1 /\ p[Len(p)] = PACKET_STOP
  /\ FromBytes(SubSeq(p, 3, 4), FALSE) = Len(p) - 5
  /\ Parses(end, p)
  /\ Parsed(end, p) = [type |-> type, num |-> num, category |-> category, data |-> data]

\* A packet is found and parsed as what it was made of, whatever its data are: its number
\* fits, its length fits, and its category has no separator and is one that the end which
\* reads it can read.  To the host that is UTF-8 of at most max_segment_len characters, to
\* the board at most 15 bytes without a 0; to neither the empty one.
THEOREM PacketReadBack ==
  ASSUME NEW end \in BothEnds, NEW type \in Types, NEW num \in Nat, Fitting(num, 4, FALSE),
         NEW category \in Seq(Byte \ {PACKET_SEP}), ReadableCategory(end, category),
         NEW formats \in Seq(Keys), NEW args,
         \A i \in 1 .. Len(formats) : Fits(formats[i], args[i]),
         Fitting(8 + Len(category) + Len(Data(formats, args)), 2, FALSE)
  PROVE  Packed(end, MakePacket(type, num, category, formats, args),
                type, num, category, Data(formats, args))
<1> DEFINE data == Data(formats, args)
           content == Header(type, num, category) \o data
           p == Framed(content)
<1>1. data \in Seq(Byte) /\ Len(data) \in Nat
  <2>1. data \in Seq(Byte)
    BY DataType
  <2> QED
    BY <2>1, LenProperties
<1>2. /\ IsCategory(end, category) /\ category # << >> /\ category \in Seq(Byte)
      /\ Len(category) \in Nat /\ Len(category) > 0
  <2>1. IsCategory(end, category) /\ category # << >>
    BY Zenon DEF ReadableCategory, IsCategory
  <2>2. category \in Seq(Byte)
    BY WiderSeq
  <2> QED
    BY <2>1, <2>2, LenProperties, EmptySeq
<1>3. MakePacket(type, num, category, formats, args) = p
  BY Zenon DEF MakePacket
<1>4. Fitting(8 + Len(category) + Len(data), 2, FALSE)
  OBVIOUS
<1>0. Header(type, num, category) \in Seq(Byte)
  BY HeaderType
<1> HIDE DEF data
<1>5. Holds(content, type, num, category, data)
  BY <1>1, ContentIs
<1>16. content = Header(type, num, category) \o data
  OBVIOUS
<1> HIDE DEF content
<1>6. content \in Seq(Byte) /\ Len(content) = 6 + Len(category) + Len(data)
  BY <1>5 DEF Holds
<1>7. FramedWell(p, content)
  <2>1. Len(content) + 2 = 8 + Len(category) + Len(data)
    BY <1>1, <1>2, <1>6
  <2>2. Fitting(Len(content) + 2, 2, FALSE) /\ content \in Seq(Byte)
    BY <1>4, <1>6, <2>1
  <2> QED
    BY <2>2, FramedIs
<1> HIDE DEF p
<1>8. /\ p \in Seq(Byte) /\ Len(p) = Len(content) + 7
      /\ p[1] = PACKET_START_0 /\ p[2] = PACKET_START_1 /\ p[Len(p)] = PACKET_STOP
      /\ Content(p) = content
  BY <1>7 DEF FramedWell
<1>9. Len(p) = 13 + Len(category) + Len(data) /\ Len(p) >= 14 /\ Len(p) >= 13
      /\ Len(content) + 2 = Len(p) - 5
  BY <1>1, <1>2, <1>6, <1>8
<1>10. FromBytes(SubSeq(p, 3, 4), FALSE) = Len(p) - 5
  <2>1. FromBytes(SubSeq(p, 3, 4), FALSE) = Len(content) + 2
    BY <1>7, Zenon DEF FramedWell
  <2> QED
    BY <1>9, <2>1, Zenon
<1>11. FindsCategory(end, p, category)
  BY <1>0, <1>1, <1>6, <1>7, <1>16, SearchedIs
<1>12. Category(end, p) = category
  BY <1>2, <1>11, CategoryIs
<1>13. Parses(end, p)
  <2>1. content[1] \in Types
    BY <1>5 DEF Holds
  <2>2. RightChecksum(end, p)
    BY <1>7, Zenon DEF FramedWell
  <2>3. IsCategory(end, Category(end, p))
    BY <1>2, <1>12, Zenon
  <2>4. Len(p) >= MIN_PACKET_LEN[end]
    BY <1>9 DEF MIN_PACKET_LEN, BothEnds
  <2>5. p[Len(p)] = PACKET_STOP /\ Content(p)[1] \in Types
    BY <1>8, <2>1
  <2> QED
    BY <2>2, <2>3, <2>4, <2>5, Zenon DEF Parses
<1>14. Parsed(end, p) = [type |-> type, num |-> num, category |-> category, data |-> data]
  <2>1. num \in Int /\ 4 \in Sizes /\ FALSE \in BOOLEAN
    BY DEF Sizes
  <2>2. FromBytes(ToBytes(num, 4), FALSE) = num
    BY <2>1, ReadNumber, Zenon
  <2>3. /\ content[1] = type /\ SubSeq(content, 2, 5) = ToBytes(num, 4)
        /\ SubSeq(content, CategoryEnd(Searched(end, p)) + 1, Len(content)) = data
    <3>1. CategoryEnd(content) = CategoryEnd(Searched(end, p))
      BY <1>5, <1>11, Zenon DEF Holds, FindsCategory
    <3> QED
      BY <1>5, <3>1, Zenon DEF Holds
  <2>4. Parsed(end, p) = [type |-> content[1], num |-> FromBytes(SubSeq(content, 2, 5), FALSE),
           category |-> Category(end, p),
           data |-> SubSeq(content, CategoryEnd(Searched(end, p)) + 1, Len(content))]
    BY <1>8, Zenon DEF Parsed
  <2> QED
    BY <1>12, <2>2, <2>3, <2>4, Zenon
<1>15. Packed(end, p, type, num, category, data)
  BY <1>8, <1>9, <1>10, <1>13, <1>14, Zenon DEF Packed
<1> QED
  BY <1>3, <1>15, Zenon DEF p, content, data

\* A number fits if a larger one does.
LEMMA FittingLess ==
  ASSUME NEW n \in Nat, NEW m \in 0 .. n, Fitting(n, 4, FALSE)
  PROVE  Fitting(m, 4, FALSE)
<1>1. ASSUME NEW a \in Nat, NEW b \in Nat, a <= b
      PROVE  a \div 256 \in Nat /\ b \div 256 \in Nat /\ a \div 256 <= b \div 256
  BY <1>1, SMT
<1>2. /\ Quotient(n, 0) = n /\ Quotient(n, 1) = Quotient(n, 0) \div 256
      /\ Quotient(n, 2) = Quotient(n, 1) \div 256 /\ Quotient(n, 3) = Quotient(n, 2) \div 256
  BY Quotients
<1>3. /\ Quotient(m, 0) = m /\ Quotient(m, 1) = Quotient(m, 0) \div 256
      /\ Quotient(m, 2) = Quotient(m, 1) \div 256 /\ Quotient(m, 3) = Quotient(m, 2) \div 256
  BY Quotients
<1>4. Quotient(m, 0) \in Nat /\ Quotient(n, 0) \in Nat /\ Quotient(m, 0) <= Quotient(n, 0)
  BY <1>2, <1>3
<1>5. Quotient(m, 1) \in Nat /\ Quotient(n, 1) \in Nat /\ Quotient(m, 1) <= Quotient(n, 1)
  BY <1>1, <1>2, <1>3, <1>4
<1>6. Quotient(m, 2) \in Nat /\ Quotient(n, 2) \in Nat /\ Quotient(m, 2) <= Quotient(n, 2)
  BY <1>1, <1>2, <1>3, <1>5
<1>7. Quotient(m, 3) \in Nat /\ Quotient(n, 3) \in Nat /\ Quotient(m, 3) <= Quotient(n, 3)
  BY <1>1, <1>2, <1>3, <1>6
<1>8. \A k : Fitting(k, 4, FALSE) <=> Quotient(k, 3) \in Byte
  <2>1. 4 - 1 = 3
    OBVIOUS
  <2> QED
    BY <2>1, Zenon DEF Fitting, Quotient
<1>9. Quotient(n, 3) \in Byte
  BY <1>8
<1>10. Quotient(m, 3) \in Byte
  BY <1>7, <1>9 DEF Byte
<1> QED
  BY <1>8, <1>10

\* How long a packet is does not depend on its number.
LEMMA PacketLength ==
  ASSUME NEW type \in Types, NEW num \in Nat, NEW category \in Seq(Byte \ {PACKET_SEP}),
         NEW formats \in Seq(Keys), NEW args,
         \A i \in 1 .. Len(formats) : Fits(formats[i], args[i])
  PROVE  Len(MakePacket(type, num, category, formats, args)) =
           13 + Len(category) + Len(Data(formats, args))
<1> DEFINE data == Data(formats, args)
           content == Header(type, num, category) \o data
           start == <<PACKET_START_0, PACKET_START_1>>
           check == Hex(Checksum(content))
           body == content \o check
           size == ToBytes(Len(body), 2)
           stop == <<PACKET_STOP>>
           front == start \o size
           most == front \o body
<1>1. data \in Seq(Byte)
  BY DataType
<1>2. MakePacket(type, num, category, formats, args) = most \o stop
  BY Zenon DEF MakePacket, Framed
<1> HIDE DEF data
<1>3. Holds(content, type, num, category, data)
  BY <1>1, ContentIs
<1>4. content \in Seq(Byte) /\ Len(content) = 6 + Len(category) + Len(data)
  <2> HIDE DEF content
  <2> QED
    BY <1>3 DEF Holds
<1>5. /\ start \in Seq(Byte) /\ Len(start) = 2 /\ stop \in Seq(Byte) /\ Len(stop) = 1
      /\ Len(category) \in Nat /\ Len(data) \in Nat
  BY <1>1, LenProperties DEF PACKET_START_0, PACKET_START_1, PACKET_STOP, Byte
<1> HIDE DEF start, stop, content
<1>6. check \in Seq(Byte) /\ Len(check) = 2
  <2>1. content \in Seq(Byte)
    BY <1>4
  <2>2. Checksum(content) \in Byte
    BY <2>1, ChecksumType
  <2> QED
    BY <2>2, HexIs
<1> HIDE DEF check
<1>7. body \in Seq(Byte) /\ Len(body) = Len(content) + 2
  <2>1. content \in Seq(Byte) /\ check \in Seq(Byte)
    BY <1>4, <1>6
  <2>2. body \in Seq(Byte) /\ Len(body) = Len(content) + Len(check)
    BY <2>1, ConcatElements
  <2> QED
    BY <1>4, <1>6, <2>2
<1> HIDE DEF body
<1>8. size \in Seq(Byte) /\ Len(size) = 2
  <2>1. Len(body) \in Int /\ 2 \in Sizes
    BY <1>7, LenProperties DEF Sizes
  <2> QED
    BY <2>1, ToBytesIs, ZenonT(30)
<1> HIDE DEF size
<1>9. front \in Seq(Byte) /\ Len(front) = 4
  <2>1. start \in Seq(Byte) /\ size \in Seq(Byte)
    BY <1>5, <1>8
  <2>2. front \in Seq(Byte) /\ Len(front) = Len(start) + Len(size)
    BY <2>1, ConcatElements
  <2> QED
    BY <1>5, <1>8, <2>2
<1> HIDE DEF front
<1>10. most \in Seq(Byte) /\ Len(most) = Len(content) + 6
  <2>1. front \in Seq(Byte) /\ body \in Seq(Byte)
    BY <1>7, <1>9
  <2>2. most \in Seq(Byte) /\ Len(most) = Len(front) + Len(body)
    BY <2>1, ConcatElements
  <2> QED
    BY <1>4, <1>5, <1>7, <1>9, <2>2
<1> HIDE DEF most
<1>11. Len(most \o stop) = Len(content) + 7
  <2>1. most \in Seq(Byte) /\ stop \in Seq(Byte)
    BY <1>5, <1>10
  <2>2. most \o stop \in Seq(Byte) /\ Len(most \o stop) = Len(most) + Len(stop)
    BY <2>1, ConcatElements
  <2> QED
    BY <1>4, <1>5, <1>10, <2>2
<1>12. Len(most \o stop) = 13 + Len(category) + Len(data)
  BY <1>4, <1>5, <1>11
<1> QED
  BY <1>2, <1>12 DEF data
=============================================================================
