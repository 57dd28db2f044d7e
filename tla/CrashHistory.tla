---------------------------- MODULE CrashHistory ---------------------------
(***************************************************************************)
(* Facts about the files that several lives of the process leave, and      *)
(* about what recover reads of them.  They rest on what a life is allowed  *)
(* to write (Hist, NewByte) and not on how the WAL engine writes it.       *)
(***************************************************************************)
EXTENDS CrashRecovery, WellFoundedInduction, TLAPS
-----------------------------------------------------------------------------
(***************************************************************************)
(* Histories and holes.                                                    *)
(***************************************************************************)
\* Segment, position, life and LSN, byte number.
FileByte == Nat \X Nat \X (Nat \X Nat) \X Nat

\* Where the record with LSN 0 of the life that wrote c would start.
Origin(c) == c[2] - c[4] - c[3][2] * RecSize

\* A set of file bytes with a bound on positions and LSNs.
Bounded(D) ==
    /\ D \subseteq FileByte
    /\ \E n \in Nat : \A c \in D : c[2] < n /\ c[3][2] < n

\* D can be the files that lives before r left, which numbered these PUTs: a life
\* writes to one segment, its records one after the other in the order of their
\* LSNs, and all of them behind what earlier lives left there.
Hist(D, puts, r) ==
    /\ puts \subseteq { id \in Nat \X Nat : id[1] < r }
    /\ Bounded(D)
    /\ \A c \in D : c[4] < RecSize /\ c[1] < c[3][2] /\ c[3] \in puts
    /\ \A c, d \in D :
          c[3][1] = d[3][1] => c[1] = d[1] /\ Origin(c) = Origin(d)
    /\ \A c \in D, b \in puts :
          c[3][1] = b[1] => 0 <= Origin(c) + b[2] * RecSize
    /\ \A c, d \in D, b \in puts :
          c[1] = d[1] /\ c[3][1] < d[3][1] /\ d[3][1] = b[1] =>
              c[2] < Origin(d) + b[2] * RecSize

\* Nothing decodes at some record boundary of c's segment at or before c.
Hole(D, c) == \E i \in 0 .. c[2] : /\ i * RecSize <= c[2]
                                   /\ decode_record(D, c[1], i * RecSize) = {}

\* No replay will ever reach c.
Gone(c) == \/ Hole(files, c)
           \/ \E e \in safe : e[1] < c[1] /\ Hole(files, e)

\* A byte this life may have written.
NewByte(c) ==
    /\ c \in FileByte
    /\ c[1] = seg /\ c[3][1] = run
    /\ seg < c[3][2] /\ c[3][2] <= lsn
    /\ c[4] < RecSize
    /\ Origin(c) = FileLen(files, seg) - (seg + 1) * RecSize
-----------------------------------------------------------------------------
(***************************************************************************)
(* Numbers.                                                                *)
(***************************************************************************)

\* A set of numbers has a least element, and Min returns it.
LEMMA MinFacts ==
    ASSUME NEW S, S \subseteq Nat, S # {}
    PROVE  Min(S) \in S /\ \A y \in S : Min(S) <= y
<1>1. PICK x \in S : \A z \in S : ~(<<z, x>> \in OpToRel(<, Nat))
  BY NatLessThanWellFounded, WFMin, Zenon
<1>2. \A z \in S : ~(z < x)
  BY <1>1, Zenon DEF OpToRel
<1>3. \A z \in S : x <= z
  BY <1>2
<1> QED
  BY <1>3, Zenon DEF Min

\* A bounded set of numbers has a greatest element, and Max returns it.
LEMMA MaxFacts ==
    ASSUME NEW n \in Nat, NEW S, S \subseteq 0 .. n, S # {}
    PROVE  Max(S) \in S /\ \A y \in S : y <= Max(S)
<1> DEFINE T == { n - x : x \in S }
<1>0. \A x \in S : n - x \in Nat
  OBVIOUS
<1>1. T \subseteq Nat /\ T # {}
  BY <1>0, Zenon
<1>2. PICK y \in T : \A z \in T : ~(<<z, y>> \in OpToRel(<, Nat))
  <2> HIDE DEF T
  <2> QED
    BY <1>1, NatLessThanWellFounded, WFMin, Zenon
<1>3. \A z \in T : ~(z < y)
  BY <1>1, <1>2, Zenon DEF OpToRel
<1>4. PICK x \in S : y = n - x
  OBVIOUS
<1>5. \A z \in S : x >= z
  <2> SUFFICES ASSUME NEW z \in S PROVE x >= z
    BY Zenon
  <2>1. n - z \in T
    BY Zenon
  <2>2. ~(n - z < n - x)
    BY <1>3, <1>4, <2>1, Zenon
  <2> HIDE DEF T
  <2> QED
    BY <2>2, SMTT(60)
<1> DEFINE m == Max(S)
<1>6. m \in S /\ \A z \in S : m >= z
  BY <1>5, Zenon DEF Max
<1> HIDE DEF m
<1>7. \A z \in S : z <= m
  BY <1>6, Zenon
<1> QED
  BY <1>6, <1>7 DEF m

\* Division by the size of a record.
LEMMA DivFacts ==
    ASSUME NEW a \in Nat
    PROVE  /\ a \div RecSize \in Nat
           /\ (a \div RecSize) * RecSize <= a
           /\ a < (a \div RecSize) * RecSize + RecSize
  BY SizeAssumption

\* Multiples of the size of a record are in the order of their factors.
LEMMA TimesFacts ==
    ASSUME NEW i \in Int, NEW j \in Int
    PROVE  /\ i * RecSize \in Int
           /\ i * RecSize < j * RecSize + RecSize => i <= j
           /\ i <= j => i * RecSize <= j * RecSize
           /\ (i - j) * RecSize = i * RecSize - j * RecSize
           /\ (i + j) * RecSize = i * RecSize + j * RecSize
  BY SizeAssumption

\* A record has at least one byte.
LEMMA NatTimes ==
    ASSUME NEW i \in Nat
    PROVE  i * RecSize \in Nat /\ i <= i * RecSize
  BY SizeAssumption
-----------------------------------------------------------------------------
(***************************************************************************)
(* What recover reads.                                                     *)
(***************************************************************************)

\* The length of a file is the end of its last byte.
LEMMA LenFacts ==
    ASSUME NEW D, Bounded(D), NEW g
    PROVE  /\ FileLen(D, g) \in Nat
           /\ \A c \in D : c[1] = g => c[2] < FileLen(D, g)
           /\ FileLen(D, g) # 0 =>
                 \E c \in D : c[1] = g /\ c[2] + 1 = FileLen(D, g)
<1>1. PICK n \in Nat : \A c \in D : c[2] < n
  BY DEF Bounded
<1> DEFINE E == { d \in D : d[1] = g }
           T == { c[2] + 1 : c \in E }
           S == {0} \cup T
<1>2. \A c \in D : c[2] \in Nat /\ c[2] + 1 \in 0 .. n
  BY <1>1 DEF Bounded, FileByte
<1>3. S \subseteq 0 .. n /\ S # {}
  <2>1. \A t \in T : t \in 0 .. n
    BY <1>2, Zenon
  <2> HIDE DEF T
  <2> QED
    BY <2>1
<1>4. FileLen(D, g) = Max(S)
  BY Zenon DEF FileLen
<1> DEFINE m == FileLen(D, g)
<1>5. m \in S /\ \A y \in S : y <= m
  <2> HIDE DEF S
  <2> QED
    BY <1>3, <1>4, MaxFacts, Zenon
<1>6. m \in Nat
  BY <1>3, <1>5
<1>7. ASSUME NEW c \in D, c[1] = g
      PROVE  c[2] < m
  <2>1. c[2] + 1 \in S
    BY <1>7
  <2> HIDE DEF m, S
  <2> QED
    BY <1>2, <1>5, <1>6, <2>1
<1>8. ASSUME m # 0
      PROVE  \E c \in D : c[1] = g /\ c[2] + 1 = m
  <2>1. m \in T
    BY <1>5, <1>8
  <2> HIDE DEF m
  <2> QED
    BY <2>1
<1> QED
  BY <1>6, <1>7, <1>8

\* A record decodes at q exactly if all its bytes are there.
LEMMA DecodeFacts ==
    ASSUME NEW D, NEW g, NEW q \in Int, NEW id
    PROVE  id \in decode_record(D, g, q) <=>
              \A p \in 0 .. RecSize - 1 : <<g, q + p, id, p>> \in D
<1>1. 0 \in 0 .. RecSize - 1 /\ q + 0 = q
  BY SizeAssumption
<1>2. ASSUME \A p \in 0 .. RecSize - 1 : <<g, q + p, id, p>> \in D
      PROVE  id \in decode_record(D, g, q)
  <2> DEFINE c == <<g, q, id, 0>>
  <2>1. c \in D
    BY <1>1, <1>2
  <2>2. c[1] = g /\ c[2] = q /\ c[3] = id
    OBVIOUS
  <2> HIDE DEF c
  <2>3. id \in { x[3] : x \in { d \in D : d[1] = g /\ d[2] = q } }
    BY <2>1, <2>2, Zenon
  <2> QED
    BY <1>2, <2>3, Zenon DEF decode_record
<1>3. ASSUME id \in decode_record(D, g, q)
      PROVE  \A p \in 0 .. RecSize - 1 : <<g, q + p, id, p>> \in D
  BY <1>3, Zenon DEF decode_record
<1> QED
  BY <1>2, <1>3, Zenon

\* The first byte of a record that decodes.
LEMMA DecodeFirst ==
    ASSUME NEW D, NEW g, NEW q \in Int, NEW id, id \in decode_record(D, g, q)
    PROVE  <<g, q, id, 0>> \in D
<1>1. 0 \in 0 .. RecSize - 1 /\ q + 0 = q
  BY SizeAssumption
<1>2. \A p \in 0 .. RecSize - 1 : <<g, q + p, id, p>> \in D
  BY DecodeFacts, Zenon
<1>3. <<g, q + 0, id, 0>> \in D
  BY <1>1, <1>2, Zenon
<1> QED
  BY <1>1, <1>3, Zenon

\* The replay of a segment stops at the first position where nothing decodes.
LEMMA ValidFacts ==
    ASSUME NEW D, Bounded(D), NEW g
    PROVE  /\ ValidRecords(D, g) \in Nat
           /\ decode_record(D, g, ValidRecords(D, g) * RecSize) = {}
           /\ \A i \in Nat : i < ValidRecords(D, g) =>
                 decode_record(D, g, i * RecSize) # {}
<1> DEFINE k == FileLen(D, g) \div RecSize
           S == { j \in 0 .. k : decode_record(D, g, j * RecSize) = {} }
           v == ValidRecords(D, g)
<1>1. FileLen(D, g) \in Nat
  BY LenFacts
<1>2. k \in Nat /\ FileLen(D, g) < k * RecSize + RecSize
  BY <1>1, DivFacts
<1> HIDE DEF k
<1>3. decode_record(D, g, k * RecSize) = {}
  <2> SUFFICES ASSUME NEW id \in decode_record(D, g, k * RecSize)
               PROVE  FALSE
    OBVIOUS
  <2>1. k * RecSize \in Nat /\ RecSize - 1 \in 0 .. RecSize - 1
    BY <1>2, NatTimes, SizeAssumption
  <2> DEFINE c == <<g, k * RecSize + (RecSize - 1), id, RecSize - 1>>
  <2>2. c \in D
    BY <2>1, DecodeFacts
  <2>3. c[1] = g /\ c[2] = k * RecSize + (RecSize - 1)
    OBVIOUS
  <2> HIDE DEF c
  <2>4. c[2] < FileLen(D, g)
    BY <2>2, <2>3, LenFacts
  <2> QED
    BY <1>1, <1>2, <2>1, <2>3, <2>4, SizeAssumption
<1>4. k \in S
  BY <1>2, <1>3
<1>5. v = Min(S)
  BY DEF ValidRecords, k
<1>6. v \in S /\ \A y \in S : v <= y
  <2>1. S \subseteq Nat /\ S # {}
    BY <1>4
  <2> HIDE DEF S, v
  <2> QED
    BY <1>5, <2>1, MinFacts, Zenon
<1>7. v \in 0 .. k /\ decode_record(D, g, v * RecSize) = {}
  BY <1>6
<1> HIDE DEF v
<1>8. ASSUME NEW i \in Nat, i < v
      PROVE  decode_record(D, g, i * RecSize) # {}
  <2>1. i \in 0 .. k /\ ~(v <= i)
    BY <1>2, <1>7, <1>8
  <2> QED
    BY <1>6, <2>1
<1> QED
  BY <1>7, <1>8 DEF v

\* recover reads segment g: no segment before it is torn.
Reached(D, g) ==
    /\ g \in list_segments(D)
    /\ \A h \in list_segments(D) : Torn(D, h) => g <= h

\* The PUTs that are replayed are the records in front of the first tear.
LEMMA ReplayedFacts ==
    ASSUME NEW D, NEW id
    PROVE  id \in Replayed(D) <=>
              \E g : /\ Reached(D, g)
                     /\ \E j \in 0 .. ValidRecords(D, g) - 1 :
                           id \in decode_record(D, g, j * RecSize)
<1> DEFINE segs == list_segments(D)
           torn == { g \in segs : Torn(D, g) }
           read == { g \in segs : \A h \in torn : g <= h }
<1>1. Replayed(D) = UNION { Records(D, g, ValidRecords(D, g)) : g \in read }
  BY DEF Replayed
<1>2. \A g : g \in read <=> Reached(D, g)
  BY DEF Reached
<1>3. \A g : id \in Records(D, g, ValidRecords(D, g)) <=>
               \E j \in 0 .. ValidRecords(D, g) - 1 :
                  id \in decode_record(D, g, j * RecSize)
  BY Zenon DEF Records
<1> HIDE DEF read
<1>4. id \in Replayed(D) <=>
         \E g \in read : id \in Records(D, g, ValidRecords(D, g))
  BY <1>1, Zenon
<1> QED
  BY <1>2, <1>3, <1>4, Zenon

\* What recover makes of a segment depends on its own bytes.
LEMMA SameSegment ==
    ASSUME NEW D, NEW E, NEW g,
           \A x : x[1] = g => (x \in D <=> x \in E)
    PROVE  /\ \A q : decode_record(D, g, q) = decode_record(E, g, q)
           /\ FileLen(D, g) = FileLen(E, g)
           /\ ValidRecords(D, g) = ValidRecords(E, g)
           /\ Torn(D, g) <=> Torn(E, g)
           /\ g \in list_segments(D) <=> g \in list_segments(E)
<1>1. ASSUME NEW q
      PROVE  decode_record(D, g, q) = decode_record(E, g, q)
  <2>1. { d \in D : d[1] = g /\ d[2] = q } = { d \in E : d[1] = g /\ d[2] = q }
    BY Zenon
  <2>2. \A id, p : <<g, q + p, id, p>> \in D <=> <<g, q + p, id, p>> \in E
    OBVIOUS
  <2> QED
    BY <2>1, <2>2, Zenon DEF decode_record
<1>2. FileLen(D, g) = FileLen(E, g)
  <2>1. { d \in D : d[1] = g } = { d \in E : d[1] = g }
    BY Zenon
  <2> QED
    BY <2>1, Zenon DEF FileLen
<1>3. ValidRecords(D, g) = ValidRecords(E, g)
  BY <1>1, <1>2, Zenon DEF ValidRecords
<1>4. Torn(D, g) <=> Torn(E, g)
  BY <1>2, <1>3, Zenon DEF Torn
<1>5. g \in list_segments(D) <=> g \in list_segments(E)
  BY Zenon DEF list_segments
<1> QED
  BY <1>1, <1>2, <1>3, <1>4, <1>5, Zenon
-----------------------------------------------------------------------------
(***************************************************************************)
(* What a history of lives says of the files.                              *)
(***************************************************************************)

\* A byte of a history: its numbers, and its place.
LEMMA HistByte ==
    ASSUME NEW D, NEW puts, NEW r, Hist(D, puts, r), NEW c \in D
    PROVE  /\ c[1] \in Nat /\ c[2] \in Nat /\ c[4] \in Nat
           /\ c[3][1] \in Nat /\ c[3][2] \in Nat
           /\ c[3] = <<c[3][1], c[3][2]>>
           /\ c = <<c[1], c[2], c[3], c[4]>>
           /\ c[4] \in 0 .. RecSize - 1
           /\ c[3] \in puts
           /\ c[1] < c[3][2]
           /\ c[3][2] * RecSize \in Nat
           /\ Origin(c) \in Int
           /\ Origin(c) + c[3][2] * RecSize = c[2] - c[4]
<1>1. c \in FileByte /\ c[4] < RecSize /\ c[3] \in puts /\ c[1] < c[3][2]
  BY DEF Hist, Bounded
<1>2. /\ c[1] \in Nat /\ c[2] \in Nat /\ c[4] \in Nat
      /\ c[3] \in Nat \X Nat
      /\ c = <<c[1], c[2], c[3], c[4]>>
  BY <1>1 DEF FileByte
<1>3. c[3][1] \in Nat /\ c[3][2] \in Nat /\ c[3] = <<c[3][1], c[3][2]>>
  BY <1>2
<1>4. c[4] \in 0 .. RecSize - 1
  BY <1>1, <1>2, SizeAssumption
<1>5. c[3][2] * RecSize \in Nat
  BY <1>3, NatTimes
<1>6. Origin(c) \in Int /\ Origin(c) + c[3][2] * RecSize = c[2] - c[4]
  <2> DEFINE m == c[3][2] * RecSize
  <2>1. Origin(c) = c[2] - c[4] - m
    BY DEF Origin
  <2> HIDE DEF m
  <2>2. m \in Nat
    BY <1>5 DEF m
  <2>3. Origin(c) \in Int /\ Origin(c) + m = c[2] - c[4]
    BY <1>2, <2>1, <2>2
  <2> QED
    BY <2>3 DEF m
<1> QED
  BY <1>1, <1>2, <1>3, <1>4, <1>5, <1>6, SMTT(60)

\* A later life writes behind the earlier ones.
LEMMA HistLater ==
    ASSUME NEW D, NEW puts, NEW r, Hist(D, puts, r),
           NEW c \in D, NEW d \in D, c[1] = d[1], c[3][1] < d[3][1]
    PROVE  c[2] < d[2] - d[4] /\ c[2] < d[2]
<1>1. c[2] \in Nat /\ d[2] \in Nat /\ d[4] \in Nat /\ d[3] \in puts
  BY HistByte
<1>2. c[2] < Origin(d) + d[3][2] * RecSize
  BY <1>1 DEF Hist
<1>3. Origin(d) + d[3][2] * RecSize = d[2] - d[4]
  BY HistByte
<1> QED
  BY <1>1, <1>2, <1>3

\* In one life the position and the LSN of a byte determine each other.
LEMMA HistSameLife ==
    ASSUME NEW D, NEW puts, NEW r, Hist(D, puts, r),
           NEW c \in D, NEW d \in D, c[3][1] = d[3][1]
    PROVE  /\ c[1] = d[1]
           /\ c[2] - c[4] = d[2] - d[4] <=> c[3] = d[3]
           /\ c[3] = d[3] /\ c[4] = d[4] => c = d
           /\ c[2] = d[2] => c = d
<1>1. c[1] = d[1] /\ Origin(c) = Origin(d)
  BY DEF Hist
<1> DEFINE m == c[3][2]
           n == d[3][2]
<1>2. /\ c[2] \in Nat /\ d[2] \in Nat
      /\ c[4] \in 0 .. RecSize - 1 /\ d[4] \in 0 .. RecSize - 1
      /\ c[3] = <<c[3][1], m>> /\ d[3] = <<d[3][1], n>>
      /\ m \in Nat /\ n \in Nat
      /\ c = <<c[1], c[2], c[3], c[4]>>
      /\ d = <<d[1], d[2], d[3], d[4]>>
  BY HistByte, ZenonT(60)
<1>3. /\ Origin(c) \in Int
      /\ Origin(c) + m * RecSize = c[2] - c[4]
      /\ Origin(c) + n * RecSize = d[2] - d[4]
  BY <1>1, HistByte, Zenon
<1> HIDE DEF m, n
<1> DEFINE x == m * RecSize
           y == n * RecSize
<1>4. /\ x \in Int /\ y \in Int
      /\ x < y + RecSize => m <= n
      /\ y < x + RecSize => n <= m
  BY <1>2, TimesFacts
<1>5. m = n => x = y
  OBVIOUS
<1> HIDE DEF x, y
<1>6. Origin(c) + x = c[2] - c[4] /\ Origin(c) + y = d[2] - d[4]
  BY <1>3 DEF x, y
<1>7. ASSUME x < y + RecSize, y < x + RecSize
      PROVE  m = n
  BY <1>2, <1>4, <1>7
<1>14. c[2] - c[4] = d[2] - d[4] => m = n
  <2>1. c[2] - c[4] = d[2] - d[4] => x < y + RecSize /\ y < x + RecSize
    BY <1>2, <1>3, <1>4, <1>6, SizeAssumption, SMTT(60)
  <2> QED
    BY <1>7, <2>1
<1>8. m = n => c[2] - c[4] = d[2] - d[4]
  BY <1>2, <1>3, <1>5, <1>6, SMTT(60)
<1>9. c[2] = d[2] => m = n
  <2>1. c[2] = d[2] => x < y + RecSize /\ y < x + RecSize
    BY <1>2, <1>3, <1>4, <1>6, SizeAssumption, SMTT(60)
  <2> QED
    BY <1>7, <2>1
<1>10. m = n <=> c[3] = d[3]
  BY <1>2
<1>11. m = n /\ c[2] = d[2] => c[4] = d[4]
  BY <1>2, <1>8
<1>12. m = n /\ c[4] = d[4] => c[2] = d[2]
  BY <1>2, <1>8
<1>13. m = n /\ c[2] = d[2] /\ c[4] = d[4] => c = d
  BY <1>1, <1>2, <1>10, Zenon
<1> QED
  BY <1>1, <1>14, <1>8, <1>9, <1>10, <1>11, <1>12, <1>13, ZenonT(60)

\* No position of a file is written twice.
LEMMA HistUnique ==
    ASSUME NEW D, NEW puts, NEW r, Hist(D, puts, r),
           NEW c \in D, NEW d \in D, c[1] = d[1], c[2] = d[2]
    PROVE  c = d
<1>1. c[3][1] \in Nat /\ d[3][1] \in Nat /\ c[2] \in Nat /\ d[2] \in Nat
  BY HistByte
<1>2. CASE c[3][1] < d[3][1]
  <2>1. c[2] < d[2]
    BY <1>2, HistLater, Zenon
  <2> QED
    BY <1>1, <2>1
<1>3. CASE d[3][1] < c[3][1]
  <2>1. d[2] < c[2]
    BY <1>3, HistLater, Zenon
  <2> QED
    BY <1>1, <2>1
<1>4. CASE c[3][1] = d[3][1]
  BY <1>4, HistSameLife, Zenon
<1> QED
  BY <1>1, <1>2, <1>3, <1>4

\* A part of a history is one: a power loss takes bytes away.
LEMMA HistSubset ==
    ASSUME NEW D, NEW puts, NEW r, Hist(D, puts, r), NEW E, E \subseteq D
    PROVE  Hist(E, puts, r)
<1>1. Bounded(E)
  BY DEF Hist, Bounded
<1> QED
  BY <1>1, Zenon DEF Hist

\* The record of a byte that is replayed: where it is in its segment.
LEMMA HistReplay ==
    ASSUME NEW D, NEW puts, NEW r, Hist(D, puts, r),
           NEW c \in D, c[3] \in Replayed(D)
    PROVE  /\ Reached(D, c[1])
           /\ \E j \in 0 .. ValidRecords(D, c[1]) - 1 :
                 c[2] - c[4] = j * RecSize
<1>0. Bounded(D)
  BY DEF Hist
<1>1. PICK g : /\ Reached(D, g)
               /\ \E j \in 0 .. ValidRecords(D, g) - 1 :
                     c[3] \in decode_record(D, g, j * RecSize)
  BY ReplayedFacts, Zenon
<1>2. PICK j \in 0 .. ValidRecords(D, g) - 1 :
              c[3] \in decode_record(D, g, j * RecSize)
  BY <1>1
<1>3. ValidRecords(D, g) \in Nat
  BY <1>0, ValidFacts
<1>4. j \in Nat /\ j * RecSize \in Int
  BY <1>2, <1>3, NatTimes
<1> DEFINE e == <<g, j * RecSize, c[3], 0>>
<1>5. e \in D
  BY <1>2, <1>4, DecodeFirst, Zenon
<1>6. e[1] = g /\ e[2] = j * RecSize /\ e[3] = c[3] /\ e[4] = 0
  OBVIOUS
<1> HIDE DEF e
<1>7. c[1] = e[1] /\ c[2] - c[4] = e[2] - e[4]
  BY <1>5, <1>6, HistSameLife, ZenonT(60)
<1>8. c[2] - c[4] = j * RecSize
  BY <1>4, <1>6, <1>7
<1> QED
  BY <1>1, <1>2, <1>6, <1>7, <1>8, ZenonT(60)

\* A life is replayed from its first PUT on.
LEMMA HistPrefix ==
    ASSUME NEW D, NEW puts, NEW r, Hist(D, puts, r),
           NEW a \in Replayed(D), NEW b \in puts, a[1] = b[1], b[2] < a[2]
    PROVE  b \in Replayed(D)
<1>0. Bounded(D) /\ b \in Nat \X Nat /\ b[2] \in Nat /\ b = <<b[1], b[2]>>
  BY DEF Hist
<1>1. PICK g : /\ Reached(D, g)
               /\ \E j \in 0 .. ValidRecords(D, g) - 1 :
                     a \in decode_record(D, g, j * RecSize)
  BY ReplayedFacts, Zenon
<1>2. PICK j \in 0 .. ValidRecords(D, g) - 1 :
              a \in decode_record(D, g, j * RecSize)
  BY <1>1
<1>3. /\ ValidRecords(D, g) \in Nat
      /\ \A i \in Nat : i < ValidRecords(D, g) =>
            decode_record(D, g, i * RecSize) # {}
  BY <1>0, ValidFacts, Zenon
<1>4. j \in Nat /\ j < ValidRecords(D, g) /\ j * RecSize \in Int
  BY <1>2, <1>3, NatTimes
<1> DEFINE d == <<g, j * RecSize, a, 0>>
<1>5. d \in D
  BY <1>2, <1>4, DecodeFirst, Zenon
<1>6. d[1] = g /\ d[2] = j * RecSize /\ d[3] = a /\ d[4] = 0
  OBVIOUS
<1> HIDE DEF d
<1>7. /\ a[1] \in Nat /\ a[2] \in Nat /\ a = <<a[1], a[2]>>
      /\ Origin(d) \in Int /\ Origin(d) + a[2] * RecSize = d[2] - d[4]
  BY <1>5, <1>6, HistByte, Zenon
<1> DEFINE k == j - (a[2] - b[2])
\* The place of b is the start of record k of the segment.
<1>8. Origin(d) + b[2] * RecSize = k * RecSize
  <2> DEFINE x == a[2] * RecSize
             y == b[2] * RecSize
             z == j * RecSize
  <2>1. (a[2] - b[2]) * RecSize = x - y /\ x \in Int /\ y \in Int
    BY <1>0, <1>7, TimesFacts
  <2>2. k * RecSize = z - (a[2] - b[2]) * RecSize
    BY <1>0, <1>4, <1>7, TimesFacts
  <2>3. z \in Int /\ Origin(d) + x = z - 0
    BY <1>4, <1>6, <1>7
  <2> HIDE DEF x, y, z
  <2>4. k * RecSize = z - (x - y)
    BY <2>1, <2>2
  <2>5. Origin(d) + y = z - (x - y)
    BY <1>7, <2>1, <2>3, SMTT(60)
  <2> QED
    BY <2>4, <2>5 DEF y
<1>9. 0 <= Origin(d) + b[2] * RecSize
  BY <1>5, <1>6 DEF Hist
<1>10. k \in Nat /\ k < j
  <2>1. k \in Int /\ k < j
    BY <1>0, <1>4, <1>7
  <2>2. 0 <= k * RecSize
    BY <1>8, <1>9
  <2>3. 0 <= k
    <3> HIDE DEF k
    <3>1. 0 * RecSize < k * RecSize + RecSize => 0 <= k
      BY <2>1, TimesFacts
    <3>2. 0 * RecSize = 0 /\ k * RecSize \in Int
      BY <2>1, TimesFacts, SizeAssumption
    <3> QED
      BY <2>2, <3>1, <3>2, SizeAssumption
  <2> QED
    BY <2>1, <2>3
<1> HIDE DEF k
<1>11. k * RecSize \in Int /\ k < ValidRecords(D, g)
  BY <1>3, <1>4, <1>10, NatTimes
<1>12. PICK id : id \in decode_record(D, g, k * RecSize)
  BY <1>3, <1>10, <1>11, Zenon
<1> DEFINE e == <<g, k * RecSize, id, 0>>
<1>13. e \in D
  BY <1>11, <1>12, DecodeFirst, Zenon
<1>14. e[1] = g /\ e[2] = k * RecSize /\ e[3] = id /\ e[4] = 0
  OBVIOUS
<1> HIDE DEF e
<1>15. id[1] \in Nat /\ id[2] \in Nat /\ id = <<id[1], id[2]>>
  BY <1>13, <1>14, HistByte, Zenon
<1>16. ~(id[1] < a[1])
  <2> SUFFICES ASSUME id[1] < a[1]
               PROVE  FALSE
    OBVIOUS
  <2>1. e[2] < Origin(d) + b[2] * RecSize
    BY <1>5, <1>6, <1>13, <1>14, ZenonT(60) DEF Hist
  <2> QED
    BY <1>8, <1>11, <1>14, <2>1
<1>17. ~(a[1] < id[1])
  <2> SUFFICES ASSUME a[1] < id[1]
               PROVE  FALSE
    OBVIOUS
  <2>1. d[2] < e[2]
    BY <1>5, <1>6, <1>13, <1>14, HistLater, ZenonT(60)
  <2>2. k * RecSize <= j * RecSize
    BY <1>4, <1>10, TimesFacts
  <2> QED
    BY <1>4, <1>6, <1>11, <1>14, <2>1, <2>2, SMTT(60)
<1>18. id[1] = a[1]
  BY <1>7, <1>15, <1>16, <1>17, SMTT(60)
<1>19. id[2] = b[2]
  <2>1. Origin(e) = Origin(d)
    BY <1>5, <1>6, <1>13, <1>14, <1>18, Zenon DEF Hist
  <2>2. Origin(e) + id[2] * RecSize = e[2] - e[4]
    BY <1>13, <1>14, HistByte, Zenon
  <2> DEFINE x == id[2] * RecSize
             y == b[2] * RecSize
  <2>3. x \in Int /\ y \in Int /\ (x < y + RecSize => id[2] <= b[2])
        /\ (y < x + RecSize => b[2] <= id[2])
    BY <1>0, <1>15, TimesFacts, SMTT(60)
  <2>4. Origin(d) + x = Origin(d) + y
    BY <1>8, <1>11, <1>14, <2>1, <2>2, SMTT(60)
  <2> HIDE DEF x, y
  <2>5. x < y + RecSize /\ y < x + RecSize
    BY <1>7, <2>3, <2>4, SizeAssumption, SMTT(60)
  <2> QED
    BY <1>0, <1>15, <2>3, <2>5
<1>20. id = b
  BY <1>0, <1>15, <1>18, <1>19, Zenon
<1>21. k \in 0 .. ValidRecords(D, g) - 1
  BY <1>3, <1>10, <1>11
<1> QED
  BY <1>1, <1>12, <1>20, <1>21, ReplayedFacts, Zenon

\* A segment is not read beyond a hole.
LEMMA HoleValid ==
    ASSUME NEW D, Bounded(D), NEW c \in D, Hole(D, c)
    PROVE  ValidRecords(D, c[1]) * RecSize <= c[2] /\ Torn(D, c[1])
<1> DEFINE v == ValidRecords(D, c[1])
<1>1. PICK i \in 0 .. c[2] : /\ i * RecSize <= c[2]
                             /\ decode_record(D, c[1], i * RecSize) = {}
  BY DEF Hole
<1>2. v \in Nat /\ c[2] \in Nat /\ i \in Nat
  <2>1. v \in Nat
    BY ValidFacts, Zenon
  <2>2. c[2] \in Nat
    BY DEF Bounded, FileByte
  <2> QED
    BY <1>1, <2>1, <2>2
<1>3. ~(i < v)
  BY <1>1, <1>2, ValidFacts, Zenon
<1> HIDE DEF v
<1>4. v * RecSize \in Int /\ i * RecSize \in Int /\ v * RecSize <= i * RecSize
  <2>1. v \in Int /\ i \in Int /\ v <= i
    BY <1>2, <1>3
  <2> QED
    BY <2>1, TimesFacts, Zenon
<1>5. v * RecSize <= c[2]
  BY <1>1, <1>2, <1>4
<1>6. FileLen(D, c[1]) \in Nat /\ c[2] < FileLen(D, c[1])
  BY LenFacts
<1>7. v * RecSize < FileLen(D, c[1])
  BY <1>2, <1>4, <1>5, <1>6
<1> QED
  BY <1>5, <1>7 DEF v, Torn

\* What is behind a hole, in its segment or in a later one, is not replayed.
LEMMA HoleHides ==
    ASSUME NEW D, NEW puts, NEW r, Hist(D, puts, r),
           NEW c \in D, NEW e \in D, Hole(D, e), e = c \/ e[1] < c[1]
    PROVE  c[3] \notin Replayed(D)
<1> SUFFICES ASSUME c[3] \in Replayed(D)
             PROVE  FALSE
  OBVIOUS
<1>0. Bounded(D)
  BY DEF Hist
<1>1. /\ Reached(D, c[1])
      /\ \E j \in 0 .. ValidRecords(D, c[1]) - 1 : c[2] - c[4] = j * RecSize
  BY HistReplay, Zenon
<1>2. ValidRecords(D, e[1]) * RecSize <= e[2] /\ Torn(D, e[1])
  BY <1>0, HoleValid, Zenon
<1>3. CASE e[1] < c[1]
  <2>1. e[1] \in list_segments(D)
    BY DEF list_segments
  <2>2. c[1] <= e[1]
    BY <1>1, <1>2, <2>1, SMTT(60) DEF Reached
  <2>3. c[1] \in Nat /\ e[1] \in Nat
    BY HistByte
  <2> QED
    BY <1>3, <2>2, <2>3
<1>4. CASE e = c
  <2> DEFINE v == ValidRecords(D, c[1])
  <2>1. PICK j \in 0 .. v - 1 : c[2] - c[4] = j * RecSize
    BY <1>1
  <2>2. v \in Nat /\ c[2] \in Nat /\ c[4] \in 0 .. RecSize - 1
    BY <1>0, ValidFacts, HistByte
  <2>3. v * RecSize <= c[2]
    BY <1>2, <1>4
  <2> HIDE DEF v
  <2>4. v * RecSize \in Int /\ j * RecSize \in Int
        /\ (v * RecSize < j * RecSize + RecSize => v <= j)
    <3>1. v \in Int /\ j \in Int
      BY <2>1, <2>2
    <3> QED
      BY <3>1, TimesFacts, Zenon
  <2> DEFINE x == v * RecSize
             y == j * RecSize
  <2> HIDE DEF x, y
  <2>5. x < y + RecSize
    BY <2>1, <2>2, <2>3, <2>4, SizeAssumption, SMTT(60) DEF x, y
  <2> QED
    BY <2>1, <2>2, <2>4, <2>5, SMTT(60) DEF x, y
<1> QED
  BY <1>3, <1>4

\* What is not replayed is behind a hole.
LEMMA HiddenByHole ==
    ASSUME NEW D, NEW puts, NEW r, Hist(D, puts, r),
           NEW c \in D, c[3] \notin Replayed(D)
    PROVE  \/ Hole(D, c)
           \/ ~Reached(D, c[1]) /\ \E e \in D : e[1] < c[1] /\ Hole(D, e)
<1>0. Bounded(D)
  BY DEF Hist
<1> DEFINE g == c[1]
           v == ValidRecords(D, g)
<1>1. /\ v \in Nat /\ decode_record(D, g, v * RecSize) = {}
      /\ \A i \in Nat : i < v => decode_record(D, g, i * RecSize) # {}
  BY <1>0, ValidFacts, Zenon
<1>2. c[1] \in Nat /\ c[2] \in Nat
  BY HistByte
<1> HIDE DEF v
<1>3. v * RecSize \in Nat /\ v <= v * RecSize
  BY <1>1, NatTimes
<1>4. CASE v * RecSize <= c[2]
  <2>1. v \in 0 .. c[2]
    BY <1>1, <1>2, <1>3, <1>4, SMTT(60)
  <2> QED
    BY <1>1, <1>4, <2>1 DEF Hole
<1>5. CASE c[2] < v * RecSize
  <2> DEFINE j == c[2] \div RecSize
             p == c[2] - j * RecSize
  <2>1. j \in Nat /\ j * RecSize <= c[2] /\ c[2] < j * RecSize + RecSize
    BY <1>2, DivFacts
  <2> HIDE DEF j
  <2>2. j * RecSize \in Nat
    BY <2>1, NatTimes
  <2>3. p \in 0 .. RecSize - 1 /\ j * RecSize + p = c[2]
    BY <1>2, <2>1, <2>2, SizeAssumption, SMTT(60)
  <2>4. j < v
    <3>1. ~(v <= j)
      <4>1. v <= j => v * RecSize <= j * RecSize
        BY <1>1, <2>1, TimesFacts
      <4> QED
        BY <1>2, <1>3, <1>5, <2>1, <2>2, <4>1, SMTT(60)
    <3> QED
      BY <1>1, <2>1, <3>1, SMTT(60)
  <2>5. PICK id : id \in decode_record(D, g, j * RecSize)
    BY <1>1, <2>1, <2>4, Zenon
  <2> DEFINE e == <<g, j * RecSize + p, id, p>>
  <2>6. e \in D
    BY <2>2, <2>3, <2>5, DecodeFacts, SMTT(60)
  <2>7. e[1] = g /\ e[2] = j * RecSize + p /\ e[3] = id
    OBVIOUS
  <2> HIDE DEF e, p
  <2>8. e = c
    BY <2>3, <2>6, <2>7, HistUnique, Zenon
  <2>9. c[3] \in decode_record(D, g, j * RecSize)
    BY <2>5, <2>7, <2>8, SMTT(60)
  <2>10. j \in 0 .. v - 1
    BY <1>1, <2>1, <2>4
  <2>11. ~Reached(D, g)
    BY <2>9, <2>10, ReplayedFacts, Zenon DEF v
  <2>12. g \in list_segments(D)
    BY DEF list_segments
  <2>13. PICK h \in list_segments(D) : Torn(D, h) /\ ~(g <= h)
    BY <2>11, <2>12 DEF Reached
  <2> DEFINE u == ValidRecords(D, h)
             m == FileLen(D, h)
  <2>14. /\ u \in Nat /\ decode_record(D, h, u * RecSize) = {}
         /\ m \in Nat
         /\ m # 0 => \E x \in D : x[1] = h /\ x[2] + 1 = m
    BY <1>0, ValidFacts, LenFacts, Zenon
  <2>15. u * RecSize < m
    BY <2>13 DEF Torn
  <2> HIDE DEF u, m
  <2>16. u * RecSize \in Nat /\ u <= u * RecSize
    BY <2>14, NatTimes
  <2>17. PICK x \in D : x[1] = h /\ x[2] + 1 = m
    BY <2>14, <2>15, <2>16
  <2>18. x[1] \in Nat /\ x[2] \in Nat
    BY HistByte
  <2>19. u * RecSize <= x[2] /\ u \in 0 .. x[2]
    BY <2>14, <2>15, <2>16, <2>17, <2>18, SMTT(60)
  <2>20. Hole(D, x)
    BY <2>14, <2>17, <2>19, SMTT(60) DEF Hole
  <2>21. x[1] < c[1]
    BY <1>2, <2>13, <2>17, <2>18
  <2> QED
    BY <2>11, <2>20, <2>21
<1> QED
  BY <1>2, <1>3, <1>4, <1>5, SMTT(60)

\* From D to E, bytes were lost, and only life r, which wrote nothing of D, wrote
\* new ones, none of them in front of c.
GrowsBehind(D, E, c, r) ==
    /\ \A x \in D : x[3][1] # r
    /\ \A x \in E : x \in D \/ (x[3][1] = r /\ (x[1] = c[1] => c[2] < x[2]))

\* Nobody fills a hole: bytes that are lost do not come back, and a new life
\* writes behind the byte that the hole is in front of.
LEMMA HoleStays ==
    ASSUME NEW D, NEW E, NEW c \in D, Hole(D, c), c[2] \in Nat, NEW r,
           GrowsBehind(D, E, c, r)
    PROVE  Hole(E, c)
<1>0. /\ \A x \in D : x[3][1] # r
      /\ \A x \in E : x \in D \/ (x[3][1] = r /\ (x[1] = c[1] => c[2] < x[2]))
  BY Zenon DEF GrowsBehind
<1>1. PICK i \in 0 .. c[2] : /\ i * RecSize <= c[2]
                             /\ decode_record(D, c[1], i * RecSize) = {}
  BY DEF Hole
<1> DEFINE q == i * RecSize
<1>2. q \in Int /\ q <= c[2]
  BY <1>1, NatTimes
<1> HIDE DEF q
<1>3. ASSUME NEW id \in decode_record(E, c[1], q)
      PROVE  FALSE
  <2> DEFINE e(p) == <<c[1], q + p, id, p>>
             f == <<c[1], q, id, 0>>
  <2>1. \A p \in 0 .. RecSize - 1 : e(p) \in E
    BY <1>2, DecodeFacts, Zenon
  <2>2. f \in E /\ f[1] = c[1] /\ f[2] = q /\ f[3] = id
    BY <1>2, DecodeFirst, Zenon
  <2> HIDE DEF f
  <2>3. f \in D
    BY <1>0, <1>2, <2>2, SMTT(60)
  <2>4. id[1] # r
    BY <1>0, <2>2, <2>3
  <2>5. \A p : e(p)[3] = id
    OBVIOUS
  <2> HIDE DEF e
  <2>6. \A p \in 0 .. RecSize - 1 : e(p) \in D
    BY <1>0, <2>1, <2>4, <2>5, Zenon
  <2>7. id \in decode_record(D, c[1], q)
    BY <1>2, <2>6, DecodeFacts, Zenon DEF e
  <2> QED
    BY <1>1, <2>7, Zenon DEF q
<1>4. decode_record(E, c[1], i * RecSize) = {}
  BY <1>3, Zenon DEF q
<1> QED
  BY <1>1, <1>4, Zenon DEF Hole

\* A PUT that is replayed has a byte in the files.
LEMMA ReplayedByte ==
    ASSUME NEW D, Bounded(D), NEW id \in Replayed(D)
    PROVE  \E c \in D : c[3] = id /\ Reached(D, c[1])
<1>1. PICK g : /\ Reached(D, g)
               /\ \E j \in 0 .. ValidRecords(D, g) - 1 :
                     id \in decode_record(D, g, j * RecSize)
  BY ReplayedFacts, Zenon
<1>2. PICK j \in 0 .. ValidRecords(D, g) - 1 :
              id \in decode_record(D, g, j * RecSize)
  BY <1>1
<1>3. ValidRecords(D, g) \in Nat
  BY ValidFacts, Zenon
<1>4. j * RecSize \in Int
  BY <1>2, <1>3, NatTimes
<1> DEFINE e == <<g, j * RecSize, id, 0>>
<1>5. e \in D
  BY <1>2, <1>4, DecodeFirst, Zenon
<1>6. e[1] = g /\ e[3] = id
  OBVIOUS
<1> QED
  BY <1>1, <1>5, <1>6

\* recover goes on behind the highest LSN it replayed.
LEMMA RecoverFacts ==
    ASSUME NEW D, Bounded(D)
    PROVE  /\ recover(Replayed(D)) \in Nat
           /\ \A id \in Replayed(D) : id[2] < recover(Replayed(D))
           /\ \A ids \in SUBSET Replayed(D) : recover(ids) <= recover(Replayed(D))
<1>1. PICK n \in Nat : \A c \in D : c[3][2] < n
  BY DEF Bounded
<1>2. \A c \in D : c[3][2] \in 0 .. n
  BY <1>1 DEF Bounded, FileByte
<1>3. \A id \in Replayed(D) : id[2] \in 0 .. n
  BY <1>2, ReplayedByte, Zenon
<1> DEFINE T(ids) == {0} \cup { id[2] : id \in ids }
<1>4. ASSUME NEW ids \in SUBSET Replayed(D)
      PROVE  /\ Max(T(ids)) \in 0 .. n
             /\ Max(T(ids)) \in T(ids)
             /\ \A y \in T(ids) : y <= Max(T(ids))
             /\ recover(ids) = Max(T(ids)) + 1
  <2>1. T(ids) \subseteq 0 .. n /\ T(ids) # {}
    BY <1>3
  <2>2. recover(ids) = Max(T(ids)) + 1
    BY DEF recover
  <2> HIDE DEF T
  <2>3. Max(T(ids)) \in T(ids) /\ \A y \in T(ids) : y <= Max(T(ids))
    BY <2>1, MaxFacts, Zenon
  <2> QED
    BY <2>1, <2>2, <2>3
<1> DEFINE m == Max(T(Replayed(D)))
<1>5. /\ m \in 0 .. n
      /\ \A y \in T(Replayed(D)) : y <= m
      /\ recover(Replayed(D)) = m + 1
  BY <1>4
<1>6. ASSUME NEW id \in Replayed(D)
      PROVE  id[2] < recover(Replayed(D))
  <2>1. id[2] \in T(Replayed(D))
    OBVIOUS
  <2> HIDE DEF T, m
  <2> QED
    BY <1>3, <1>5, <2>1, SMTT(60)
<1>7. ASSUME NEW ids \in SUBSET Replayed(D)
      PROVE  recover(ids) <= recover(Replayed(D))
  <2>1. T(ids) \subseteq T(Replayed(D))
    OBVIOUS
  <2> HIDE DEF T, m
  <2>2. Max(T(ids)) <= m /\ Max(T(ids)) \in 0 .. n /\ recover(ids) = Max(T(ids)) + 1
    BY <1>4, <1>5, <2>1, SMTT(60)
  <2> QED
    BY <1>5, <2>2
<1>8. recover(Replayed(D)) \in Nat
  <2> HIDE DEF m
  <2> QED
    BY <1>5
<1> QED
  BY <1>6, <1>7, <1>8

\* A crash of the process in a life that wrote to segment s, which recover named:
\* what was replayed before is replayed again, and if recover goes on elsewhere
\* it has read s.
LEMMA KillKeeps ==
    ASSUME NEW D, NEW puts, NEW r, Hist(D, puts, r),
           NEW E, E \subseteq D, NEW s, s = recover(Replayed(E)),
           \A x \in D : x \in E \/ x[1] = s
    PROVE  /\ Replayed(E) \subseteq Replayed(D)
           /\ s <= recover(Replayed(D))
           /\ recover(Replayed(D)) # s =>
                 \A h \in list_segments(D) : Torn(D, h) => s <= h
<1>0. Bounded(D) /\ Bounded(E)
  BY DEF Hist, Bounded
<1>1. s \in Nat /\ \A id \in Replayed(E) : id[2] < s
  BY <1>0, RecoverFacts, Zenon
<1>2. ASSUME NEW g, g # s
      PROVE  /\ \A q : decode_record(D, g, q) = decode_record(E, g, q)
             /\ ValidRecords(D, g) = ValidRecords(E, g)
             /\ Torn(D, g) <=> Torn(E, g)
             /\ g \in list_segments(D) <=> g \in list_segments(E)
  <2>1. \A x : x[1] = g => (x \in D <=> x \in E)
    BY <1>2, Zenon
  <2> QED
    BY <2>1, SameSegment, Zenon
<1>3. \A h \in list_segments(D) : h \in Nat
  <2>1. \A x \in D : x[1] \in Nat
    BY HistByte
  <2> QED
    BY <2>1, Zenon DEF list_segments
<1>4. ASSUME NEW id \in Replayed(E)
      PROVE  id \in Replayed(D)
  <2>1. PICK g : /\ Reached(E, g)
                 /\ \E j \in 0 .. ValidRecords(E, g) - 1 :
                       id \in decode_record(E, g, j * RecSize)
    BY ReplayedFacts, Zenon
  <2>2. g < s
    <3>1. PICK j \in 0 .. ValidRecords(E, g) - 1 :
                  id \in decode_record(E, g, j * RecSize)
      BY <2>1
    <3>2. ValidRecords(E, g) \in Nat
      BY <1>0, ValidFacts, Zenon
    <3>3. j * RecSize \in Int
      BY <3>1, <3>2, NatTimes
    <3> DEFINE e == <<g, j * RecSize, id, 0>>
    <3>4. e \in D
      BY <3>1, <3>3, DecodeFirst, Zenon
    <3>5. e[1] = g /\ e[3] = id
      OBVIOUS
    <3> HIDE DEF e
    <3>6. e[1] < e[3][2] /\ e[1] \in Nat /\ e[3][2] \in Nat
      BY <3>4, HistByte, Zenon
    <3> QED
      BY <1>1, <3>5, <3>6
  <2>3. g # s /\ g \in list_segments(E)
    BY <1>1, <2>1, <2>2 DEF Reached
  <2>4. g \in list_segments(D)
    BY <1>2, <2>3, Zenon
  <2>5. ASSUME NEW h \in list_segments(D), Torn(D, h)
        PROVE  g <= h
    <3>1. CASE h = s
      BY <1>1, <1>3, <2>2, <2>4, <3>1, SMTT(60)
    <3>2. CASE h # s
      <4>1. h \in list_segments(E) /\ Torn(E, h)
        BY <1>2, <2>5, <3>2, Zenon
      <4> QED
        BY <2>1, <4>1 DEF Reached
    <3> QED
      BY <3>1, <3>2
  <2>6. Reached(D, g)
    BY <2>4, <2>5 DEF Reached
  <2>7. \E j \in 0 .. ValidRecords(D, g) - 1 :
           id \in decode_record(D, g, j * RecSize)
    BY <1>2, <2>1, <2>3, Zenon
  <2> QED
    BY <2>6, <2>7, ReplayedFacts, Zenon
<1>5. Replayed(E) \subseteq Replayed(D)
  BY <1>4
<1>6. s <= recover(Replayed(D))
  BY <1>0, <1>5, RecoverFacts, Zenon
<1>7. ASSUME recover(Replayed(D)) # s,
             NEW h \in list_segments(D), Torn(D, h), ~(s <= h)
      PROVE  FALSE
  <2>1. h \in Nat /\ h < s
    BY <1>1, <1>3, <1>7
  <2>2. ASSUME NEW id \in Replayed(D)
        PROVE  id \in Replayed(E)
    <3>1. PICK g : /\ Reached(D, g)
                   /\ \E j \in 0 .. ValidRecords(D, g) - 1 :
                         id \in decode_record(D, g, j * RecSize)
      BY ReplayedFacts, Zenon
    <3>2. g \in list_segments(D) /\ g <= h
      BY <1>7, <3>1 DEF Reached
    <3>3. g \in Nat /\ g < s /\ g # s
      BY <1>1, <1>3, <2>1, <3>2
    <3>4. g \in list_segments(E)
      BY <1>2, <3>2, <3>3, Zenon
    <3>5. ASSUME NEW k \in list_segments(E), Torn(E, k)
          PROVE  g <= k
      <4>1. CASE k = s
        BY <1>1, <3>3, <4>1, SMTT(60)
      <4>2. CASE k # s
        <5>1. k \in list_segments(D) /\ Torn(D, k)
          BY <1>2, <3>5, <4>2, Zenon
        <5> QED
          BY <3>1, <5>1 DEF Reached
      <4> QED
        BY <4>1, <4>2
    <3>6. Reached(E, g)
      BY <3>4, <3>5 DEF Reached
    <3>7. \E j \in 0 .. ValidRecords(E, g) - 1 :
             id \in decode_record(E, g, j * RecSize)
      BY <1>2, <3>1, <3>3, Zenon
    <3> QED
      BY <3>6, <3>7, ReplayedFacts, Zenon
  <2>3. Replayed(D) = Replayed(E)
    BY <1>5, <2>2, ZenonT(60)
  <2> QED
    BY <1>7, <2>3
<1> QED
  BY <1>5, <1>6, <1>7, ZenonT(60)

\* A new byte is at or behind the end of the file that the life found.
LEMMA NewByteFacts ==
    ASSUME run \in Nat, seg \in Nat, lsn \in Nat, FileLen(files, seg) \in Nat,
           NEW c, NewByte(c)
    PROVE  /\ c[2] \in Nat /\ c[3][2] \in Nat /\ c[4] \in Nat /\ Origin(c) \in Int
           /\ c[3] = <<run, c[3][2]>> /\ c[3] \in PutsNow
           /\ FileLen(files, seg) <= c[2]
           /\ c[2] < FileLen(files, seg) + lsn * RecSize
           /\ \A l \in (seg + 1) .. lsn :
                 FileLen(files, seg) <= Origin(c) + l * RecSize
<1>1. /\ c[2] \in Nat /\ c[4] \in Nat /\ c[4] < RecSize
      /\ c[3] \in Nat \X Nat /\ c[3][1] = run
      /\ seg < c[3][2] /\ c[3][2] <= lsn
  BY DEF NewByte, FileByte
<1> DEFINE m == c[3][2]
           f == FileLen(files, seg)
           x == m * RecSize
           y == (seg + 1) * RecSize
           z == lsn * RecSize
<1>2. m \in Nat /\ c[3] = <<run, m>>
  BY <1>1
<1>3. c[3] \in PutsNow
  <2>1. m \in (seg + 1) .. lsn
    BY <1>1, <1>2, SMTT(60)
  <2> HIDE DEF m
  <2> QED
    BY <1>2, <2>1, Zenon DEF PutsNow, Ids
<1>4. Origin(c) = c[2] - c[4] - x /\ Origin(c) = f - y
  BY DEF NewByte, Origin
<1>5. /\ x \in Int /\ y \in Int /\ z \in Int
      /\ y <= x /\ x <= z
  <2>1. m \in Int /\ seg + 1 \in Int /\ lsn \in Int /\ seg + 1 <= m /\ m <= lsn
    BY <1>1, <1>2
  <2> HIDE DEF m
  <2> QED
    BY <2>1, TimesFacts, ZenonT(60)
<1>6. RecSize <= y /\ RecSize \in Nat
  <2>1. 1 \in Int /\ seg + 1 \in Int /\ 1 <= seg + 1
    OBVIOUS
  <2>2. 1 * RecSize <= (seg + 1) * RecSize
    BY <2>1, TimesFacts, Zenon
  <2> QED
    BY <2>2, SizeAssumption, SMTT(60)
<1>7. ASSUME NEW l \in (seg + 1) .. lsn
      PROVE  f <= Origin(c) + l * RecSize
  <2> DEFINE w == l * RecSize
  <2>1. l \in Int /\ seg + 1 \in Int /\ seg + 1 <= l
    OBVIOUS
  <2>2. w \in Int /\ y <= w
    BY <2>1, TimesFacts, Zenon
  <2> HIDE DEF f, y, w
  <2>3. Origin(c) = f - y /\ f \in Nat
    BY <1>4 DEF f
  <2>4. f <= Origin(c) + w
    BY <1>5, <2>2, <2>3
  <2> QED
    BY <2>4 DEF w
<1> HIDE DEF f, x, y, z
<1>8. f \in Nat
  BY DEF f
<1>9. Origin(c) \in Int
  BY <1>4, <1>5, <1>8, SMTT(60)
<1>10. c[2] = f - y + c[4] + x
  BY <1>1, <1>4, <1>5, <1>8, SMTT(60)
<1>11. f <= c[2] /\ c[2] < f + z
  BY <1>1, <1>5, <1>6, <1>8, <1>10
<1> QED
  BY <1>1, <1>2, <1>3, <1>7, <1>9, <1>11, ZenonT(60) DEF f, z

\* The files of earlier lives with what this one wrote are a history again.
LEMMA NewLife ==
    ASSUME Hist(files, oldPuts, run), run \in Nat, seg \in Nat, lsn \in Nat,
           NEW D, \A c \in D : c \in files \/ NewByte(c)
    PROVE  Hist(D, oldPuts \cup PutsNow, run + 1)
<1> DEFINE puts == oldPuts \cup PutsNow
           f == FileLen(files, seg)
<1>1. Bounded(files) /\ oldPuts \subseteq { id \in Nat \X Nat : id[1] < run }
  BY DEF Hist
<1>2. f \in Nat
  BY <1>1, LenFacts, ZenonT(60)
<1>3. ASSUME NEW id \in PutsNow
      PROVE  /\ id \in Nat \X Nat /\ id[1] = run
             /\ id[2] \in (seg + 1) .. lsn
  BY DEF PutsNow, Ids
<1>4. ASSUME NEW id \in oldPuts
      PROVE  id \in Nat \X Nat /\ id[1] \in Nat /\ id[1] < run /\ id[1] # run
  BY <1>1
<1>5. puts \subseteq { id \in Nat \X Nat : id[1] < run + 1 }
  BY <1>3, <1>4, SMTT(60)
<1>6. ASSUME NEW c \in files
      PROVE  /\ c \in FileByte /\ c[4] < RecSize /\ c[1] < c[3][2]
             /\ c[3] \in oldPuts /\ c[3][1] \in Nat
             /\ c[3][1] < run /\ c[3][1] # run
  <2>1. c \in FileByte /\ c[4] < RecSize /\ c[1] < c[3][2] /\ c[3] \in oldPuts
    BY ZenonT(60) DEF Hist, Bounded
  <2> QED
    BY <1>4, <2>1, ZenonT(60)
<1>7. Bounded(D)
  <2>1. PICK n \in Nat : \A c \in files : c[2] < n /\ c[3][2] < n
    BY <1>1 DEF Bounded
  <2> DEFINE z == lsn * RecSize
             k == n + f + z + lsn + 1
  <2>2. z \in Nat
    BY NatTimes
  <2> HIDE DEF z, f
  <2>3. k \in Nat
    BY <1>2, <2>2, SMTT(60)
  <2>4. ASSUME NEW c \in files
        PROVE  c[2] < k /\ c[3][2] < k
    <3>1. c[2] \in Nat /\ c[3][2] \in Nat
      BY <1>6 DEF FileByte
    <3> QED
      BY <1>2, <2>1, <2>2, <3>1, SMTT(60)
  <2>5. ASSUME NEW c, NewByte(c)
        PROVE  c[2] < k /\ c[3][2] < k
    <3>1. c[2] \in Nat /\ c[3][2] \in Nat /\ c[2] < f + z
      BY <1>2, <2>5, NewByteFacts, ZenonT(60) DEF f, z
    <3>2. c[3][2] <= lsn
      BY <2>5, ZenonT(60) DEF NewByte
    <3> QED
      BY <1>2, <2>2, <3>1, <3>2, SMTT(60)
  <2>6. D \subseteq FileByte
    BY <1>6, ZenonT(60) DEF NewByte
  <2> HIDE DEF k
  <2> QED
    BY <2>3, <2>4, <2>5, <2>6, ZenonT(60) DEF Bounded
<1>8. ASSUME NEW c \in D
      PROVE  c[4] < RecSize /\ c[1] < c[3][2] /\ c[3] \in puts
  <2>1. CASE c \in files
    BY <1>6, <2>1, ZenonT(60)
  <2>2. CASE NewByte(c)
    <3>1. c[3] \in PutsNow
      BY <1>2, <2>2, NewByteFacts, Zenon
    <3> QED
      BY <2>2, <3>1 DEF NewByte
  <2> QED
    BY <2>1, <2>2, ZenonT(60)
<1>9. ASSUME NEW c \in D, NEW d \in D, c[3][1] = d[3][1]
      PROVE  c[1] = d[1] /\ Origin(c) = Origin(d)
  <2>1. CASE c \in files /\ d \in files
    BY <1>9, <2>1, Zenon DEF Hist
  <2>2. CASE NewByte(c) /\ NewByte(d)
    BY <2>2, Zenon DEF NewByte
  <2>3. CASE c \in files /\ NewByte(d)
    BY <1>6, <1>9, <2>3, Zenon DEF NewByte
  <2>4. CASE NewByte(c) /\ d \in files
    BY <1>6, <1>9, <2>4, Zenon DEF NewByte
  <2> QED
    BY <2>1, <2>2, <2>3, <2>4, Zenon
<1>10. ASSUME NEW d, NewByte(d), NEW b \in puts, d[3][1] = b[1]
       PROVE  f <= Origin(d) + b[2] * RecSize /\ Origin(d) + b[2] * RecSize \in Int
  <2>1. b \in PutsNow
    BY <1>4, <1>10, Zenon DEF NewByte
  <2>2. b[2] \in (seg + 1) .. lsn
    BY <1>3, <2>1, Zenon
  <2>3. f <= Origin(d) + b[2] * RecSize /\ Origin(d) \in Int
    BY <1>2, <1>10, <2>2, NewByteFacts, Zenon
  <2>4. b[2] \in Nat
    BY <2>2
  <2>5. b[2] * RecSize \in Nat
    BY <2>4, NatTimes
  <2> HIDE DEF f
  <2> QED
    BY <2>3, <2>5
<1>11. ASSUME NEW c \in files, NEW b \in puts, c[3][1] = b[1]
       PROVE  b \in oldPuts
  BY <1>3, <1>6, <1>11, Zenon
<1>12. ASSUME NEW c \in D, NEW b \in puts, c[3][1] = b[1]
       PROVE  0 <= Origin(c) + b[2] * RecSize
  <2>1. CASE c \in files
    BY <1>11, <1>12, <2>1, Zenon DEF Hist
  <2>2. CASE NewByte(c)
    <3> DEFINE x == Origin(c) + b[2] * RecSize
    <3>1. f <= x /\ x \in Int
      BY <1>10, <1>12, <2>2, Zenon
    <3> HIDE DEF x, f
    <3>2. 0 <= x
      BY <1>2, <3>1, SMTT(60)
    <3> QED
      BY <3>2 DEF x
  <2> QED
    BY <2>1, <2>2
<1>13. ASSUME NEW c \in D, NEW d \in D, NEW b \in puts,
              c[1] = d[1], c[3][1] < d[3][1], d[3][1] = b[1]
       PROVE  c[2] < Origin(d) + b[2] * RecSize
  <2>1. CASE d \in files
    <3>1. c \in files
      <4> SUFFICES ASSUME NewByte(c)
                   PROVE  FALSE
        BY ZenonT(60)
      <4>1. c[3][1] = run
        BY DEF NewByte
      <4> QED
        BY <1>6, <1>13, <2>1, <4>1, SMTT(60)
    <3> QED
      BY <1>11, <1>13, <2>1, <3>1, ZenonT(60) DEF Hist
  <2>2. CASE NewByte(d)
    <3>1. c \in files
      <4> SUFFICES ASSUME NewByte(c)
                   PROVE  FALSE
        OBVIOUS
      <4>1. c[3][1] = run /\ d[3][1] = run
        BY <2>2, ZenonT(60) DEF NewByte
      <4> QED
        BY <1>13, <4>1, SMTT(60)
    <3>2. c[1] = seg
      BY <1>13, <2>2 DEF NewByte
    <3>3. c[2] < f
      BY <1>1, <3>1, <3>2, LenFacts, ZenonT(60)
    <3>4. c[2] \in Nat
      BY <1>6, <3>1 DEF FileByte
    <3> DEFINE x == Origin(d) + b[2] * RecSize
    <3>5. f <= x /\ x \in Int
      BY <1>10, <1>13, <2>2, Zenon
    <3> HIDE DEF x, f
    <3>6. c[2] < x
      BY <1>2, <3>3, <3>4, <3>5
    <3> QED
      BY <3>6, ZenonT(60) DEF x
  <2> QED
    BY <2>1, <2>2
<1> QED
  BY <1>5, <1>7, <1>8, <1>9, <1>12, <1>13, ZenonT(40) DEF Hist
=============================================================================
