------------------------- MODULE SmartClientProofs --------------------------
(***************************************************************************)
(* That both smart clients keep every call in one place, give every        *)
(* answer to the call it belongs to, and implement RemoteCalls, for any    *)
(* number of callers, calls and connections and any capacities.            *)
(***************************************************************************)
EXTENDS SmartClient, SequenceTheorems, TLAPS

USE DEF caller, writer, reader, world, seen

\* Which steps of the driver and of the reader go together.
Phases ==
    /\ kind = "async" =>
          /\ drv \in {"start", "recv", "write", "reconnect"}
          /\ rdr = "done" <=> drv \in {"start", "reconnect"}
          /\ rdr \notin {"drain", "exit"} /\ ~dead
    /\ drv = "start" => rdr = "done"
    /\ rdr = "done" => fifo = <<>>
    /\ batch = <<>> <=> drv \notin {"check", "queue"}
    /\ drv = "write" => write_buf # <<>>
    /\ dead /\ drv \in {"recv", "check", "queue", "write"} =>
          rdr \notin {"read", "extract"}

\* A reader that reads belongs to the driver's connection, or to one that is
\* broken and about to be left; a connection that is not in use is empty.
Connections ==
    /\ rconn <= conn
    /\ rdr \in {"read", "extract"} =>
          IF drv \in {"reconnect", "join"} THEN ~net[rconn].up ELSE rconn = conn
    /\ \A g \in Conns : g > conn => ~net[g].up
    /\ \A g \in Conns : g > conn \/ (g = conn /\ drv \in {"start", "join"}) =>
          net[g].reqs = <<>> /\ net[g].resps = <<>>

\* The calls that have not returned.
Waiting == { i \in Made : ret[i] = <<>> }

\* EveryCallInOnePlace, place by place; a call does not return before it is
\* made.
Places ==
    /\ IsInjective(rx) /\ IsInjective(batch) /\ IsInjective(fifo)
    /\ Range(rx) \cap Range(batch) = {}
    /\ Range(rx) \cap Range(fifo) = {}
    /\ Range(batch) \cap Range(fifo) = {}
    /\ Range(rx) \cup Range(batch) \cup Range(fifo) = Waiting
    /\ \A i \in Ids \ Made : ret[i] = <<>>

\* Calls that were not executed and still may be.
ToRun == { i \in Made : ran[i] = 0 }

\* A request on its way to the server was not executed and is on its way once;
\* an answer on its way back is the answer to a call that was executed once.
RunsOnce ==
    /\ \A i \in Ids : ran[i] \in {0, 1}
    /\ \A i \in Ids \ Made : ran[i] = 0
    /\ Range(rx) \cup Range(batch) \subseteq ToRun
    /\ IsInjective(Unwritten)
    /\ Range(Unwritten) \subseteq ToRun \ (Range(rx) \cup Range(batch))
    /\ \A g \in Conns :
          /\ IsInjective(net[g].reqs)
          /\ Range(net[g].reqs) \subseteq
                ToRun \ (Range(rx) \cup Range(batch) \cup Range(Unwritten))
          /\ \A h \in Conns \ {g} : Range(net[g].reqs) \cap Range(net[h].reqs) = {}
          /\ \A p \in Range(net[g].resps) : ran[p[1]] = 1
    /\ \A p \in Range(framer) : ran[p[1]] = 1

ClientInv ==
    /\ SCTypeOK /\ Phases /\ Connections /\ Places /\ RunsOnce
    /\ WaitersMatchRequests
-----------------------------------------------------------------------------
(***************************************************************************)
(* Sequences.                                                              *)
(***************************************************************************)
\* One more element at the end.
LEMMA AppendPlaces ==
    ASSUME NEW S, NEW s \in Seq(S), NEW e \in S
    PROVE  /\ Append(s, e) \in Seq(S)
           /\ Range(Append(s, e)) = Range(s) \cup {e}
           /\ IsInjective(s) /\ e \notin Range(s) => IsInjective(Append(s, e))
<1> DEFINE t == Append(s, e)
<1>1. /\ t \in Seq(S) /\ Len(s) \in Nat /\ Len(t) = Len(s) + 1
      /\ DOMAIN s = 1 .. Len(s) /\ DOMAIN t = 1 .. Len(t)
      /\ \A i \in 1 .. Len(s) : t[i] = s[i]
      /\ t[Len(s) + 1] = e
  BY AppendProperties, LenProperties
<1> HIDE DEF t
<1>2. Range(t) = Range(s) \cup {e}
  BY <1>1 DEF Range
<1>3. ASSUME IsInjective(s), e \notin Range(s)
      PROVE  IsInjective(t)
  BY <1>1, <1>3 DEF Range, IsInjective
<1> QED
  BY <1>1, <1>2, <1>3 DEF t

\* Without the first element.
LEMMA TailPlaces ==
    ASSUME NEW S, NEW s \in Seq(S), s # <<>>
    PROVE  /\ Head(s) \in S /\ Head(s) = s[1] /\ Tail(s) \in Seq(S)
           /\ Len(Tail(s)) = Len(s) - 1
           /\ Range(s) = {Head(s)} \cup Range(Tail(s))
           /\ IsInjective(s) => IsInjective(Tail(s)) /\ Head(s) \notin Range(Tail(s))
<1> DEFINE t == Tail(s)
<1>1. /\ t \in Seq(S) /\ Len(s) \in Nat \ {0} /\ Len(t) = Len(s) - 1
      /\ DOMAIN s = 1 .. Len(s) /\ DOMAIN t = 1 .. Len(t)
      /\ \A i \in 1 .. Len(t) : t[i] = s[i + 1]
      /\ Head(s) = s[1] /\ Head(s) \in S
  BY HeadTailProperties, LenProperties, EmptySeq
<1> HIDE DEF t
<1>2. Range(s) = {Head(s)} \cup Range(t)
  <2>1. ASSUME NEW i \in 1 .. Len(s)
        PROVE  s[i] \in {Head(s)} \cup Range(t)
    <3>1. i = 1 \/ (i - 1 \in 1 .. Len(t) /\ (i - 1) + 1 = i)
      BY <1>1
    <3> QED
      BY <1>1, <3>1, ZenonT(60) DEF Range
  <2>2. ASSUME NEW i \in 1 .. Len(t)
        PROVE  t[i] \in Range(s)
    <3>1. i + 1 \in 1 .. Len(s)
      BY <1>1
    <3> QED
      BY <1>1, <3>1 DEF Range
  <2>3. Head(s) \in Range(s)
    BY <1>1 DEF Range
  <2> QED
    BY <1>1, <2>1, <2>2, <2>3, ZenonT(60) DEF Range
<1>3. ASSUME IsInjective(s)
      PROVE  IsInjective(t) /\ Head(s) \notin Range(t)
  <2>1. ASSUME NEW i \in 1 .. Len(t), NEW j \in 1 .. Len(t), t[i] = t[j]
        PROVE  i = j
    <3>1. i + 1 \in 1 .. Len(s) /\ j + 1 \in 1 .. Len(s)
      BY <1>1
    <3>2. s[i + 1] = s[j + 1]
      BY <1>1, <2>1
    <3>3. i + 1 = j + 1
      BY <1>1, <1>3, <3>1, <3>2, Zenon DEF IsInjective
    <3> QED
      BY <3>3
  <2>2. ASSUME NEW i \in 1 .. Len(t), t[i] = s[1]
        PROVE  FALSE
    <3>1. i + 1 \in 1 .. Len(s) /\ i + 1 # 1 /\ 1 \in 1 .. Len(s)
      BY <1>1
    <3> QED
      BY <1>1, <1>3, <2>2, <3>1, ZenonT(60) DEF IsInjective
  <2> QED
    BY <1>1, <2>1, <2>2, ZenonT(60) DEF Range, IsInjective
<1> QED
  BY <1>1, <1>2, <1>3 DEF t

\* One sequence after the other.
LEMMA ConcatPlaces ==
    ASSUME NEW S, NEW s \in Seq(S), NEW t \in Seq(S)
    PROVE  /\ s \o t \in Seq(S)
           /\ Range(s \o t) = Range(s) \cup Range(t)
           /\ IsInjective(s) /\ IsInjective(t) /\ Range(s) \cap Range(t) = {} =>
                 IsInjective(s \o t)
<1> DEFINE u == s \o t
<1>1. /\ u \in Seq(S) /\ Len(s) \in Nat /\ Len(t) \in Nat
      /\ Len(u) = Len(s) + Len(t)
      /\ DOMAIN s = 1 .. Len(s) /\ DOMAIN t = 1 .. Len(t) /\ DOMAIN u = 1 .. Len(u)
      /\ \A i \in 1 .. Len(s) : u[i] = s[i]
      /\ \A i \in 1 .. Len(t) : u[Len(s) + i] = t[i]
  BY ConcatProperties, LenProperties
<1> HIDE DEF u
<1>2. \A i \in 1 .. Len(u) :
          \/ i \in 1 .. Len(s) /\ u[i] = s[i]
          \/ i - Len(s) \in 1 .. Len(t) /\ u[i] = t[i - Len(s)]
  <2> TAKE i \in 1 .. Len(u)
  <2>1. CASE i <= Len(s)
    BY <1>1, <2>1
  <2>2. CASE i > Len(s)
    <3>1. i - Len(s) \in 1 .. Len(t) /\ Len(s) + (i - Len(s)) = i
      BY <1>1, <2>2
    <3> QED
      BY <1>1, <3>1
  <2> QED
    BY <1>1, <2>1, <2>2
<1>3. Range(u) = Range(s) \cup Range(t)
  <2>1. \A i \in 1 .. Len(t) : Len(s) + i \in 1 .. Len(u)
    BY <1>1
  <2>2. \A i \in 1 .. Len(s) : i \in 1 .. Len(u)
    BY <1>1
  <2>3. Range(u) \subseteq Range(s) \cup Range(t)
    BY <1>1, <1>2, ZenonT(60) DEF Range
  <2>4. Range(s) \subseteq Range(u)
    BY <1>1, <2>2, Zenon DEF Range
  <2>5. Range(t) \subseteq Range(u)
    BY <1>1, <2>1, ZenonT(60) DEF Range
  <2> QED
    BY <2>3, <2>4, <2>5
<1>4. ASSUME IsInjective(s), IsInjective(t), Range(s) \cap Range(t) = {}
      PROVE  IsInjective(u)
  <2> SUFFICES ASSUME NEW i \in 1 .. Len(u), NEW j \in 1 .. Len(u), u[i] = u[j]
               PROVE  i = j
    BY <1>1 DEF IsInjective
  <2>1. \A k \in 1 .. Len(s), l \in 1 .. Len(t) : s[k] # t[l]
    BY <1>1, <1>4, Zenon DEF Range
  <2>2. CASE i \in 1 .. Len(s) /\ j \in 1 .. Len(s)
    BY <1>1, <1>4, <2>2, ZenonT(60) DEF IsInjective
  <2>3. CASE i - Len(s) \in 1 .. Len(t) /\ j - Len(s) \in 1 .. Len(t)
    <3>1. i - Len(s) = j - Len(s)
      <4>1. u[i] = t[i - Len(s)] /\ u[j] = t[j - Len(s)]
        BY <1>1, <1>2, <2>3, SMTT(60)
      <4> QED
        BY <1>1, <1>4, <2>3, <4>1, Zenon DEF IsInjective
    <3> QED
      BY <1>1, <3>1
  <2> QED
    BY <1>1, <1>2, <2>1, <2>2, <2>3
<1> QED
  BY <1>1, <1>3, <1>4 DEF u

\* The first elements.
LEMMA PrefixPlaces ==
    ASSUME NEW S, NEW s \in Seq(S), NEW n \in 0 .. Len(s)
    PROVE  /\ SubSeq(s, 1, n) \in Seq(S) /\ Len(SubSeq(s, 1, n)) = n
           /\ \A i \in 1 .. n : SubSeq(s, 1, n)[i] = s[i]
           /\ Range(SubSeq(s, 1, n)) \subseteq Range(s)
           /\ IsInjective(s) => IsInjective(SubSeq(s, 1, n))
<1> DEFINE t == SubSeq(s, 1, n)
<1>1. /\ t \in Seq(S) /\ Len(s) \in Nat /\ Len(t) = n
      /\ DOMAIN s = 1 .. Len(s) /\ DOMAIN t = 1 .. n
      /\ \A i \in 1 .. n : t[i] = s[i]
  <2>1. \A i \in 1 .. n : s[i] \in S
    BY LenProperties
  <2>2. Len(s) \in Nat
    BY LenProperties
  <2> QED
    BY <2>1, <2>2, SubSeqProperties, LenProperties
<1> HIDE DEF t
<1>2. Range(t) \subseteq Range(s)
  BY <1>1 DEF Range
<1>3. IsInjective(s) => IsInjective(t)
  BY <1>1 DEF IsInjective
<1> QED
  BY <1>1, <1>2, <1>3 DEF t

\* Every position is the first or the second of a pair.
LEMMA Halves ==
    ASSUME NEW n \in Nat \ {0}
    PROVE  \E k \in Nat \ {0} : n = 2 * k - 1 \/ n = 2 * k
<1>1. (n + 1) \div 2 \in Nat \ {0}
  OBVIOUS
<1>2. n = 2 * ((n + 1) \div 2) - 1 \/ n = 2 * ((n + 1) \div 2)
  OBVIOUS
<1> QED
  BY <1>1, <1>2

LEMMA HalfOf ==
    ASSUME NEW k \in Nat \ {0}
    PROVE  /\ (2 * k - 1) % 2 = 1 /\ ((2 * k - 1) + 1) \div 2 = k
           /\ (2 * k) % 2 = 0 /\ (2 * k) \div 2 = k
  OBVIOUS

\* The pieces of the k-th answer.
LEMMA FramesAt ==
    ASSUME NEW s \in Seq(Ids)
    PROVE  /\ Frames(s) \in Seq(Pieces) /\ Len(Frames(s)) = 2 * Len(s)
           /\ \A k \in 1 .. Len(s) : /\ Frames(s)[2 * k - 1] = <<s[k], "header">>
                                     /\ Frames(s)[2 * k] = <<s[k], "body">>
<1>1. Len(s) \in Nat /\ \A k \in 1 .. Len(s) : s[k] \in Ids
  BY LenProperties
<1>2. ASSUME NEW k \in 1 .. Len(s)
      PROVE  /\ 2 * k - 1 \in 1 .. 2 * Len(s) /\ 2 * k \in 1 .. 2 * Len(s)
             /\ Frames(s)[2 * k - 1] = <<s[k], "header">>
             /\ Frames(s)[2 * k] = <<s[k], "body">>
  <2>1. 2 * k - 1 \in 1 .. 2 * Len(s) /\ 2 * k \in 1 .. 2 * Len(s)
    BY <1>1
  <2>2. /\ (2 * k - 1) % 2 = 1 /\ ((2 * k - 1) + 1) \div 2 = k
        /\ (2 * k) % 2 = 0 /\ (2 * k) \div 2 = k
    BY <1>1, HalfOf
  <2> QED
    BY <2>1, <2>2 DEF Frames
<1>3. ASSUME NEW n \in 1 .. 2 * Len(s)
      PROVE  Frames(s)[n] \in Pieces
  <2>0. n \in Nat \ {0}
    BY <1>1
  <2>1. PICK k \in Nat \ {0} : n = 2 * k - 1 \/ n = 2 * k
    BY <2>0, Halves, Zenon
  <2>2. k \in 1 .. Len(s)
    BY <1>1, <2>1
  <2>3. <<s[k], "header">> \in Pieces /\ <<s[k], "body">> \in Pieces
    BY <1>1, <2>2 DEF Pieces
  <2> QED
    BY <1>2, <2>1, <2>2, <2>3, Zenon
<1>4. Frames(s) = [n \in 1 .. 2 * Len(s) |-> Frames(s)[n]]
  BY DEF Frames
<1>5. Frames(s) \in [1 .. 2 * Len(s) -> Pieces]
  BY <1>3, <1>4, Zenon
<1>6. 2 * Len(s) \in Nat
  BY <1>1
<1>7. Frames(s) \in Seq(Pieces)
  BY <1>5, <1>6, SeqDef, Zenon
<1>8. Len(Frames(s)) = 2 * Len(s)
  BY <1>5, <1>6, <1>7
<1> QED
  BY <1>2, <1>7, <1>8

LEMMA FramesConcat ==
    ASSUME NEW s \in Seq(Ids), NEW t \in Seq(Ids)
    PROVE  Frames(s \o t) = Frames(s) \o Frames(t)
<1> DEFINE u == s \o t
           F == Frames(s)
           G == Frames(t)
           H == Frames(u)
           J == F \o G
<1>1. /\ u \in Seq(Ids) /\ Len(s) \in Nat /\ Len(t) \in Nat
      /\ Len(u) = Len(s) + Len(t)
      /\ \A k \in 1 .. Len(s) : u[k] = s[k]
      /\ \A k \in 1 .. Len(t) : u[Len(s) + k] = t[k]
  BY ConcatProperties, LenProperties
<1> HIDE DEF u
<1>2. /\ F \in Seq(Pieces) /\ Len(F) = 2 * Len(s)
      /\ G \in Seq(Pieces) /\ Len(G) = 2 * Len(t)
      /\ H \in Seq(Pieces) /\ Len(H) = 2 * Len(u)
      /\ \A k \in 1 .. Len(s) : F[2 * k - 1] = <<s[k], "header">> /\ F[2 * k] = <<s[k], "body">>
      /\ \A k \in 1 .. Len(t) : G[2 * k - 1] = <<t[k], "header">> /\ G[2 * k] = <<t[k], "body">>
      /\ \A k \in 1 .. Len(u) : H[2 * k - 1] = <<u[k], "header">> /\ H[2 * k] = <<u[k], "body">>
  BY <1>1, FramesAt, Zenon
<1> HIDE DEF F, G, H
<1>3. /\ J \in Seq(Pieces) /\ Len(J) = 2 * Len(s) + 2 * Len(t)
      /\ \A n \in 1 .. 2 * Len(s) + 2 * Len(t) :
            J[n] = IF n <= 2 * Len(s) THEN F[n] ELSE G[n - 2 * Len(s)]
  <2>1. /\ J \in Seq(Pieces) /\ Len(J) = Len(F) + Len(G)
        /\ \A n \in 1 .. Len(F) + Len(G) :
              J[n] = IF n <= Len(F) THEN F[n] ELSE G[n - Len(F)]
    BY <1>2, ConcatProperties, ZenonT(60)
  <2> HIDE DEF J
  <2> QED
    BY <1>2, <2>1, Zenon
<1> HIDE DEF J
<1>4. ASSUME NEW n \in 1 .. Len(H)
      PROVE  H[n] = J[n]
  <2>0. n \in Nat \ {0}
    BY <1>1, <1>2
  <2>1. PICK k \in Nat \ {0} : n = 2 * k - 1 \/ n = 2 * k
    BY <2>0, Halves, Zenon
  <2>2. k \in 1 .. Len(u) /\ n \in 1 .. 2 * Len(s) + 2 * Len(t)
    BY <1>1, <1>2, <2>1, SMTT(60)
  <2>3. CASE k <= Len(s)
    <3>1. k \in 1 .. Len(s) /\ n <= 2 * Len(s)
      BY <1>1, <2>1, <2>3
    <3>2. J[n] = F[n] /\ u[k] = s[k]
      BY <1>1, <1>3, <2>2, <3>1, Zenon
    <3>3. CASE n = 2 * k - 1
      BY <1>2, <2>2, <3>1, <3>2, <3>3, Zenon
    <3>4. CASE n = 2 * k
      BY <1>2, <2>2, <3>1, <3>2, <3>4, Zenon
    <3> QED
      BY <2>1, <3>3, <3>4, Zenon
  <2>4. CASE k > Len(s)
    <3> DEFINE j == k - Len(s)
    <3>0. ASSUME NEW a \in Nat, k > a
          PROVE  /\ a + (k - a) = k /\ k - a >= 1 /\ ~(n <= 2 * a)
                 /\ n = 2 * k - 1 => n - 2 * a = 2 * (k - a) - 1
                 /\ n = 2 * k => n - 2 * a = 2 * (k - a)
      BY <2>1, <3>0
    <3>1. /\ j \in 1 .. Len(t) /\ ~(n <= 2 * Len(s)) /\ Len(s) + j = k
          /\ n = 2 * k - 1 => n - 2 * Len(s) = 2 * j - 1
          /\ n = 2 * k => n - 2 * Len(s) = 2 * j
      <4>1. k - Len(s) \in 1 .. Len(t)
        BY <1>1, <2>2, <2>4
      <4> QED
        BY <1>1, <2>4, <3>0, <4>1, Zenon
    <3> HIDE DEF j
    <3>2. u[k] = t[j]
      BY <1>1, <3>1
    <3>3. J[n] = G[n - 2 * Len(s)]
      BY <1>3, <2>2, <3>1, ZenonT(60)
    <3> QED
      BY <1>2, <2>1, <2>2, <3>1, <3>2, <3>3, ZenonT(60)
  <2> QED
    BY <1>1, <2>2, <2>3, <2>4
<1>5. Len(H) = Len(J)
  BY <1>1, <1>2, <1>3
<1>6. H = J
  BY <1>2, <1>3, <1>4, <1>5, SeqEqual, Zenon
<1> QED
  BY <1>6 DEF F, G, H, J, u

LEMMA FramesOne ==
    ASSUME NEW i \in Ids
    PROVE  /\ <<i>> \in Seq(Ids)
           /\ Frames(<<i>>) = <<<<i, "header">>, <<i, "body">>>>
<1> DEFINE F == Frames(<<i>>)
           G == <<<<i, "header">>, <<i, "body">>>>
<1>1. <<i>> \in Seq(Ids) /\ Len(<<i>>) = 1 /\ <<i>>[1] = i
  OBVIOUS
<1>2. F \in Seq(Pieces) /\ Len(F) = 2 /\ F[1] = <<i, "header">> /\ F[2] = <<i, "body">>
  <2>1. 1 \in 1 .. 1 /\ 2 * 1 - 1 = 1 /\ 2 * 1 = 2
    OBVIOUS
  <2> QED
    BY <1>1, <2>1, FramesAt, Zenon
<1>3. G \in Seq(Pieces) /\ Len(G) = 2 /\ G[1] = <<i, "header">> /\ G[2] = <<i, "body">>
  BY DEF Pieces
<1> HIDE DEF F, G
<1>4. \A n \in 1 .. Len(F) : F[n] = G[n]
  <2>1. \A n \in 1 .. 2 : n = 1 \/ n = 2
    OBVIOUS
  <2> QED
    BY <1>2, <1>3, <2>1, Zenon
<1>5. F = G
  BY <1>2, <1>3, <1>4, SeqEqual
<1> QED
  BY <1>1, <1>5 DEF F, G

LEMMA FramesNone == <<>> \in Seq(Ids) /\ Frames(<<>>) = <<>>
<1>1. <<>> \in Seq(Ids) /\ Len(<<>>) = 0
  OBVIOUS
<1>2. Frames(<<>>) \in Seq(Pieces) /\ Len(Frames(<<>>)) = 0
  <2>1. 2 * 0 = 0
    OBVIOUS
  <2> QED
    BY <1>1, <2>1, FramesAt, Zenon
<1> QED
  BY <1>1, <1>2, EmptySeq
-----------------------------------------------------------------------------
(***************************************************************************)
(* The steps.                                                              *)
(***************************************************************************)
\* The steps of Next, one by one.
LEMMA StepCases ==
    ASSUME [Next]_vars
    PROVE  \/ \E c \in Callers : Call(c) \/ DropHandle(c)
           \/ DriverStart \/ DriverCloneFails \/ DriverRecv \/ DriverReturns
           \/ DriverFindsDead \/ DriverBatch \/ DriverQueue \/ DriverWriteFails
           \/ DriverJoin \/ Write \/ WriteLost
           \/ ReaderRead \/ ReaderDeliver \/ ReaderNeedsMore \/ ReaderEof
           \/ ReaderDrains \/ ReaderDrained \/ ReaderExits
           \/ TasksStart \/ TaskBatch
           \/ kind = "async" /\ TasksEnd
           \/ Connect
           \/ \E g \in Conns : Break(g) \/ Serve(g)
           \/ UNCHANGED vars
  BY Zenon DEF Next, Driver, Reader, Tasks, TaskWriteFails, TaskHandlesGone, TaskEof

\* The sizes are positive, and connections are numbered from 1.
LEMMA Sizes ==
    /\ MaxCalls \in Nat /\ CALLS \in Nat /\ REQS \in Nat /\ RESPS \in Nat
    /\ MaxConns \in Nat /\ 1 \in Conns /\ \A g \in Conns : g \in Nat
<1>1. {MaxCalls, CALLS, REQS, RESPS, MaxConns} \subseteq Nat \ {0}
  BY ClientAssumption
<1>2. MaxConns \in Nat \ {0}
  BY <1>1
<1> QED
  BY <1>1, <1>2 DEF Conns

\* The queues hold calls.
LEMMA Queues ==
    ASSUME SCTypeOK
    PROVE  rx \in Seq(Ids) /\ batch \in Seq(Ids) /\ write_buf \in Seq(Ids) /\ fifo \in Seq(Ids)
  BY DEF SCTypeOK

\* A connection is two sequences within their bounds.
LEMMA Socket ==
    ASSUME SCTypeOK, NEW g \in Conns
    PROVE  /\ net[g] \in [up : BOOLEAN, reqs : Seq(Ids), resps : Seq(Pieces)]
           /\ net[g].up \in BOOLEAN /\ net[g].reqs \in Seq(Ids) /\ net[g].resps \in Seq(Pieces)
           /\ Len(net[g].reqs) \in Nat /\ Len(net[g].reqs) <= REQS
           /\ Len(net[g].resps) \in Nat /\ Len(net[g].resps) <= RESPS
  BY DEF SCTypeOK

\* Changing one field of one connection.
LEMMA SocketField ==
    ASSUME SCTypeOK, NEW g \in Conns, NEW x
    PROVE  /\ [net EXCEPT ![g].up = x] =
                 [net EXCEPT ![g] = [up |-> x, reqs |-> net[g].reqs, resps |-> net[g].resps]]
           /\ [net EXCEPT ![g].reqs = x] =
                 [net EXCEPT ![g] = [up |-> net[g].up, reqs |-> x, resps |-> net[g].resps]]
           /\ [net EXCEPT ![g].resps = x] =
                 [net EXCEPT ![g] = [up |-> net[g].up, reqs |-> net[g].reqs, resps |-> x]]
<1>1. net[g] \in [up : BOOLEAN, reqs : Seq(Ids), resps : Seq(Pieces)]
  BY Socket
<1> DEFINE r == net[g]
<1>2. r \in [up : BOOLEAN, reqs : Seq(Ids), resps : Seq(Pieces)]
  BY <1>1
<1> HIDE DEF r
<1>3. [r EXCEPT !.up = x] = [up |-> x, reqs |-> r.reqs, resps |-> r.resps]
  BY <1>2
<1>6. [r EXCEPT !.reqs = x] = [up |-> r.up, reqs |-> x, resps |-> r.resps]
  BY <1>2
<1>7. [r EXCEPT !.resps = x] = [up |-> r.up, reqs |-> r.reqs, resps |-> x]
  BY <1>2
<1>4. net \in [Conns -> [up : BOOLEAN, reqs : Seq(Ids), resps : Seq(Pieces)]]
  BY DEF SCTypeOK
<1>5. /\ [net EXCEPT ![g].up = x] = [net EXCEPT ![g] = [net[g] EXCEPT !.up = x]]
      /\ [net EXCEPT ![g].reqs = x] = [net EXCEPT ![g] = [net[g] EXCEPT !.reqs = x]]
      /\ [net EXCEPT ![g].resps = x] = [net EXCEPT ![g] = [net[g] EXCEPT !.resps = x]]
  BY <1>4
<1> QED
  BY <1>3, <1>5, <1>6, <1>7, Zenon DEF r

\* What becomes of the connections when one of them changes.
LEMMA SocketChange ==
    ASSUME SCTypeOK, NEW g \in Conns, NEW up \in BOOLEAN, NEW reqs \in Seq(Ids),
           NEW resps \in Seq(Pieces), Len(reqs) <= REQS, Len(resps) <= RESPS,
           net' = [net EXCEPT ![g] = [up |-> up, reqs |-> reqs, resps |-> resps]]
    PROVE  /\ net' \in [Conns -> [up : BOOLEAN, reqs : Seq(Ids), resps : Seq(Pieces)]]
           /\ \A h \in Conns : Len(net'[h].reqs) <= REQS /\ Len(net'[h].resps) <= RESPS
           /\ net'[g] = [up |-> up, reqs |-> reqs, resps |-> resps]
           /\ \A h \in Conns \ {g} : net'[h] = net[h]
  BY ZenonT(60) DEF SCTypeOK

\* What a return does to ret.
LEMMA ReturnType ==
    ASSUME NEW ids, NEW res \in {<<"err">>, <<"garbled">>} \cup ({"ok"} \X Ids),
           SCTypeOK, Return(ids, res)
    PROVE  ret' \in [Ids -> {<<>>, <<"err">>, <<"garbled">>} \cup ({"ok"} \X Ids)]
  BY SMTT(60) DEF SCTypeOK, Return

\* Every variable keeps its type.
LEMMA TypeStep ==
    ASSUME SCTypeOK, Phases, [Next]_vars
    PROVE  SCTypeOK'
<1>1. ASSUME NEW c \in Callers, Call(c)
      PROVE  SCTypeOK'
  <2>1. <<c, calls[c] + 1>> \in Ids
    <3>1. calls[c] \in 0 .. MaxCalls /\ calls[c] < MaxCalls
      BY <1>1 DEF Call, SCTypeOK
    <3>2. calls[c] + 1 \in 1 .. MaxCalls
      BY <3>1, Sizes
    <3> QED
      BY <3>2 DEF Ids
  <2>2. rx' \in Seq(Ids) /\ Len(rx') <= CALLS
    BY <1>1, <2>1, Sizes DEF Call, SCTypeOK
  <2>3. calls' \in [Callers -> 0 .. MaxCalls]
    <3>1. calls[c] + 1 \in 0 .. MaxCalls
      BY <2>1, Sizes DEF Ids
    <3> QED
      BY <1>1, <3>1 DEF Call, SCTypeOK
  <2> QED
    BY <1>1, <2>2, <2>3, ZenonT(60) DEF Call, SCTypeOK
<1>2. ASSUME NEW c \in Callers, DropHandle(c)
      PROVE  SCTypeOK'
  BY <1>2, ZenonT(60) DEF DropHandle, SCTypeOK
<1>3. CASE DriverStart
  <2>1. <<>> \in Seq(Ids) /\ <<>> \in Seq(Pieces)
    OBVIOUS
  <2> QED
    BY <1>3, <2>1, ZenonT(60) DEF DriverStart, SCTypeOK
<1>4. CASE DriverCloneFails
  BY <1>4, ZenonT(60) DEF DriverCloneFails, SCTypeOK
<1>5. CASE DriverRecv
  <2>1. Head(rx) \in Ids /\ Tail(rx) \in Seq(Ids) /\ Len(Tail(rx)) <= CALLS
    <3>1. rx # <<>> /\ rx \in Seq(Ids) /\ Len(rx) <= CALLS /\ CALLS \in Nat
      BY <1>5, Sizes, Queues DEF DriverRecv, SCTypeOK
    <3> QED
      BY <3>1
  <2>2. <<Head(rx)>> \in Seq(Ids)
    BY <2>1
  <2> QED
    BY <1>5, <2>1, <2>2, ZenonT(60) DEF DriverRecv, SCTypeOK
<1>6. CASE DriverReturns
  BY <1>6 DEF DriverReturns, SCTypeOK
<1>7. CASE DriverFindsDead
  <2>1. ret' \in [Ids -> {<<>>, <<"err">>, <<"garbled">>} \cup ({"ok"} \X Ids)]
    BY <1>7, ReturnType DEF DriverFindsDead
  <2> QED
    BY <1>7, <2>1, SMTT(60) DEF DriverFindsDead, SCTypeOK
<1>8. CASE DriverBatch
  <2>1. batch \o rx \in Seq(Ids) /\ <<>> \in Seq(Ids) /\ Len(<<>>) <= CALLS
    BY Queues, Sizes
  <2> QED
    BY <1>8, <2>1, ZenonT(60) DEF DriverBatch, SCTypeOK
<1>9. CASE DriverQueue
  <2>1. batch # <<>>
    BY <1>9 DEF DriverQueue, Phases
  <2>2. ret' \in [Ids -> {<<>>, <<"err">>, <<"garbled">>} \cup ({"ok"} \X Ids)]
    BY <1>9, ReturnType, Zenon DEF DriverQueue, SCTypeOK
  <2>3. /\ Head(batch) \in Ids /\ Tail(batch) \in Seq(Ids)
        /\ Append(write_buf, Head(batch)) \in Seq(Ids)
        /\ Append(fifo, Head(batch)) \in Seq(Ids)
    BY <2>1, Queues
  <2>4. fifo' \in Seq(Ids)
    BY <1>9, <2>3, Queues, Zenon DEF DriverQueue
  <2> QED
    BY <1>9, <2>2, <2>3, <2>4, Zenon DEF DriverQueue, SCTypeOK
<1>10. CASE DriverWriteFails
  BY <1>10, ZenonT(60) DEF DriverWriteFails, SCTypeOK
<1>11. CASE DriverJoin
  BY <1>11 DEF DriverJoin, SCTypeOK
<1>12. CASE Write
  <2>1. write_buf # <<>>
    BY <1>12 DEF Write, Phases
  <2>2. Head(write_buf) \in Ids /\ Tail(write_buf) \in Seq(Ids)
    BY <2>1, Queues
  <2>6. conn \in Conns
    BY DEF SCTypeOK
  <2> DEFINE q == Append(net[conn].reqs, Head(write_buf))
  <2>4. q \in Seq(Ids) /\ Len(q) <= REQS
    BY <1>12, <2>2, <2>6, Sizes, Socket, SMTT(60) DEF Write
  <2>5. net' = [net EXCEPT ![conn] = [up |-> net[conn].up, reqs |-> q, resps |-> net[conn].resps]]
    BY <1>12, <2>6, SocketField, Zenon DEF Write
  <2>3. /\ net' \in [Conns -> [up : BOOLEAN, reqs : Seq(Ids), resps : Seq(Pieces)]]
        /\ \A g \in Conns : Len(net'[g].reqs) <= REQS /\ Len(net'[g].resps) <= RESPS
    BY <2>4, <2>5, <2>6, Socket, SocketChange, ZenonT(60)
  <2> QED
    BY <1>12, <2>2, <2>3, ZenonT(60) DEF Write, SCTypeOK
<1>13. CASE WriteLost
  BY <1>13, SMTT(60) DEF WriteLost, SCTypeOK
<1>14. CASE ReaderRead
  <2>1. PICK n \in 1 .. Len(net[rconn].resps) :
          /\ framer' = framer \o SubSeq(net[rconn].resps, 1, n)
          /\ net' = [net EXCEPT ![rconn].resps = SubSeq(@, n + 1, Len(@))]
    BY <1>14, Zenon DEF ReaderRead
  <2>8. rconn \in Conns
    BY DEF SCTypeOK
  <2> DEFINE r == net[rconn].resps
             q == SubSeq(r, n + 1, Len(r))
  <2>2. r \in Seq(Pieces) /\ Len(r) \in Nat /\ Len(r) <= RESPS
    BY <2>8, Socket, Zenon
  <2>3. SubSeq(r, 1, n) \in Seq(Pieces)
    <3>1. n \in 1 .. Len(r)
      OBVIOUS
    <3> HIDE DEF r
    <3>2. n \in 0 .. Len(r)
      BY <2>2, <3>1
    <3> QED
      BY <2>2, <3>2, PrefixPlaces
  <2>6. q \in Seq(Pieces) /\ Len(q) <= RESPS
    <3> HIDE DEF r
    <3>1. n \in 1 .. Len(r)
      BY DEF r
    <3>2. q \in Seq(Pieces)
      BY <2>2, <3>1
    <3>3. Len(q) = Len(r) - n
      BY <2>2, <3>1
    <3> QED
      BY <2>2, <3>1, <3>2, <3>3, Sizes
  <2>4. framer' \in Seq(Pieces)
    BY <2>1, <2>3 DEF SCTypeOK
  <2>7. net' = [net EXCEPT ![rconn] = [up |-> net[rconn].up, reqs |-> net[rconn].reqs, resps |-> q]]
    <3>1. net' = [net EXCEPT ![rconn].resps = q]
      BY <2>1
    <3> HIDE DEF q
    <3> QED
      <4>1. [net EXCEPT ![rconn].resps = q] =
              [net EXCEPT ![rconn] = [up |-> net[rconn].up, reqs |-> net[rconn].reqs, resps |-> q]]
        BY <2>8, SocketField, Zenon
      <4> QED
        BY <3>1, <4>1, Zenon
  <2>5. /\ net' \in [Conns -> [up : BOOLEAN, reqs : Seq(Ids), resps : Seq(Pieces)]]
        /\ \A g \in Conns : Len(net'[g].reqs) <= REQS /\ Len(net'[g].resps) <= RESPS
    BY <2>6, <2>7, <2>8, Socket, SocketChange, ZenonT(60)
  <2> QED
    BY <1>14, <2>4, <2>5, Zenon DEF ReaderRead, SCTypeOK
<1>15. CASE ReaderDeliver
  <2>1. Len(framer) \in Nat /\ Len(framer) >= 2 /\ framer \in Seq(Pieces)
    BY <1>15 DEF ReaderDeliver, FrameReady, SCTypeOK
  <2>2. framer[1] \in Pieces /\ SubSeq(framer, 3, Len(framer)) \in Seq(Pieces)
    BY <2>1
  <2>3. Decoded \in {<<"err">>, <<"garbled">>} \cup ({"ok"} \X Ids)
    BY <2>2 DEF Decoded, Pieces
  <2>4. ret' \in [Ids -> {<<>>, <<"err">>, <<"garbled">>} \cup ({"ok"} \X Ids)]
    BY <1>15, <2>3, ReturnType, ZenonT(60) DEF ReaderDeliver
  <2> QED
    BY <1>15, <2>2, <2>4, SMTT(60) DEF ReaderDeliver, SCTypeOK
<1>16. CASE ReaderNeedsMore
  BY <1>16 DEF ReaderNeedsMore, SCTypeOK
<1>17. CASE ReaderEof
  BY <1>17, SMTT(60) DEF ReaderEof, SCTypeOK
<1>18. CASE ReaderDrains
  <2>1. ret' \in [Ids -> {<<>>, <<"err">>, <<"garbled">>} \cup ({"ok"} \X Ids)]
    BY <1>18, ReturnType, ZenonT(60) DEF ReaderDrains
  <2>2. fifo # <<>> /\ fifo' = Tail(fifo) /\ fifo \in Seq(Ids)
    BY <1>18, Queues, Zenon DEF ReaderDrains
  <2>3. fifo' \in Seq(Ids)
    BY <2>2, SMTT(60)
  <2>4. UNCHANGED <<kind, caller, writer, reader, world, ran>>
    BY <1>18, Zenon DEF ReaderDrains
  <2> QED
    BY <2>1, <2>3, <2>4, ZenonT(60) DEF SCTypeOK, caller, writer, reader, world
<1>19. CASE ReaderDrained
  BY <1>19, SMTT(60) DEF ReaderDrained, SCTypeOK
<1>20. CASE ReaderExits
  <2>1. ret' \in [Ids -> {<<>>, <<"err">>, <<"garbled">>} \cup ({"ok"} \X Ids)]
    BY <1>20, ReturnType DEF ReaderExits
  <2> QED
    BY <1>20, <2>1, SMTT(60) DEF ReaderExits, SCTypeOK
<1>21. CASE TasksStart
  BY <1>21, SMTT(60) DEF TasksStart, SCTypeOK
<1>22. CASE TaskBatch
  <2>1. fifo \o rx \in Seq(Ids) /\ <<>> \in Seq(Ids) /\ Len(<<>>) <= CALLS
    BY Queues, Sizes
  <2> QED
    BY <1>22, <2>1, ZenonT(60) DEF TaskBatch, SCTypeOK
<1>23. CASE TasksEnd
  <2>1. ret' \in [Ids -> {<<>>, <<"err">>, <<"garbled">>} \cup ({"ok"} \X Ids)]
    BY <1>23, ReturnType DEF TasksEnd
  <2>4. conn \in Conns
    BY DEF SCTypeOK
  <2>2. net' = [net EXCEPT ![conn] = [up |-> FALSE, reqs |-> net[conn].reqs, resps |-> net[conn].resps]]
    BY <1>23, <2>4, SocketField, Zenon DEF TasksEnd
  <2>3. /\ net' \in [Conns -> [up : BOOLEAN, reqs : Seq(Ids), resps : Seq(Pieces)]]
        /\ \A g \in Conns : Len(net'[g].reqs) <= REQS /\ Len(net'[g].resps) <= RESPS
    BY <2>2, <2>4, Socket, SocketChange, FALSE \in BOOLEAN, Zenon
  <2>5. /\ fifo' = <<>> /\ rdr' = "done" /\ drv' = "reconnect"
        /\ UNCHANGED <<kind, caller, rx, batch, write_buf, framer, dead, rconn,
                       conn, ran>>
    BY <1>23, Zenon DEF TasksEnd
  <2>6. fifo' \in Seq(Ids)
    BY <2>5, SMTT(60)
  <2> QED
    BY <2>1, <2>3, <2>5, <2>6, ZenonT(60) DEF SCTypeOK, caller
<1>24. CASE Connect
  <2>1. conn + 1 \in Conns
    BY <1>24, Sizes, SMTT(60) DEF Connect, Conns, SCTypeOK
  <2>2. net' = [net EXCEPT ![conn + 1] =
                   [up |-> TRUE, reqs |-> net[conn + 1].reqs, resps |-> net[conn + 1].resps]]
    BY <1>24, <2>1, SocketField, Zenon DEF Connect
  <2>3. /\ net' \in [Conns -> [up : BOOLEAN, reqs : Seq(Ids), resps : Seq(Pieces)]]
        /\ \A g \in Conns : Len(net'[g].reqs) <= REQS /\ Len(net'[g].resps) <= RESPS
    BY <2>1, <2>2, Socket, SocketChange, TRUE \in BOOLEAN, ZenonT(60)
  <2> QED
    BY <1>24, <2>1, <2>3, Zenon DEF Connect, SCTypeOK
<1>25. ASSUME NEW g \in Conns, Break(g)
      PROVE  SCTypeOK'
  <2>1. PICK n \in 0 .. Len(net[g].reqs), m \in 0 .. Len(net[g].resps) :
          net' = [net EXCEPT ![g] = [up |-> FALSE, reqs |-> SubSeq(net[g].reqs, 1, n),
                                     resps |-> SubSeq(net[g].resps, 1, m)]]
    BY <1>25, Zenon DEF Break
  <2>2. /\ SubSeq(net[g].reqs, 1, n) \in Seq(Ids) /\ Len(SubSeq(net[g].reqs, 1, n)) = n
        /\ SubSeq(net[g].resps, 1, m) \in Seq(Pieces)
        /\ Len(SubSeq(net[g].resps, 1, m)) = m
    BY Socket, PrefixPlaces
  <2>3. n <= REQS /\ m <= RESPS
    BY Socket, Sizes
  <2>4. /\ net' \in [Conns -> [up : BOOLEAN, reqs : Seq(Ids), resps : Seq(Pieces)]]
        /\ \A h \in Conns : Len(net'[h].reqs) <= REQS /\ Len(net'[h].resps) <= RESPS
    BY <2>1, <2>2, <2>3, SocketChange, FALSE \in BOOLEAN, ZenonT(60)
  <2> QED
    BY <1>25, <2>4, Zenon DEF Break, SCTypeOK
<1>26. ASSUME NEW g \in Conns, Serve(g)
      PROVE  SCTypeOK'
  <2> DEFINE i == Head(net[g].reqs)
             more == IF net[g].up
                     THEN net[g].resps \o <<<<i, "header">>, <<i, "body">>>>
                     ELSE net[g].resps
  <2>1. i \in Ids /\ Tail(net[g].reqs) \in Seq(Ids) /\ Len(Tail(net[g].reqs)) <= REQS
    <3>1. net[g].reqs # <<>>
      BY <1>26 DEF Serve
    <3> DEFINE q == net[g].reqs
    <3>2. q \in Seq(Ids) /\ q # <<>> /\ Len(q) <= REQS
      BY <3>1, Socket
    <3>3. Head(q) \in Ids /\ Tail(q) \in Seq(Ids) /\ Len(Tail(q)) <= REQS
      <4> HIDE DEF q
      <4> QED
        BY <3>2, Sizes
    <3> QED
      BY <3>3
  <2>2. ran' \in [Ids -> Nat]
    <3>1. ran' = [ran EXCEPT ![i] = @ + 1]
      BY <1>26, Zenon DEF Serve
    <3>2. ran \in [Ids -> Nat]
      BY DEF SCTypeOK
    <3>3. i \in Ids
      BY <2>1
    <3> HIDE DEF i
    <3> QED
      BY <3>1, <3>2, <3>3
  <2>3. more \in Seq(Pieces) /\ Len(more) <= RESPS
    <3>1. <<<<i, "header">>, <<i, "body">>>> \in Seq(Pieces)
      BY <2>1, SMTT(60) DEF Pieces
    <3>2. net[g].up => Len(net[g].resps) + 2 <= RESPS
      BY <1>26 DEF Serve
    <3> HIDE DEF i
    <3> QED
      BY <3>1, <3>2, Socket, Sizes
  <2>4. net' = [net EXCEPT ![g] = [up |-> net[g].up, reqs |-> Tail(net[g].reqs), resps |-> more]]
    BY <1>26, Zenon DEF Serve
  <2>5. /\ net' \in [Conns -> [up : BOOLEAN, reqs : Seq(Ids), resps : Seq(Pieces)]]
        /\ \A h \in Conns : Len(net'[h].reqs) <= REQS /\ Len(net'[h].resps) <= RESPS
    <3> HIDE DEF more
    <3> QED
      BY <2>1, <2>3, <2>4, Socket, SocketChange, ZenonT(60)
  <2> QED
    BY <1>26, <2>2, <2>5, Zenon DEF Serve, SCTypeOK
<1>27. CASE UNCHANGED vars
  BY <1>27, ZenonT(60) DEF vars, SCTypeOK
<1> QED
  BY <1>1, <1>2, <1>3, <1>4, <1>5, <1>6, <1>7, <1>8, <1>9, <1>10, <1>11, <1>12,
     <1>13, <1>14, <1>15, <1>16, <1>17, <1>18, <1>19, <1>20, <1>21, <1>22, <1>23,
     <1>24, <1>25, <1>26, <1>27, StepCases, Zenon

\* When a queue becomes empty, and when it does not.
LEMMA Emptied ==
    ASSUME NEW s \in Seq(Ids), NEW e \in Ids
    PROVE  /\ Append(s, e) # <<>>
           /\ s # <<>> => (Tail(s) = <<>> <=> Len(s) = 1)
           /\ s # <<>> => Head(s) \in Ids /\ Tail(s) \in Seq(Ids) /\ Len(s) \in Nat \ {0}
<1>1. Append(s, e) # <<>>
  BY AppendProperties
<1>2. ASSUME s # <<>> PROVE Tail(s) \in Seq(Ids) /\ Len(Tail(s)) = Len(s) - 1 /\ Len(s) \in Nat \ {0}
  BY <1>2
<1>3. ASSUME s # <<>> PROVE Tail(s) = <<>> <=> Len(s) = 1
  <2>1. Tail(s) \in Seq(Ids) /\ Len(Tail(s)) = Len(s) - 1 /\ Len(s) \in Nat \ {0}
    BY <1>2, <1>3
  <2>2. Tail(s) = <<>> <=> Len(Tail(s)) = 0
    BY <2>1, EmptySeq, Zenon
  <2>3. Len(Tail(s)) = 0 <=> Len(s) = 1
    BY <2>1
  <2> QED
    BY <2>2, <2>3, Zenon
<1>4. ASSUME s # <<>> PROVE Head(s) \in Ids
  BY <1>4
<1> QED
  BY <1>1, <1>2, <1>3, <1>4, Zenon

\* The driver and the reader stay in step.
LEMMA PhasesStep ==
    ASSUME SCTypeOK, Phases, [Next]_vars
    PROVE  Phases'
<1>0. kind \in {"sync", "async"}
  BY ClientAssumption DEF SCTypeOK
<1>1. ASSUME NEW c \in Callers, Call(c) \/ DropHandle(c)
      PROVE  Phases'
  BY <1>1 DEF Call, DropHandle, Phases
<1>3. CASE DriverStart
  BY <1>3 DEF DriverStart, Phases
<1>4. CASE DriverCloneFails
  BY <1>4 DEF DriverCloneFails, Phases
<1>5. CASE DriverRecv
  <2>1. <<Head(rx)>> # <<>>
    OBVIOUS
  <2> QED
    BY <1>5, <2>1 DEF DriverRecv, Phases
<1>6. CASE DriverReturns
  BY <1>6 DEF DriverReturns, Phases
<1>7. CASE DriverFindsDead
  BY <1>7 DEF DriverFindsDead, Phases
<1>8. CASE DriverBatch
  <2>1. batch # <<>> /\ batch \in Seq(Ids) /\ rx \in Seq(Ids)
    BY <1>8, Queues DEF DriverBatch, Phases
  <2>2. batch \o rx # <<>>
    BY <2>1
  <2> QED
    BY <1>8, <2>2 DEF DriverBatch, Phases
<1>9. CASE DriverQueue
  <2>1. batch # <<>> /\ batch \in Seq(Ids)
    BY <1>9, Queues DEF DriverQueue, Phases
  <2>2. Head(batch) \in Ids /\ (Tail(batch) = <<>> <=> Len(batch) = 1)
    BY <2>1, Emptied
  <2>3. Append(write_buf, Head(batch)) # <<>>
    BY <2>2, Queues, Emptied
  <2> QED
    BY <1>9, <2>2, <2>3 DEF DriverQueue, Phases
<1>10. CASE DriverWriteFails
  BY <1>10 DEF DriverWriteFails, Phases
<1>11. CASE DriverJoin
  BY <1>11 DEF DriverJoin, Phases
<1>12. CASE Write
  <2>1. write_buf # <<>> /\ write_buf \in Seq(Ids)
    BY <1>12, Queues DEF Write, Phases
  <2>2. Tail(write_buf) = <<>> <=> Len(write_buf) = 1
    BY <2>1, Emptied
  <2> QED
    BY <1>12, <2>2 DEF Write, Phases
<1>13. CASE WriteLost
  BY <1>13 DEF WriteLost, Phases
<1>14. CASE ReaderRead
  BY <1>14 DEF ReaderRead, Phases
<1>15. CASE ReaderDeliver
  BY <1>15 DEF ReaderDeliver, Phases
<1>16. CASE ReaderNeedsMore
  BY <1>16 DEF ReaderNeedsMore, Phases
<1>17. CASE ReaderEof
  BY <1>17 DEF ReaderEof, Phases, Eof
<1>18. CASE ReaderDrains
  BY <1>18 DEF ReaderDrains, Phases
<1>19. CASE ReaderDrained
  BY <1>19 DEF ReaderDrained, Phases
<1>20. CASE ReaderExits
  BY <1>20 DEF ReaderExits, Phases
<1>21. CASE TasksStart
  BY <1>21 DEF TasksStart, Phases
<1>22. CASE TaskBatch
  BY <1>22 DEF TaskBatch, Phases
<1>23. CASE kind = "async" /\ TasksEnd
  BY <1>23 DEF TasksEnd, Phases
<1>24. CASE Connect
  <2>1. /\ drv = "reconnect" /\ drv' = IF kind = "sync" THEN "join" ELSE "start"
        /\ UNCHANGED <<kind, caller, rx, batch, write_buf, fifo, reader, seen>>
    BY <1>24, Zenon DEF Connect
  <2>2. UNCHANGED <<kind, batch, write_buf, fifo, rdr, dead>>
    BY <2>1, Zenon DEF reader
  <2> QED
    BY <1>0, <2>1, <2>2, SMTT(60) DEF Phases
<1>25. ASSUME NEW g \in Conns, Break(g) \/ Serve(g)
      PROVE  Phases'
  <2>1. UNCHANGED <<kind, writer, fifo, reader>>
    BY <1>25, Zenon DEF Break, Serve
  <2> QED
    BY <2>1, ZenonT(60) DEF Phases, writer, reader
<1>27. CASE UNCHANGED vars
  BY <1>27 DEF vars, Phases
<1> QED
  BY <1>1, <1>3, <1>4, <1>5, <1>6, <1>7, <1>8, <1>9, <1>10, <1>11, <1>12,
     <1>13, <1>14, <1>15, <1>16, <1>17, <1>18, <1>19, <1>20, <1>21, <1>22, <1>23,
     <1>24, <1>25, <1>27, StepCases, ZenonT(60)

\* A connection that is not in use stays empty, and the reader stays on its own.
LEMMA ConnectionsStep ==
    ASSUME SCTypeOK, Phases, Connections, [Next]_vars
    PROVE  Connections'
<1>0. /\ kind \in {"sync", "async"} /\ conn \in Conns /\ rconn \in Conns
      /\ conn \in Nat /\ rconn \in Nat /\ rconn <= conn
  BY ClientAssumption, Sizes, ZenonT(60) DEF SCTypeOK, Connections
<1>1. ASSUME NEW c \in Callers, Call(c) \/ DropHandle(c)
      PROVE  Connections'
  BY <1>1 DEF Call, DropHandle, Connections
<1>3. CASE DriverStart
  BY <1>0, <1>3 DEF DriverStart, Connections
<1>4. CASE DriverCloneFails
  BY <1>4 DEF DriverCloneFails, Connections, Phases
<1>5. CASE DriverRecv
  BY <1>5 DEF DriverRecv, Connections
<1>6. CASE DriverReturns
  BY <1>6 DEF DriverReturns, Connections
<1>7. CASE DriverFindsDead
  BY <1>7, ZenonT(60) DEF DriverFindsDead, Connections, Phases
<1>8. CASE DriverBatch
  BY <1>8 DEF DriverBatch, Connections
<1>9. CASE DriverQueue
  BY <1>9 DEF DriverQueue, Connections
<1>10. CASE DriverWriteFails
  BY <1>10 DEF DriverWriteFails, Connections
<1>11. CASE DriverJoin
  BY <1>11 DEF DriverJoin, Connections
<1>12. CASE Write
  <2>1. /\ net'[conn].up = net[conn].up
        /\ \A g \in Conns : g # conn => net'[g] = net[g]
    BY <1>0, <1>12, Zenon DEF Write, SCTypeOK
  <2> QED
    BY <1>0, <1>12, <2>1 DEF Write, Connections
<1>13. CASE WriteLost
  BY <1>13 DEF WriteLost, Connections
<1>14. CASE ReaderRead
  <2>1. PICK n \in 1 .. Len(net[rconn].resps) :
          net' = [net EXCEPT ![rconn].resps = SubSeq(@, n + 1, Len(@))]
    BY <1>14, Zenon DEF ReaderRead
  <2>2. \A g \in Conns : net'[g].up = net[g].up /\ net'[g].reqs = net[g].reqs
    BY <1>0, <2>1, ZenonT(60) DEF SCTypeOK
  <2>3. \A g \in Conns : g # rconn => net'[g].resps = net[g].resps
    BY <1>0, <2>1 DEF SCTypeOK
  <2>4. net[rconn].resps # <<>>
    OBVIOUS
  <2>5. ~(rconn > conn) /\ ~(rconn = conn /\ drv \in {"start", "join"})
    BY <1>0, <2>4 DEF Connections
  <2> QED
    BY <1>0, <1>14, <2>2, <2>3, <2>5 DEF ReaderRead, Connections
<1>15. CASE ReaderDeliver
  BY <1>15 DEF ReaderDeliver, Connections
<1>16. CASE ReaderNeedsMore
  BY <1>16 DEF ReaderNeedsMore, Connections
<1>17. CASE ReaderEof
  BY <1>17 DEF ReaderEof, Connections
<1>18. CASE ReaderDrains
  BY <1>18 DEF ReaderDrains, Connections
<1>19. CASE ReaderDrained
  BY <1>19 DEF ReaderDrained, Connections
<1>20. CASE ReaderExits
  BY <1>20 DEF ReaderExits, Connections
<1>21. CASE TasksStart
  BY <1>0, <1>21 DEF TasksStart, Connections
<1>22. CASE TaskBatch
  BY <1>22 DEF TaskBatch, Connections
<1>23. CASE kind = "async" /\ TasksEnd
  <2>1. \A g \in Conns : /\ net'[g].reqs = net[g].reqs /\ net'[g].resps = net[g].resps
                         /\ net'[g].up => net[g].up
    BY <1>0, <1>23, ZenonT(60) DEF TasksEnd, SCTypeOK
  <2> QED
    BY <1>23, <2>1 DEF TasksEnd, Connections, Phases
<1>24. CASE Connect
  <2>1. conn + 1 \in Conns
    <3>1. conn \in Conns /\ conn < MaxConns
      BY <1>24 DEF Connect, SCTypeOK
    <3> QED
      BY <3>1, Sizes DEF Conns
  <2>2. /\ \A g \in Conns : net'[g].reqs = net[g].reqs /\ net'[g].resps = net[g].resps
        /\ \A g \in Conns : g # conn + 1 => net'[g].up = net[g].up
    BY <1>24, <2>1, ZenonT(60) DEF Connect, SCTypeOK
  <2>3. \A g \in Conns : g \in Nat
    BY Sizes
  <2> QED
    BY <1>0, <1>24, <2>1, <2>2, <2>3 DEF Connect, Connections, Phases
<1>25. ASSUME NEW g \in Conns, Break(g)
      PROVE  Connections'
  <2>1. /\ \A h \in Conns : h # g => net'[h] = net[h]
        /\ ~net'[g].up
    BY <1>25 DEF Break, SCTypeOK
  <2>2. PICK n \in 0 .. Len(net[g].reqs), m \in 0 .. Len(net[g].resps) :
          net' = [net EXCEPT ![g] = [up |-> FALSE, reqs |-> SubSeq(@.reqs, 1, n),
                                     resps |-> SubSeq(@.resps, 1, m)]]
    BY <1>25, ZenonT(60) DEF Break
  <2>3. net'[g].reqs = SubSeq(net[g].reqs, 1, n) /\ net'[g].resps = SubSeq(net[g].resps, 1, m)
    BY <2>2 DEF SCTypeOK
  <2>4. net[g].reqs = <<>> => net'[g].reqs = <<>>
    BY <2>3
  <2>5. net[g].resps = <<>> => net'[g].resps = <<>>
    BY <2>3, SMTT(60)
  <2> QED
    BY <1>25, <2>1, <2>4, <2>5, SMTT(60) DEF Break, Connections
<1>26. ASSUME NEW g \in Conns, Serve(g)
      PROVE  Connections'
  <2>1. /\ \A h \in Conns : h # g => net'[h] = net[h]
        /\ net'[g].up = net[g].up
    BY <1>26, ZenonT(60) DEF Serve, SCTypeOK
  <2>2. ~(g > conn) /\ ~(g = conn /\ drv \in {"start", "join"})
    BY <1>26, ZenonT(60) DEF Serve, Connections
  <2> QED
    BY <1>26, <2>1, <2>2, SMTT(60) DEF Serve, Connections
<1>27. CASE UNCHANGED vars
  BY <1>27 DEF vars, Connections
<1> QED
  BY <1>1, <1>3, <1>4, <1>5, <1>6, <1>7, <1>8, <1>9, <1>10, <1>11, <1>12,
     <1>13, <1>14, <1>15, <1>16, <1>17, <1>18, <1>19, <1>20, <1>21, <1>22, <1>23,
     <1>24, <1>25, <1>26, <1>27, StepCases, ZenonT(60)
-----------------------------------------------------------------------------
(***************************************************************************)
(* Every call is in one place.                                             *)
(***************************************************************************)
\* The empty queue and the queue with one call.
LEMMA SmallPlaces ==
    /\ Range(<<>>) = {} /\ IsInjective(<<>>)
    /\ \A e : Range(<<e>>) = {e} /\ IsInjective(<<e>>)
  BY DEF Range, IsInjective

\* What follows the first n elements of a sequence is part of it.
LEMMA SuffixPlaces ==
    ASSUME NEW S, NEW s \in Seq(S), NEW n \in 1 .. Len(s) + 1
    PROVE  /\ SubSeq(s, n, Len(s)) \in Seq(S)
           /\ Range(SubSeq(s, n, Len(s))) \subseteq Range(s)
<1> DEFINE t == SubSeq(s, n, Len(s))
<1>1. Len(s) \in Nat /\ DOMAIN s = 1 .. Len(s)
  BY LenProperties
<1>2. /\ t \in Seq(S) /\ DOMAIN t = 1 .. Len(t) /\ Len(t) = Len(s) + 1 - n
      /\ \A i \in 1 .. Len(t) : t[i] = s[n + i - 1]
  <2>1. n \in 1 .. Len(s) + 1 /\ Len(s) \in n - 1 .. Len(s)
    BY <1>1
  <2> QED
    BY <1>1, <2>1
<1> HIDE DEF t
<1>3. ASSUME NEW i \in 1 .. Len(t)
      PROVE  n + i - 1 \in 1 .. Len(s)
  BY <1>1, <1>2, <1>3
<1>4. Range(t) \subseteq Range(s)
  BY <1>1, <1>2, <1>3, Zenon DEF Range
<1> QED
  BY <1>2, <1>4 DEF t

\* The calls made, before and after a new one.
LEMMA NewCall ==
    ASSUME SCTypeOK, NEW c \in Callers, calls[c] < MaxCalls,
           calls' = [calls EXCEPT ![c] = @ + 1]
    PROVE  LET i == <<c, calls[c] + 1>>
           IN  i \in Ids /\ i \notin Made /\ Made' = Made \cup {i}
<1> DEFINE i == <<c, calls[c] + 1>>
<1>1. calls \in [Callers -> 0 .. MaxCalls]
  BY DEF SCTypeOK
<1>2. MaxCalls \in Nat
  BY Sizes
<1>3. i \in Ids
  BY <1>1, <1>2 DEF Ids
<1>4. i \notin Made
  BY <1>1, <1>2 DEF Made
<1>5. \A j \in Ids : j \in Made' <=> j \in Made \cup {i}
  <2> SUFFICES ASSUME NEW d \in Callers, NEW k \in 1 .. MaxCalls
               PROVE  k <= calls'[d] <=> (k <= calls[d] \/ <<d, k>> = i)
    BY <1>3 DEF Made, Ids
  <2>1. CASE d = c
    BY <1>1, <1>2, <2>1
  <2>2. CASE d # c
    BY <1>1, <1>2, <2>2
  <2> QED
    BY <2>1, <2>2
<1>6. Made' = Made \cup {i}
  BY <1>3, <1>5 DEF Made
<1> QED
  BY <1>3, <1>4, <1>6

\* Queues hold calls that wait.
LEMMA PlacesWait ==
    ASSUME Places
    PROVE  /\ Range(rx) \subseteq Waiting /\ Range(batch) \subseteq Waiting
           /\ Range(fifo) \subseteq Waiting /\ Waiting \subseteq Made /\ Made \subseteq Ids
  BY Zenon DEF Places, Waiting, Made

\* Calls that return wait no longer, and the others go on waiting.
LEMMA Returned ==
    ASSUME SCTypeOK, Places, NEW ids \in SUBSET Waiting, NEW res, res # <<>>,
           Return(ids, res), calls' = calls
    PROVE  /\ Made' = Made /\ Waiting' = Waiting \ ids
           /\ \A i \in Ids \ Made' : ret'[i] = <<>>
<1>1. Made' = Made
  BY DEF Made
<1>2. ret' = [i \in Ids |-> IF i \in ids THEN res ELSE ret[i]]
  BY DEF Return
<1>3. \A i \in Ids : ret'[i] = IF i \in ids THEN res ELSE ret[i]
  BY <1>2
<1>4. \A i \in Made : i \in Ids
  BY DEF Made
<1>5. Waiting' = Waiting \ ids
  BY <1>1, <1>3, <1>4, Zenon DEF Waiting
<1>6. \A i \in Ids \ Made' : ret'[i] = <<>>
  BY <1>1, <1>3, Zenon DEF Places, Waiting
<1> QED
  BY <1>1, <1>5, <1>6

\* Nothing that Places is about changes.
LEMMA PlacesSame ==
    ASSUME Places, UNCHANGED <<calls, rx, batch, fifo, ret>>
    PROVE  Places'
  BY Zenon DEF Places, Waiting, Made

\* Every call stays in one place.
LEMMA PlacesStep ==
    ASSUME SCTypeOK, Phases, Places, [Next]_vars
    PROVE  Places'
<1> USE Queues, PlacesWait, SmallPlaces
<1>0. /\ IsInjective(rx) /\ IsInjective(batch) /\ IsInjective(fifo)
      /\ Range(rx) \cap Range(batch) = {} /\ Range(rx) \cap Range(fifo) = {}
      /\ Range(batch) \cap Range(fifo) = {}
      /\ Range(rx) \cup Range(batch) \cup Range(fifo) = Waiting
  BY DEF Places
<1>1. ASSUME NEW c \in Callers, Call(c)
      PROVE  Places'
  <2> DEFINE i == <<c, calls[c] + 1>>
  <2>1. i \in Ids /\ i \notin Made /\ Made' = Made \cup {i}
    BY <1>1, NewCall, Zenon DEF Call
  <2>2. rx' = Append(rx, i) /\ UNCHANGED <<batch, fifo, ret>>
    BY <1>1 DEF Call
  <2> HIDE DEF i
  <2>3. i \notin Range(rx) /\ i \notin Range(batch) /\ i \notin Range(fifo)
    BY <2>1, Zenon
  <2>4. Range(rx') = Range(rx) \cup {i} /\ IsInjective(rx')
    <3>1. Range(Append(rx, i)) = Range(rx) \cup {i} /\ IsInjective(Append(rx, i))
      BY <1>0, <2>1, <2>3, AppendPlaces
    <3> QED
      BY <2>2, <3>1, Zenon
  <2>5. ret[i] = <<>>
    BY <2>1, Zenon DEF Places
  <2>6. Waiting' = Waiting \cup {i}
    BY <2>1, <2>2, <2>5, Zenon DEF Waiting
  <2>7. \A j \in Ids \ Made' : ret'[j] = <<>>
    BY <2>1, <2>2, Zenon DEF Places
  <2> QED
    <3>1. Range(rx') \cap Range(batch') = {}
      BY <1>0, <2>2, <2>3, <2>4, <2>6, <2>7, ZenonT(60)
    <3>2. Range(rx') \cap Range(fifo') = {}
      BY <1>0, <2>2, <2>3, <2>4, <2>6, <2>7, ZenonT(60)
    <3>3. Range(batch') \cap Range(fifo') = {}
      BY <1>0, <2>2, <2>3, <2>4, <2>6, <2>7, Zenon
    <3>4. Range(rx') \cup Range(batch') \cup Range(fifo') = Waiting'
      BY <1>0, <2>2, <2>3, <2>4, <2>6, <2>7, Zenon
    <3> QED
      BY <1>0, <2>2, <2>3, <2>4, <2>6, <2>7, <3>1, <3>2, <3>3, <3>4, Zenon DEF Places
<1>2. ASSUME NEW c \in Callers, DropHandle(c)
      PROVE  Places'
  BY <1>2, PlacesSame DEF DropHandle
<1>3. CASE DriverStart
  <2>1. fifo' = fifo
    BY <1>3 DEF DriverStart, Phases
  <2> QED
    BY <1>3, <2>1, PlacesSame, SMTT(60) DEF DriverStart
<1>4. CASE DriverCloneFails
  BY <1>4, PlacesSame DEF DriverCloneFails
<1>5. CASE DriverRecv
  <2>1. rx # <<>> /\ batch = <<>> /\ batch' = <<Head(rx)>> /\ rx' = Tail(rx)
    BY <1>5 DEF DriverRecv, Phases
  <2>2. UNCHANGED <<fifo, ret, calls>>
    BY <1>5 DEF DriverRecv
  <2>3. /\ Range(rx) = {Head(rx)} \cup Range(rx')
        /\ IsInjective(rx') /\ Head(rx) \notin Range(rx')
    BY <2>1, TailPlaces, Zenon DEF Places
  <2>4. Range(batch') = {Head(rx)} /\ IsInjective(batch') /\ Range(batch) = {}
    BY <2>1, Zenon
  <2>5. Waiting' = Waiting /\ Made' = Made
    BY <2>2, Zenon DEF Waiting, Made
  <2>6. \A i \in Ids \ Made' : ret'[i] = <<>>
    BY <2>2, <2>5, Zenon DEF Places
  <2> QED
    <3>1. Range(rx') \cap Range(batch') = {}
      BY <2>3, <2>4
    <3>2. Range(rx') \cap Range(fifo') = {}
      BY <1>0, <2>2, <2>3, <2>4, <2>5, <2>6, Zenon
    <3>3. Range(batch') \cap Range(fifo') = {}
      BY <1>0, <2>2, <2>3, <2>4, <2>5, <2>6, Zenon
    <3>4. Range(rx') \cup Range(batch') \cup Range(fifo') = Waiting'
      BY <1>0, <2>2, <2>3, <2>4, <2>5, <2>6, ZenonT(60)
    <3> QED
      BY <1>0, <2>2, <2>3, <2>4, <2>5, <2>6, <3>1, <3>2, <3>3, <3>4, Zenon DEF Places
<1>6. CASE DriverReturns
  BY <1>6, PlacesSame DEF DriverReturns
<1>7. CASE DriverFindsDead
  <2>1. /\ Return(Range(batch), <<"err">>) /\ <<"err">> # <<>>
        /\ batch' = <<>> /\ UNCHANGED <<rx, fifo, calls>>
    BY <1>7 DEF DriverFindsDead
  <2>2. Waiting' = Waiting \ Range(batch) /\ \A i \in Ids \ Made' : ret'[i] = <<>>
    BY <2>1, Returned, Zenon
  <2> QED
    BY <2>1, <2>2, Zenon DEF Places
<1>8. CASE DriverBatch
  <2>1. batch' = batch \o rx /\ rx' = <<>> /\ UNCHANGED <<fifo, ret, calls>>
    BY <1>8 DEF DriverBatch
  <2>2. Range(batch') = Range(batch) \cup Range(rx) /\ IsInjective(batch')
    <3>1. Range(batch \o rx) = Range(batch) \cup Range(rx) /\ IsInjective(batch \o rx)
      BY <1>0, ConcatPlaces
    <3> QED
      BY <2>1, <3>1, Zenon
  <2>3. Waiting' = Waiting /\ Made' = Made
    BY <2>1, Zenon DEF Waiting, Made
  <2> QED
    BY <2>1, <2>2, <2>3, Zenon DEF Places
<1>9. CASE DriverQueue
  <2>1. batch # <<>> /\ batch' = Tail(batch) /\ UNCHANGED <<rx, calls>>
    BY <1>9 DEF DriverQueue, Phases
  <2> DEFINE h == Head(batch)
  <2>2. /\ h \in Ids /\ Range(batch) = {h} \cup Range(batch')
        /\ IsInjective(batch') /\ h \notin Range(batch')
    BY <2>1, TailPlaces, Zenon DEF Places
  <2>3. CASE rdr = "done"
    <3>1. Return({h}, <<"err">>) /\ <<"err">> # <<>> /\ fifo' = fifo
      BY <1>9, <2>3 DEF DriverQueue
    <3>2. {h} \in SUBSET Waiting
      BY <2>2, Zenon
    <3>3. Waiting' = Waiting \ {h} /\ \A i \in Ids \ Made' : ret'[i] = <<>>
      BY <2>1, <3>1, <3>2, Returned, Zenon
    <3> HIDE DEF h
    <3> QED
      <4>1. Range(rx') \cap Range(batch') = {}
        BY <1>0, <2>1, <2>2, <3>1, <3>3, Zenon
      <4>2. Range(rx') \cap Range(fifo') = {}
        BY <1>0, <2>1, <2>2, <3>1, <3>3, Zenon
      <4>3. Range(batch') \cap Range(fifo') = {}
        BY <1>0, <2>1, <2>2, <3>1, <3>3, Zenon
      <4>4. Range(rx') \cup Range(batch') \cup Range(fifo') = Waiting'
        BY <1>0, <2>1, <2>2, <3>1, <3>3, ZenonT(60)
      <4> QED
        BY <1>0, <2>1, <2>2, <3>1, <3>3, <4>1, <4>2, <4>3, <4>4, Zenon DEF Places
  <2>4. CASE rdr # "done"
    <3>1. fifo' = Append(fifo, h) /\ ret' = ret
      BY <1>9, <2>4 DEF DriverQueue
    <3>2. h \notin Range(fifo)
      BY <2>2, Zenon DEF Places
    <3>3. Range(fifo') = Range(fifo) \cup {h} /\ IsInjective(fifo')
      <4>1. Range(Append(fifo, h)) = Range(fifo) \cup {h} /\ IsInjective(Append(fifo, h))
        BY <1>0, <2>2, <3>2, AppendPlaces
      <4> QED
        BY <3>1, <4>1, Zenon
    <3>4. Waiting' = Waiting /\ Made' = Made
      BY <2>1, <3>1, Zenon DEF Waiting, Made
    <3> HIDE DEF h
    <3>5. \A i \in Ids \ Made' : ret'[i] = <<>>
      BY <3>1, <3>4, Zenon DEF Places
    <3> QED
      <4>1. Range(rx') \cap Range(batch') = {}
        BY <1>0, <2>1, <2>2, <3>1, <3>2, <3>3, <3>4, <3>5, Zenon
      <4>2. Range(rx') \cap Range(fifo') = {}
        BY <1>0, <2>1, <2>2, <3>1, <3>2, <3>3, <3>4, <3>5, Zenon
      <4>3. Range(batch') \cap Range(fifo') = {}
        BY <1>0, <2>1, <2>2, <3>1, <3>2, <3>3, <3>4, <3>5, ZenonT(60)
      <4>4. Range(rx') \cup Range(batch') \cup Range(fifo') = Waiting'
        BY <1>0, <2>1, <2>2, <3>1, <3>2, <3>3, <3>4, <3>5, Zenon
      <4> QED
        BY <1>0, <2>1, <2>2, <3>1, <3>2, <3>3, <3>4, <3>5, <4>1, <4>2, <4>3, <4>4, Zenon DEF Places
  <2> QED
    BY <2>3, <2>4
<1>10. CASE DriverWriteFails
  BY <1>10, PlacesSame DEF DriverWriteFails
<1>11. CASE DriverJoin
  BY <1>11, PlacesSame DEF DriverJoin
<1>12. CASE Write
  BY <1>12, PlacesSame DEF Write
<1>13. CASE WriteLost
  BY <1>13, PlacesSame DEF WriteLost
<1>14. CASE ReaderRead
  BY <1>14, PlacesSame DEF ReaderRead
<1>15. ASSUME fifo # <<>>, fifo' = Tail(fifo), NEW res, res # <<>>,
              Return({Head(fifo)}, res), UNCHANGED <<rx, batch, calls>>
       PROVE  Places'
  <2> DEFINE h == Head(fifo)
  <2>1. /\ h \in Ids /\ Range(fifo) = {h} \cup Range(fifo')
        /\ IsInjective(fifo') /\ h \notin Range(fifo')
    BY <1>15, TailPlaces, Zenon DEF Places
  <2>2. {h} \in SUBSET Waiting
    BY <2>1, Zenon
  <2>3. Waiting' = Waiting \ {h} /\ \A i \in Ids \ Made' : ret'[i] = <<>>
    BY <1>15, <2>2, Returned, Zenon
  <2> HIDE DEF h
  <2> QED
    <3>1. Range(rx') \cap Range(batch') = {}
      BY <1>0, <1>15, <2>1, <2>3, Zenon
    <3>2. Range(rx') \cap Range(fifo') = {}
      BY <1>0, <1>15, <2>1, <2>3, Zenon
    <3>3. Range(batch') \cap Range(fifo') = {}
      BY <1>0, <1>15, <2>1, <2>3, Zenon
    <3>4. Range(rx') \cup Range(batch') \cup Range(fifo') = Waiting'
      BY <1>0, <1>15, <2>1, <2>3, ZenonT(60)
    <3> QED
      BY <1>0, <1>15, <2>1, <2>3, <3>1, <3>2, <3>3, <3>4, Zenon DEF Places
<1>16. CASE ReaderDeliver
  <2>1. Decoded # <<>>
    BY DEF Decoded
  <2> QED
    BY <1>15, <1>16, <2>1 DEF ReaderDeliver
<1>17. CASE ReaderNeedsMore
  BY <1>17, PlacesSame DEF ReaderNeedsMore
<1>18. CASE ReaderEof
  BY <1>18, PlacesSame DEF ReaderEof
<1>19. CASE ReaderDrains
  BY <1>15, <1>19, Zenon DEF ReaderDrains
<1>20. CASE ReaderDrained
  BY <1>20, PlacesSame DEF ReaderDrained
<1>21. ASSUME Return(Range(fifo), <<"err">>), fifo' = <<>>, UNCHANGED <<rx, batch, calls>>
       PROVE  Places'
  <2>1. <<"err">> # <<>> /\ Range(fifo) \in SUBSET Waiting
    OBVIOUS
  <2>2. Waiting' = Waiting \ Range(fifo) /\ \A i \in Ids \ Made' : ret'[i] = <<>>
    BY <1>21, <2>1, Returned, Zenon
  <2> QED
    BY <1>21, <2>2, Zenon DEF Places
<1>22. CASE ReaderExits
  BY <1>21, <1>22 DEF ReaderExits
<1>23. CASE TasksStart
  <2>1. fifo' = fifo
    BY <1>23 DEF TasksStart, Phases
  <2> QED
    BY <1>23, <2>1, PlacesSame, SMTT(60) DEF TasksStart
<1>24. CASE TaskBatch
  <2>1. fifo' = fifo \o rx /\ rx' = <<>> /\ UNCHANGED <<batch, ret, calls>>
    BY <1>24 DEF TaskBatch
  <2>2. Range(fifo') = Range(fifo) \cup Range(rx) /\ IsInjective(fifo')
    <3>1. Range(fifo \o rx) = Range(fifo) \cup Range(rx) /\ IsInjective(fifo \o rx)
      BY <1>0, ConcatPlaces
    <3> QED
      BY <2>1, <3>1, Zenon
  <2>3. Waiting' = Waiting /\ Made' = Made
    BY <2>1, Zenon DEF Waiting, Made
  <2> QED
    BY <2>1, <2>2, <2>3, Zenon DEF Places
<1>25. CASE TasksEnd
  BY <1>21, <1>25 DEF TasksEnd
<1>26. CASE Connect
  BY <1>26, PlacesSame, ZenonT(60) DEF Connect
<1>27. ASSUME NEW g \in Conns, Break(g) \/ Serve(g)
       PROVE  Places'
  BY <1>27, PlacesSame, ZenonT(60) DEF Break, Serve
<1>28. CASE UNCHANGED vars
  BY <1>28, PlacesSame DEF vars
<1> QED
  BY <1>1, <1>2, <1>3, <1>4, <1>5, <1>6, <1>7, <1>8, <1>9, <1>10, <1>11, <1>12,
     <1>13, <1>14, <1>16, <1>17, <1>18, <1>19, <1>20, <1>22, <1>23,
     <1>24, <1>25, <1>26, <1>27, <1>28, StepCases, ZenonT(60)
-----------------------------------------------------------------------------
(***************************************************************************)
(* Every call is executed at most once.                                    *)
(***************************************************************************)
\* What the writer has encoded is a queue of calls.
LEMMA UnwrittenType ==
    ASSUME SCTypeOK
    PROVE  Unwritten \in Seq(Ids)
<1>1. <<>> \in Seq(Ids)
  OBVIOUS
<1> QED
  BY <1>1, Queues, Zenon DEF Unwritten

\* Requests move from place to place or are lost, and answers are read or lost.
LEMMA RunsMove ==
    ASSUME RunsOnce, UNCHANGED <<calls, ran>>, rconn \in Conns,
           Range(framer') \subseteq Range(framer) \cup Range(net[rconn].resps),
           IsInjective(Unwritten'),
           Range(rx') \cup Range(batch') \cup Range(Unwritten') \subseteq
               Range(rx) \cup Range(batch) \cup Range(Unwritten),
           (Range(rx') \cup Range(batch')) \cap Range(Unwritten') = {},
           \A g \in Conns : /\ IsInjective(net'[g].reqs)
                            /\ Range(net'[g].reqs) \subseteq Range(net[g].reqs)
                            /\ Range(net'[g].resps) \subseteq Range(net[g].resps)
    PROVE  RunsOnce'
<1>1. ToRun' = ToRun /\ Made' = Made
  BY Zenon DEF ToRun, Made
<1>2. Range(rx) \cup Range(batch) \cup Range(Unwritten) \subseteq ToRun
  BY Zenon DEF RunsOnce
<1>3. /\ \A i \in Ids : ran'[i] \in {0, 1}
      /\ \A i \in Ids \ Made' : ran'[i] = 0
  BY <1>1, Zenon DEF RunsOnce
<1>4. /\ Range(rx') \cup Range(batch') \subseteq ToRun'
      /\ Range(Unwritten') \subseteq ToRun' \ (Range(rx') \cup Range(batch'))
  BY <1>1, <1>2, Zenon
<1>5. \A p \in Range(framer') : ran'[p[1]] = 1
  BY Zenon DEF RunsOnce
<1>6. ASSUME NEW g \in Conns
      PROVE  /\ Range(net'[g].reqs) \subseteq
                   ToRun' \ (Range(rx') \cup Range(batch') \cup Range(Unwritten'))
             /\ \A h \in Conns \ {g} : Range(net'[g].reqs) \cap Range(net'[h].reqs) = {}
             /\ \A p \in Range(net'[g].resps) : ran'[p[1]] = 1
  <2>1. Range(net[g].reqs) \subseteq
          ToRun \ (Range(rx) \cup Range(batch) \cup Range(Unwritten))
    BY Zenon DEF RunsOnce
  <2>2. Range(net'[g].reqs) \subseteq
          ToRun' \ (Range(rx') \cup Range(batch') \cup Range(Unwritten'))
    BY <1>1, <2>1, Zenon
  <2>3. \A h \in Conns \ {g} : Range(net'[g].reqs) \cap Range(net'[h].reqs) = {}
    <3>1. ASSUME NEW h \in Conns \ {g}
          PROVE  Range(net[g].reqs) \cap Range(net[h].reqs) = {}
      BY Zenon DEF RunsOnce
    <3> QED
      BY <3>1, Zenon
  <2>4. \A p \in Range(net'[g].resps) : ran'[p[1]] = 1
    BY ZenonT(60) DEF RunsOnce
  <2> QED
    BY <2>2, <2>3, <2>4, Zenon
<1> QED
  BY <1>3, <1>4, <1>5, <1>6, Zenon DEF RunsOnce

\* The same, when the connections and the reader's buffer do not change.
LEMMA RunsQueued ==
    ASSUME SCTypeOK, RunsOnce, UNCHANGED <<calls, ran, net>>,
           framer' = framer \/ framer' = <<>>,
           IsInjective(Unwritten'),
           Range(rx') \cup Range(batch') \cup Range(Unwritten') \subseteq
               Range(rx) \cup Range(batch) \cup Range(Unwritten),
           (Range(rx') \cup Range(batch')) \cap Range(Unwritten') = {}
    PROVE  RunsOnce'
<1>1. rconn \in Conns
  BY DEF SCTypeOK
<1>2. Range(framer') \subseteq Range(framer) \cup Range(net[rconn].resps)
  BY SmallPlaces, Zenon
<1>3. \A g \in Conns : /\ IsInjective(net'[g].reqs)
                       /\ Range(net'[g].reqs) \subseteq Range(net[g].reqs)
                       /\ Range(net'[g].resps) \subseteq Range(net[g].resps)
  BY ZenonT(60) DEF RunsOnce
<1> QED
  BY <1>1, <1>2, <1>3, RunsMove, ZenonT(60)

\* The same, when only the connections and the reader change.
LEMMA RunsArrive ==
    ASSUME SCTypeOK, RunsOnce, UNCHANGED <<calls, ran, rx, batch>>,
           Unwritten' \in {Unwritten, <<>>},
           Range(framer') \subseteq Range(framer) \cup Range(net[rconn].resps),
           \A g \in Conns : /\ IsInjective(net'[g].reqs)
                            /\ Range(net'[g].reqs) \subseteq Range(net[g].reqs)
                            /\ Range(net'[g].resps) \subseteq Range(net[g].resps)
    PROVE  RunsOnce'
<1>1. rconn \in Conns
  BY DEF SCTypeOK
<1>2. IsInjective(Unwritten) /\ Range(Unwritten) \cap (Range(rx) \cup Range(batch)) = {}
  BY Zenon DEF RunsOnce
<1>3. IsInjective(Unwritten') /\ Range(Unwritten') \subseteq Range(Unwritten)
  BY <1>2, SmallPlaces, Zenon
<1>4. /\ Range(rx') \cup Range(batch') \cup Range(Unwritten') \subseteq
               Range(rx) \cup Range(batch) \cup Range(Unwritten)
      /\ (Range(rx') \cup Range(batch')) \cap Range(Unwritten') = {}
  BY <1>2, <1>3, Zenon
<1> QED
  BY <1>1, <1>3, <1>4, RunsMove, ZenonT(60)

\* The same, when the writer drops what it had encoded.
LEMMA RunsDropped ==
    ASSUME SCTypeOK, RunsOnce, UNCHANGED <<calls, ran, net, rx, batch>>,
           framer' = framer \/ framer' = <<>>, Unwritten' \in {Unwritten, <<>>}
    PROVE  RunsOnce'
<1>1. IsInjective(Unwritten) /\ Range(Unwritten) \cap (Range(rx) \cup Range(batch)) = {}
  BY Zenon DEF RunsOnce
<1>2. IsInjective(Unwritten') /\ Range(Unwritten') \subseteq Range(Unwritten)
  BY <1>1, SmallPlaces, Zenon
<1>3. /\ Range(rx') \cup Range(batch') \cup Range(Unwritten') \subseteq
               Range(rx) \cup Range(batch) \cup Range(Unwritten)
      /\ (Range(rx') \cup Range(batch')) \cap Range(Unwritten') = {}
  BY <1>1, <1>2, Zenon
<1> QED
  BY <1>2, <1>3, RunsQueued

\* A new call was not executed.
LEMMA RunsCall ==
    ASSUME SCTypeOK, RunsOnce, NEW c \in Callers, Call(c)
    PROVE  RunsOnce'
<1> DEFINE i == <<c, calls[c] + 1>>
<1>1. i \in Ids /\ i \notin Made /\ Made' = Made \cup {i}
  BY NewCall, Zenon DEF Call
<1>2. rx' = Append(rx, i) /\ UNCHANGED <<batch, drv, write_buf, framer, net, ran>>
  BY DEF Call
<1> HIDE DEF i
<1>3. Range(Append(rx, i)) = Range(rx) \cup {i}
  BY <1>1, Queues, AppendPlaces
<1>4. Range(rx') = Range(rx) \cup {i}
  BY <1>2, <1>3, Zenon
<1>5. Unwritten' = Unwritten
  BY <1>2, Zenon DEF Unwritten
<1>6. ran[i] = 0
  BY <1>1, Zenon DEF RunsOnce
<1>7. ToRun' = ToRun \cup {i} /\ i \notin ToRun
  BY <1>1, <1>2, <1>6, Zenon DEF ToRun
<1>8. /\ Range(rx') \cup Range(batch') \subseteq ToRun'
      /\ IsInjective(Unwritten')
      /\ Range(Unwritten') \subseteq ToRun' \ (Range(rx') \cup Range(batch'))
  <2>1. /\ Range(rx) \cup Range(batch) \subseteq ToRun
        /\ IsInjective(Unwritten)
        /\ Range(Unwritten) \subseteq ToRun \ (Range(rx) \cup Range(batch))
    BY Zenon DEF RunsOnce
  <2> QED
    BY <1>2, <1>4, <1>5, <1>7, <2>1, Zenon
<1>9. ASSUME NEW g \in Conns
      PROVE  Range(net'[g].reqs) \subseteq
                ToRun' \ (Range(rx') \cup Range(batch') \cup Range(Unwritten'))
  <2>1. Range(net[g].reqs) \subseteq
          ToRun \ (Range(rx) \cup Range(batch) \cup Range(Unwritten))
    BY Zenon DEF RunsOnce
  <2> QED
    BY <1>2, <1>4, <1>5, <1>7, <2>1, Zenon
<1>10. /\ \A j \in Ids : ran'[j] \in {0, 1}
       /\ \A j \in Ids \ Made' : ran'[j] = 0
       /\ \A p \in Range(framer') : ran'[p[1]] = 1
  BY <1>1, <1>2, Zenon DEF RunsOnce
<1>11. ASSUME NEW g \in Conns
       PROVE  /\ IsInjective(net'[g].reqs)
              /\ \A h \in Conns \ {g} : Range(net'[g].reqs) \cap Range(net'[h].reqs) = {}
              /\ \A p \in Range(net'[g].resps) : ran'[p[1]] = 1
  BY <1>2, Zenon DEF RunsOnce
<1> QED
  BY <1>8, <1>9, <1>10, <1>11, Zenon DEF RunsOnce

\* A request moves from the writer to the socket.
LEMMA RunsWrite ==
    ASSUME SCTypeOK, Phases, RunsOnce, Write
    PROVE  RunsOnce'
<1> DEFINE i == Head(write_buf)
<1>1. /\ write_buf # <<>> /\ drv = "write" /\ write_buf' = Tail(write_buf)
      /\ drv' = IF Len(write_buf) = 1 THEN "recv" ELSE "write"
      /\ net' = [net EXCEPT ![conn].reqs = Append(@, i)]
      /\ UNCHANGED <<calls, rx, batch, framer, ran>>
  BY ZenonT(60) DEF Write, Phases
<1>2. write_buf \in Seq(Ids) /\ conn \in Conns
  BY Queues DEF SCTypeOK
<1>3. Unwritten = write_buf
  BY <1>1 DEF Unwritten
<1>4. Unwritten' = Tail(write_buf)
  <2>1. Tail(write_buf) = <<>> <=> Len(write_buf) = 1
    BY <1>1, <1>2, Emptied, TailPlaces
  <2>2. CASE Len(write_buf) = 1
    BY <1>1, <2>1, <2>2 DEF Unwritten
  <2>3. CASE Len(write_buf) # 1
    BY <1>1, <2>3 DEF Unwritten
  <2> QED
    BY <2>2, <2>3, Zenon
<1>5. IsInjective(Unwritten) /\ Range(Unwritten) \subseteq ToRun \ (Range(rx) \cup Range(batch))
  BY Zenon DEF RunsOnce
<1>6. /\ i \in Ids /\ Range(Unwritten) = {i} \cup Range(Unwritten')
      /\ IsInjective(Unwritten') /\ i \notin Range(Unwritten')
  <2>1. /\ i \in Ids /\ Range(write_buf) = {i} \cup Range(Tail(write_buf))
        /\ IsInjective(Tail(write_buf)) /\ i \notin Range(Tail(write_buf))
    BY <1>1, <1>2, <1>3, <1>5, TailPlaces, Zenon
  <2> QED
    BY <1>3, <1>4, <2>1, Zenon
<1> DEFINE q == net[conn].reqs
<1>7. /\ net'[conn].reqs = Append(q, i)
      /\ \A g \in Conns : net'[g].resps = net[g].resps
      /\ \A g \in Conns \ {conn} : net'[g].reqs = net[g].reqs
  <2> HIDE DEF i
  <2> QED
    BY <1>1, <1>2, ZenonT(60) DEF SCTypeOK
<1> HIDE DEF i
<1>8. q \in Seq(Ids)
  BY <1>2, Socket
<1>9. ASSUME NEW g \in Conns
      PROVE  i \notin Range(net[g].reqs)
  BY <1>6, Zenon DEF RunsOnce
<1>10. Range(net'[conn].reqs) = Range(q) \cup {i} /\ IsInjective(net'[conn].reqs)
  <2>1. i \notin Range(q) /\ IsInjective(q)
    BY <1>2, <1>9, Zenon DEF RunsOnce
  <2> HIDE DEF q
  <2>2. Range(Append(q, i)) = Range(q) \cup {i} /\ IsInjective(Append(q, i))
    BY <1>6, <1>8, <2>1, AppendPlaces, SMTT(60)
  <2> QED
    BY <1>7, <2>2, Zenon
<1>11. ToRun' = ToRun /\ Made' = Made /\ i \in ToRun
       /\ i \notin Range(rx') /\ i \notin Range(batch')
  BY <1>1, <1>5, <1>6, Zenon DEF ToRun, Made
<1>12. /\ \A j \in Ids : ran'[j] \in {0, 1}
       /\ \A j \in Ids \ Made' : ran'[j] = 0
       /\ Range(rx') \cup Range(batch') \subseteq ToRun'
       /\ \A p \in Range(framer') : ran'[p[1]] = 1
  BY <1>1, <1>11, Zenon DEF RunsOnce
<1>13. Range(Unwritten') \subseteq ToRun' \ (Range(rx') \cup Range(batch'))
  BY <1>1, <1>5, <1>6, <1>11, ZenonT(60)
<1>14. ASSUME NEW g \in Conns
       PROVE  /\ IsInjective(net'[g].reqs)
              /\ Range(net'[g].reqs) \subseteq
                   ToRun' \ (Range(rx') \cup Range(batch') \cup Range(Unwritten'))
  <2>1. /\ IsInjective(net[g].reqs)
        /\ Range(net[g].reqs) \subseteq
             ToRun \ (Range(rx) \cup Range(batch) \cup Range(Unwritten))
    BY Zenon DEF RunsOnce
  <2>2. Range(net[g].reqs) \subseteq
             ToRun' \ (Range(rx') \cup Range(batch') \cup Range(Unwritten'))
    BY <1>1, <1>6, <1>11, <2>1, Zenon
  <2>3. CASE g = conn
    BY <1>6, <1>10, <1>11, <2>2, <2>3, Zenon
  <2>4. CASE g # conn
    BY <1>7, <2>1, <2>2, <2>4, ZenonT(60)
  <2> QED
    BY <2>3, <2>4
<1>15. ASSUME NEW g \in Conns, NEW h \in Conns \ {g}
       PROVE  Range(net'[g].reqs) \cap Range(net'[h].reqs) = {}
  <2>1. Range(net[g].reqs) \cap Range(net[h].reqs) = {}
    BY Zenon DEF RunsOnce
  <2>2. i \notin Range(net[g].reqs) /\ i \notin Range(net[h].reqs)
    BY <1>9
  <2>3. CASE g = conn
    <3>1. net'[h].reqs = net[h].reqs
      BY <1>7, <2>3
    <3> QED
      BY <1>10, <2>1, <2>2, <2>3, <3>1, Zenon
  <2>4. CASE h = conn
    <3>1. net'[g].reqs = net[g].reqs
      BY <1>7, <2>4
    <3> QED
      BY <1>10, <2>1, <2>2, <2>4, <3>1, Zenon
  <2>5. CASE g # conn /\ h # conn
    BY <1>7, <2>1, <2>5, Zenon
  <2> QED
    BY <2>3, <2>4, <2>5
<1>16. ASSUME NEW g \in Conns
       PROVE  \A p \in Range(net'[g].resps) : ran'[p[1]] = 1
  BY <1>1, <1>7, Zenon DEF RunsOnce
<1> QED
  BY <1>6, <1>12, <1>13, <1>14, <1>15, <1>16, Zenon DEF RunsOnce

\* The server executes a request that was not executed before.
LEMMA RunsServe ==
    ASSUME SCTypeOK, RunsOnce, NEW g \in Conns, Serve(g)
    PROVE  RunsOnce'
<1> DEFINE q == net[g].reqs
           i == Head(q)
           a == <<<<i, "header">>, <<i, "body">>>>
<1>1. /\ q # <<>> /\ ran' = [ran EXCEPT ![i] = @ + 1]
      /\ net' = [net EXCEPT ![g] = [up |-> net[g].up, reqs |-> Tail(q),
                   resps |-> IF net[g].up THEN net[g].resps \o a ELSE net[g].resps]]
      /\ UNCHANGED <<calls, rx, drv, batch, write_buf, framer>>
  BY Zenon DEF Serve
<1>2. q \in Seq(Ids) /\ net[g].resps \in Seq(Pieces)
  BY Socket
<1>3. /\ IsInjective(q)
      /\ Range(q) \subseteq ToRun \ (Range(rx) \cup Range(batch) \cup Range(Unwritten))
  BY Zenon DEF RunsOnce
<1>4. /\ i \in Ids /\ Range(q) = {i} \cup Range(Tail(q))
      /\ IsInjective(Tail(q)) /\ i \notin Range(Tail(q))
  <2> HIDE DEF q
  <2> QED
    BY <1>1, <1>2, <1>3, TailPlaces, ZenonT(60)
<1>5. /\ net'[g].reqs = Tail(q)
      /\ net'[g].resps = IF net[g].up THEN net[g].resps \o a ELSE net[g].resps
      /\ \A h \in Conns \ {g} : net'[h] = net[h]
  <2>1. net \in [Conns -> [up : BOOLEAN, reqs : Seq(Ids), resps : Seq(Pieces)]]
    BY DEF SCTypeOK
  <2> HIDE DEF q, a
  <2> QED
    BY <1>1, <2>1, ZenonT(60)
<1>6. a \in Seq(Pieces) /\ Range(a) = {<<i, "header">>, <<i, "body">>}
  <2>1. a \in Seq(Pieces)
    <3> HIDE DEF i
    <3> QED
      BY <1>4 DEF Pieces
  <2> HIDE DEF i
  <2>2. DOMAIN a = {1, 2} /\ a[1] = <<i, "header">> /\ a[2] = <<i, "body">>
    OBVIOUS
  <2> HIDE DEF a
  <2> QED
    BY <2>1, <2>2, Zenon DEF Range
<1>7. i \in ToRun /\ ran[i] = 0
  BY <1>3, <1>4, ZenonT(60) DEF ToRun
<1>8. /\ ran'[i] = 1 /\ \A j \in Ids \ {i} : ran'[j] = ran[j]
  <2> HIDE DEF q, i
  <2> QED
    BY <1>1, <1>4, <1>7, SMTT(60) DEF SCTypeOK
<1>9. Unwritten' = Unwritten /\ Made' = Made
  BY <1>1, Zenon DEF Unwritten, Made
<1> HIDE DEF i, a
<1>10. ToRun' = ToRun \ {i}
  <2>1. Made \subseteq Ids /\ 0 # 1
    BY DEF Made
  <2> QED
    BY <1>8, <1>9, <2>1, Zenon DEF ToRun
<1>11. i \in Made
  BY <1>7, Zenon DEF ToRun
<1>12. /\ \A j \in Ids : ran'[j] \in {0, 1}
       /\ \A j \in Ids \ Made' : ran'[j] = 0
  <2>1. /\ \A j \in Ids : ran[j] \in {0, 1}
        /\ \A j \in Ids \ Made : ran[j] = 0
    BY Zenon DEF RunsOnce
  <2> QED
    BY <1>8, <1>9, <1>11, <2>1, Zenon
<1>13. /\ Range(rx') \cup Range(batch') \subseteq ToRun'
       /\ IsInjective(Unwritten')
       /\ Range(Unwritten') \subseteq ToRun' \ (Range(rx') \cup Range(batch'))
  <2>1. /\ Range(rx) \cup Range(batch) \subseteq ToRun
        /\ IsInjective(Unwritten)
        /\ Range(Unwritten) \subseteq ToRun \ (Range(rx) \cup Range(batch))
    BY Zenon DEF RunsOnce
  <2>2. i \notin Range(rx) /\ i \notin Range(batch) /\ i \notin Range(Unwritten)
    BY <1>3, <1>4, Zenon
  <2> QED
    BY <1>1, <1>9, <1>10, <2>1, <2>2, Zenon
<1>14. \A p \in Pieces : ran[p[1]] = 1 => ran'[p[1]] = 1
  <2>1. \A p \in Pieces : p[1] \in Ids
    BY DEF Pieces
  <2> QED
    BY <1>8, <2>1, Zenon
<1>15. \A p \in Range(framer') : ran'[p[1]] = 1
  <2>1. \A p \in Range(framer) : p \in Pieces
    BY DEF SCTypeOK, Range
  <2> QED
    BY <1>1, <1>14, <2>1, ZenonT(60) DEF RunsOnce
<1>16. ASSUME NEW h \in Conns
       PROVE  /\ IsInjective(net'[h].reqs)
              /\ Range(net'[h].reqs) \subseteq
                   ToRun' \ (Range(rx') \cup Range(batch') \cup Range(Unwritten'))
  <2>1. /\ IsInjective(net[h].reqs)
        /\ Range(net[h].reqs) \subseteq
             ToRun \ (Range(rx) \cup Range(batch) \cup Range(Unwritten))
    BY Zenon DEF RunsOnce
  <2>2. CASE h = g
    <3>1. Range(net'[h].reqs) \subseteq Range(net[h].reqs) /\ i \notin Range(net'[h].reqs)
      BY <1>4, <1>5, <2>2, Zenon
    <3>2. IsInjective(net'[h].reqs)
      BY <1>4, <1>5, <2>2, Zenon
    <3> QED
      BY <1>1, <1>9, <1>10, <2>1, <3>1, <3>2, Zenon
  <2>3. CASE h # g
    <3>1. net'[h].reqs = net[h].reqs
      BY <1>5, <2>3
    <3>2. Range(net[g].reqs) \cap Range(net[h].reqs) = {}
      BY <2>3, Zenon DEF RunsOnce
    <3>3. i \notin Range(net[h].reqs)
      BY <1>4, <3>2, Zenon
    <3> QED
      BY <1>1, <1>9, <1>10, <2>1, <3>1, <3>3, ZenonT(60)
  <2> QED
    BY <2>2, <2>3
<1>17. ASSUME NEW h \in Conns
       PROVE  Range(net'[h].reqs) \subseteq Range(net[h].reqs)
  BY <1>4, <1>5, Zenon
<1>18. ASSUME NEW h \in Conns, NEW k \in Conns \ {h}
       PROVE  Range(net'[h].reqs) \cap Range(net'[k].reqs) = {}
  <2>1. Range(net[h].reqs) \cap Range(net[k].reqs) = {}
    BY Zenon DEF RunsOnce
  <2>2. /\ Range(net'[h].reqs) \subseteq Range(net[h].reqs)
        /\ Range(net'[k].reqs) \subseteq Range(net[k].reqs)
    BY <1>17
  <2> QED
    BY <2>1, <2>2, Zenon
<1>19. ASSUME NEW h \in Conns
       PROVE  \A p \in Range(net'[h].resps) : ran'[p[1]] = 1
  <2>1. \A p \in Range(net[h].resps) : p \in Pieces
    BY Socket DEF Range
  <2>2. \A p \in Range(net[h].resps) : ran'[p[1]] = 1
    BY <1>14, <2>1, Zenon DEF RunsOnce
  <2>3. CASE net'[h].resps = net[h].resps
    BY <2>2, <2>3, Zenon
  <2>4. CASE h = g /\ net'[h].resps = net[h].resps \o a
    <3>1. Range(net[h].resps \o a) = Range(net[h].resps) \cup Range(a)
      BY <1>2, <1>6, <2>4, ConcatPlaces
    <3>2. \A p \in Range(a) : ran'[p[1]] = 1
      <4>1. <<i, "header">>[1] = i /\ <<i, "body">>[1] = i
        OBVIOUS
      <4> QED
        BY <1>6, <1>8, <4>1, Zenon
    <3> QED
      BY <2>2, <2>4, <3>1, <3>2, ZenonT(60)
  <2> QED
    BY <1>5, <2>3, <2>4, ZenonT(60)
<1> QED
  BY <1>12, <1>13, <1>15, <1>16, <1>18, <1>19, ZenonT(60) DEF RunsOnce

\* No step makes a second execution possible.
LEMMA RunsOnceStep ==
    ASSUME SCTypeOK, Phases, Places, RunsOnce, [Next]_vars
    PROVE  RunsOnce'
<1> USE Queues, SmallPlaces
<1>0. /\ IsInjective(Unwritten) /\ Range(Unwritten) \cap Range(rx) = {}
      /\ Range(Unwritten) \cap Range(batch) = {}
  BY Zenon DEF RunsOnce
<1>1. ASSUME NEW c \in Callers, Call(c)
      PROVE  RunsOnce'
  BY <1>1, RunsCall
<1>2. ASSUME NEW c \in Callers, DropHandle(c)
      PROVE  RunsOnce'
  BY <1>2, RunsDropped DEF DropHandle, Unwritten
<1>3. CASE DriverStart
  BY <1>3, RunsDropped DEF DriverStart, Unwritten
<1>4. CASE DriverCloneFails
  BY <1>4, RunsDropped, ZenonT(60) DEF DriverCloneFails, Unwritten
<1>5. CASE DriverRecv
  <2>1. rx # <<>> /\ batch' = <<Head(rx)>> /\ rx' = Tail(rx)
    BY <1>5, SMTT(60) DEF DriverRecv
  <2>2. Unwritten' = <<>> /\ UNCHANGED <<calls, ran, net, framer>>
    BY <1>5 DEF DriverRecv, Unwritten
  <2>3. Range(rx) = {Head(rx)} \cup Range(rx')
    BY <2>1, TailPlaces, Zenon
  <2>4. Range(batch') = {Head(rx)}
    BY <2>1, Zenon
  <2>5. /\ Range(rx') \cup Range(batch') \cup Range(Unwritten') \subseteq
               Range(rx) \cup Range(batch) \cup Range(Unwritten)
        /\ (Range(rx') \cup Range(batch')) \cap Range(Unwritten') = {}
        /\ IsInjective(Unwritten')
    BY <2>2, <2>3, <2>4, Zenon
  <2> QED
    BY <2>2, <2>5, RunsQueued, SMTT(60)
<1>6. CASE DriverReturns
  BY <1>6, RunsDropped, ZenonT(60) DEF DriverReturns, Unwritten
<1>7. CASE DriverFindsDead
  <2>1. Unwritten' = <<>> /\ batch' = <<>> /\ UNCHANGED <<calls, ran, net, framer, rx>>
    BY <1>7 DEF DriverFindsDead, Unwritten
  <2>2. /\ Range(rx') \cup Range(batch') \cup Range(Unwritten') \subseteq
               Range(rx) \cup Range(batch) \cup Range(Unwritten)
        /\ (Range(rx') \cup Range(batch')) \cap Range(Unwritten') = {}
        /\ IsInjective(Unwritten')
    BY <2>1, Zenon
  <2> QED
    BY <2>1, <2>2, RunsQueued, ZenonT(60)
<1>8. CASE DriverBatch
  <2>1. batch' = batch \o rx /\ rx' = <<>> /\ UNCHANGED <<calls, ran, net, framer>>
    BY <1>8 DEF DriverBatch
  <2>2. Unwritten' = <<>>
    BY <1>8 DEF DriverBatch, Unwritten
  <2>3. Range(batch \o rx) = Range(batch) \cup Range(rx)
    BY ConcatPlaces
  <2>4. /\ Range(rx') \cup Range(batch') \cup Range(Unwritten') \subseteq
               Range(rx) \cup Range(batch) \cup Range(Unwritten)
        /\ (Range(rx') \cup Range(batch')) \cap Range(Unwritten') = {}
        /\ IsInjective(Unwritten')
    BY <2>1, <2>2, <2>3, Zenon
  <2> QED
    BY <2>1, <2>4, RunsQueued, SMTT(60)
<1>9. CASE DriverQueue
  <2> DEFINE h == Head(batch)
  <2>1. batch # <<>> /\ batch' = Tail(batch) /\ UNCHANGED <<rx, calls, ran, net, framer>>
    BY <1>9, SMTT(60) DEF DriverQueue, Phases
  <2>2. Unwritten = write_buf /\ Unwritten' = Append(write_buf, h)
    BY <1>9 DEF DriverQueue, Unwritten
  <2>3. /\ h \in Ids /\ Range(batch) = {h} \cup Range(batch')
        /\ h \notin Range(batch')
    BY <2>1, TailPlaces, Zenon DEF Places
  <2> HIDE DEF h
  <2>4. h \notin Range(write_buf) /\ h \notin Range(rx)
    BY <1>0, <2>2, <2>3, Zenon DEF Places
  <2>5. Range(Append(write_buf, h)) = Range(write_buf) \cup {h} /\ IsInjective(Append(write_buf, h))
    BY <1>0, <2>2, <2>3, <2>4, AppendPlaces
  <2>6. Range(Unwritten') = Range(Unwritten) \cup {h} /\ IsInjective(Unwritten')
    BY <2>2, <2>5, Zenon
  <2>7. Range(rx') \cup Range(batch') \cup Range(Unwritten') \subseteq
               Range(rx) \cup Range(batch) \cup Range(Unwritten)
    BY <2>1, <2>3, <2>6, Zenon
  <2>8. (Range(rx') \cup Range(batch')) \cap Range(Unwritten') = {}
    BY <1>0, <2>1, <2>3, <2>4, <2>6, ZenonT(60)
  <2> QED
    BY <2>1, <2>6, <2>7, <2>8, RunsQueued, ZenonT(60)
<1>10. CASE DriverWriteFails
  BY <1>10, RunsDropped DEF DriverWriteFails, Unwritten
<1>11. CASE DriverJoin
  BY <1>11, RunsDropped DEF DriverJoin, Unwritten
<1>12. CASE Write
  BY <1>12, RunsWrite, SMTT(60)
<1>13. CASE WriteLost
  BY <1>13, RunsDropped DEF WriteLost, Unwritten
<1>14. CASE ReaderRead
  <2>1. PICK n \in 1 .. Len(net[rconn].resps) :
          /\ framer' = framer \o SubSeq(net[rconn].resps, 1, n)
          /\ net' = [net EXCEPT ![rconn].resps = SubSeq(@, n + 1, Len(@))]
    BY <1>14, ZenonT(60) DEF ReaderRead
  <2> DEFINE r == net[rconn].resps
             q == SubSeq(r, n + 1, Len(r))
             t == SubSeq(r, 1, n)
  <2>2. rconn \in Conns /\ r \in Seq(Pieces) /\ framer \in Seq(Pieces) /\ Len(r) \in Nat
    BY Socket DEF SCTypeOK
  <2>3. t \in Seq(Pieces) /\ Range(t) \subseteq Range(r) /\ Range(q) \subseteq Range(r)
    <3>1. n \in 1 .. Len(r)
      OBVIOUS
    <3> HIDE DEF r
    <3>2. n \in 0 .. Len(r) /\ n + 1 \in 1 .. Len(r) + 1
      BY <2>2, <3>1
    <3> QED
      BY <2>2, <3>2, PrefixPlaces, SuffixPlaces, Zenon
  <2>4. Range(framer') \subseteq Range(framer) \cup Range(net[rconn].resps)
    <3> HIDE DEF t
    <3>1. Range(framer \o t) = Range(framer) \cup Range(t)
      BY <2>2, <2>3, ConcatPlaces, SMTT(60)
    <3>2. framer' = framer \o t
      BY <2>1 DEF t
    <3> QED
      BY <2>3, <3>1, <3>2, ZenonT(60)
  <2>5. /\ \A g \in Conns : net'[g].reqs = net[g].reqs
        /\ \A g \in Conns \ {rconn} : net'[g].resps = net[g].resps
        /\ net'[rconn].resps = q
    BY <2>1, <2>2, ZenonT(60) DEF SCTypeOK
  <2> HIDE DEF q
  <2>6. \A g \in Conns : /\ IsInjective(net'[g].reqs)
                         /\ Range(net'[g].reqs) \subseteq Range(net[g].reqs)
                         /\ Range(net'[g].resps) \subseteq Range(net[g].resps)
    BY <2>3, <2>5, Zenon DEF RunsOnce
  <2>7. Unwritten' = Unwritten /\ UNCHANGED <<calls, ran, rx, batch>>
    <3>1. UNCHANGED <<kind, caller, writer, seen>>
      BY <1>14, Zenon DEF ReaderRead
    <3> QED
      BY <3>1, ZenonT(60) DEF Unwritten, caller, writer, seen
  <2> QED
    BY <2>4, <2>6, <2>7, RunsArrive, Zenon
<1>15. CASE ReaderDeliver
  <2>1. framer \in Seq(Pieces) /\ Len(framer) \in Nat /\ Len(framer) >= 2
    <3>1. framer \in Seq(Pieces)
      BY Zenon DEF SCTypeOK
    <3>2. Len(framer) >= 2
      BY <1>15, ZenonT(60) DEF ReaderDeliver, FrameReady
    <3> QED
      BY <3>1, <3>2, SMTT(60)
  <2>2. Range(SubSeq(framer, 3, Len(framer))) \subseteq Range(framer)
    BY <2>1, SuffixPlaces, SMTT(60)
  <2>3. /\ framer' = SubSeq(framer, 3, Len(framer)) /\ Unwritten' = Unwritten
        /\ UNCHANGED <<calls, ran, rx, batch, net>>
    BY <1>15 DEF ReaderDeliver, Unwritten
  <2>4. Range(framer') \subseteq Range(framer) \cup Range(net[rconn].resps)
    BY <2>2, <2>3, Zenon
  <2>5. \A g \in Conns : /\ IsInjective(net'[g].reqs)
                         /\ Range(net'[g].reqs) \subseteq Range(net[g].reqs)
                         /\ Range(net'[g].resps) \subseteq Range(net[g].resps)
    BY <2>3, Zenon DEF RunsOnce
  <2> QED
    BY <2>3, <2>4, <2>5, RunsArrive, ZenonT(60)
<1>16. CASE ReaderNeedsMore
  BY <1>16, RunsDropped DEF ReaderNeedsMore, Unwritten
<1>17. CASE ReaderEof
  BY <1>17, RunsDropped, SMTT(60) DEF ReaderEof, Unwritten
<1>18. CASE ReaderDrains
  BY <1>18, RunsDropped DEF ReaderDrains, Unwritten
<1>19. CASE ReaderDrained
  BY <1>19, RunsDropped, SMTT(60) DEF ReaderDrained, Unwritten
<1>20. CASE ReaderExits
  BY <1>20, RunsDropped DEF ReaderExits, Unwritten
<1>21. CASE TasksStart
  BY <1>21, RunsDropped, ZenonT(60) DEF TasksStart, Unwritten
<1>22. CASE TaskBatch
  <2>1. rx' = <<>> /\ Unwritten' = rx /\ UNCHANGED <<calls, ran, net, framer, batch>>
    BY <1>22 DEF TaskBatch, Unwritten
  <2>2. /\ Range(rx') \cup Range(batch') \cup Range(Unwritten') \subseteq
               Range(rx) \cup Range(batch) \cup Range(Unwritten)
        /\ (Range(rx') \cup Range(batch')) \cap Range(Unwritten') = {}
        /\ IsInjective(Unwritten')
    BY <2>1, ZenonT(60) DEF Places
  <2> QED
    BY <2>1, <2>2, RunsQueued, SMTT(60)
<1>23. ASSUME UNCHANGED <<calls, ran, rx, batch, framer>>, Unwritten' \in {Unwritten, <<>>},
              \A g \in Conns : net'[g].reqs = net[g].reqs /\ net'[g].resps = net[g].resps
       PROVE  RunsOnce'
  <2>1. Range(framer') \subseteq Range(framer) \cup Range(net[rconn].resps)
    BY <1>23, Zenon
  <2>2. \A g \in Conns : /\ IsInjective(net'[g].reqs)
                         /\ Range(net'[g].reqs) \subseteq Range(net[g].reqs)
                         /\ Range(net'[g].resps) \subseteq Range(net[g].resps)
    BY <1>23, ZenonT(60) DEF RunsOnce
  <2> QED
    BY <1>23, <2>1, <2>2, RunsArrive
<1>24. CASE kind = "async" /\ TasksEnd
  <2>1. \A g \in Conns : net'[g].reqs = net[g].reqs /\ net'[g].resps = net[g].resps
    BY <1>24, ZenonT(60) DEF TasksEnd, SCTypeOK
  <2>2. Unwritten' = <<>> /\ UNCHANGED <<calls, ran, rx, batch, framer>>
    BY <1>24 DEF TasksEnd, Unwritten
  <2> QED
    BY <1>23, <2>1, <2>2, ZenonT(60)
<1>25. CASE Connect
  <2>1. conn + 1 \in Conns
    BY <1>25, Sizes, SMTT(60) DEF Connect, Conns, SCTypeOK
  <2>2. \A g \in Conns : net'[g].reqs = net[g].reqs /\ net'[g].resps = net[g].resps
    BY <1>25, <2>1, ZenonT(60) DEF Connect, SCTypeOK
  <2>3. Unwritten' = <<>> /\ UNCHANGED <<calls, ran, rx, batch, framer>>
    BY <1>25 DEF Connect, Unwritten
  <2> QED
    BY <1>23, <2>2, <2>3
<1>26. ASSUME NEW g \in Conns, Break(g)
       PROVE  RunsOnce'
  <2>1. PICK n \in 0 .. Len(net[g].reqs), m \in 0 .. Len(net[g].resps) :
          net' = [net EXCEPT ![g] = [up |-> FALSE, reqs |-> SubSeq(@.reqs, 1, n),
                                     resps |-> SubSeq(@.resps, 1, m)]]
    BY <1>26, ZenonT(60) DEF Break
  <2>2. /\ net'[g].reqs = SubSeq(net[g].reqs, 1, n) /\ net'[g].resps = SubSeq(net[g].resps, 1, m)
        /\ \A h \in Conns \ {g} : net'[h] = net[h]
    BY <2>1, ZenonT(60) DEF SCTypeOK
  <2>3. IsInjective(net[g].reqs)
    BY Zenon DEF RunsOnce
  <2>4. /\ Range(net'[g].reqs) \subseteq Range(net[g].reqs) /\ IsInjective(net'[g].reqs)
        /\ Range(net'[g].resps) \subseteq Range(net[g].resps)
    <3>1. /\ Range(SubSeq(net[g].reqs, 1, n)) \subseteq Range(net[g].reqs)
          /\ IsInjective(SubSeq(net[g].reqs, 1, n))
          /\ Range(SubSeq(net[g].resps, 1, m)) \subseteq Range(net[g].resps)
      BY <2>3, Socket, PrefixPlaces, ZenonT(60)
    <3> QED
      BY <2>2, <3>1, ZenonT(60)
  <2>5. \A h \in Conns : /\ IsInjective(net'[h].reqs)
                         /\ Range(net'[h].reqs) \subseteq Range(net[h].reqs)
                         /\ Range(net'[h].resps) \subseteq Range(net[h].resps)
    BY <2>2, <2>4, ZenonT(60) DEF RunsOnce
  <2>6. Unwritten' = Unwritten /\ UNCHANGED <<calls, ran, rx, batch, framer>>
    BY <1>26 DEF Break, Unwritten
  <2>7. Range(framer') \subseteq Range(framer) \cup Range(net[rconn].resps)
    BY <2>6, Zenon
  <2> QED
    BY <2>5, <2>6, <2>7, RunsArrive, Zenon
<1>27. ASSUME NEW g \in Conns, Serve(g)
       PROVE  RunsOnce'
  BY <1>27, RunsServe, ZenonT(60)
<1>28. CASE UNCHANGED vars
  BY <1>28, RunsDropped, SMTT(30) DEF vars, Unwritten
<1> QED
  BY <1>1, <1>2, <1>3, <1>4, <1>5, <1>6, <1>7, <1>8, <1>9, <1>10, <1>11, <1>12,
     <1>13, <1>14, <1>15, <1>16, <1>17, <1>18, <1>19, <1>20, <1>21, <1>22,
     <1>24, <1>25, <1>26, <1>27, <1>28, StepCases, ZenonT(60)
-----------------------------------------------------------------------------
(***************************************************************************)
(* Every answer goes to its call.                                          *)
(***************************************************************************)
\* A sequence is cut in two, and put together in any order.
LEMMA Cut ==
    ASSUME NEW S, NEW s \in Seq(S), NEW n \in 0 .. Len(s)
    PROVE  /\ SubSeq(s, 1, n) \in Seq(S) /\ SubSeq(s, n + 1, Len(s)) \in Seq(S)
           /\ s = SubSeq(s, 1, n) \o SubSeq(s, n + 1, Len(s))
<1>1. Len(s) \in Nat /\ n \in Nat
  BY LenProperties
<1>2. /\ 1 \in 1 .. Len(s) + 1 /\ n \in 1 - 1 .. Len(s) /\ Len(s) \in n .. Len(s)
      /\ n + 1 \in 1 .. Len(s) + 1
  BY <1>1
<1>3. SubSeq(s, 1, n) \o SubSeq(s, n + 1, Len(s)) = SubSeq(s, 1, Len(s))
  BY <1>2, ConcatAdjacentSubSeq, Zenon
<1>4. SubSeq(s, 1, Len(s)) = s
  BY <1>1
<1> QED
  BY <1>2, <1>3, <1>4, PrefixPlaces, SuffixPlaces, Zenon

Assoc(a, b, c) == (a \o b) \o c = a \o (b \o c)

LEMMA PiecesAssoc ==
    \A a, b, c \in Seq(Pieces) : Assoc(a, b, c)
  BY SMTT(60) DEF Assoc

LEMMA IdsAssoc ==
    \A a, b, c \in Seq(Ids) : Assoc(a, b, c)
  BY SMTT(60) DEF Assoc

LEMMA PiecesConcat ==
    \A a, b \in Seq(Pieces) : a \o b \in Seq(Pieces)
  OBVIOUS

LEMMA IdsConcat ==
    \A a, b \in Seq(Ids) : a \o b \in Seq(Ids)
  OBVIOUS

\* A prefix is what can be continued.
LEMMA PrefixIff ==
    ASSUME NEW S, NEW s \in Seq(S), NEW t \in Seq(S)
    PROVE  Begins(s, t) <=> \E u \in Seq(S) : s \o u = t
<1>0. Len(s) \in Nat /\ Len(t) \in Nat
  BY LenProperties
<1>1. ASSUME Begins(s, t)
      PROVE  \E u \in Seq(S) : s \o u = t
  <2> DEFINE u == SubSeq(t, Len(s) + 1, Len(t))
  <2>1. Len(s) <= Len(t) /\ SubSeq(s, 1, Len(s)) = SubSeq(t, 1, Len(s))
    BY <1>1 DEF Begins
  <2>2. Len(s) \in 0 .. Len(t)
    BY <1>0, <2>1
  <2>3. u \in Seq(S) /\ t = SubSeq(t, 1, Len(s)) \o u
    BY <2>2, Cut, Zenon
  <2>4. SubSeq(s, 1, Len(s)) = s
    BY <1>0
  <2> HIDE DEF u
  <2> QED
    BY <2>1, <2>3, <2>4, Zenon
<1>2. ASSUME NEW u \in Seq(S), s \o u = t
      PROVE  Begins(s, t)
  <2>1. Len(t) = Len(s) + Len(u) /\ \A i \in 1 .. Len(s) : t[i] = s[i]
    <3>1. Len(u) \in Nat
      BY LenProperties
    <3> QED
      BY <1>0, <1>2, <3>1, ConcatProperties, SMTT(60)
  <2>2. Len(s) <= Len(t) /\ Len(s) \in 0 .. Len(t)
    BY <1>0, <2>1, LenProperties, SMTT(60)
  <2>3. /\ SubSeq(t, 1, Len(s)) \in Seq(S) /\ Len(SubSeq(t, 1, Len(s))) = Len(s)
        /\ \A i \in 1 .. Len(s) : SubSeq(t, 1, Len(s))[i] = t[i]
    BY <2>2, PrefixPlaces
  <2>4. SubSeq(t, 1, Len(s)) = s
    BY <2>1, <2>3, SeqEqual, Zenon
  <2>5. SubSeq(s, 1, Len(s)) = s
    BY <1>0
  <2> QED
    BY <2>2, <2>4, <2>5, SMTT(60) DEF Begins
<1> QED
  BY <1>1, <1>2, Zenon

\* Two pieces at the front of both sides.
OffFront(P, X, H, T) == Len(P) = 2 /\ Len(H) = 2 /\ P \o X = H \o T => P = H /\ X = T

LEMMA FrontOff ==
    \A P, X, H, T \in Seq(Pieces) : OffFront(P, X, H, T)
<1> SUFFICES ASSUME NEW P \in Seq(Pieces), NEW X \in Seq(Pieces), NEW H \in Seq(Pieces),
                    NEW T \in Seq(Pieces), Len(P) = 2, Len(H) = 2, P \o X = H \o T
             PROVE  P = H /\ X = T
  BY Zenon DEF OffFront
<1>4. P = H
  <2>1. Len(X) \in Nat /\ Len(T) \in Nat
    BY LenProperties
  <2>2. /\ \A i \in 1 .. Len(P) + Len(X) :
              (P \o X)[i] = IF i <= Len(P) THEN P[i] ELSE X[i - Len(P)]
        /\ \A i \in 1 .. Len(H) + Len(T) :
              (H \o T)[i] = IF i <= Len(H) THEN H[i] ELSE T[i - Len(H)]
    BY ConcatProperties, Zenon
  <2>3. \A i \in 1 .. Len(P) : /\ i \in 1 .. Len(P) + Len(X) /\ i <= Len(P)
                               /\ i \in 1 .. Len(H) + Len(T) /\ i <= Len(H)
    BY <2>1
  <2>4. \A i \in 1 .. Len(P) : P[i] = H[i]
    BY <2>2, <2>3, Zenon
  <2> QED
    BY <2>4, SeqEqual, Zenon
<1>5. X = T
  <2>1. H \o X = H \o T
    BY <1>4, Zenon
  <2> QED
    BY <2>1, ConcatSimplifications, Zenon
<1> QED
  BY <1>4, <1>5

\* A queue is its first element and the rest.
LEMMA HeadFirst ==
    ASSUME NEW ids \in Seq(Ids), ids # <<>>
    PROVE  /\ Head(ids) \in Ids /\ Tail(ids) \in Seq(Ids)
           /\ <<Head(ids)>> \in Seq(Ids) /\ ids = <<Head(ids)>> \o Tail(ids)
<1> DEFINE h == Head(ids)
<1>1. h \in Ids /\ Tail(ids) \in Seq(Ids)
  BY TailPlaces
<1>2. <<h>> \in Seq(Ids)
  BY <1>1, FramesOne
<1>3. Len(<<h>>) = 1 /\ <<h>>[1] = h
  OBVIOUS
<1> DEFINE v == <<h>>
           w == v \o Tail(ids)
<1>4. v \in Seq(Ids) /\ Len(v) = 1 /\ v[1] = h
  BY <1>2, <1>3
<1> HIDE DEF v
<1>5. /\ w \in Seq(Ids) /\ Len(w) = 1 + Len(Tail(ids))
      /\ \A i \in 1 .. 1 + Len(Tail(ids)) : w[i] = IF i <= 1 THEN v[i] ELSE Tail(ids)[i - 1]
  <2> DEFINE x == Tail(ids)
  <2>1. x \in Seq(Ids)
    BY <1>1
  <2> HIDE DEF x
  <2>2. /\ v \o x \in Seq(Ids) /\ Len(v \o x) = Len(v) + Len(x)
        /\ \A i \in 1 .. Len(v) + Len(x) :
              (v \o x)[i] = IF i <= Len(v) THEN v[i] ELSE x[i - Len(v)]
    BY <1>4, <2>1, ConcatProperties, Zenon
  <2> QED
    BY <1>4, <2>2, Zenon DEF x
<1>6. /\ Len(ids) \in Nat \ {0} /\ Len(Tail(ids)) = Len(ids) - 1 /\ ids[1] = h
      /\ \A i \in 1 .. Len(ids) - 1 : Tail(ids)[i] = ids[i + 1]
  BY HeadTailProperties, EmptySeq, TailPlaces
<1> HIDE DEF w, h
<1>7. Len(w) = Len(ids)
  BY <1>5, <1>6
<1>8. ASSUME NEW i \in 1 .. Len(w) PROVE w[i] = ids[i]
  <2>1. CASE i = 1
    BY <1>4, <1>5, <1>6, <2>1, SMTT(60)
  <2>2. CASE i # 1
    <3>1. i - 1 \in 1 .. Len(ids) - 1 /\ ~(i <= 1) /\ i \in 1 .. 1 + Len(Tail(ids)) /\ (i - 1) + 1 = i
      BY <1>6, <1>7, <2>2
    <3> QED
      BY <1>5, <1>6, <3>1, SMTT(60)
  <2> QED
    BY <2>1, <2>2
<1>9. w = ids
  BY <1>5, <1>7, <1>8, SeqEqual, ZenonT(60)
<1> QED
  BY <1>1, <1>2, <1>9 DEF w, v, h

Match(f, r, u, ids) == (f \o r) \o u = Frames(ids)

\* The first frame belongs to the first waiting call; what follows it matches
\* the other calls.
LEMMA FirstFrame ==
    ASSUME NEW f \in Seq(Pieces), NEW r \in Seq(Pieces), NEW u \in Seq(Pieces),
           NEW ids \in Seq(Ids), ids # <<>>, Len(f) >= 2,
           Match(f, r, u, ids)
    PROVE  /\ Match(SubSeq(f, 3, Len(f)), r, u, Tail(ids))
           /\ f[1] = <<Head(ids), "header">> /\ f[2] = <<Head(ids), "body">>
<1> DEFINE h == Head(ids)
           P == SubSeq(f, 1, 2)
           g == SubSeq(f, 3, Len(f))
           H == <<<<h, "header">>, <<h, "body">>>>
           T == Frames(Tail(ids))
<1>1. Len(f) \in Nat /\ 2 \in 0 .. Len(f) /\ 2 + 1 = 3
  BY LenProperties
<1>2. P \in Seq(Pieces) /\ g \in Seq(Pieces) /\ f = P \o g
  BY <1>1, Cut
<1>3. Len(P) = 2 /\ P[1] = f[1] /\ P[2] = f[2]
  <2>1. Len(P) = 2 /\ \A i \in 1 .. 2 : P[i] = f[i]
    BY <1>1, PrefixPlaces
  <2> HIDE DEF P
  <2> QED
    BY <2>1, SMTT(60)
<1>4. h \in Ids /\ Tail(ids) \in Seq(Ids) /\ <<h>> \in Seq(Ids) /\ ids = <<h>> \o Tail(ids)
  BY HeadFirst
<1>5. Frames(ids) = H \o T /\ T \in Seq(Pieces) /\ H = Frames(<<h>>)
  <2> HIDE DEF h
  <2>1. Frames(ids) = Frames(<<h>>) \o T
    BY <1>4, FramesConcat, Zenon
  <2>2. Frames(<<h>>) = H
    BY <1>4, FramesOne
  <2>3. T \in Seq(Pieces)
    BY <1>4, FramesAt, Zenon
  <2> QED
    BY <2>1, <2>2, <2>3, Zenon
<1>6. H \in Seq(Pieces) /\ Len(H) = 2 /\ H[1] = <<h, "header">> /\ H[2] = <<h, "body">>
  <2>1. H \in Seq(Pieces)
    BY <1>4, <1>5, FramesAt, Zenon
  <2> HIDE DEF h
  <2> QED
    BY <2>1
<1> HIDE DEF h, P, g, H, T
<1> DEFINE X == (g \o r) \o u
<1>7. P \o X = H \o T
  <2>1. g \o r \in Seq(Pieces)
    BY <1>2, PiecesConcat, Zenon
  <2>2. Assoc(P, g, r) /\ Assoc(P, g \o r, u)
    BY <1>2, <2>1, PiecesAssoc, Zenon
  <2>3. (f \o r) \o u = P \o X
    BY <1>2, <2>2, Zenon DEF Assoc
  <2> QED
    BY <1>5, <2>3, Zenon DEF Match
<1>8. P = H /\ X = T
  <2>1. X \in Seq(Pieces)
    BY <1>2, PiecesConcat, Zenon
  <2> HIDE DEF X
  <2>2. OffFront(P, X, H, T)
    BY <1>2, <1>5, <1>6, <2>1, FrontOff, Zenon
  <2> QED
    BY <1>3, <1>6, <1>7, <2>2, Zenon DEF OffFront
<1> QED
  BY <1>3, <1>6, <1>8, ZenonT(60) DEF h, g, T, Match

\* What still matches the waiting calls: the answers to the requests under way,
\* or, on a broken connection, answers that never come.
LEMMA WaitersNow ==
    ASSUME SCTypeOK, WaitersMatchRequests, rdr \in {"read", "extract"}
    PROVE  \E u \in Seq(Pieces) :
              /\ (framer \o net[rconn].resps) \o u = Frames(fifo)
              /\ net[rconn].up => u = Frames(net[rconn].reqs \o Unwritten)
<1>1. /\ framer \in Seq(Pieces) /\ fifo \in Seq(Ids) /\ rconn \in Conns
      /\ Unwritten \in Seq(Ids)
  BY Queues, UnwrittenType, ZenonT(60) DEF SCTypeOK
<1>2. net[rconn].reqs \in Seq(Ids) /\ net[rconn].resps \in Seq(Pieces)
  BY <1>1, Socket
<1>3. /\ Frames(net[rconn].reqs \o Unwritten) \in Seq(Pieces) /\ Frames(fifo) \in Seq(Pieces)
      /\ Arriving \in Seq(Pieces)
  <2>1. net[rconn].reqs \o Unwritten \in Seq(Ids) /\ framer \o net[rconn].resps \in Seq(Pieces)
    BY <1>1, <1>2, ConcatProperties
  <2> QED
    BY <1>1, <2>1, FramesAt, Zenon DEF Arriving
<1>4. CASE net[rconn].up
  BY <1>3, <1>4, Zenon DEF WaitersMatchRequests, Arriving
<1>5. CASE ~net[rconn].up
  <2>1. Begins(Arriving, Frames(fifo))
    BY <1>5, Zenon DEF WaitersMatchRequests
  <2>2. \E u \in Seq(Pieces) : Arriving \o u = Frames(fifo)
    BY <1>3, <2>1, PrefixIff, Zenon
  <2> QED
    BY <1>5, <2>2, Zenon DEF Arriving
<1> QED
  BY <1>4, <1>5, ZenonT(60)

LEMMA WaitersThen ==
    ASSUME SCTypeOK', NEW u \in Seq(Pieces),
           (framer' \o net'[rconn'].resps) \o u = Frames(fifo'),
           net'[rconn'].up => u = Frames(net'[rconn'].reqs \o Unwritten')
    PROVE  WaitersMatchRequests'
<1>1. /\ framer' \in Seq(Pieces) /\ fifo' \in Seq(Ids) /\ rconn' \in Conns
      /\ net'[rconn'].resps \in Seq(Pieces)
  BY DEF SCTypeOK
<1>2. Frames(fifo') \in Seq(Pieces)
  BY <1>1, FramesAt, Zenon
<1>3. framer' \o net'[rconn'].resps \in Seq(Pieces)
  BY <1>1, ConcatProperties, Zenon
<1>4. CASE net'[rconn'].up
  BY <1>4, Zenon DEF WaitersMatchRequests, Arriving
<1>5. CASE ~net'[rconn'].up
  <2>1. Begins(framer' \o net'[rconn'].resps, Frames(fifo'))
    BY <1>2, <1>3, PrefixIff, ZenonT(60)
  <2> QED
    BY <1>5, <2>1, Zenon DEF WaitersMatchRequests, Arriving
<1> QED
  BY <1>4, <1>5, Zenon

\* Nothing that WaitersMatchRequests is about changes, but what happens to a
\* broken connection's requests.
LEMMA WaitersSame ==
    ASSUME SCTypeOK, SCTypeOK', WaitersMatchRequests,
           rdr' \in {"read", "extract"} => rdr \in {"read", "extract"},
           UNCHANGED <<framer, fifo, rconn>>,
           net'[rconn].resps = net[rconn].resps,
           net'[rconn].up => /\ net[rconn].up
                             /\ net'[rconn].reqs = net[rconn].reqs
                             /\ Unwritten' = Unwritten
    PROVE  WaitersMatchRequests'
<1>1. CASE rdr' \notin {"read", "extract"}
  BY <1>1, Zenon DEF WaitersMatchRequests
<1>2. CASE rdr' \in {"read", "extract"}
  <2>1. PICK u \in Seq(Pieces) :
              /\ (framer \o net[rconn].resps) \o u = Frames(fifo)
              /\ net[rconn].up => u = Frames(net[rconn].reqs \o Unwritten)
    BY <1>2, WaitersNow
  <2>2. /\ (framer' \o net'[rconn'].resps) \o u = Frames(fifo')
        /\ net'[rconn'].up => u = Frames(net'[rconn'].reqs \o Unwritten')
    BY <2>1, Zenon
  <2> QED
    BY <2>2, WaitersThen, ZenonT(60)
<1> QED
  BY <1>1, <1>2, Zenon

\* Calls are put into fifo and encoded.
LEMMA WaitersQueued ==
    ASSUME SCTypeOK, SCTypeOK', WaitersMatchRequests, rdr \in {"read", "extract"},
           UNCHANGED <<framer, net, rconn>>, NEW d \in Seq(Ids),
           fifo' = fifo \o d, Unwritten' = Unwritten \o d
    PROVE  WaitersMatchRequests'
<1>1. PICK u \in Seq(Pieces) :
              /\ (framer \o net[rconn].resps) \o u = Frames(fifo)
              /\ net[rconn].up => u = Frames(net[rconn].reqs \o Unwritten)
  BY WaitersNow, Zenon
<1> DEFINE a == framer \o net[rconn].resps
           r == net[rconn].reqs
           v == u \o Frames(d)
<1>2. /\ framer \in Seq(Pieces) /\ rconn \in Conns /\ net[rconn].resps \in Seq(Pieces)
      /\ r \in Seq(Ids) /\ fifo \in Seq(Ids) /\ Unwritten \in Seq(Ids)
  BY Queues, UnwrittenType, Zenon DEF SCTypeOK
<1>3. a \in Seq(Pieces) /\ Frames(d) \in Seq(Pieces) /\ r \o Unwritten \in Seq(Ids)
  BY <1>2, PiecesConcat, IdsConcat, FramesAt, Zenon
<1>4. v \in Seq(Pieces)
  BY <1>3, PiecesConcat, Zenon
<1> HIDE DEF a
<1>5. Frames(fifo \o d) = Frames(fifo) \o Frames(d)
  BY <1>2, FramesConcat, Zenon
<1>6. a \o v = Frames(fifo')
  <2>1. Assoc(a, u, Frames(d))
    BY <1>3, PiecesAssoc, Zenon
  <2>2. a \o u = Frames(fifo)
    BY <1>1 DEF a
  <2> QED
    BY <1>5, <2>1, <2>2, Zenon DEF Assoc
<1>7. net[rconn].up => v = Frames(r \o Unwritten')
  <2> SUFFICES ASSUME net[rconn].up PROVE v = Frames(r \o Unwritten')
    BY Zenon
  <2>1. u = Frames(r \o Unwritten)
    BY <1>1, Zenon
  <2>2. Frames((r \o Unwritten) \o d) = Frames(r \o Unwritten) \o Frames(d)
    BY <1>3, FramesConcat, Zenon
  <2>3. Assoc(r, Unwritten, d)
    BY <1>2, IdsAssoc, Zenon
  <2> QED
    BY <2>1, <2>2, <2>3, Zenon DEF Assoc
<1> HIDE DEF v
<1>8. /\ (framer' \o net'[rconn'].resps) \o v = Frames(fifo')
      /\ net'[rconn'].up => v = Frames(net'[rconn'].reqs \o Unwritten')
  BY <1>6, <1>7, Zenon DEF a
<1> QED
  BY <1>4, <1>8, WaitersThen, Zenon

\* What the reader, the writer, the server and the network do to the answers.
LEMMA WaitersStep ==
    ASSUME SCTypeOK, SCTypeOK', Phases, Connections, WaitersMatchRequests, [Next]_vars
    PROVE  WaitersMatchRequests'
<1> USE Queues, UnwrittenType
<1>0. /\ framer \in Seq(Pieces) /\ rconn \in Conns /\ conn \in Conns /\ <<>> \in Seq(Pieces)
      /\ net[rconn].resps \in Seq(Pieces) /\ net[rconn].reqs \in Seq(Ids)
      /\ rconn \in Nat /\ conn \in Nat /\ rconn <= conn
  <2>1. framer \in Seq(Pieces) /\ rconn \in Conns /\ conn \in Conns
    BY ZenonT(60) DEF SCTypeOK
  <2>2. <<>> \in Seq(Pieces) /\ rconn <= conn
    BY DEF Connections
  <2>3. net[rconn].resps \in Seq(Pieces) /\ net[rconn].reqs \in Seq(Ids)
    BY <2>1, Socket, Zenon
  <2>4. rconn \in Nat /\ conn \in Nat
    BY <2>1, Sizes, Zenon
  <2> QED
    BY <2>1, <2>2, <2>3, <2>4, ZenonT(60)
<1>1. ASSUME UNCHANGED <<rdr, framer, fifo, rconn, net>>, Unwritten' = Unwritten
      PROVE  WaitersMatchRequests'
  BY <1>1, Zenon DEF WaitersMatchRequests, Arriving
<1>2. ASSUME rdr' \notin {"read", "extract"}
      PROVE  WaitersMatchRequests'
  BY <1>2, ZenonT(60) DEF WaitersMatchRequests
<1>3. ASSUME NEW c \in Callers, Call(c) \/ DropHandle(c)
      PROVE  WaitersMatchRequests'
  BY <1>1, <1>3 DEF Call, DropHandle, Unwritten
<1>4. ASSUME drv = "start", fifo' = <<>>, framer' = <<>>, rconn' = conn, drv' = "recv", net' = net
      PROVE  WaitersMatchRequests'
  <2>1. net[conn].reqs = <<>> /\ net[conn].resps = <<>> /\ Unwritten' = <<>>
    BY <1>0, <1>4 DEF Connections, Unwritten
  <2>2. (<<>> \o <<>>) \o <<>> = <<>> /\ Frames(<<>> \o <<>>) = <<>> /\ Frames(<<>>) = <<>>
    <3>1. <<>> \o <<>> = <<>>
      BY <1>0, ConcatEmptySeq
    <3> QED
      BY <3>1, FramesNone, Zenon
  <2>3. /\ (framer' \o net'[rconn'].resps) \o <<>> = Frames(fifo')
        /\ net'[rconn'].up => <<>> = Frames(net'[rconn'].reqs \o Unwritten')
    BY <1>4, <2>1, <2>2, Zenon
  <2> QED
    BY <1>0, <2>3, WaitersThen, ZenonT(60)
<1>5. CASE DriverStart
  BY <1>4, <1>5, ZenonT(60) DEF DriverStart
<1>6. CASE DriverCloneFails \/ DriverRecv \/ DriverReturns
  BY <1>1, <1>6 DEF DriverCloneFails, DriverRecv, DriverReturns, Unwritten
<1>7. CASE DriverFindsDead
  BY <1>2, <1>7, ZenonT(60) DEF DriverFindsDead, Phases
<1>8. CASE DriverBatch
  BY <1>1, <1>8 DEF DriverBatch, Unwritten
<1>9. CASE DriverQueue
  <2>1. CASE rdr \notin {"read", "extract"}
    BY <1>2, <1>9, <2>1 DEF DriverQueue
  <2>2. CASE rdr \in {"read", "extract"}
    <3> DEFINE d == <<Head(batch)>>
    <3>1. batch # <<>> /\ Head(batch) \in Ids /\ d \in Seq(Ids)
      BY <1>9, HeadFirst, SMTT(60) DEF DriverQueue, Phases
    <3>2. fifo' = Append(fifo, Head(batch)) /\ UNCHANGED <<framer, net, rconn>>
      BY <1>9, <2>2 DEF DriverQueue
    <3>3. Unwritten = write_buf /\ Unwritten' = Append(write_buf, Head(batch))
      BY <1>9, SMTT(60) DEF DriverQueue, Unwritten
    <3>4. Append(fifo, Head(batch)) = fifo \o d /\ Append(write_buf, Head(batch)) = write_buf \o d
      BY <3>1, SMTT(60)
    <3>5. fifo' = fifo \o d /\ Unwritten' = Unwritten \o d
      BY <3>2, <3>3, <3>4, Zenon
    <3> HIDE DEF d
    <3> QED
      BY <2>2, <3>1, <3>2, <3>5, WaitersQueued, ZenonT(60)
  <2> QED
    BY <2>1, <2>2
<1>10. CASE WriteLost \/ DriverWriteFails
  <2>1. rdr \in {"read", "extract"} => ~net[rconn].up
    BY <1>10, SMTT(60) DEF WriteLost, DriverWriteFails, Connections
  <2>2. UNCHANGED <<rdr, framer, fifo, rconn, net>>
    BY <1>10 DEF WriteLost, DriverWriteFails
  <2> QED
    BY <2>1, <2>2, ZenonT(60) DEF WaitersMatchRequests, Arriving
<1>11. CASE DriverJoin
  BY <1>2, <1>11, ZenonT(60) DEF DriverJoin
<1>12. CASE Write
  <2>1. CASE rdr \notin {"read", "extract"}
    BY <1>2, <1>12, <2>1 DEF Write
  <2>2. CASE rdr \in {"read", "extract"}
    <3>1. /\ rconn = conn /\ net[conn].up /\ write_buf # <<>> /\ Unwritten = write_buf
          /\ UNCHANGED <<framer, fifo, rconn>>
      BY <1>12, <2>2, ZenonT(60) DEF Write, Connections, Phases, Unwritten
    <3> DEFINE h == Head(write_buf)
               r == net[conn].reqs
               w == Tail(write_buf)
    <3>2. h \in Ids /\ w \in Seq(Ids) /\ <<h>> \in Seq(Ids) /\ write_buf = <<h>> \o w
      BY <3>1, HeadFirst
    <3>3. Unwritten' = w
      <4>1. w = <<>> <=> Len(write_buf) = 1
        BY <3>1, <3>2, Emptied, Zenon
      <4>2. CASE Len(write_buf) = 1
        BY <1>12, <4>1, <4>2 DEF Write, Unwritten
      <4>3. CASE Len(write_buf) # 1
        BY <1>12, <4>3 DEF Write, Unwritten
      <4> QED
        BY <4>2, <4>3, Zenon
    <3>4. /\ net'[conn].resps = net[conn].resps /\ net'[conn].up = net[conn].up
          /\ net'[conn].reqs = Append(r, h)
      BY <1>0, <1>12, ZenonT(60) DEF Write, SCTypeOK
    <3> HIDE DEF h, w
    <3>10. r \in Seq(Ids)
      BY <1>0, <3>1, Zenon
    <3> HIDE DEF r
    <3>5. Append(r, h) = r \o <<h>> /\ r \in Seq(Ids)
      BY <3>2, <3>10
    <3>6. Assoc(r, <<h>>, w)
      BY <3>2, <3>5, IdsAssoc, Zenon
    <3>7. net'[conn].reqs \o Unwritten' = r \o Unwritten
      BY <3>1, <3>2, <3>3, <3>4, <3>5, <3>6, Zenon DEF Assoc
    <3>8. PICK u \in Seq(Pieces) :
              /\ (framer \o net[rconn].resps) \o u = Frames(fifo)
              /\ net[rconn].up => u = Frames(net[rconn].reqs \o Unwritten)
      BY <2>2, WaitersNow, Zenon
    <3>9. /\ (framer' \o net'[rconn'].resps) \o u = Frames(fifo')
          /\ net'[rconn'].up => u = Frames(net'[rconn'].reqs \o Unwritten')
      BY <3>1, <3>4, <3>7, <3>8, Zenon DEF r
    <3> QED
      BY <3>9, WaitersThen, Zenon
  <2> QED
    BY <2>1, <2>2
<1>13. CASE ReaderRead
  <2>1. PICK u \in Seq(Pieces) :
              /\ (framer \o net[rconn].resps) \o u = Frames(fifo)
              /\ net[rconn].up => u = Frames(net[rconn].reqs \o Unwritten)
    BY <1>13, WaitersNow, Zenon DEF ReaderRead
  <2>2. PICK n \in 1 .. Len(net[rconn].resps) :
          /\ framer' = framer \o SubSeq(net[rconn].resps, 1, n)
          /\ net' = [net EXCEPT ![rconn].resps = SubSeq(@, n + 1, Len(@))]
    BY <1>13, Zenon DEF ReaderRead
  <2> DEFINE r == net[rconn].resps
             p == SubSeq(r, 1, n)
             q == SubSeq(r, n + 1, Len(r))
  <2>3. p \in Seq(Pieces) /\ q \in Seq(Pieces) /\ r = p \o q
    <3>1. n \in 0 .. Len(r) /\ r \in Seq(Pieces)
      BY <1>0
    <3> HIDE DEF r
    <3> QED
      BY <3>1, Cut, ZenonT(60)
  <2>4. /\ framer' = framer \o p /\ net'[rconn].resps = q
        /\ net'[rconn].reqs = net[rconn].reqs /\ net'[rconn].up = net[rconn].up
    BY <1>0, <2>2, ZenonT(60) DEF SCTypeOK
  <2>5. fifo' = fifo /\ rconn' = rconn /\ Unwritten' = Unwritten
    BY <1>13 DEF ReaderRead, Unwritten
  <2> HIDE DEF p, q
  <2>6. Assoc(framer, p, q)
    BY <1>0, <2>3, PiecesAssoc, Zenon
  <2>7. framer' \o net'[rconn].resps = framer \o net[rconn].resps
    BY <2>3, <2>4, <2>6, Zenon DEF Assoc
  <2>8. /\ (framer' \o net'[rconn'].resps) \o u = Frames(fifo')
        /\ net'[rconn'].up => u = Frames(net'[rconn'].reqs \o Unwritten')
    BY <2>1, <2>4, <2>5, <2>7, Zenon
  <2> QED
    BY <2>8, WaitersThen, Zenon
<1>14. CASE ReaderDeliver
  <2>1. PICK u \in Seq(Pieces) :
              /\ (framer \o net[rconn].resps) \o u = Frames(fifo)
              /\ net[rconn].up => u = Frames(net[rconn].reqs \o Unwritten)
    BY <1>14, WaitersNow, Zenon DEF ReaderDeliver
  <2>2. /\ fifo # <<>> /\ Len(framer) >= 2 /\ fifo' = Tail(fifo)
        /\ framer' = SubSeq(framer, 3, Len(framer)) /\ UNCHANGED <<net, rconn>>
    BY <1>14, ZenonT(60) DEF ReaderDeliver, FrameReady
  <2>3. Unwritten' = Unwritten
    BY <1>14 DEF ReaderDeliver, Unwritten
  <2>4. (SubSeq(framer, 3, Len(framer)) \o net[rconn].resps) \o u = Frames(Tail(fifo))
    <3>1. Match(framer, net[rconn].resps, u, fifo)
      BY <2>1, ZenonT(60) DEF Match
    <3>2. Match(SubSeq(framer, 3, Len(framer)), net[rconn].resps, u, Tail(fifo))
      BY <1>0, <2>2, <3>1, FirstFrame, ZenonT(60)
    <3> QED
      BY <3>2, Zenon DEF Match
  <2>5. /\ (framer' \o net'[rconn'].resps) \o u = Frames(fifo')
        /\ net'[rconn'].up => u = Frames(net'[rconn'].reqs \o Unwritten')
    BY <2>1, <2>2, <2>3, <2>4, Zenon
  <2> QED
    BY <2>5, WaitersThen, Zenon
<1>15. CASE ReaderNeedsMore
  <2>1. rdr = "extract" /\ Unwritten' = Unwritten /\ UNCHANGED <<framer, fifo, rconn, net>>
    BY <1>15, ZenonT(60) DEF ReaderNeedsMore, Unwritten
  <2> QED
    BY <2>1, Zenon DEF WaitersMatchRequests, Arriving
<1>16. CASE ReaderEof \/ ReaderDrains \/ ReaderDrained \/ ReaderExits
  BY <1>2, <1>16, SMTT(60) DEF ReaderEof, ReaderDrains, ReaderDrained, ReaderExits
<1>17. CASE TasksStart
  BY <1>4, <1>17, SMTT(60) DEF TasksStart
<1>18. CASE TaskBatch
  <2>1. CASE rdr \notin {"read", "extract"}
    BY <1>2, <1>18, <2>1 DEF TaskBatch
  <2>2. CASE rdr \in {"read", "extract"}
    <3>1. /\ fifo' = fifo \o rx /\ UNCHANGED <<framer, net, rconn>>
          /\ Unwritten = <<>> /\ Unwritten' = rx
      BY <1>18 DEF TaskBatch, Unwritten
    <3>2. <<>> \o rx = rx
      BY ConcatEmptySeq
    <3> QED
      BY <2>2, <3>1, <3>2, WaitersQueued, ZenonT(60)
  <2> QED
    BY <2>1, <2>2
<1>19. CASE TasksEnd
  BY <1>2, <1>19, ZenonT(60) DEF TasksEnd
<1>20. CASE Connect
  <2>1. conn + 1 \in Conns /\ rconn # conn + 1
    BY <1>0, <1>20, Sizes, SMTT(60) DEF Connect, Conns, SCTypeOK
  <2>2. net'[rconn] = net[rconn]
    BY <1>0, <1>20, <2>1, ZenonT(60) DEF Connect, SCTypeOK
  <2>3. Unwritten' = Unwritten /\ UNCHANGED <<rdr, framer, fifo, rconn>>
    BY <1>20 DEF Connect, Unwritten
  <2> QED
    BY <2>2, <2>3, WaitersSame, ZenonT(60)
<1>21. ASSUME NEW g \in Conns, Break(g)
       PROVE  WaitersMatchRequests'
  <2>1. Unwritten' = Unwritten /\ UNCHANGED <<rdr, framer, fifo, rconn>>
    BY <1>21 DEF Break, Unwritten
  <2>2. CASE rdr \notin {"read", "extract"}
    BY <1>2, <2>1, <2>2, ZenonT(60)
  <2>3. CASE g # rconn
    <3>1. net'[rconn] = net[rconn]
      BY <1>0, <1>21, <2>3, ZenonT(60) DEF Break, SCTypeOK
    <3> QED
      BY <2>1, <3>1, WaitersSame, ZenonT(60)
  <2>4. CASE rdr \in {"read", "extract"} /\ g = rconn
    <3>1. PICK n \in 0 .. Len(net[rconn].reqs), m \in 0 .. Len(net[rconn].resps) :
          net' = [net EXCEPT ![rconn] = [up |-> FALSE, reqs |-> SubSeq(@.reqs, 1, n),
                                         resps |-> SubSeq(@.resps, 1, m)]]
      BY <1>21, <2>4, ZenonT(60) DEF Break
    <3> DEFINE r == net[rconn].resps
               p == SubSeq(r, 1, m)
               q == SubSeq(r, m + 1, Len(r))
    <3>2. p \in Seq(Pieces) /\ q \in Seq(Pieces) /\ r = p \o q
      <4>1. m \in 0 .. Len(r) /\ r \in Seq(Pieces)
        BY <1>0
      <4> HIDE DEF r
      <4> QED
        BY <4>1, Cut, Zenon
    <3>3. ~net'[rconn].up /\ net'[rconn].resps = p
      BY <1>0, <3>1, Zenon DEF SCTypeOK
    <3>4. PICK u \in Seq(Pieces) : (framer \o r) \o u = Frames(fifo)
      BY <2>4, WaitersNow, Zenon
    <3> HIDE DEF p, q
    <3> DEFINE v == q \o u
    <3>5. v \in Seq(Pieces) /\ framer \o p \in Seq(Pieces)
      BY <1>0, <3>2, PiecesConcat, Zenon
    <3>6. Assoc(framer, p, q) /\ Assoc(framer \o p, q, u)
      BY <1>0, <3>2, <3>5, PiecesAssoc, Zenon
    <3>7. (framer \o p) \o v = Frames(fifo)
      BY <3>2, <3>4, <3>6, Zenon DEF Assoc
    <3> HIDE DEF v
    <3>8. /\ (framer' \o net'[rconn'].resps) \o v = Frames(fifo')
          /\ net'[rconn'].up => v = Frames(net'[rconn'].reqs \o Unwritten')
      BY <2>1, <3>3, <3>7, ZenonT(60)
    <3> QED
      BY <3>5, <3>8, WaitersThen, Zenon
  <2> QED
    BY <2>2, <2>3, <2>4, ZenonT(60)
<1>22. ASSUME NEW g \in Conns, Serve(g)
       PROVE  WaitersMatchRequests'
  <2>1. Unwritten' = Unwritten /\ UNCHANGED <<rdr, framer, fifo, rconn>>
    BY <1>22, ZenonT(60) DEF Serve, Unwritten
  <2>2. CASE rdr \notin {"read", "extract"}
    BY <1>2, <2>1, <2>2, SMTT(60)
  <2>3. CASE g # rconn
    <3>1. net'[rconn] = net[rconn]
      BY <1>0, <1>22, <2>3, ZenonT(60) DEF Serve, SCTypeOK
    <3> QED
      BY <2>1, <3>1, WaitersSame
  <2>4. CASE g = rconn /\ ~net[rconn].up
    <3>1. ~net'[rconn].up /\ net'[rconn].resps = net[rconn].resps
      BY <1>0, <1>22, <2>4, ZenonT(60) DEF Serve, SCTypeOK
    <3> QED
      BY <2>1, <3>1, WaitersSame, ZenonT(60)
  <2>5. CASE rdr \in {"read", "extract"} /\ g = rconn /\ net[rconn].up
    <3> DEFINE q == net[rconn].reqs
               i == Head(q)
               r == net[rconn].resps
               a == framer \o r
    <3>1. /\ q # <<>>
          /\ net' = [net EXCEPT ![rconn] = [up |-> TRUE, reqs |-> Tail(q),
                       resps |-> r \o <<<<i, "header">>, <<i, "body">>>>]]
      BY <1>22, <2>5, ZenonT(60) DEF Serve
    <3>2. i \in Ids /\ Tail(q) \in Seq(Ids) /\ <<i>> \in Seq(Ids) /\ q = <<i>> \o Tail(q)
      BY <1>0, <3>1, HeadFirst, ZenonT(60)
    <3> DEFINE F == Frames(<<i>>)
               t == Tail(q) \o Unwritten
    <3>3. F = <<<<i, "header">>, <<i, "body">>>> /\ F \in Seq(Pieces)
      BY <3>2, FramesOne, FramesAt, ZenonT(60)
    <3>4. net'[rconn].up /\ net'[rconn].reqs = Tail(q) /\ net'[rconn].resps = r \o F
      <4> HIDE DEF q, r, i, F
      <4>1. net' = [net EXCEPT ![rconn] = [up |-> TRUE, reqs |-> Tail(q), resps |-> r \o F]]
        BY <3>1, <3>3, ZenonT(40)
      <4>2. net \in [Conns -> [up : BOOLEAN, reqs : Seq(Ids), resps : Seq(Pieces)]]
        BY Zenon DEF SCTypeOK
      <4> QED
        BY <1>0, <4>1, <4>2, SMTT(60)
    <3>5. t \in Seq(Ids) /\ Frames(t) \in Seq(Pieces)
      BY <3>2, IdsConcat, FramesAt, Zenon
    <3>6. (framer \o r) \o Frames(q \o Unwritten) = Frames(fifo)
      BY <2>5, Zenon DEF WaitersMatchRequests, Arriving
    <3>7. q \o Unwritten = <<i>> \o t
      <4>1. Assoc(<<i>>, Tail(q), Unwritten)
        BY <3>2, IdsAssoc, Zenon
      <4> HIDE DEF i
      <4> QED
        BY <3>2, <4>1, Zenon DEF Assoc
    <3>8. Frames(<<i>> \o t) = F \o Frames(t)
      <4> HIDE DEF i, t
      <4> QED
        BY <3>2, <3>5, FramesConcat, Zenon
    <3> HIDE DEF i, t, F
    <3>9. a \in Seq(Pieces)
      BY <1>0, PiecesConcat, Zenon
    <3>10. Assoc(framer, r, F) /\ Assoc(a, F, Frames(t))
      BY <1>0, <3>3, <3>5, <3>9, PiecesAssoc, Zenon
    <3>11. (framer \o (r \o F)) \o Frames(t) = Frames(fifo)
      BY <3>6, <3>7, <3>8, <3>10, Zenon DEF Assoc
    <3>12. /\ (framer' \o net'[rconn'].resps) \o Frames(t) = Frames(fifo')
           /\ net'[rconn'].up => Frames(t) = Frames(net'[rconn'].reqs \o Unwritten')
      BY <2>1, <3>4, <3>11, ZenonT(60) DEF t
    <3> QED
      BY <3>5, <3>12, WaitersThen, Zenon
  <2> QED
    BY <2>2, <2>3, <2>4, <2>5, ZenonT(60)
<1>23. CASE UNCHANGED vars
  BY <1>1, <1>23 DEF vars, Unwritten
<1> QED
  BY <1>3, <1>5, <1>6, <1>7, <1>8, <1>9, <1>10, <1>11, <1>12,
     <1>13, <1>14, <1>15, <1>16, <1>17, <1>18, <1>19, <1>20, <1>21, <1>22, <1>23,
     StepCases, ZenonT(60)
-----------------------------------------------------------------------------
(***************************************************************************)
(* What the clients guarantee.                                             *)
(***************************************************************************)
LEMMA ClientInit ==
    ASSUME Init
    PROVE  ClientInv
<1> USE Sizes, SmallPlaces DEF Init
<1>1. <<>> \in Seq(Ids) /\ <<>> \in Seq(Pieces) /\ Len(<<>>) = 0
  OBVIOUS
<1>2. kind \in {"sync", "async"} /\ \A g \in Conns : g \in Nat
  BY ClientAssumption
<1>3. SCTypeOK
  <2>1. net \in [Conns -> [up : BOOLEAN, reqs : Seq(Ids), resps : Seq(Pieces)]]
    BY <1>1, ZenonT(60)
  <2>2. \A g \in Conns : Len(net[g].reqs) <= REQS /\ Len(net[g].resps) <= RESPS
    BY <1>1, SMTT(60)
  <2>3. Len(rx) <= CALLS /\ calls \in [Callers -> 0 .. MaxCalls]
    BY <1>1, SMTT(60)
  <2> QED
    BY <1>1, <2>1, <2>2, <2>3, ZenonT(60) DEF SCTypeOK
<1>4. Phases
  BY DEF Phases
<1>5. Connections
  <2>1. \A g \in Conns : net[g] = [up |-> g = 1, reqs |-> <<>>, resps |-> <<>>]
    BY ZenonT(60)
  <2>2. \A g \in Conns : net[g].reqs = <<>> /\ net[g].resps = <<>>
    BY <2>1, ZenonT(60)
  <2>3. \A g \in Conns : g > conn => g # 1
    BY <1>2
  <2>4. \A g \in Conns : g # 1 => ~net[g].up
    BY <2>1, ZenonT(60)
  <2>5. rconn <= conn /\ rdr \notin {"read", "extract"}
    BY SMTT(60)
  <2> QED
    BY <2>2, <2>3, <2>4, <2>5, Zenon DEF Connections
<1>6. Made = {} /\ Unwritten = <<>>
  <2>1. \A i \in Ids : ~(i[2] <= calls[i[1]])
    BY DEF Ids
  <2> QED
    BY <2>1, ZenonT(60) DEF Made, Unwritten
<1>7. Places
  BY <1>6, Zenon DEF Places, Waiting
<1>8. RunsOnce
  <2>1. \A g \in Conns : net[g].reqs = <<>> /\ net[g].resps = <<>>
    OBVIOUS
  <2>2. \A i \in Ids : ran[i] = 0
    BY ZenonT(60)
  <2> QED
    BY <1>6, <2>1, <2>2, ZenonT(60) DEF RunsOnce, ToRun
<1>9. WaitersMatchRequests
  BY DEF WaitersMatchRequests
<1> QED
  BY <1>3, <1>4, <1>5, <1>7, <1>8, <1>9, ZenonT(60) DEF ClientInv

LEMMA ClientStep ==
    ASSUME ClientInv, [Next]_vars
    PROVE  ClientInv'
  BY TypeStep, PhasesStep, ConnectionsStep, PlacesStep, RunsOnceStep, WaitersStep, SMTT(60)
  DEF ClientInv

\* The inductive invariant of both clients: the phases of driver and reader fit
\* together, a connection that is not in use is empty, every call is in one
\* place, a request under way was not executed, and the waiting calls match
\* the requests.
THEOREM ClientInvariant == Spec => []ClientInv
<1>1. Init => ClientInv
  BY ClientInit
<1>2. ClientInv /\ [Next]_vars => ClientInv'
  BY ClientStep
<1> QED
  BY <1>1, <1>2, PTL DEF Spec

\* Every variable of both clients keeps its type; the channel of calls and the
\* sockets keep within their capacities.
THEOREM ClientTypes == Spec => []SCTypeOK
<1>1. ClientInv => SCTypeOK
  BY DEF ClientInv
<1> QED
  BY <1>1, ClientInvariant, PTL

\* The n-th answer of a connection goes to the n-th waiting call, whatever the
\* interleaving of callers, writer, reader, server and lost connections
\* (client.rs driver_loop and reader_loop, async_client.rs run_writer and
\* run_reader).
THEOREM AnswersFindTheirCalls == Spec => []WaitersMatchRequests
<1>1. ClientInv => WaitersMatchRequests
  BY DEF ClientInv
<1> QED
  BY <1>1, ClientInvariant, PTL

LEMMA PlacesTogether ==
    ASSUME ClientInv
    PROVE  EveryCallInOnePlace
<1>1. rx \in Seq(Ids) /\ batch \in Seq(Ids) /\ fifo \in Seq(Ids)
  BY Queues DEF ClientInv
<1>2. Places
  BY ZenonT(60) DEF ClientInv
<1> DEFINE s == rx \o batch
<1>3. s \in Seq(Ids) /\ Range(s) = Range(rx) \cup Range(batch) /\ IsInjective(s)
  BY <1>1, <1>2, ConcatPlaces DEF Places
<1> HIDE DEF s
<1>4. Range(s) \cap Range(fifo) = {}
  BY <1>2, <1>3, ZenonT(60) DEF Places
<1>5. Range(s \o fifo) = Range(s) \cup Range(fifo) /\ IsInjective(s \o fifo)
  BY <1>1, <1>2, <1>3, <1>4, ConcatPlaces, SMTT(60) DEF Places
<1>6. Range(s \o fifo) = Waiting
  BY <1>2, <1>3, <1>5, Zenon DEF Places
<1> QED
  BY <1>5, <1>6, Zenon DEF EveryCallInOnePlace, s, Waiting

\* A call that has not returned is in the channel, in the writer's hands or in
\* fifo, once, and a call that has returned is in none of them: no call is
\* forgotten or answered twice when a connection is lost (client.rs
\* driver_loop, async_client.rs supervise).
THEOREM NoCallIsLost == Spec => []EveryCallInOnePlace
<1>1. ClientInv => EveryCallInOnePlace
  BY PlacesTogether
<1> QED
  BY <1>1, ClientInvariant, PTL

-----------------------------------------------------------------------------
(***************************************************************************)
(* The clients implement RemoteCalls.                                      *)
(***************************************************************************)
\* Calls that wait are failed.
LEMMA FailStep ==
    ASSUME NEW ids \in SUBSET Waiting, Return(ids, <<"err">>), UNCHANGED <<calls, ran>>
    PROVE  RC!CallsNext
<1>1. ids \in SUBSET Ids /\ \A i \in ids : i \in Made /\ ret[i] = <<>>
  BY Zenon DEF Waiting, Made
<1>2. Made' = Made
  BY Zenon DEF Made
<1>3. RC!Fail(ids)
  BY <1>1, <1>2, Zenon DEF RC!Fail, Return
<1> QED
  BY <1>1, <1>3, Zenon DEF RC!CallsNext

\* The first waiting call gets the frame at the front, which is its own answer.
LEMMA AnswerStep ==
    ASSUME ClientInv, ReaderDeliver
    PROVE  RC!CallsNext
<1> DEFINE h == Head(fifo)
<1>1. /\ rdr = "extract" /\ fifo # <<>> /\ Len(framer) >= 2 /\ framer \in Seq(Pieces)
      /\ Return({h}, Decoded) /\ UNCHANGED <<calls, ran>>
  BY ZenonT(60) DEF ReaderDeliver, FrameReady, ClientInv, SCTypeOK
<1>2. fifo \in Seq(Ids) /\ rconn \in Conns
  BY Queues, ZenonT(60) DEF ClientInv, SCTypeOK
<1>3. net[rconn].resps \in Seq(Pieces)
  BY <1>2, Socket DEF ClientInv
<1>4. h \in Ids /\ h \in Range(fifo)
  BY <1>1, <1>2, TailPlaces, SMTT(60)
<1>5. framer[1] = <<h, "header">> /\ framer[2] = <<h, "body">>
  <2>1. PICK u \in Seq(Pieces) : (framer \o net[rconn].resps) \o u = Frames(fifo)
    BY <1>1, WaitersNow, ZenonT(60) DEF ClientInv
  <2>2. Match(framer, net[rconn].resps, u, fifo)
    BY <2>1, Zenon DEF Match
  <2> QED
    BY <1>1, <1>2, <1>3, <2>2, FirstFrame, SMTT(60)
<1>6. Decoded = <<"ok", h>>
  <2> HIDE DEF h
  <2> QED
    BY <1>5 DEF Decoded
<1>7. ran[h] = 1
  <2>1. 1 \in DOMAIN framer
    BY <1>1
  <2>2. framer[1] \in Range(framer)
    BY <2>1, Zenon DEF Range
  <2>3. \A p \in Range(framer) : ran[p[1]] = 1
    BY Zenon DEF ClientInv, RunsOnce
  <2>4. framer[1][1] = h
    <3> HIDE DEF h
    <3> QED
      BY <1>5
  <2> QED
    BY <2>2, <2>3, <2>4, Zenon
<1>8. ret[h] = <<>>
  <2>1. h \in Waiting
    BY <1>4, PlacesWait DEF ClientInv
  <2> QED
    BY <2>1, Zenon DEF Waiting
<1> HIDE DEF h
<1>9. ret' = [ret EXCEPT ![h] = <<"ok", h>>]
  <2>1. ret' = [i \in Ids |-> IF i \in {h} THEN <<"ok", h>> ELSE ret[i]]
    BY <1>1, <1>6, Zenon DEF Return
  <2>2. ret \in [Ids -> {<<>>, <<"err">>, <<"garbled">>} \cup ({"ok"} \X Ids)]
    BY SMTT(60) DEF ClientInv, SCTypeOK
  <2> QED
    BY <1>4, <2>1, <2>2, Zenon
<1>10. Made' = Made
  BY <1>1, Zenon DEF Made
<1>11. RC!Answer(h)
  BY <1>1, <1>7, <1>8, <1>9, <1>10 DEF RC!Answer
<1> QED
  BY <1>4, <1>11, ZenonT(60) DEF RC!CallsNext

\* The server executes a call for the first time.
LEMMA RunStep ==
    ASSUME ClientInv, NEW g \in Conns, Serve(g)
    PROVE  RC!CallsNext
<1> DEFINE q == net[g].reqs
           i == Head(q)
<1>1. q # <<>> /\ ran' = [ran EXCEPT ![i] = @ + 1] /\ UNCHANGED <<calls, ret>>
  BY Zenon DEF Serve
<1>2. q \in Seq(Ids)
  BY Socket DEF ClientInv
<1>3. Range(q) \subseteq ToRun
  BY Zenon DEF ClientInv, RunsOnce
<1>4. i \in Ids /\ i \in Range(q)
  <2> HIDE DEF q
  <2> QED
    BY <1>1, <1>2, TailPlaces
<1>5. i \in Made /\ ran[i] = 0
  BY <1>3, <1>4, Zenon DEF ToRun
<1> HIDE DEF i, q
<1>6. ran' = [ran EXCEPT ![i] = 1]
  <2>1. ran \in [Ids -> Nat]
    BY DEF ClientInv, SCTypeOK
  <2> QED
    BY <1>1, <1>4, <1>5, <2>1, SMTT(60)
<1>7. Made' = Made
  BY <1>1, Zenon DEF Made
<1>8. RC!Run(i)
  BY <1>1, <1>5, <1>6, <1>7, Zenon DEF RC!Run
<1> QED
  BY <1>4, <1>8, Zenon DEF RC!CallsNext

\* A call is made.
LEMMA MakeStep ==
    ASSUME ClientInv, NEW c \in Callers, Call(c)
    PROVE  RC!CallsNext
<1> DEFINE i == <<c, calls[c] + 1>>
<1>1. i \in Ids /\ i \notin Made /\ Made' = Made \cup {i}
  BY NewCall, Zenon DEF Call, ClientInv
<1>2. UNCHANGED <<ran, ret>>
  BY DEF Call
<1> HIDE DEF i
<1>3. RC!Make(i)
  BY <1>1, <1>2, Zenon DEF RC!Make
<1> QED
  BY <1>1, <1>3, Zenon DEF RC!CallsNext

\* Every step of the clients is a step of RemoteCalls or changes nothing there.
LEMMA CallsStep ==
    ASSUME ClientInv, [Next]_vars
    PROVE  [RC!CallsNext]_(RC!callVars)
<1>0. Places /\ Phases /\ SCTypeOK
  BY DEF ClientInv
<1>1. ASSUME UNCHANGED <<calls, ran, ret>>
      PROVE  [RC!CallsNext]_(RC!callVars)
  <2>1. Made' = Made
    BY <1>1, Zenon DEF Made
  <2> QED
    BY <1>1, <2>1 DEF RC!callVars
<1>2. ASSUME NEW c \in Callers, Call(c) \/ DropHandle(c)
      PROVE  [RC!CallsNext]_(RC!callVars)
  BY <1>1, <1>2, MakeStep, ZenonT(60) DEF DropHandle
<1>3. CASE DriverStart \/ DriverCloneFails \/ DriverRecv \/ DriverReturns \/ DriverBatch
           \/ DriverWriteFails \/ DriverJoin \/ Write \/ WriteLost
  BY <1>1, <1>3, ZenonT(60) DEF DriverStart, DriverCloneFails, DriverRecv, DriverReturns, DriverBatch,
       DriverWriteFails, DriverJoin, Write, WriteLost
<1>4. CASE ReaderRead \/ ReaderNeedsMore \/ ReaderEof \/ ReaderDrained \/ TasksStart
           \/ TaskBatch \/ Connect \/ UNCHANGED vars
  BY <1>1, <1>4 DEF ReaderRead, ReaderNeedsMore, ReaderEof, ReaderDrained, TasksStart,
       TaskBatch, Connect, vars
<1>5. CASE DriverFindsDead
  <2>1. Range(batch) \in SUBSET Waiting
    BY <1>0, PlacesWait
  <2> QED
    BY <1>5, <2>1, FailStep, ZenonT(60) DEF DriverFindsDead
<1>6. CASE DriverQueue
  <2>1. CASE rdr = "done"
    <3>1. batch # <<>> /\ batch \in Seq(Ids)
      BY <1>0, <1>6, Queues DEF DriverQueue, Phases
    <3>2. Head(batch) \in Range(batch)
      BY <3>1, TailPlaces, SMTT(60)
    <3>3. {Head(batch)} \in SUBSET Waiting
      BY <1>0, <3>2, PlacesWait, SMTT(60)
    <3> QED
      BY <1>6, <2>1, <3>3, FailStep, ZenonT(60) DEF DriverQueue
  <2>2. CASE rdr # "done"
    BY <1>1, <1>6, <2>2 DEF DriverQueue
  <2> QED
    BY <2>1, <2>2, ZenonT(60)
<1>7. CASE ReaderDeliver
  BY <1>7, AnswerStep, SMTT(60)
<1>8. CASE ReaderDrains
  <2>1. Head(fifo) \in Range(fifo)
    BY <1>0, <1>8, Queues, TailPlaces, SMTT(60) DEF ReaderDrains
  <2>2. {Head(fifo)} \in SUBSET Waiting
    BY <1>0, <2>1, PlacesWait
  <2> QED
    BY <1>8, <2>2, FailStep, SMTT(60) DEF ReaderDrains
<1>9. CASE ReaderExits \/ TasksEnd
  <2>1. Range(fifo) \in SUBSET Waiting
    BY <1>0, PlacesWait, ZenonT(60)
  <2> QED
    BY <1>9, <2>1, FailStep DEF ReaderExits, TasksEnd
<1>10. ASSUME NEW g \in Conns, Break(g) \/ Serve(g)
       PROVE  [RC!CallsNext]_(RC!callVars)
  BY <1>1, <1>10, RunStep, SMTT(60) DEF Break
<1> QED
  BY <1>2, <1>3, <1>4, <1>5, <1>6, <1>7, <1>8, <1>9, <1>10, StepCases, ZenonT(60)

\* Both clients implement RemoteCalls: for every number of callers, calls and
\* connections, no call is executed twice, none returns the answer of another,
\* and none returns twice, across any lost connections.
THEOREM ClientsImplementCalls == Spec => ImplementsCalls
<1>1. Init => RC!CallsInit
  <2>1. ASSUME Init PROVE Made = {}
    <3>1. \A i \in Ids : ~(i[2] <= calls[i[1]])
      BY <2>1, Sizes DEF Init, Ids
    <3> QED
      BY <3>1, ZenonT(60) DEF Made
  <2> QED
    BY <2>1, Zenon DEF Init, RC!CallsInit
<1>2. ClientInv /\ [Next]_vars => [RC!CallsNext]_(RC!callVars)
  BY CallsStep
<1> QED
  BY <1>1, <1>2, ClientInvariant, PTL DEF Spec, ImplementsCalls, RC!CallsSpec
=============================================================================
