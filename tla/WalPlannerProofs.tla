-------------------------- MODULE WalPlannerProofs --------------------------
(***************************************************************************)
(* That the planner never forgets an fsync somebody waits for, that its    *)
(* flush_running flag is exact, and that no batch buffer is lost, for      *)
(* every mode, ring depth, number of buffers and number of faults.  All    *)
(* three are about the operations in the order the ring works on them:     *)
(* completed, owned by the kernel, pushed, pending.                        *)
(***************************************************************************)
EXTENDS WalEngineProofs, SequenceTheorems, FiniteSetTheorems

USE DEF stage2Vars, planVars, streamVars, diskVars

Completions == [i \in 1 .. Len(cq) |-> cq[i].work]
Stream == (Completions \o kq) \o (sq \o pending)

Armed(q) == \E i \in 1 .. Len(q) : q[i].op = "Fsync"
Covered(q) ==
    \A i \in 1 .. Len(q) :
        q[i].op = "Write" => \E j \in 1 .. Len(q) : i < j /\ q[j].op = "Fsync"
Once(q) ==
    \A i, j \in 1 .. Len(q) : q[i].op = "Fsync" /\ q[j].op = "Fsync" => i = j
Unfinished(q) ==
    \A i \in 1 .. Len(q) : q[i].op = "Write" => q[i].done < Size(q[i])

\* What r = p \o q has in common with p and q.
Joins(r, p, q) ==
    /\ Armed(r) <=> Armed(p) \/ Armed(q)
    /\ Covered(r) <=> Covered(q) /\ (Armed(q) \/ Covered(p))
    /\ Once(r) <=> Once(p) /\ Once(q) /\ ~(Armed(p) /\ Armed(q))
    /\ Unfinished(r) <=> Unfinished(p) /\ Unfinished(q)

\* When no byte is counted dirty, an fsync follows every write, and one is there
\* if somebody waits.  A write that is retried has bytes left to count.
FsyncFollows ==
    /\ Unfinished(Stream)
    /\ pc # "panic" /\ dirty = 0 =>
          Covered(Stream) /\ (awaiting # <<>> => Armed(Stream))

\* In Sync there is at most one fsync, and flush_running says whether.
OneFsync ==
    Mode = "Sync" => Once(Stream) /\ (pc # "panic" => (flushing <=> Armed(Stream)))

PlannerInv == FsyncFollows /\ OneFsync
-----------------------------------------------------------------------------
(***************************************************************************)
(* Sequences of operations.                                                *)
(***************************************************************************)
\* Concatenation.
LEMMA ConcatFacts ==
    ASSUME NEW s \in Seq(IoWork), NEW t \in Seq(IoWork)
    PROVE  s \o t \in Seq(IoWork) /\ Joins(s \o t, s, t)
<1> DEFINE u == s \o t
           m == Len(s)
           n == Len(t)
<1>1. m \in Nat /\ n \in Nat /\ Len(u) = m + n
  OBVIOUS
<1>2. /\ \A i \in 1 .. m : i \in 1 .. Len(u) /\ u[i] = s[i]
      /\ \A i \in 1 .. n : m + i \in 1 .. Len(u) /\ u[m + i] = t[i]
  BY ConcatProperties
<1>3. ASSUME NEW i \in 1 .. Len(u)
      PROVE  \/ i \in 1 .. m /\ u[i] = s[i]
             \/ i - m \in 1 .. n /\ i > m /\ u[i] = t[i - m]
  BY ConcatProperties
<1> HIDE DEF u, m, n
<1>4. Armed(u) <=> Armed(s) \/ Armed(t)
  <2>1. ASSUME Armed(u) PROVE Armed(s) \/ Armed(t)
    <3>1. PICK i \in 1 .. Len(u) : u[i].op = "Fsync"
      BY <2>1 DEF Armed
    <3> QED
      BY <1>3, <3>1, ZenonT(60) DEF Armed, m, n
  <2>2. ASSUME Armed(s) PROVE Armed(u)
    <3>1. PICK i \in 1 .. m : s[i].op = "Fsync"
      BY <2>2, ZenonT(60) DEF Armed, m
    <3> QED
      BY <1>2, <3>1, ZenonT(60) DEF Armed
  <2>3. ASSUME Armed(t) PROVE Armed(u)
    <3>1. PICK i \in 1 .. n : t[i].op = "Fsync"
      BY <2>3 DEF Armed, n
    <3>2. m + i \in 1 .. Len(u) /\ u[m + i].op = "Fsync"
      BY <1>2, <3>1, ZenonT(60)
    <3> QED
      BY <3>2 DEF Armed
  <2> QED
    BY <2>1, <2>2, <2>3, ZenonT(60)
<1>5. Unfinished(u) <=> Unfinished(s) /\ Unfinished(t)
  <2>1. ASSUME Unfinished(u) PROVE Unfinished(s)
    BY <1>2, <2>1, ZenonT(60) DEF Unfinished, m
  <2>2. ASSUME Unfinished(u) PROVE Unfinished(t)
    <3> SUFFICES ASSUME NEW i \in 1 .. n, t[i].op = "Write"
                 PROVE  t[i].done < Size(t[i])
      BY DEF Unfinished, n
    <3>1. m + i \in 1 .. Len(u) /\ u[m + i] = t[i]
      BY <1>2
    <3> QED
      BY <2>2, <3>1, SMTT(60) DEF Unfinished
  <2>3. ASSUME Unfinished(s), Unfinished(t) PROVE Unfinished(u)
    BY <1>3, <2>3, ZenonT(60) DEF Unfinished, m, n
  <2> QED
    BY <2>1, <2>2, <2>3, ZenonT(60)
<1>6. Once(u) <=> Once(s) /\ Once(t) /\ ~(Armed(s) /\ Armed(t))
  <2>1. ASSUME Once(u) PROVE Once(s)
    BY <1>2, <2>1, ZenonT(60) DEF Once, m
  <2>2. ASSUME Once(u) PROVE Once(t)
    <3> SUFFICES ASSUME NEW i \in 1 .. n, NEW j \in 1 .. n,
                        t[i].op = "Fsync", t[j].op = "Fsync"
                 PROVE  i = j
      BY DEF Once, n
    <3>1. /\ m + i \in 1 .. Len(u) /\ u[m + i] = t[i]
          /\ m + j \in 1 .. Len(u) /\ u[m + j] = t[j]
      BY <1>2, ZenonT(60)
    <3>2. m + i = m + j
      BY <2>2, <3>1, ZenonT(60) DEF Once
    <3> QED
      BY <1>1, <3>2, SMTT(60)
  <2>3. ASSUME Once(u), Armed(s), Armed(t) PROVE FALSE
    <3>1. PICK i \in 1 .. m : s[i].op = "Fsync"
      BY <2>3 DEF Armed, m
    <3>2. PICK j \in 1 .. n : t[j].op = "Fsync"
      BY <2>3 DEF Armed, n
    <3>3. /\ i \in 1 .. Len(u) /\ u[i] = s[i]
          /\ m + j \in 1 .. Len(u) /\ u[m + j] = t[j]
      BY <1>2
    <3>4. i = m + j
      BY <2>3, <3>1, <3>2, <3>3, ZenonT(60) DEF Once
    <3> QED
      BY <1>1, <3>4, SMTT(60)
  <2>4. ASSUME Once(s), Once(t), ~(Armed(s) /\ Armed(t)) PROVE Once(u)
    <3> SUFFICES ASSUME NEW i \in 1 .. Len(u), NEW j \in 1 .. Len(u),
                        u[i].op = "Fsync", u[j].op = "Fsync"
                 PROVE  i = j
      BY DEF Once
    <3>1. CASE i \in 1 .. m /\ u[i] = s[i] /\ j \in 1 .. m /\ u[j] = s[j]
      BY <2>4, <3>1, ZenonT(60) DEF Once, m
    <3>2. CASE /\ i - m \in 1 .. n /\ u[i] = t[i - m]
               /\ j - m \in 1 .. n /\ u[j] = t[j - m]
      <4>1. i - m = j - m
        BY <2>4, <3>2, ZenonT(60) DEF Once, n
      <4> QED
        BY <1>1, <4>1, SMTT(60)
    <3>3. CASE i \in 1 .. m /\ u[i] = s[i] /\ j - m \in 1 .. n /\ u[j] = t[j - m]
      BY <2>4, <3>3, ZenonT(60) DEF Armed, m, n
    <3>4. CASE j \in 1 .. m /\ u[j] = s[j] /\ i - m \in 1 .. n /\ u[i] = t[i - m]
      BY <2>4, <3>4, ZenonT(60) DEF Armed, m, n
    <3> QED
      BY <1>3, <3>1, <3>2, <3>3, <3>4, ZenonT(60)
  <2> QED
    BY <2>1, <2>2, <2>3, <2>4, SMTT(60)
<1>7. ASSUME Covered(u) PROVE Covered(t)
  <2> SUFFICES ASSUME NEW i \in 1 .. n, t[i].op = "Write"
               PROVE  \E j \in 1 .. n : i < j /\ t[j].op = "Fsync"
    BY DEF Covered, n
  <2>1. m + i \in 1 .. Len(u) /\ u[m + i] = t[i]
    BY <1>2
  <2>2. PICK k \in 1 .. Len(u) : m + i < k /\ u[k].op = "Fsync"
    BY <1>7, <2>1, ZenonT(60) DEF Covered
  <2>3. k - m \in 1 .. n /\ i < k - m /\ u[k] = t[k - m]
    BY <1>1, <1>3, <2>2, SMTT(60)
  <2> QED
    BY <2>2, <2>3, ZenonT(60)
<1>8. ASSUME Covered(u), ~Armed(t) PROVE Covered(s)
  <2> SUFFICES ASSUME NEW i \in 1 .. m, s[i].op = "Write"
               PROVE  \E j \in 1 .. m : i < j /\ s[j].op = "Fsync"
    BY DEF Covered, m
  <2>1. i \in 1 .. Len(u) /\ u[i] = s[i]
    BY <1>2, ZenonT(60)
  <2>2. PICK k \in 1 .. Len(u) : i < k /\ u[k].op = "Fsync"
    BY <1>8, <2>1, ZenonT(60) DEF Covered
  <2> QED
    BY <1>3, <1>8, <2>2, ZenonT(60) DEF Armed, n
<1>9. ASSUME Covered(t), Armed(t) \/ Covered(s) PROVE Covered(u)
  <2> SUFFICES ASSUME NEW i \in 1 .. Len(u), u[i].op = "Write"
               PROVE  \E j \in 1 .. Len(u) : i < j /\ u[j].op = "Fsync"
    BY DEF Covered
  <2>1. CASE i \in 1 .. m /\ u[i] = s[i] /\ Armed(t)
    <3>1. PICK j \in 1 .. n : t[j].op = "Fsync"
      BY <2>1, ZenonT(60) DEF Armed, n
    <3>2. m + j \in 1 .. Len(u) /\ u[m + j] = t[j] /\ i < m + j
      BY <1>1, <1>2, <2>1, SMTT(60)
    <3> QED
      BY <3>1, <3>2, ZenonT(60)
  <2>2. CASE i \in 1 .. m /\ u[i] = s[i] /\ Covered(s)
    <3>1. PICK j \in 1 .. m : i < j /\ s[j].op = "Fsync"
      BY <2>2 DEF Covered, m
    <3> QED
      BY <1>2, <3>1, ZenonT(60)
  <2>3. CASE i - m \in 1 .. n /\ u[i] = t[i - m]
    <3>1. PICK j \in 1 .. n : i - m < j /\ t[j].op = "Fsync"
      BY <1>9, <2>3, ZenonT(60) DEF Covered, n
    <3>2. m + j \in 1 .. Len(u) /\ u[m + j] = t[j] /\ i < m + j
      BY <1>1, <1>2, <3>1, SMTT(60)
    <3> QED
      BY <3>1, <3>2, ZenonT(60)
  <2> QED
    BY <1>3, <1>9, <2>1, <2>2, <2>3, ZenonT(60)
<1> QED
  BY <1>4, <1>5, <1>6, <1>7, <1>8, <1>9, SMTT(60) DEF u, Joins

\* A single operation, and none.
LEMMA OneFacts ==
    ASSUME NEW w \in IoWork
    PROVE  /\ <<w>> \in Seq(IoWork)
           /\ Armed(<<w>>) <=> w.op = "Fsync"
           /\ Covered(<<w>>) <=> w.op # "Write"
           /\ Once(<<w>>)
           /\ Unfinished(<<w>>) <=> (w.op = "Write" => w.done < Size(w))
  BY DEF Armed, Covered, Once, Unfinished

LEMMA NoneFacts ==
    <<>> \in Seq(IoWork) /\ ~Armed(<<>>) /\ Covered(<<>>)
  BY DEF Armed, Covered

LEMMA Associates ==
    ASSUME NEW p \in Seq(IoWork), NEW q \in Seq(IoWork), NEW r \in Seq(IoWork)
    PROVE  (p \o q) \o r = p \o (q \o r)
  BY SMTT(60)

\* A sequence cut in two, and around its i-th element.
LEMMA CutInTwo ==
    ASSUME NEW s \in Seq(IoWork), NEW n \in 0 .. Len(s)
    PROVE  SubSeq(s, 1, n) \o SubSeq(s, n + 1, Len(s)) = s
<1>1. 1 \in 1 .. Len(s) + 1 /\ n \in 1 - 1 .. Len(s) /\ Len(s) \in n .. Len(s)
  OBVIOUS
<1>2. SubSeq(s, 1, n) \o SubSeq(s, n + 1, Len(s)) = SubSeq(s, 1, Len(s))
  BY <1>1, ConcatAdjacentSubSeq, Zenon
<1>3. SubSeq(s, 1, Len(s)) = s
  BY SubSeqFull, Zenon
<1> QED
  BY <1>2, <1>3, Zenon

LEMMA CutAround ==
    ASSUME NEW s \in Seq(IoWork), NEW i \in 1 .. Len(s)
    PROVE  s = SubSeq(s, 1, i - 1) \o (<<s[i]>> \o SubSeq(s, i + 1, Len(s)))
<1>1. i - 1 \in 0 .. Len(s) /\ (i - 1) + 1 = i /\ Len(s) \in i .. Len(s)
  OBVIOUS
<1>2. SubSeq(s, 1, i - 1) \o SubSeq(s, (i - 1) + 1, Len(s)) = s
  BY <1>1, CutInTwo, Zenon
<1>3. SubSeq(s, i, Len(s)) = <<s[i]>> \o SubSeq(s, i + 1, Len(s))
  BY <1>1, SubSeqRecursiveFirst, Zenon
<1> QED
  BY <1>1, <1>2, <1>3, Zenon

\* A completion: the operation w overtakes those in a.  IO_DRAIN lets an fsync
\* overtake nothing.
LEMMA Overtake ==
    ASSUME NEW c \in Seq(IoWork), NEW a \in Seq(IoWork), NEW w \in IoWork,
           NEW b \in Seq(IoWork), NEW d \in Seq(IoWork),
           w.op = "Write" \/ a = <<>>
    PROVE  LET old == (c \o (a \o (<<w>> \o b))) \o d
               new == ((c \o <<w>>) \o (a \o b)) \o d
           IN  /\ Armed(new) <=> Armed(old)
               /\ Covered(old) => Covered(new)
               /\ Once(new) <=> Once(old)
               /\ Unfinished(new) <=> Unfinished(old)
<1> DEFINE x == <<w>>
           xb == x \o b
           axb == a \o xb
           caxb == c \o axb
           old == caxb \o d
           cx == c \o x
           ab == a \o b
           cxab == cx \o ab
           new == cxab \o d
<1>1. x \in Seq(IoWork) /\ Once(x) /\ (w.op = "Write" => ~Armed(x))
  BY OneFacts
<1>2. a = <<>> => ~Armed(a) /\ Covered(a)
  BY NoneFacts, ZenonT(60)
<1> HIDE DEF x
<1>3. /\ xb \in Seq(IoWork) /\ Joins(xb, x, b)
      /\ ab \in Seq(IoWork) /\ Joins(ab, a, b)
      /\ cx \in Seq(IoWork) /\ Joins(cx, c, x)
  BY <1>1, ConcatFacts, ZenonT(60)
<1> HIDE DEF xb, ab, cx
<1>4. /\ axb \in Seq(IoWork) /\ Joins(axb, a, xb)
      /\ cxab \in Seq(IoWork) /\ Joins(cxab, cx, ab)
  BY <1>3, ConcatFacts, ZenonT(60)
<1> HIDE DEF axb, cxab
<1>5. /\ caxb \in Seq(IoWork) /\ Joins(caxb, c, axb)
      /\ Joins(new, cxab, d)
  BY <1>4, ConcatFacts, ZenonT(60)
<1> HIDE DEF caxb, new
<1>6. Joins(old, caxb, d)
  BY <1>5, ConcatFacts, ZenonT(60)
<1> HIDE DEF old
<1>7. /\ Armed(new) <=> Armed(old)
      /\ Covered(old) => Covered(new)
      /\ Once(new) <=> Once(old)
      /\ Unfinished(new) <=> Unfinished(old)
  BY <1>1, <1>2, <1>3, <1>4, <1>5, <1>6, ZenonT(60) DEF Joins
<1> QED
  BY <1>7 DEF old, new, caxb, axb, cxab, ab, cx, xb, x
-----------------------------------------------------------------------------
(***************************************************************************)
(* What the steps do to the stream.                                        *)
(***************************************************************************)
LEMMA StreamType ==
    ASSUME TypeOK
    PROVE  /\ Completions \in Seq(IoWork) /\ Len(Completions) = Len(cq)
           /\ kq \in Seq(IoWork) /\ sq \in Seq(IoWork) /\ pending \in Seq(IoWork)
           /\ Stream \in Seq(IoWork)
<1>1. /\ cq \in Seq(Cqe) /\ kq \in Seq(IoWork) /\ sq \in Seq(IoWork)
      /\ pending \in Seq(IoWork)
  BY DEF TypeOK
<1>2. \A i \in 1 .. Len(cq) : cq[i].work \in IoWork
  <2>1. \A i \in 1 .. Len(cq) : cq[i] \in Cqe
    BY <1>1, SMTT(60)
  <2> QED
    BY <2>1, SMTT(60) DEF Cqe
<1>3. Completions \in Seq(IoWork) /\ Len(Completions) = Len(cq)
  BY <1>1, <1>2, SMTT(60) DEF Completions
<1> QED
  BY <1>1, <1>3, SMTT(60) DEF Stream

\* The operations that reap_cqes leaves.
LEMMA ReapStream ==
    ASSUME SafetyInv, NEW v, Reap(v)
    PROVE  /\ Completions' \in Seq(IoWork)
           /\ Completions = <<cq[1].work>> \o Completions'
<1>1. /\ cq[1].work \in IoWork /\ cq' \in Seq(Cqe) /\ cq # <<>>
      /\ Len(cq') = Len(cq) - 1
      /\ \A i \in 1 .. Len(cq') : cq'[i] = cq[i + 1]
  BY ReapFacts, ZenonT(60)
<1>2. cq \in Seq(Cqe) /\ Completions \in Seq(IoWork) /\ Len(Completions) = Len(cq)
  BY StreamType, ZenonT(60) DEF SafetyInv, TypeOK
<1>3. \A i \in 1 .. Len(cq') : cq'[i].work \in IoWork
  <2>1. \A i \in 1 .. Len(cq') : cq'[i] \in Cqe
    BY <1>1
  <2> QED
    BY <2>1 DEF Cqe
<1>4. Completions' \in Seq(IoWork) /\ Len(Completions') = Len(cq')
  BY <1>1, <1>3, SMTT(60) DEF Completions
<1>5. Completions = <<cq[1].work>> \o Completions'
  <2> DEFINE x == <<cq[1].work>>
             y == x \o Completions'
  <2>1. x \in Seq(IoWork) /\ Len(x) = 1 /\ x[1] = cq[1].work
    BY <1>1, SMTT(60)
  <2>2. /\ y \in Seq(IoWork) /\ Len(y) = Len(cq)
        /\ y[1] = cq[1].work
        /\ \A i \in 2 .. Len(cq) : y[i] = Completions'[i - 1]
    BY <1>1, <1>2, <1>4, <2>1, ConcatProperties, SMTT(60)
  <2>3. \A i \in 1 .. Len(cq) : Completions[i] = cq[i].work
    BY DEF Completions
  <2>4. \A i \in 1 .. Len(cq') : Completions'[i] = cq'[i].work
    BY DEF Completions
  <2>5. ASSUME NEW i \in 2 .. Len(cq) PROVE y[i] = cq[i].work
    <3>1. i - 1 \in 1 .. Len(cq') /\ cq'[i - 1] = cq[i]
      BY <1>1, <1>2, SMTT(60)
    <3> QED
      BY <2>2, <2>4, <3>1, ZenonT(60)
  <2> HIDE DEF y
  <2>6. \A i \in 1 .. Len(cq) : y[i] = Completions[i]
    BY <1>2, <2>2, <2>3, <2>5, SMTT(60)
  <2>7. y = Completions
    BY <1>2, <2>2, <2>6, SeqEqual, ZenonT(60)
  <2> QED
    BY <2>7 DEF y
<1> QED
  BY <1>4, <1>5, ZenonT(60)

\* The engine pushes to the end of pending.
LEMMA PushStream ==
    ASSUME SafetyInv, NEW w \in IoWork, pending' = Append(pending, w),
           UNCHANGED <<cq, kq, sq>>
    PROVE  Stream' = Stream \o <<w>>
<1>1. /\ Completions \in Seq(IoWork) /\ kq \in Seq(IoWork) /\ sq \in Seq(IoWork)
      /\ pending \in Seq(IoWork) /\ <<w>> \in Seq(IoWork)
  BY StreamType, OneFacts, SMTT(60) DEF SafetyInv
<1>2. Completions' = Completions
  BY DEF Completions
<1>3. pending' = pending \o <<w>>
  BY <1>1, AppendIsConcat, ZenonT(60)
<1>4. sq \o (pending \o <<w>>) = (sq \o pending) \o <<w>>
  BY <1>1, Associates, SMTT(60)
<1> DEFINE k == Completions \o kq
           d == sq \o pending
<1>5. k \in Seq(IoWork) /\ d \in Seq(IoWork)
  BY <1>1, SMTT(60)
<1> HIDE DEF k, d
<1>6. k \o (d \o <<w>>) = (k \o d) \o <<w>>
  BY <1>1, <1>5, Associates, SMTT(60)
<1> QED
  BY <1>2, <1>3, <1>4, <1>6, ZenonT(60) DEF Stream, k, d

\* handle_pending and the submission move operations along, and change nothing
\* in their order.
LEMMA MoveStream ==
    ASSUME SafetyInv, handle_pending \/ TurnEnd
    PROVE  Stream' = Stream
<1>0. /\ Completions \in Seq(IoWork) /\ kq \in Seq(IoWork) /\ sq \in Seq(IoWork)
      /\ pending \in Seq(IoWork)
  BY StreamType DEF SafetyInv
<1>1. CASE handle_pending
  <2> DEFINE room == RING_DEPTH - Inflight
             n == IF Len(pending) <= room THEN Len(pending) ELSE room
             a == SubSeq(pending, 1, n)
             b == SubSeq(pending, n + 1, Len(pending))
  <2>1. sq' = sq \o a /\ pending' = b /\ UNCHANGED <<cq, kq>>
    BY <1>1, ZenonT(60) DEF handle_pending
  <2>2. room \in Nat
    BY SizeAssumption, SMTT(60) DEF SafetyInv, TypeOK, RingBound, Inflight
  <2> HIDE DEF room
  <2>3. n \in 0 .. Len(pending)
    BY <1>0, <2>2, SMTT(60)
  <2> HIDE DEF n
  <2>4. a \in Seq(IoWork) /\ b \in Seq(IoWork)
    BY <1>0, <2>3, SMTT(60)
  <2>5. a \o b = pending
    BY <1>0, <2>3, CutInTwo, ZenonT(60)
  <2>6. Completions' = Completions
    BY <2>1 DEF Completions
  <2> HIDE DEF a, b
  <2>7. (sq \o a) \o b = sq \o (a \o b)
    BY <1>0, <2>4, Associates, ZenonT(60)
  <2> QED
    BY <2>1, <2>5, <2>6, <2>7, SMTT(60) DEF Stream
<1>2. CASE TurnEnd
  <2>1. kq' = kq \o sq /\ sq' = <<>> /\ UNCHANGED <<cq, pending>>
    BY <1>2 DEF TurnEnd
  <2>2. Completions' = Completions
    BY <2>1 DEF Completions
  <2> DEFINE k == Completions \o kq
  <2>3. k \o sq = Completions \o (kq \o sq)
    BY <1>0, Associates, ZenonT(60)
  <2>4. k \in Seq(IoWork)
    BY <1>0
  <2>5. <<>> \o pending = pending
    BY <1>0
  <2> HIDE DEF k
  <2>6. (k \o sq) \o pending = k \o (sq \o pending)
    BY <1>0, <2>4, Associates, ZenonT(60)
  <2> QED
    BY <2>1, <2>2, <2>3, <2>5, <2>6, ZenonT(60) DEF Stream, k
<1> QED
  BY <1>1, <1>2

\* A completion moves one operation from the middle of kq to the end of cq.
LEMMA CompleteMoves ==
    ASSUME SafetyInv, NEW i, Startable(i), NEW r \in Int, Complete(i, r)
    PROVE  \E a, b \in Seq(IoWork) :
              /\ kq[i] \in IoWork
              /\ kq = a \o (<<kq[i]>> \o b)
              /\ kq' = a \o b
              /\ Completions' = Completions \o <<kq[i]>>
              /\ kq[i].op = "Write" \/ a = <<>>
              /\ sq' = sq /\ pending' = pending
<1> DEFINE w == kq[i]
           a == SubSeq(kq, 1, i - 1)
           b == SubSeq(kq, i + 1, Len(kq))
<1>1. /\ i \in 1 .. Len(kq) /\ w \in IoWork
      /\ cq' = Append(cq, [work |-> w, res |-> r])
      /\ cq' \in Seq(Cqe)
  BY CompleteFacts, ZenonT(60)
<1>2. /\ Completions \in Seq(IoWork) /\ Len(Completions) = Len(cq)
      /\ kq \in Seq(IoWork) /\ sq \in Seq(IoWork) /\ pending \in Seq(IoWork)
      /\ cq \in Seq(Cqe)
  BY StreamType, ZenonT(60) DEF SafetyInv, TypeOK
<1>3. a \in Seq(IoWork) /\ b \in Seq(IoWork)
  BY <1>1, <1>2, SMTT(60)
<1>4. w.op = "Write" \/ a = <<>>
  <2>1. w.op # "Write" => i = 1
    BY <1>1, WorkKinds, ZenonT(60) DEF Startable
  <2>2. i = 1 => a = <<>>
    BY <1>2, SMTT(60)
  <2> QED
    BY <2>1, <2>2, ZenonT(60)
<1>5. kq' = a \o b /\ sq' = sq /\ pending' = pending
  BY DEF Complete, Without
<1>6. kq = a \o (<<w>> \o b)
  BY <1>1, <1>2, CutAround, ZenonT(60)
<1>7. Completions' = Completions \o <<w>>
  <2> DEFINE c == [work |-> w, res |-> r]
             y == Completions \o <<w>>
  <2>1. c.work = w /\ c \in Cqe
    BY <1>1 DEF Cqe
  <2> HIDE DEF c, w
  <2>2. /\ Len(cq') = Len(cq) + 1
        /\ \A j \in 1 .. Len(cq) : cq'[j] = cq[j]
        /\ cq'[Len(cq) + 1] = c
    BY <1>1, <1>2, <2>1, SMTT(60) DEF c
  <2>3. /\ y \in Seq(IoWork) /\ Len(y) = Len(cq) + 1
        /\ \A j \in 1 .. Len(cq) : y[j] = Completions[j]
        /\ y[Len(cq) + 1] = w
    BY <1>1, <1>2, SMTT(60)
  <2>4. \A j \in 1 .. Len(cq) : Completions[j] = cq[j].work
    BY DEF Completions
  <2> HIDE DEF y
  <2>5. ASSUME NEW j \in 1 .. Len(cq')
        PROVE  y[j] = cq'[j].work
    <3>1. j \in 1 .. Len(cq) \/ j = Len(cq) + 1
      BY <1>2, <2>2, SMTT(60)
    <3> QED
      BY <2>1, <2>2, <2>3, <2>4, <3>1, ZenonT(60)
  <2>6. y = [j \in 1 .. Len(cq') |-> cq'[j].work]
    BY <2>2, <2>3, <2>5, SMTT(60)
  <2> QED
    BY <2>6, ZenonT(60) DEF Completions, y
<1> HIDE DEF a, b
<1> QED
  BY <1>1, <1>3, <1>4, <1>5, <1>6, <1>7, ZenonT(60)

\* The kernel completes writes in any order, and an fsync only at its turn.
LEMMA CompleteStream ==
    ASSUME SafetyInv, NEW i, Startable(i), NEW r \in Int, Complete(i, r)
    PROVE  /\ Armed(Stream') <=> Armed(Stream)
           /\ Covered(Stream) => Covered(Stream')
           /\ Once(Stream') <=> Once(Stream)
           /\ Unfinished(Stream') <=> Unfinished(Stream)
<1>1. PICK a \in Seq(IoWork), b \in Seq(IoWork) :
         /\ kq[i] \in IoWork
         /\ kq = a \o (<<kq[i]>> \o b)
         /\ kq' = a \o b
         /\ Completions' = Completions \o <<kq[i]>>
         /\ kq[i].op = "Write" \/ a = <<>>
         /\ sq' = sq /\ pending' = pending
  BY CompleteMoves, ZenonT(60)
<1>2. /\ Completions \in Seq(IoWork) /\ sq \in Seq(IoWork)
      /\ pending \in Seq(IoWork)
  BY StreamType, ZenonT(60) DEF SafetyInv
<1> DEFINE w == kq[i]
           d == sq \o pending
<1>3. d \in Seq(IoWork)
  BY <1>2
<1>4. /\ Stream = (Completions \o (a \o (<<w>> \o b))) \o d
      /\ Stream' = ((Completions \o <<w>>) \o (a \o b)) \o d
  BY <1>1, ZenonT(60) DEF Stream
<1>5. w \in IoWork /\ (w.op = "Write" \/ a = <<>>)
  BY <1>1, ZenonT(60)
<1> HIDE DEF w, d
<1> QED
  BY <1>2, <1>3, <1>4, <1>5, Overtake, ZenonT(60)
-----------------------------------------------------------------------------
(***************************************************************************)
(* PlannerInv is inductive, relative to SafetyInv.                         *)
(***************************************************************************)

\* A write that must be retried has bytes left.
LEMMA RetryFacts ==
    ASSUME NEW w \in WriteOp, w.op = "Write", w.done < Size(w), NEW r \in Int,
           Verdict(w, r) = "Retry"
    PROVE  /\ Progress(w, r) \in WriteOp
           /\ Progress(w, r).op = "Write"
           /\ Progress(w, r).done < Size(Progress(w, r))
           /\ Size(Progress(w, r)) - Progress(w, r).done > 0
<1> DEFINE v == Progress(w, r)
<1>1. /\ v \in WriteOp /\ v.op = "Write" /\ Size(v) = Size(w)
      /\ v.done = IF r >= 0 THEN w.done + r ELSE w.done
  BY ProgressFacts, SMTT(60)
<1>2. Size(w) \in Int /\ w.done \in Nat /\ v.done \in Nat
  BY <1>1, SizeIndexType, ZenonT(60) DEF WriteOp
<1>3. r >= 0 => w.done + r < Size(w)
  BY <1>2, SMTT(60) DEF Verdict, EAGAIN
<1> HIDE DEF v
<1>4. v.done < Size(v) /\ Size(v) - v.done > 0
  BY <1>1, <1>2, <1>3, SMTT(60)
<1> QED
  BY <1>1, <1>4, ZenonT(60) DEF v

\* What is left of the stream when a completion is taken.
LEMMA ReapFollows ==
    ASSUME SafetyInv, NEW v, Reap(v), UNCHANGED <<kq, sq, pending>>,
           Unfinished(Stream)
    PROVE  /\ Unfinished(Stream')
           /\ Armed(Stream) <=> cq[1].work.op = "Fsync" \/ Armed(Stream')
           /\ Covered(Stream) =>
                 Covered(Stream') /\ (cq[1].work.op = "Write" => Armed(Stream'))
           /\ Once(Stream) =>
                 Once(Stream') /\ (cq[1].work.op = "Fsync" => ~Armed(Stream'))
<1> DEFINE x == <<cq[1].work>>
           c == Completions'
           d == sq \o pending
<1>1. cq[1].work \in IoWork
  BY ReapFacts, ZenonT(60)
<1>2. /\ x \in Seq(IoWork)
      /\ Armed(x) <=> cq[1].work.op = "Fsync"
      /\ Covered(x) <=> cq[1].work.op # "Write"
  BY <1>1, OneFacts, ZenonT(60)
<1>3. c \in Seq(IoWork) /\ Completions = x \o c
  BY ReapStream
<1>4. kq \in Seq(IoWork) /\ d \in Seq(IoWork)
  BY StreamType, SMTT(60) DEF SafetyInv
<1> HIDE DEF x, c
<1> DEFINE xc == x \o c
           xck == xc \o kq
           ck == c \o kq
           old == xck \o d
           new == ck \o d
<1>5. Stream = old /\ Stream' = new
  BY <1>3, ZenonT(60) DEF Stream, c
<1> HIDE DEF d
<1>6. /\ xc \in Seq(IoWork) /\ Joins(xc, x, c)
      /\ ck \in Seq(IoWork) /\ Joins(ck, c, kq)
  BY <1>2, <1>3, <1>4, ConcatFacts, ZenonT(60)
<1> HIDE DEF xc, ck
<1>7. xck \in Seq(IoWork) /\ Joins(xck, xc, kq) /\ Joins(new, ck, d)
  BY <1>4, <1>6, ConcatFacts, ZenonT(60)
<1> HIDE DEF xck, new
<1>8. Joins(old, xck, d)
  BY <1>4, <1>7, ConcatFacts, ZenonT(60)
<1> HIDE DEF old
<1>9. Unfinished(old) => Unfinished(new)
  BY <1>6, <1>7, <1>8, ZenonT(60) DEF Joins
<1>10. Armed(old) <=> cq[1].work.op = "Fsync" \/ Armed(new)
  BY <1>2, <1>6, <1>7, <1>8, ZenonT(60) DEF Joins
<1>11. Covered(old) => Covered(new) /\ (cq[1].work.op = "Write" => Armed(new))
  BY <1>2, <1>6, <1>7, <1>8, ZenonT(60) DEF Joins
<1>12. Once(old) => Once(new) /\ (cq[1].work.op = "Fsync" => ~Armed(new))
  BY <1>2, <1>6, <1>7, <1>8, ZenonT(60) DEF Joins
<1> QED
  BY <1>5, <1>9, <1>10, <1>11, <1>12, ZenonT(60)

\* A retry: the rest of the write is queued before what is pending, and there is
\* a rest.
LEMMA RetryFollows ==
    ASSUME SafetyInv, ReapRetry, Unfinished(Stream)
    PROVE  /\ Unfinished(Stream')
           /\ Armed(Stream') <=> Armed(Stream)
           /\ Once(Stream) => Once(Stream')
           /\ dirty' > 0
<1> DEFINE w == cq[1].work
           v == Progress(w, cq[1].res)
           x == <<w>>
           y == <<v>>
           c == Completions'
<1>1. Reap("Retry") /\ Head(cq) = cq[1]
  BY ReapFacts, ZenonT(60) DEF ReapRetry
<1>2. /\ pending' = y \o pending /\ dirty' = dirty + (Size(v) - v.done)
      /\ UNCHANGED <<kq, sq>>
  BY <1>1, ZenonT(60) DEF ReapRetry
<1>3. w \in IoWork /\ cq[1].res \in Int /\ Verdict(w, cq[1].res) = "Retry"
  BY <1>1, ReapFacts, ZenonT(60)
<1>4. w.op = "Write" /\ w \in WriteOp
  BY <1>3, VerdictFacts, WorkKinds, ZenonT(60)
<1>5. c \in Seq(IoWork) /\ Completions = x \o c
  BY <1>1, ReapStream, ZenonT(60)
<1>6. /\ kq \in Seq(IoWork) /\ sq \in Seq(IoWork) /\ pending \in Seq(IoWork)
      /\ dirty \in Nat
  BY StreamType, ZenonT(60) DEF SafetyInv, TypeOK
<1>7. x \in Seq(IoWork) /\ ~Armed(x) /\ (Unfinished(x) => w.done < Size(w))
  BY <1>3, <1>4, OneFacts, ZenonT(60)
<1> HIDE DEF x, c
<1> DEFINE xc == x \o c
           xck == xc \o kq
           d == sq \o pending
           old == xck \o d
<1>8. Stream = old
  BY <1>5, ZenonT(60) DEF Stream
<1>9. /\ xc \in Seq(IoWork) /\ Joins(xc, x, c)
      /\ d \in Seq(IoWork) /\ Joins(d, sq, pending)
  BY <1>5, <1>6, <1>7, ConcatFacts, ZenonT(60)
<1> HIDE DEF xc, d
<1>10. xck \in Seq(IoWork) /\ Joins(xck, xc, kq)
  BY <1>6, <1>9, ConcatFacts, ZenonT(60)
<1> HIDE DEF xck
<1>11. Joins(old, xck, d)
  BY <1>9, <1>10, ConcatFacts, ZenonT(60)
<1> HIDE DEF old
<1>12. w.done < Size(w)
  BY <1>7, <1>8, <1>9, <1>10, <1>11, ZenonT(60) DEF Joins
<1>13. /\ v \in WriteOp /\ v.op = "Write" /\ v.done < Size(v)
       /\ Size(v) - v.done > 0
  BY <1>3, <1>4, <1>12, RetryFacts, ZenonT(60)
<1>14. Size(v) \in Int /\ v.done \in Nat
  BY <1>13, SizeIndexType, ZenonT(60) DEF WriteOp
<1> HIDE DEF v
<1>15. dirty' > 0
  BY <1>2, <1>6, <1>13, <1>14, SMTT(60)
<1>16. y \in Seq(IoWork) /\ ~Armed(y) /\ Once(y) /\ Unfinished(y)
  <2>1. v \in IoWork
    BY <1>13, ZenonT(60) DEF IoWork
  <2> QED
    BY <1>13, <2>1, OneFacts, ZenonT(60)
<1> HIDE DEF y
<1> DEFINE ck == c \o kq
           yp == y \o pending
           syp == sq \o yp
           new == ck \o syp
<1>17. Stream' = new
  BY <1>2, ZenonT(60) DEF Stream, c
<1>18. /\ ck \in Seq(IoWork) /\ Joins(ck, c, kq)
       /\ yp \in Seq(IoWork) /\ Joins(yp, y, pending)
  BY <1>5, <1>6, <1>16, ConcatFacts, ZenonT(60)
<1> HIDE DEF ck, yp
<1>19. syp \in Seq(IoWork) /\ Joins(syp, sq, yp)
  BY <1>6, <1>18, ConcatFacts, ZenonT(60)
<1> HIDE DEF syp
<1>20. Joins(new, ck, syp)
  BY <1>18, <1>19, ConcatFacts, ZenonT(60)
<1> HIDE DEF new
<1>21. Unfinished(old) => Unfinished(new)
  BY <1>9, <1>10, <1>11, <1>16, <1>18, <1>19, <1>20, ZenonT(60) DEF Joins
<1>22. Armed(new) <=> Armed(old)
  BY <1>7, <1>9, <1>10, <1>11, <1>16, <1>18, <1>19, <1>20, ZenonT(60) DEF Joins
<1>23. Once(old) => Once(new)
  BY <1>7, <1>9, <1>10, <1>11, <1>16, <1>18, <1>19, <1>20, ZenonT(60) DEF Joins
<1> QED
  BY <1>8, <1>15, <1>17, <1>21, <1>22, <1>23, ZenonT(60)

\* PlannerInv is kept by every step.
LEMMA PlannerStep ==
    ASSUME SafetyInv, PlannerInv, [Next]_vars
    PROVE  PlannerInv'
<1> USE DEF PlannerInv, FsyncFollows, OneFsync
<1>0. Stream \in Seq(IoWork) /\ dirty \in Nat /\ flushing \in BOOLEAN
  BY StreamType DEF SafetyInv, TypeOK
<1>1. CASE /\ Stream' = Stream
           /\ UNCHANGED <<dirty, flushing, awaiting>>
           /\ pc' # "panic" => pc # "panic"
  BY <1>1, ZenonT(60)
<1>2. CASE PollBatch
  <2> DEFINE b == Head(msgs)
             w == [op |-> "Write", low |-> b.low, hi |-> b.hi, off |-> offset,
                   done |-> 0]
  <2>1. /\ b \in Batch /\ b.low < b.hi /\ b.low = ingested
        /\ pending' = Append(pending, w)
    BY <1>2, PollBatchFacts, ZenonT(60)
  <2>2. /\ dirty' = dirty + Size(b) /\ flushing' = flushing /\ pc = "poll"
        /\ UNCHANGED <<cq, kq, sq>>
    BY <1>2, <2>1, ZenonT(60) DEF PollBatch, handle_batch
  <2>3. Size(b) \in Nat /\ Size(b) > 0
    <3>1. b.hi - b.low \in Nat \ {0} /\ RecSize \in Nat \ {0}
      BY <2>1, SizeAssumption, SMTT(60) DEF Batch
    <3>2. \A p, q \in Nat \ {0} : p * q \in Nat /\ p * q > 0
      BY SMTT(60)
    <3> QED
      BY <3>1, <3>2, ZenonT(60) DEF Size
  <2>4. w \in IoWork /\ w.op = "Write" /\ w.done < Size(w)
    <3>1. w \in WriteOp
      BY <2>1, ZenonT(60) DEF WriteOp, Batch, SafetyInv, TypeOK
    <3>2. Size(w) = Size(b)
      BY DEF Size
    <3> QED
      BY <2>3, <3>1, <3>2, ZenonT(60) DEF IoWork
  <2> HIDE DEF w, b
  <2>5. Stream' = Stream \o <<w>>
    BY <2>1, <2>2, <2>4, PushStream, ZenonT(60)
  <2>6. <<w>> \in Seq(IoWork) /\ ~Armed(<<w>>) /\ Once(<<w>>) /\ Unfinished(<<w>>)
    BY <2>4, OneFacts, ZenonT(60)
  <2>7. Joins(Stream', Stream, <<w>>)
    BY <1>0, <2>5, <2>6, ConcatFacts, ZenonT(60)
  <2>8. dirty' > 0 /\ dirty' # 0
    BY <1>0, <2>2, <2>3, SMTT(60)
  <2> QED
    BY <2>2, <2>6, <2>7, <2>8, ZenonT(60) DEF Joins
<1>3. CASE PlanFsync /\ ~FsyncDue
  BY <1>1, <1>3, ZenonT(60) DEF PlanFsync, Stream, Completions
<1>4. CASE PlanFsync /\ FsyncDue
  <2> DEFINE w == [op |-> "Fsync", lsn |-> ingested]
  <2>1. /\ pending' = Append(pending, w) /\ UNCHANGED <<cq, kq, sq, awaiting>>
        /\ flushing' = TRUE /\ pc = "plan"
    BY <1>4, ZenonT(60) DEF PlanFsync
  <2>2. w \in IoWork /\ w.op = "Fsync"
    BY DEF IoWork, FsyncOp, SafetyInv, TypeOK
  <2> HIDE DEF w
  <2>3. Stream' = Stream \o <<w>>
    BY <2>1, <2>2, PushStream, ZenonT(60)
  <2>4. /\ <<w>> \in Seq(IoWork) /\ Armed(<<w>>) /\ Covered(<<w>>)
        /\ Once(<<w>>) /\ Unfinished(<<w>>)
    BY <2>2, OneFacts, ZenonT(60)
  <2>5. Joins(Stream', Stream, <<w>>)
    BY <1>0, <2>3, <2>4, ConcatFacts, ZenonT(60)
  <2>6. Mode = "Sync" => ~Armed(Stream)
    BY <1>4, <2>1, SMTT(60) DEF FsyncDue
  <2> QED
    BY <2>1, <2>4, <2>5, <2>6, ZenonT(60) DEF Joins
<1>5. CASE ReapOk
  <2>1. /\ Reap("Ok") /\ UNCHANGED <<kq, sq, pending, dirty, flushing, pc>>
    BY <1>5, ZenonT(60) DEF ReapOk
  <2>2. cq[1].work.op = "Write"
    BY <2>1, ReapFacts, VerdictFacts, ZenonT(60)
  <2>3. /\ Unfinished(Stream')
        /\ Armed(Stream) <=> Armed(Stream')
        /\ Covered(Stream) => Covered(Stream') /\ Armed(Stream')
        /\ Once(Stream) => Once(Stream')
    BY <2>1, <2>2, ReapFollows, ZenonT(60)
  <2> QED
    BY <2>1, <2>3, ZenonT(60)
<1>6. CASE ReapRetry
  <2>1. UNCHANGED <<flushing, pc>>
    BY <1>6, ZenonT(60) DEF ReapRetry
  <2>2. /\ Unfinished(Stream')
        /\ Armed(Stream') <=> Armed(Stream)
        /\ Once(Stream) => Once(Stream')
        /\ dirty' # 0
    BY <1>6, RetryFollows, SMTT(60)
  <2> QED
    BY <2>1, <2>2, ZenonT(60)
<1>7. CASE ReapDurable
  <2>1. /\ Reap("Durable") /\ UNCHANGED <<kq, sq, pending, dirty, pc>>
        /\ awaiting' = <<>> /\ flushing' = FALSE
    BY <1>7, ZenonT(60) DEF ReapDurable
  <2>2. cq[1].work.op = "Fsync"
    BY <2>1, ReapFacts, VerdictFacts, SMTT(60)
  <2>3. /\ Unfinished(Stream')
        /\ Covered(Stream) => Covered(Stream')
        /\ Once(Stream) => Once(Stream') /\ ~Armed(Stream')
    BY <2>1, <2>2, ReapFollows, ZenonT(60)
  <2> QED
    BY <2>1, <2>3, ZenonT(60)
<1>8. CASE ReapFatal
  <2>1. Reap("Fatal") /\ UNCHANGED <<kq, sq, pending>> /\ pc' = "panic"
    BY <1>8, ZenonT(60) DEF ReapFatal
  <2>2. Unfinished(Stream') /\ (Once(Stream) => Once(Stream'))
    BY <2>1, ReapFollows, ZenonT(60)
  <2> QED
    BY <2>1, <2>2, ZenonT(60)
<1>9. ASSUME NEW i, Startable(i), NEW r \in Int, Complete(i, r)
      PROVE  PlannerInv'
  <2>1. UNCHANGED <<dirty, flushing, awaiting, pc>>
    BY <1>9, ZenonT(60) DEF Complete
  <2>2. /\ Armed(Stream') <=> Armed(Stream)
        /\ Covered(Stream) => Covered(Stream')
        /\ Once(Stream') <=> Once(Stream)
        /\ Unfinished(Stream') <=> Unfinished(Stream)
    BY <1>9, CompleteStream, ZenonT(60)
  <2> QED
    BY <2>1, <2>2, ZenonT(60)
<1>10. CASE handle_pending \/ TurnEnd
  <2>1. Stream' = Stream
    BY <1>10, MoveStream, ZenonT(60)
  <2>2. UNCHANGED <<dirty, flushing, awaiting>> /\ pc # "panic"
    BY <1>10, ZenonT(60) DEF handle_pending, TurnEnd
  <2> QED
    BY <1>1, <2>1, <2>2, ZenonT(60)
<1>11. CASE UNCHANGED <<cq, kq, sq, pending, dirty, flushing, awaiting>>
            /\ (pc' # "panic" => pc # "panic")
  <2>1. Stream' = Stream
    BY <1>11 DEF Stream, Completions
  <2> QED
    BY <1>1, <1>11, <2>1, ZenonT(60)
<1>12. \/ PollBatch \/ PlanFsync \/ ReapOk \/ ReapRetry \/ ReapDurable
       \/ ReapFatal \/ handle_pending \/ TurnEnd
       \/ \E i : Startable(i) /\ \E r \in Int : Complete(i, r)
       \/ /\ UNCHANGED <<cq, kq, sq, pending, dirty, flushing, awaiting>>
          /\ pc' # "panic" => pc # "panic"
  <2>1. (\E i \in 1 .. RING_DEPTH, n \in Nat : KernelWrite(i, n)) =>
           \E i : Startable(i) /\ \E r \in Int : Complete(i, r)
    BY SMTT(60) DEF KernelWrite
  <2>2. (\E i \in 1 .. RING_DEPTH : FsyncEnd(i)) =>
           \E i : Startable(i) /\ \E r \in Int : Complete(i, r)
    BY SMTT(60) DEF FsyncEnd
  <2>3. (\E i \in 1 .. RING_DEPTH, err \in {EAGAIN, EIO} : KernelError(i, err)) =>
           \E i : Startable(i) /\ \E r \in Int : Complete(i, r)
    BY SMTT(60) DEF KernelError, EAGAIN, EIO
  <2>4. ASSUME \/ \E k \in 1 .. MaxBatchPuts : Stage2Send(k)
               \/ PollEmpty \/ SubmitFails \/ Wake
               \/ \E i \in 1 .. RING_DEPTH : FsyncStart(i)
               \/ UNCHANGED vars
        PROVE  /\ UNCHANGED <<cq, kq, sq, pending, dirty, flushing, awaiting>>
               /\ pc' # "panic" => pc # "panic"
    BY <2>4, ZenonT(60) DEF Stage2Send, PollEmpty, SubmitFails, Wake, FsyncStart, vars
  <2> QED
    BY StepCases, <2>1, <2>2, <2>3, <2>4, ZenonT(60)
<1> QED
  BY <1>2, <1>3, <1>4, <1>5, <1>6, <1>7, <1>8, <1>9, <1>10, <1>11, <1>12, ZenonT(60)

\* The stream is armed when one of its parts is.
LEMMA StreamParts ==
    ASSUME SafetyInv
    PROVE  /\ Armed(Stream) <=> FsyncArmed
           /\ Once(Stream) => Once(pending)
<1> DEFINE k == Completions \o kq
           d == sq \o pending
<1>1. /\ Completions \in Seq(IoWork) /\ Len(Completions) = Len(cq)
      /\ kq \in Seq(IoWork) /\ sq \in Seq(IoWork) /\ pending \in Seq(IoWork)
      /\ cq \in Seq(Cqe)
  BY StreamType, ZenonT(60) DEF SafetyInv, TypeOK
<1>2. /\ k \in Seq(IoWork) /\ Joins(k, Completions, kq)
      /\ d \in Seq(IoWork) /\ Joins(d, sq, pending)
  BY <1>1, ConcatFacts, SMTT(60)
<1>3. Stream = k \o d
  BY DEF Stream
<1> HIDE DEF k, d
<1>4. Joins(Stream, k, d)
  BY <1>2, <1>3, ConcatFacts, ZenonT(60)
<1>5. /\ Armed(Stream) <=>
            Armed(Completions) \/ Armed(kq) \/ Armed(sq) \/ Armed(pending)
      /\ Once(Stream) => Once(pending)
  BY <1>2, <1>4, ZenonT(60) DEF Joins
<1>6. Armed(Completions) <=> \E i \in DOMAIN cq : cq[i].work.op = "Fsync"
  <2>1. DOMAIN cq = 1 .. Len(cq)
    BY <1>1, SMTT(60)
  <2>2. \A i \in 1 .. Len(cq) : Completions[i] = cq[i].work
    BY SMTT(60) DEF Completions
  <2> QED
    BY <1>1, <2>1, <2>2, ZenonT(60) DEF Armed
<1>7. /\ Armed(kq) <=> \E i \in DOMAIN kq : kq[i].op = "Fsync"
      /\ Armed(sq) <=> \E i \in DOMAIN sq : sq[i].op = "Fsync"
      /\ Armed(pending) <=> \E i \in DOMAIN pending : pending[i].op = "Fsync"
  BY <1>1, SMTT(60) DEF Armed
<1> QED
  BY <1>5, <1>6, <1>7, ZenonT(60) DEF FsyncArmed

\* The engine starts with nothing in the stream.
LEMMA PlannerInit ==
    ASSUME Init
    PROVE  PlannerInv
<1>1. Completions = <<>> /\ kq = <<>> /\ sq = <<>> /\ pending = <<>>
  BY DEF Init, Completions
<1>2. Stream = <<>>
  BY <1>1 DEF Stream
<1> QED
  BY <1>2, SMTT(60) DEF Init, PlannerInv, FsyncFollows, OneFsync, Unfinished, Covered,
              Once, Armed

\* PlannerInv always holds: with SafetyInv it is inductive.
THEOREM PlannerInvariant == Spec => []PlannerInv
<1>1. Init => PlannerInv
  BY PlannerInit
<1>2. SafetyInv /\ PlannerInv /\ [Next]_vars => PlannerInv'
  BY PlannerStep
<1> QED
  BY <1>1, <1>2, SafetyInvariant, PTL DEF Spec

\* Clients never wait for an fsync nobody will ask for, with any number of
\* buffers, operations in flight, short writes and retries.
THEOREM NobodyWaitsInVain == Spec => []NoForgottenFsync
<1>1. SafetyInv /\ PlannerInv => NoForgottenFsync
  <2> SUFFICES ASSUME SafetyInv, PlannerInv PROVE NoForgottenFsync
    OBVIOUS
  <2>1. dirty \in Nat
    BY ZenonT(60) DEF SafetyInv, TypeOK
  <2> QED
    BY <2>1, StreamParts, SMTT(60) DEF PlannerInv, FsyncFollows, NoForgottenFsync
<1> QED
  BY <1>1, SafetyInvariant, PlannerInvariant, PTL

\* flush_running says whether an fsync is armed, and the planner never queues a
\* second one, in the Sync cadence of any instance.
THEOREM FlushFlagIsExact == Spec => []FlushFlagExact
<1>1. SafetyInv /\ PlannerInv => FlushFlagExact
  <2> SUFFICES ASSUME SafetyInv, PlannerInv PROVE FlushFlagExact
    OBVIOUS
  <2>1. DOMAIN pending = 1 .. Len(pending)
    BY DEF SafetyInv, TypeOK
  <2> QED
    BY <2>1, StreamParts, ZenonT(60) DEF PlannerInv, OneFsync, FlushFlagExact, Once
<1> QED
  BY <1>1, SafetyInvariant, PlannerInvariant, PTL
-----------------------------------------------------------------------------
(***************************************************************************)
(* The batch buffers: each write of the stream owns one.                   *)
(***************************************************************************)
Owned(q) == Cardinality(WritesIn(q))

\* The buffers of a concatenation, of one operation and of none.
LEMMA OwnedConcat ==
    ASSUME NEW s \in Seq(IoWork), NEW t \in Seq(IoWork)
    PROVE  /\ Owned(s) \in Nat /\ Owned(t) \in Nat
           /\ Owned(s \o t) = Owned(s) + Owned(t)
<1> DEFINE A == WritesIn(s)
           B == WritesIn(t)
           m == Len(s)
           C == {i \in (m + 1) .. (m + Len(t)) : t[i - m].op = "Write"}
           f == [i \in B |-> m + i]
<1>1. m \in Nat /\ Len(t) \in Nat /\ DOMAIN s = 1 .. m /\ DOMAIN t = 1 .. Len(t)
  OBVIOUS
<1>2. ASSUME NEW n \in Nat, NEW k \in Nat PROVE IsFiniteSet(n .. k)
  BY FS_Interval
<1>3. IsFiniteSet(A) /\ IsFiniteSet(B) /\ IsFiniteSet(C)
  <2>1. /\ A \in SUBSET (1 .. m) /\ B \in SUBSET (1 .. Len(t))
        /\ C \in SUBSET ((m + 1) .. (m + Len(t)))
    BY <1>1 DEF WritesIn
  <2>2. /\ IsFiniteSet(1 .. m) /\ IsFiniteSet(1 .. Len(t))
        /\ IsFiniteSet((m + 1) .. (m + Len(t)))
    BY <1>1, <1>2, SMTT(60)
  <2> HIDE DEF A, B, C
  <2> QED
    BY <2>1, <2>2, FS_Subset, ZenonT(60)
<1>4. Cardinality(C) = Cardinality(B)
  <2>1. f \in [B -> C]
    BY <1>1, SMTT(60) DEF WritesIn
  <2>2. \A i, j \in B : f[i] = f[j] => i = j
    BY <1>1, SMTT(60) DEF WritesIn
  <2>3. ASSUME NEW c \in C PROVE \E i \in B : f[i] = c
    <3>1. c - m \in B /\ f[c - m] = c
      BY <1>1 DEF WritesIn
    <3> QED
      BY <3>1, ZenonT(60)
  <2> HIDE DEF A, B, C, f
  <2>4. f \in Bijection(B, C)
    <3>1. DOMAIN f = B
      BY <2>1
    <3>2. IsInjective(f)
      BY <2>2, <3>1, ZenonT(60) DEF IsInjective
    <3> QED
      BY <2>1, <2>3, <3>2, ZenonT(60) DEF Bijection, Injection, Surjection
  <2>5. ExistsBijection(B, C)
    BY <2>4 DEF ExistsBijection
  <2> QED
    BY <1>3, <2>5, FS_Bijection, ZenonT(60)
<1>5. WritesIn(s \o t) = A \cup C
  <2>1. DOMAIN (s \o t) = 1 .. m + Len(t)
    BY <1>1, SMTT(60)
  <2>2. \A i \in 1 .. m : (s \o t)[i] = s[i]
    OBVIOUS
  <2>3. \A i \in (m + 1) .. (m + Len(t)) : (s \o t)[i] = t[i - m]
    OBVIOUS
  <2>4. \A i : i \in 1 .. m + Len(t) <=> i \in 1 .. m \/ i \in (m + 1) .. (m + Len(t))
    BY <1>1
  <2> QED
    BY <1>1, <2>1, <2>2, <2>3, <2>4, ZenonT(60) DEF WritesIn
<1>6. A \cap C = {}
  <2>1. \A i : i \in 1 .. m => i \notin (m + 1) .. (m + Len(t))
    BY <1>1, SMTT(60)
  <2> QED
    BY <1>1, <2>1, ZenonT(60) DEF WritesIn
<1> HIDE DEF A, B, C
<1>7. Cardinality(A) \in Nat /\ Cardinality(B) \in Nat /\ Cardinality(C) \in Nat
  BY <1>3, FS_CardinalityType, ZenonT(60)
<1>8. Cardinality(A \cup C) = Cardinality(A) + Cardinality(C) - Cardinality(A \cap C)
  BY <1>3, FS_Union, ZenonT(60)
<1>9. Cardinality(A \cap C) = 0
  BY <1>6, FS_EmptySet, Zenon
<1>10. Cardinality(A \cup C) = Cardinality(A) + Cardinality(B)
  BY <1>4, <1>7, <1>8, <1>9, SMTT(60)
<1> QED
  BY <1>5, <1>7, <1>10, ZenonT(60) DEF Owned, A, B

LEMMA OwnedOne ==
    ASSUME NEW w \in IoWork
    PROVE  Owned(<<w>>) = IF w.op = "Write" THEN 1 ELSE 0
<1>1. WritesIn(<<w>>) = IF w.op = "Write" THEN {1} ELSE {}
  BY DEF WritesIn
<1> QED
  BY <1>1, FS_Singleton, FS_EmptySet, ZenonT(60) DEF Owned

LEMMA OwnedNone == Owned(<<>>) = 0
<1>1. WritesIn(<<>>) = {}
  BY DEF WritesIn
<1> QED
  BY <1>1, FS_EmptySet, ZenonT(60) DEF Owned

\* The buffers of the stream are those of its four parts.
OwnedIn(c, k, s, p) ==
    /\ Owned((c \o k) \o (s \o p)) = Owned(c) + Owned(k) + Owned(s) + Owned(p)
    /\ Owned(c) \in Nat /\ Owned(k) \in Nat
    /\ Owned(s) \in Nat /\ Owned(p) \in Nat

LEMMA OwnedParts ==
    \A c, k, s, p \in Seq(IoWork) : OwnedIn(c, k, s, p)
<1> TAKE c, k, s, p \in Seq(IoWork)
<1> DEFINE ck == c \o k
           sp == s \o p
<1>1. /\ ck \in Seq(IoWork) /\ sp \in Seq(IoWork)
      /\ Owned(ck) = Owned(c) + Owned(k)
      /\ Owned(sp) = Owned(s) + Owned(p)
      /\ Owned(c) \in Nat /\ Owned(k) \in Nat
      /\ Owned(s) \in Nat /\ Owned(p) \in Nat
  BY OwnedConcat, SMTT(60)
<1> HIDE DEF ck, sp
<1>2. Owned(ck \o sp) = Owned(ck) + Owned(sp)
  BY <1>1, OwnedConcat, ZenonT(60)
<1>3. Owned(ck \o sp) = Owned(c) + Owned(k) + Owned(s) + Owned(p)
  BY <1>1, <1>2, SMTT(60)
<1> QED
  BY <1>1, <1>3, ZenonT(60) DEF ck, sp, OwnedIn

\* Where the buffers are: free, in the channel, awaiting an fsync, or owned by a
\* write of the stream.
BufferInv ==
    pc # "panic" => free + Len(msgs) + Len(awaiting) + Owned(Stream) = N_BUFFERS
\* A completion moves a buffer with its write.
LEMMA OwnedComplete ==
    ASSUME SafetyInv, NEW i, Startable(i), NEW r \in Int, Complete(i, r)
    PROVE  Owned(Stream') = Owned(Stream)
<1>1. PICK a \in Seq(IoWork), b \in Seq(IoWork) :
         /\ kq[i] \in IoWork
         /\ kq = a \o (<<kq[i]>> \o b)
         /\ kq' = a \o b
         /\ Completions' = Completions \o <<kq[i]>>
         /\ kq[i].op = "Write" \/ a = <<>>
         /\ sq' = sq /\ pending' = pending
  BY CompleteMoves, Zenon
<1> DEFINE x == <<kq[i]>>
           xb == x \o b
<1>2. /\ Completions \in Seq(IoWork) /\ kq \in Seq(IoWork) /\ sq \in Seq(IoWork)
      /\ pending \in Seq(IoWork) /\ x \in Seq(IoWork)
  BY <1>1, StreamType, OneFacts, ZenonT(60) DEF SafetyInv
<1> HIDE DEF x
<1>3. /\ xb \in Seq(IoWork) /\ Owned(xb) = Owned(x) + Owned(b)
      /\ Owned(x) \in Nat /\ Owned(b) \in Nat /\ Owned(a) \in Nat
      /\ Owned(a \o b) = Owned(a) + Owned(b)
      /\ Owned(Completions \o x) = Owned(Completions) + Owned(x)
  BY <1>2, OwnedConcat, SMTT(60)
<1> HIDE DEF xb
<1>4. Owned(a \o xb) = Owned(a) + Owned(xb)
  BY <1>3, OwnedConcat, ZenonT(60)
<1>5. kq = a \o xb /\ Completions' = Completions \o x
  BY <1>1, ZenonT(60) DEF x, xb
<1>6. Completions \o x \in Seq(IoWork) /\ a \o b \in Seq(IoWork)
  BY <1>2, SMTT(60)
<1>7. /\ Stream = (Completions \o (a \o xb)) \o (sq \o pending)
      /\ Stream' = ((Completions \o x) \o (a \o b)) \o (sq \o pending)
  BY <1>1, <1>5, Zenon DEF Stream
<1>8. a \o xb \in Seq(IoWork)
  BY <1>3
<1>9. /\ OwnedIn(Completions, a \o xb, sq, pending)
      /\ OwnedIn(Completions \o x, a \o b, sq, pending)
  BY <1>2, <1>6, <1>8, OwnedParts, ZenonT(60)
<1>10. /\ Owned(Stream) = Owned(Completions) + Owned(a \o xb) + Owned(sq)
                            + Owned(pending)
       /\ Owned(Stream') = Owned(Completions \o x) + Owned(a \o b) + Owned(sq)
                             + Owned(pending)
       /\ Owned(Completions) \in Nat /\ Owned(sq) \in Nat
       /\ Owned(pending) \in Nat
  BY <1>7, <1>9, ZenonT(60) DEF OwnedIn
<1> QED
  BY <1>3, <1>4, <1>10, SMTT(60)

\* Reaping a completion takes its write, and its buffer, out of the stream.
LEMMA OwnedReap ==
    ASSUME SafetyInv, NEW v, Reap(v), UNCHANGED <<kq, sq, pending>>
    PROVE  /\ Owned(Stream') \in Nat
           /\ Owned(Stream) =
                 Owned(Stream') + (IF cq[1].work.op = "Write" THEN 1 ELSE 0)
<1> DEFINE x == <<cq[1].work>>
           c == Completions'
<1>1. cq[1].work \in IoWork
  BY ReapFacts, ZenonT(60)
<1>2. x \in Seq(IoWork) /\ Owned(x) = IF cq[1].work.op = "Write" THEN 1 ELSE 0
  BY <1>1, OwnedOne, OneFacts, ZenonT(60)
<1>3. c \in Seq(IoWork) /\ Completions = x \o c
  BY ReapStream
<1>4. kq \in Seq(IoWork) /\ sq \in Seq(IoWork) /\ pending \in Seq(IoWork)
  BY StreamType, ZenonT(60) DEF SafetyInv
<1> HIDE DEF x, c
<1>5. x \o c \in Seq(IoWork) /\ Owned(x \o c) = Owned(x) + Owned(c)
  BY <1>2, <1>3, OwnedConcat, SMTT(60)
<1>6. /\ Stream = ((x \o c) \o kq) \o (sq \o pending)
      /\ Stream' = (c \o kq) \o (sq \o pending)
  BY <1>3, Zenon DEF Stream, c
<1>7. OwnedIn(x \o c, kq, sq, pending) /\ OwnedIn(c, kq, sq, pending)
  BY <1>3, <1>4, <1>5, OwnedParts, ZenonT(60)
<1>8. /\ Owned(Stream) = Owned(x \o c) + Owned(kq) + Owned(sq) + Owned(pending)
      /\ Owned(Stream') = Owned(c) + Owned(kq) + Owned(sq) + Owned(pending)
      /\ Owned(c) \in Nat /\ Owned(kq) \in Nat
      /\ Owned(sq) \in Nat /\ Owned(pending) \in Nat
  BY <1>6, <1>7, ZenonT(60) DEF OwnedIn
<1>9. Owned(x) \in Nat
  BY <1>2, SMTT(60)
<1>10. Owned(Stream') \in Nat /\ Owned(Stream) = Owned(Stream') + Owned(x)
  BY <1>5, <1>8, <1>9, SMTT(60)
<1> QED
  BY <1>2, <1>10, Zenon

\* A retried write keeps its buffer.
LEMMA OwnedRetry ==
    ASSUME SafetyInv, ReapRetry
    PROVE  Owned(Stream') = Owned(Stream)
<1> DEFINE w == cq[1].work
           v == Progress(w, cq[1].res)
           x == <<w>>
           y == <<v>>
           c == Completions'
<1>1. Reap("Retry") /\ Head(cq) = cq[1]
  BY ReapFacts, ZenonT(60) DEF ReapRetry
<1>2. pending' = y \o pending /\ UNCHANGED <<kq, sq>>
  BY <1>1, ZenonT(60) DEF ReapRetry
<1>3. w \in IoWork /\ cq[1].res \in Int /\ Verdict(w, cq[1].res) = "Retry"
  BY <1>1, ReapFacts, ZenonT(60)
<1>4. w.op = "Write" /\ w \in WriteOp
  BY <1>3, VerdictFacts, WorkKinds, ZenonT(60)
<1>5. v \in IoWork /\ v.op = "Write"
  BY <1>3, <1>4, ProgressFacts, ZenonT(60) DEF IoWork
<1>6. c \in Seq(IoWork) /\ Completions = x \o c
  BY <1>1, ReapStream, ZenonT(60)
<1>7. kq \in Seq(IoWork) /\ sq \in Seq(IoWork) /\ pending \in Seq(IoWork)
  BY StreamType, ZenonT(60) DEF SafetyInv
<1>8. x \in Seq(IoWork) /\ Owned(x) = 1
  BY <1>3, <1>4, OwnedOne, OneFacts, ZenonT(60)
<1> HIDE DEF v
<1>9. y \in Seq(IoWork) /\ Owned(y) = 1
  BY <1>5, OwnedOne, OneFacts, ZenonT(60)
<1> HIDE DEF w, x, y, c
<1>10. /\ x \o c \in Seq(IoWork) /\ Owned(x \o c) = Owned(x) + Owned(c)
       /\ y \o pending \in Seq(IoWork)
       /\ Owned(y \o pending) = Owned(y) + Owned(pending)
  BY <1>6, <1>7, <1>8, <1>9, OwnedConcat, SMTT(60)
<1>11. /\ Stream = ((x \o c) \o kq) \o (sq \o pending)
       /\ Stream' = (c \o kq) \o (sq \o (y \o pending))
  BY <1>2, <1>6, Zenon DEF Stream, c
<1>12. OwnedIn(x \o c, kq, sq, pending) /\ OwnedIn(c, kq, sq, y \o pending)
  BY <1>6, <1>7, <1>10, OwnedParts, ZenonT(60)
<1>13. OwnedIn(c, kq, sq, pending)
  BY <1>6, <1>7, OwnedParts, ZenonT(60)
<1>14. /\ Owned(Stream) = Owned(x \o c) + Owned(kq) + Owned(sq) + Owned(pending)
       /\ Owned(Stream') = Owned(c) + Owned(kq) + Owned(sq) + Owned(y \o pending)
       /\ Owned(c) \in Nat /\ Owned(kq) \in Nat
       /\ Owned(sq) \in Nat /\ Owned(pending) \in Nat
  BY <1>11, <1>12, <1>13, ZenonT(60) DEF OwnedIn
<1> QED
  BY <1>8, <1>9, <1>10, <1>14, SMTT(60)
-----------------------------------------------------------------------------
\* BufferInv is kept by every step.
LEMMA BufferStep ==
    ASSUME SafetyInv, BufferInv, [Next]_vars
    PROVE  BufferInv'
<1> USE DEF BufferInv
<1>0. /\ Stream \in Seq(IoWork) /\ Owned(Stream) \in Nat
      /\ free \in Nat /\ msgs \in Seq(Batch) /\ awaiting \in Seq(Batch)
  BY StreamType, OwnedConcat, ZenonT(60) DEF SafetyInv, TypeOK
<1>1. CASE /\ Owned(Stream') = Owned(Stream)
           /\ UNCHANGED <<free, msgs, awaiting>>
           /\ pc' # "panic" => pc # "panic"
  BY <1>1, SMTT(60)
<1>2. CASE \E k \in 1 .. MaxBatchPuts : Stage2Send(k)
  <2>1. PICK k \in 1 .. MaxBatchPuts : Stage2Send(k)
    BY <1>2, ZenonT(60)
  <2> DEFINE b == [low |-> lsn, hi |-> lsn + k]
  <2>2. /\ free' = free - 1 /\ msgs' = Append(msgs, b)
        /\ UNCHANGED <<pc, cq, kq, sq, pending, awaiting>>
    BY <2>1, ZenonT(60) DEF Stage2Send
  <2>3. Stream' = Stream
    BY <2>2, ZenonT(60) DEF Stream, Completions
  <2>4. b \in Batch
    BY <1>0, SizeAssumption, SMTT(60) DEF Batch, SafetyInv, TypeOK
  <2> HIDE DEF b
  <2>5. Len(msgs') = Len(msgs) + 1
    BY <1>0, <2>2, <2>4, SMTT(60)
  <2> QED
    BY <1>0, <2>2, <2>3, <2>5, SMTT(60)
<1>3. CASE PollBatch
  <2> DEFINE b == Head(msgs)
             w == [op |-> "Write", low |-> b.low, hi |-> b.hi, off |-> offset,
                   done |-> 0]
  <2>1. /\ b \in Batch /\ b.low < b.hi /\ b.low = ingested
        /\ pending' = Append(pending, w)
    BY <1>3, PollBatchFacts, ZenonT(60)
  <2>2. /\ msgs # <<>> /\ msgs' = Tail(msgs) /\ pc = "poll"
        /\ UNCHANGED <<cq, kq, sq, free, awaiting>>
    BY <1>3, <2>1, ZenonT(60) DEF PollBatch, handle_batch
  <2>3. w \in IoWork /\ w.op = "Write"
    BY <2>1, ZenonT(60) DEF WriteOp, IoWork, Batch, SafetyInv, TypeOK
  <2> HIDE DEF w, b
  <2>4. Stream' = Stream \o <<w>>
    BY <2>1, <2>2, <2>3, PushStream, ZenonT(60)
  <2>5. <<w>> \in Seq(IoWork) /\ Owned(<<w>>) = 1
    BY <2>3, OneFacts, OwnedOne, ZenonT(60)
  <2>6. Owned(Stream') = Owned(Stream) + 1
    BY <1>0, <2>4, <2>5, OwnedConcat, ZenonT(60)
  <2>7. Len(msgs') = Len(msgs) - 1
    BY <1>0, <2>2, SMTT(60)
  <2> QED
    BY <1>0, <2>2, <2>6, <2>7, SMTT(60)
<1>4. CASE PlanFsync /\ ~FsyncDue
  BY <1>1, <1>4, ZenonT(60) DEF PlanFsync, Stream, Completions
<1>5. CASE PlanFsync /\ FsyncDue
  <2> DEFINE w == [op |-> "Fsync", lsn |-> ingested]
  <2>1. /\ pending' = Append(pending, w)
        /\ UNCHANGED <<cq, kq, sq, awaiting, free, msgs>> /\ pc = "plan"
    BY <1>5, ZenonT(60) DEF PlanFsync
  <2>2. w \in IoWork /\ w.op = "Fsync"
    BY ZenonT(60) DEF IoWork, FsyncOp, SafetyInv, TypeOK
  <2> HIDE DEF w
  <2>3. Stream' = Stream \o <<w>>
    BY <2>1, <2>2, PushStream, ZenonT(60)
  <2>4. <<w>> \in Seq(IoWork) /\ Owned(<<w>>) = 0
    BY <2>2, OneFacts, OwnedOne, ZenonT(60)
  <2>5. Owned(Stream') = Owned(Stream) + Owned(<<w>>)
    BY <1>0, <2>3, <2>4, OwnedConcat, ZenonT(60)
  <2>6. Owned(Stream') = Owned(Stream)
    BY <1>0, <2>4, <2>5, SMTT(60)
  <2> QED
    BY <1>1, <2>1, <2>6, ZenonT(60)
<1>6. CASE ReapOk
  <2> DEFINE b == [low |-> Head(cq).work.low, hi |-> Head(cq).work.hi]
  <2>1. /\ Reap("Ok") /\ UNCHANGED <<kq, sq, pending, pc, msgs>>
        /\ \/ free' = free + 1 /\ UNCHANGED awaiting
           \/ awaiting' = Append(awaiting, b) /\ UNCHANGED free
    BY <1>6, ZenonT(60) DEF ReapOk
  <2>2. cq[1].work.op = "Write" /\ cq[1].work \in WriteOp /\ Head(cq) = cq[1]
    BY <2>1, ReapFacts, VerdictFacts, WorkKinds, ZenonT(60)
  <2>3. Owned(Stream) = Owned(Stream') + 1
    BY <2>1, <2>2, OwnedReap, ZenonT(60)
  <2>4. b \in Batch
    BY <2>2, SMTT(60) DEF Batch, WriteOp
  <2> HIDE DEF b
  <2>5. Len(Append(awaiting, b)) = Len(awaiting) + 1
    BY <1>0, <2>4, SMTT(60)
  <2>6. Owned(Stream') \in Nat
    BY <2>1, OwnedReap, ZenonT(60)
  <2>7. Len(awaiting) \in Nat /\ Len(msgs) \in Nat /\ Len(msgs') = Len(msgs)
    BY <1>0, <2>1, SMTT(60)
  <2>8. \/ free' = free + 1 /\ Len(awaiting') = Len(awaiting)
        \/ free' = free /\ Len(awaiting') = Len(awaiting) + 1
    BY <2>1, <2>5, ZenonT(60)
  <2>9. pc' = pc
    BY <2>1, ZenonT(60)
  <2>10. free' + Len(msgs') + Len(awaiting') + Owned(Stream')
           = free + Len(msgs) + Len(awaiting) + Owned(Stream)
    <3>1. free \in Nat
      BY <1>0, SMTT(60)
    <3>2. CASE free' = free + 1 /\ Len(awaiting') = Len(awaiting)
      BY <2>3, <2>6, <2>7, <3>1, <3>2, SMTT(60)
    <3>3. CASE free' = free /\ Len(awaiting') = Len(awaiting) + 1
      BY <2>3, <2>6, <2>7, <3>1, <3>3, SMTT(60)
    <3> QED
      BY <2>8, <3>2, <3>3, ZenonT(60)
  <2> QED
    BY <2>9, <2>10, ZenonT(60)
<1>7. CASE ReapRetry
  <2>1. UNCHANGED <<free, msgs, awaiting, pc>>
    BY <1>7, SMTT(60) DEF ReapRetry
  <2> QED
    BY <1>1, <1>7, <2>1, OwnedRetry, ZenonT(60)
<1>8. CASE ReapDurable
  <2>1. /\ Reap("Durable") /\ UNCHANGED <<kq, sq, pending, pc, msgs>>
        /\ awaiting' = <<>> /\ free' = free + Len(awaiting)
    BY <1>8, ZenonT(60) DEF ReapDurable
  <2>2. cq[1].work.op = "Fsync"
    BY <2>1, ReapFacts, VerdictFacts, SMTT(60)
  <2>3. Owned(Stream) = Owned(Stream') + 0 /\ Owned(Stream') \in Nat
    BY <2>1, <2>2, OwnedReap, ZenonT(60)
  <2>4. Len(awaiting') = 0
    BY <2>1, ZenonT(60)
  <2> QED
    BY <1>0, <2>1, <2>3, <2>4, SMTT(60)
<1>9. CASE ReapFatal \/ SubmitFails
  BY <1>9, ZenonT(60) DEF ReapFatal, SubmitFails
<1>10. ASSUME NEW i, Startable(i), NEW r \in Int, Complete(i, r)
       PROVE  BufferInv'
  <2>1. UNCHANGED <<free, msgs, awaiting, pc>>
    BY <1>10, ZenonT(60) DEF Complete
  <2>2. Owned(Stream') = Owned(Stream)
    BY <1>10, OwnedComplete, ZenonT(60)
  <2> QED
    BY <1>1, <2>1, <2>2, ZenonT(60)
<1>11. CASE handle_pending \/ TurnEnd
  <2>1. Stream' = Stream
    BY <1>11, MoveStream, ZenonT(60)
  <2>2. UNCHANGED <<free, msgs, awaiting>> /\ pc # "panic"
    BY <1>11, ZenonT(60) DEF handle_pending, TurnEnd
  <2> QED
    BY <1>1, <2>1, <2>2, ZenonT(60)
<1>12. CASE UNCHANGED <<cq, kq, sq, pending, free, msgs, awaiting>>
            /\ (pc' # "panic" => pc # "panic")
  <2>1. Stream' = Stream
    BY <1>12 DEF Stream, Completions
  <2> QED
    BY <1>1, <1>12, <2>1, ZenonT(60)
<1>13. \/ \E k \in 1 .. MaxBatchPuts : Stage2Send(k)
       \/ PollBatch \/ PlanFsync \/ ReapOk \/ ReapRetry \/ ReapDurable
       \/ ReapFatal \/ SubmitFails \/ handle_pending \/ TurnEnd
       \/ \E i : Startable(i) /\ \E r \in Int : Complete(i, r)
       \/ /\ UNCHANGED <<cq, kq, sq, pending, free, msgs, awaiting>>
          /\ pc' # "panic" => pc # "panic"
  <2>1. (\E i \in 1 .. RING_DEPTH, n \in Nat : KernelWrite(i, n)) =>
           \E i : Startable(i) /\ \E r \in Int : Complete(i, r)
    BY SMTT(60) DEF KernelWrite
  <2>2. (\E i \in 1 .. RING_DEPTH : FsyncEnd(i)) =>
           \E i : Startable(i) /\ \E r \in Int : Complete(i, r)
    BY SMTT(60) DEF FsyncEnd
  <2>3. (\E i \in 1 .. RING_DEPTH, err \in {EAGAIN, EIO} : KernelError(i, err)) =>
           \E i : Startable(i) /\ \E r \in Int : Complete(i, r)
    BY SMTT(60) DEF KernelError, EAGAIN, EIO
  <2>4. ASSUME \/ PollEmpty \/ Wake
               \/ \E i \in 1 .. RING_DEPTH : FsyncStart(i)
               \/ UNCHANGED vars
        PROVE  /\ UNCHANGED <<cq, kq, sq, pending, free, msgs, awaiting>>
               /\ pc' # "panic" => pc # "panic"
    BY <2>4, ZenonT(60) DEF PollEmpty, Wake, FsyncStart, vars
  <2> QED
    BY StepCases, <2>1, <2>2, <2>3, <2>4, ZenonT(60)
<1> QED
  BY <1>2, <1>3, <1>4, <1>5, <1>6, <1>7, <1>8, <1>9, <1>10, <1>11, <1>12, <1>13,
     ZenonT(60)

\* In terms of the four queues, as BuffersConserved counts them.
LEMMA BuffersCounted ==
    ASSUME SafetyInv, BufferInv
    PROVE  BuffersConserved
<1>1. /\ Completions \in Seq(IoWork) /\ Len(Completions) = Len(cq)
      /\ kq \in Seq(IoWork) /\ sq \in Seq(IoWork) /\ pending \in Seq(IoWork)
      /\ cq \in Seq(Cqe)
      /\ free \in Nat /\ msgs \in Seq(Batch) /\ awaiting \in Seq(Batch)
  BY StreamType, ZenonT(60) DEF SafetyInv, TypeOK
<1>2. OwnedIn(Completions, kq, sq, pending)
  BY <1>1, OwnedParts, Zenon
<1>3. WritesIn(Completions) = {i \in DOMAIN cq : cq[i].work.op = "Write"}
  <2>1. DOMAIN Completions = 1 .. Len(cq) /\ DOMAIN cq = 1 .. Len(cq)
    BY <1>1 DEF Completions
  <2>2. \A i \in DOMAIN cq : Completions[i] = cq[i].work
    BY <1>1 DEF Completions
  <2> QED
    BY <2>1, <2>2, ZenonT(60) DEF WritesIn
<1>4. Owned(Completions) = Cardinality({i \in DOMAIN cq : cq[i].work.op = "Write"})
  BY <1>3, Zenon DEF Owned
<1>5. Owned(Stream) = Owned(Completions) + Owned(kq) + Owned(sq) + Owned(pending)
  BY <1>2, ZenonT(60) DEF OwnedIn, Stream
<1>6. /\ Owned(Completions) \in Nat /\ Owned(kq) \in Nat /\ Owned(sq) \in Nat
      /\ Owned(pending) \in Nat
  BY <1>2 DEF OwnedIn
<1> SUFFICES ASSUME pc # "panic"
             PROVE  free + Len(msgs) + Len(awaiting) + Owned(pending) + Owned(sq)
                      + Owned(kq) + Owned(Completions) = N_BUFFERS
  BY <1>4, ZenonT(60) DEF Owned, BuffersConserved
<1>7. free + Len(msgs) + Len(awaiting) + Owned(Stream) = N_BUFFERS
  BY DEF BufferInv
<1>8. Len(msgs) \in Nat /\ Len(awaiting) \in Nat
  BY <1>1, SMTT(60)
<1> QED
  BY <1>1, <1>5, <1>6, <1>7, <1>8, SMTT(60)

\* At the start every buffer is free.
LEMMA BufferInit ==
    ASSUME Init
    PROVE  BufferInv
<1>1. Completions = <<>> /\ kq = <<>> /\ sq = <<>> /\ pending = <<>>
  BY DEF Init, Completions
<1>2. Stream = <<>>
  BY <1>1 DEF Stream
<1> QED
  BY <1>2, OwnedNone, SizeAssumption, SMTT(60) DEF Init, BufferInv

\* No batch buffer is ever lost or recycled twice, whatever is retried, queued
\* or in flight, until the engine panics.
THEOREM NoBufferIsLost == Spec => []BuffersConserved
<1>1. Init => BufferInv
  BY BufferInit
<1>2. SafetyInv /\ BufferInv /\ [Next]_vars => BufferInv'
  BY BufferStep
<1>3. SafetyInv /\ BufferInv => BuffersConserved
  BY BuffersCounted
<1> QED
  BY <1>1, <1>2, <1>3, SafetyInvariant, PTL DEF Spec
=============================================================================
