-------------------------- MODULE WalEngineLemmas --------------------------
(***************************************************************************)
(* Facts about the operators WalEngine is built from: what the bytes of a  *)
(* batch are, what a completion means, what a step takes and gives; and    *)
(* that every step preserves the types, the ring's bound and the LSN       *)
(* stream, the simpler conjuncts of SafetyInv.                             *)
(***************************************************************************)
EXTENDS WalEngine, TLAPS

USE DEF stage2Vars, planVars, streamVars, diskVars
-----------------------------------------------------------------------------
(***************************************************************************)
(* Sequences.                                                              *)
(***************************************************************************)

\* Taking the i-th operation out of the kernel's queue leaves the others, in
\* their order.
LEMMA WithoutProperties ==
    ASSUME NEW S, NEW s \in Seq(S), NEW i \in 1 .. Len(s)
    PROVE  /\ Without(s, i) \in Seq(S)
           /\ Len(Without(s, i)) = Len(s) - 1
           /\ \A j \in 1 .. i - 1 : Without(s, i)[j] = s[j]
<1> DEFINE a == SubSeq(s, 1, i - 1)
           b == SubSeq(s, i + 1, Len(s))
<1>1. /\ a \in Seq(S) /\ Len(a) = i - 1
      /\ \A j \in 1 .. i - 1 : a[j] = s[j]
  OBVIOUS
<1>2. b \in Seq(S) /\ Len(b) = Len(s) - i
  OBVIOUS
<1>3. Without(s, i) = a \o b
  BY DEF Without
<1> HIDE DEF a, b
<1>4. /\ a \o b \in Seq(S)
      /\ Len(a \o b) = Len(a) + Len(b)
      /\ \A j \in 1 .. Len(a) : (a \o b)[j] = a[j]
  BY <1>1, <1>2, SMTT(60)
<1> QED
  BY <1>1, <1>2, <1>3, <1>4, SMTT(60)

(***************************************************************************)
(* Bytes of a batch.                                                       *)
(***************************************************************************)

\* Size and Index are numbers.
LEMMA SizeIndexType ==
    ASSUME NEW w \in WriteOp
    PROVE  /\ Size(w) \in Int
           /\ w.low <= w.hi => Size(w) \in Nat
           /\ \A l \in Puts(w), p \in 0 .. RecSize - 1 :
                 Index(w, l, p) \in Nat /\ Index(w, l, p) < Size(w)
<1>1. ASSUME NEW x \in Nat, NEW y \in Nat
      PROVE  x * y \in Nat
  OBVIOUS
<1>2. Size(w) \in Int
  BY SizeAssumption DEF Size, WriteOp
<1>3. ASSUME w.low <= w.hi
      PROVE  Size(w) \in Nat
  <2>1. w.hi - w.low \in Nat
    BY <1>3 DEF WriteOp
  <2> QED
    BY <2>1, <1>1, SizeAssumption DEF Size
<1>4. ASSUME NEW l \in Puts(w), NEW p \in 0 .. RecSize - 1
      PROVE  Index(w, l, p) \in Nat /\ Index(w, l, p) < Size(w)
  <2>1. /\ l - w.low - 1 \in Nat
        /\ w.hi - l \in Nat
        /\ w.low \in Nat /\ w.hi \in Nat /\ l \in Int
        /\ RecSize \in Nat /\ p \in Nat /\ p < RecSize
    BY SizeAssumption DEF Puts, WriteOp
  <2>2. (l - w.low - 1) * RecSize \in Nat /\ (w.hi - l) * RecSize \in Nat
    BY <2>1, <1>1
  <2>3. Size(w) = (l - w.low - 1) * RecSize + RecSize + (w.hi - l) * RecSize
    BY <2>1 DEF Size
  <2> QED
    BY <2>1, <2>2, <2>3 DEF Index
<1> QED
  BY <1>2, <1>3, <1>4

\* What is in Bytes(w, from, to).
LEMMA BytesElements ==
    ASSUME NEW w, NEW from, NEW to, NEW c
    PROVE  c \in Bytes(w, from, to) <=>
             \E l \in Puts(w), p \in 0 .. RecSize - 1 :
                /\ c = <<w.off + Index(w, l, p), l, p>>
                /\ from <= Index(w, l, p)
                /\ Index(w, l, p) < to
<1> DEFINE D == { d \in Puts(w) \X (0 .. RecSize - 1) :
                    from <= Index(w, d[1], d[2]) /\ Index(w, d[1], d[2]) < to }
           F(d) == <<w.off + Index(w, d[1], d[2]), d[1], d[2]>>
<1>1. c \in Bytes(w, from, to) <=> \E d \in D : c = F(d)
  BY Zenon DEF Bytes
<1>2. \A l \in Puts(w), p \in 0 .. RecSize - 1 :
         from <= Index(w, l, p) /\ Index(w, l, p) < to
           => <<l, p>> \in D /\ F(<<l, p>>) = <<w.off + Index(w, l, p), l, p>>
  OBVIOUS
<1>3. \A d \in D : /\ d[1] \in Puts(w)
                   /\ d[2] \in 0 .. RecSize - 1
                   /\ from <= Index(w, d[1], d[2])
                   /\ Index(w, d[1], d[2]) < to
                   /\ F(d) = <<w.off + Index(w, d[1], d[2]), d[1], d[2]>>
  OBVIOUS
<1> HIDE DEF D, F
<1> QED
  BY <1>1, <1>2, <1>3, ZenonT(60)

\* A work item is a write or an fsync, as its op says.
LEMMA WorkKinds ==
    ASSUME NEW w \in IoWork
    PROVE  /\ w.op = "Write" => w \in WriteOp
           /\ w.op # "Write" => w.op = "Fsync" /\ w \in FsyncOp
  BY DEF IoWork, WriteOp, FsyncOp

\* The bytes of a batch are triples of numbers.
LEMMA BytesType ==
    ASSUME NEW w \in WriteOp, NEW from, NEW to
    PROVE  Bytes(w, from, to) \subseteq (Nat \X Nat \X Nat)
<1> SUFFICES ASSUME NEW c \in Bytes(w, from, to)
             PROVE  c \in Nat \X Nat \X Nat
  OBVIOUS
<1>1. PICK l \in Puts(w), p \in 0 .. RecSize - 1 :
         c = <<w.off + Index(w, l, p), l, p>>
  BY BytesElements
<1>2. Index(w, l, p) \in Nat
  BY SizeIndexType
<1>3. l \in Nat /\ p \in Nat /\ w.off \in Nat
  BY SizeAssumption DEF Puts, WriteOp
<1> QED
  BY <1>1, <1>2, <1>3

\* The bytes up to a, and the ones from there.
LEMMA BytesSplit ==
    ASSUME NEW w \in WriteOp, NEW a \in Nat, NEW b
    PROVE  Bytes(w, 0, b) \subseteq Bytes(w, 0, a) \cup Bytes(w, a, b)
<1> SUFFICES ASSUME NEW c \in Bytes(w, 0, b), c \notin Bytes(w, 0, a)
             PROVE  c \in Bytes(w, a, b)
  OBVIOUS
<1>1. PICK l \in Puts(w), p \in 0 .. RecSize - 1 :
         c = <<w.off + Index(w, l, p), l, p>> /\ Index(w, l, p) < b
  BY BytesElements
<1>2. Index(w, l, p) \in Nat
  BY SizeIndexType
<1>3. ~ (Index(w, l, p) < a)
  <2>1. 0 <= Index(w, l, p)
    BY <1>2
  <2> QED
    BY <1>1, <2>1, BytesElements
<1>4. a <= Index(w, l, p)
  BY <1>2, <1>3
<1> QED
  BY <1>1, <1>4, BytesElements

\* A write that got to the end of its batch has put every record there.
LEMMA BytesWhole ==
    ASSUME NEW w \in WriteOp, NEW to \in Int, Size(w) <= to,
           NEW S, Bytes(w, 0, to) \subseteq S
    PROVE  \A l \in Puts(w) : Recorded(l, S)
<1> SUFFICES ASSUME NEW l \in Puts(w), NEW p \in 0 .. RecSize - 1
             PROVE  \E c \in S : c[2] = l /\ c[3] = p
  BY DEF Recorded
<1> DEFINE c == <<w.off + Index(w, l, p), l, p>>
<1>1. 0 <= Index(w, l, p) /\ Index(w, l, p) < to
  BY SizeIndexType
<1>2. c \in Bytes(w, 0, to)
  BY <1>1, BytesElements
<1>3. c \in S /\ c[2] = l /\ c[3] = p
  BY <1>2
<1> QED
  BY <1>3

\* Bytes written at their place satisfy Layout.
LEMMA BytesAtTheirPlace ==
    ASSUME NEW w \in WriteOp, Placed(w), ingested \in Nat, offset \in Nat,
           NEW from, NEW to, NEW c \in Bytes(w, from, to)
    PROVE  /\ c[2] <= ingested
           /\ c[1] + (ingested - c[2] + 1) * RecSize = offset + c[3]
<1>1. PICK l \in Puts(w), p \in 0 .. RecSize - 1 :
         c = <<w.off + Index(w, l, p), l, p>>
  BY BytesElements
<1>2. /\ w.low \in Nat /\ w.hi \in Nat /\ w.off \in Nat
      /\ RecSize \in Nat /\ l \in Nat /\ p \in Nat /\ l <= w.hi
  BY SizeAssumption DEF WriteOp, Puts
<1>3. w.hi <= ingested /\ w.off + (ingested - w.low) * RecSize = offset
  BY DEF Placed, WriteOp
<1> DEFINE x == (l - w.low - 1) * RecSize
           y == (ingested - l + 1) * RecSize
           z == (ingested - w.low) * RecSize
<1>4. x \in Int /\ y \in Int /\ z \in Int /\ x + y = z
  BY <1>2
<1>5. Index(w, l, p) = x + p /\ w.off + z = offset
  BY <1>3 DEF Index
<1> HIDE DEF x, y, z
<1>6. c[1] = w.off + Index(w, l, p) /\ c[2] = l /\ c[3] = p
  BY <1>1
<1>7. w.off + Index(w, l, p) + y = offset + p
  BY <1>2, <1>4, <1>5
<1> QED
  BY <1>2, <1>3, <1>6, <1>7 DEF y

\* More bytes record more.
LEMMA RecordedGrows ==
    ASSUME NEW S, NEW T, S \subseteq T, NEW l, Recorded(l, S)
    PROVE  Recorded(l, T)
  BY DEF Recorded
-----------------------------------------------------------------------------
(***************************************************************************)
(* Completions.                                                            *)
(***************************************************************************)

\* What a verdict says of the completion.
LEMMA VerdictFacts ==
    ASSUME NEW w \in IoWork, NEW r \in Int
    PROVE  /\ Verdict(w, r) = "Ok" =>
                 w.op = "Write" /\ r >= 0 /\ w.done + r >= Size(w)
           /\ Verdict(w, r) = "Retry" => w.op = "Write"
           /\ Verdict(w, r) = "Durable" => w.op = "Fsync" /\ r >= 0
<1>1. CASE w.op = "Fsync"
  BY <1>1 DEF Verdict
<1>2. CASE w.op # "Fsync"
  <2>1. w \in WriteOp /\ w.op = "Write"
    BY <1>2, WorkKinds
  <2>2. Size(w) \in Int /\ w.done \in Nat
    BY <2>1, SizeIndexType DEF WriteOp
  <2> QED
    BY <1>2, <2>1, <2>2 DEF Verdict, EAGAIN
<1> QED
  BY <1>1, <1>2

\* Progress changes done, and nothing else.
LEMMA ProgressFacts ==
    ASSUME NEW w \in WriteOp, NEW r \in Int
    PROVE  LET v == Progress(w, r)
           IN  /\ v \in WriteOp
               /\ v.op = "Write"
               /\ v.low = w.low /\ v.hi = w.hi /\ v.off = w.off
               /\ v.done = IF r >= 0 THEN w.done + r ELSE w.done
               /\ Size(v) = Size(w)
               /\ \A from, to : Bytes(v, from, to) = Bytes(w, from, to)
<1>1. LET v == Progress(w, r)
      IN  /\ v \in WriteOp
          /\ v.op = "Write"
          /\ v.low = w.low /\ v.hi = w.hi /\ v.off = w.off
          /\ v.done = IF r >= 0 THEN w.done + r ELSE w.done
  BY DEF Progress, WriteOp
<1>2. Size(Progress(w, r)) = Size(w)
  BY <1>1 DEF Size
<1>3. ASSUME NEW from, NEW to
      PROVE  Bytes(Progress(w, r), from, to) = Bytes(w, from, to)
  BY <1>1, Zenon DEF Bytes, Puts, Index
<1> QED
  BY <1>1, <1>2, <1>3

\* The same for a result that is a number of bytes: they are added to done.
LEMMA ProgressByBytes ==
    ASSUME NEW w \in WriteOp, NEW r \in Int, r >= 0
    PROVE  /\ Progress(w, r) \in WriteOp
           /\ Progress(w, r).op = "Write"
           /\ Progress(w, r).low = w.low
           /\ Progress(w, r).hi = w.hi
           /\ Progress(w, r).off = w.off
           /\ Progress(w, r).done = w.done + r
           /\ Size(Progress(w, r)) = Size(w)
           /\ \A to : Bytes(Progress(w, r), 0, to) = Bytes(w, 0, to)
<1> DEFINE v == Progress(w, r)
<1>1. /\ v \in WriteOp /\ v.op = "Write" /\ v.low = w.low /\ v.hi = w.hi
      /\ v.off = w.off /\ Size(v) = Size(w)
      /\ v.done = IF r >= 0 THEN w.done + r ELSE w.done
  BY ProgressFacts
<1>2. \A to : Bytes(v, 0, to) = Bytes(w, 0, to)
  BY ProgressFacts
<1> HIDE DEF v
<1>3. v.done = w.done + r
  BY <1>1
<1> QED
  BY <1>1, <1>2, <1>3, Zenon DEF v

\* What the completion of a whole write has put in a set that holds its bytes.
LEMMA OkRecorded ==
    ASSUME NEW w \in IoWork, NEW r \in Int, Verdict(w, r) = "Ok",
           NEW S, Bytes(w, 0, Progress(w, r).done) \subseteq S
    PROVE  \A l \in Puts(w) : Recorded(l, S)
<1>1. w.op = "Write" /\ r >= 0 /\ w.done + r >= Size(w)
  BY VerdictFacts
<1>2. w \in WriteOp
  BY <1>1, WorkKinds
<1>3. Progress(w, r).done = w.done + r
  BY <1>1, <1>2, ProgressFacts
<1>4. w.done + r \in Int /\ Size(w) <= w.done + r
  BY <1>1, <1>2, SizeIndexType DEF WriteOp
<1> QED
  BY <1>2, <1>3, <1>4, BytesWhole

\* The bytes behind a completion are in the page cache.
LEMMA CqeCached ==
    ASSUME NEW c \in GoodCqe, c.work.op = "Write"
    PROVE  Bytes(c.work, 0, Progress(c.work, c.res).done) \subseteq cache
<1> DEFINE v == Progress(c.work, c.res)
<1>1. c.work \in WriteOp /\ c.res \in Int
  BY WorkKinds DEF GoodCqe, Cqe
<1>2. v.op = "Write" /\ Bytes(v, 0, v.done) = Bytes(c.work, 0, v.done)
  BY <1>1, ProgressFacts
<1>3. Placed(v)
  BY DEF GoodCqe
<1> HIDE DEF v
<1>4. Bytes(c.work, 0, v.done) \subseteq cache
  BY <1>2, <1>3 DEF Placed
<1> QED
  BY <1>4 DEF v

\* From<Mode> for AckLevel.
LEMMA AckLevelValues == AckLevel \in {Applied, Written, Durable}
<1>1. CASE Mode = "NoFsync"
  BY <1>1 DEF AckLevel
<1>2. CASE Mode = "Async"
  BY <1>2 DEF AckLevel
<1>3. CASE Mode = "Sync"
  BY <1>3 DEF AckLevel
<1> QED
  BY <1>1, <1>2, <1>3, ModeAssumption

\* The completion that reap_cqes takes.
LEMMA ReapFacts ==
    ASSUME SafetyInv, NEW v, Reap(v)
    PROVE  /\ cq # <<>>
           /\ Head(cq) = cq[1]
           /\ cq[1] \in GoodCqe
           /\ cq[1].work \in IoWork
           /\ cq[1].res \in Int
           /\ Verdict(cq[1].work, cq[1].res) = v
           /\ cq' \in Seq(GoodCqe)
           /\ cq' \in Seq(Cqe)
           /\ Len(cq') = Len(cq) - 1
           /\ \A i \in 1 .. Len(cq') : cq'[i] = cq[i + 1]
           /\ left' = left - 1
           /\ left \in Nat /\ left > 0
<1>1. /\ cq \in Seq(GoodCqe)
      /\ cq \in Seq(Cqe)
      /\ left \in Nat /\ left <= Len(cq)
  BY DEF SafetyInv, Works, TypeOK, RingBound
<1>2. left > 0 /\ left' = left - 1 /\ cq' = Tail(cq)
      /\ Verdict(Head(cq).work, Head(cq).res) = v
  BY DEF Reap
<1>3. cq # <<>> /\ Head(cq) = cq[1]
  BY <1>1, <1>2
<1>4. cq[1] \in GoodCqe /\ cq[1] \in Cqe
  BY <1>1, <1>2
<1>5. /\ Tail(cq) \in Seq(GoodCqe) /\ Tail(cq) \in Seq(Cqe)
      /\ Len(Tail(cq)) = Len(cq) - 1
      /\ \A i \in 1 .. Len(Tail(cq)) : Tail(cq)[i] = cq[i + 1]
  BY <1>1, <1>3
<1> QED
  BY <1>1, <1>2, <1>3, <1>4, <1>5 DEF Cqe

\* A completion moves one operation from the kernel to the completion queue.
LEMMA CompleteFacts ==
    ASSUME SafetyInv, NEW i, Startable(i), NEW r \in Int, Complete(i, r)
    PROVE  /\ i \in 1 .. Len(kq)
           /\ kq[i] \in GoodWork
           /\ kq[i] \in IoWork
           /\ kq' \in Seq(GoodWork)
           /\ kq' \in Seq(IoWork)
           /\ Len(kq') = Len(kq) - 1
           /\ i > 1 => kq'[1] = kq[1]
           /\ cq' = Append(cq, [work |-> kq[i], res |-> r])
           /\ cq' \in Seq(Cqe)
           /\ Len(cq') = Len(cq) + 1
           /\ \A j \in 1 .. Len(cq) : cq'[j] = cq[j]
           /\ cq'[Len(cq')] = [work |-> kq[i], res |-> r]
<1>1. kq \in Seq(GoodWork) /\ kq \in Seq(IoWork) /\ cq \in Seq(Cqe)
  BY DEF SafetyInv, Works, TypeOK
<1>2. i \in 1 .. Len(kq) /\ kq[i] \in GoodWork /\ kq[i] \in IoWork
  BY <1>1 DEF Startable
<1>3. kq' = Without(kq, i) /\ cq' = Append(cq, [work |-> kq[i], res |-> r])
  BY DEF Complete
<1>4. [work |-> kq[i], res |-> r] \in Cqe
  BY <1>2 DEF Cqe
<1>5. /\ kq' \in Seq(GoodWork) /\ kq' \in Seq(IoWork)
      /\ Len(kq') = Len(kq) - 1
      /\ \A j \in 1 .. i - 1 : kq'[j] = kq[j]
  BY <1>1, <1>2, <1>3, WithoutProperties, Zenon
<1>6. i > 1 => kq'[1] = kq[1]
  BY <1>2, <1>5
<1> QED
  BY <1>1, <1>2, <1>3, <1>4, <1>5, <1>6

\* IO_DRAIN: while an fsync runs, the kernel starts nothing else.
LEMMA DrainFacts ==
    ASSUME SafetyInv, NEW i, Startable(i), syncOn
    PROVE  i = 1 /\ kq[i].op = "Fsync" /\ syncing = cache
<1>1. kq \in Seq(IoWork) /\ kq # <<>> /\ kq[1].op = "Fsync" /\ syncing = cache
  BY DEF SafetyInv, TypeOK, FsyncAlone
<1>2. i \in 1 .. Len(kq) /\ \A j \in 1 .. i - 1 : kq[j].op # "Fsync"
  BY <1>1 DEF Startable
<1> QED
  BY <1>1, <1>2
-----------------------------------------------------------------------------
(***************************************************************************)
(* Steps.                                                                  *)
(***************************************************************************)

\* The steps of Next, one by one.
LEMMA StepCases ==
    ASSUME [Next]_vars
    PROVE  \/ \E k \in 1 .. MaxBatchPuts : Stage2Send(k)
           \/ PollBatch \/ PollEmpty \/ PlanFsync \/ handle_pending
           \/ ReapOk \/ ReapRetry \/ ReapDurable \/ ReapFatal
           \/ TurnEnd \/ SubmitFails \/ Wake
           \/ \E i \in 1 .. RING_DEPTH, n \in Nat : KernelWrite(i, n)
           \/ \E i \in 1 .. RING_DEPTH : FsyncStart(i)
           \/ \E i \in 1 .. RING_DEPTH : FsyncEnd(i)
           \/ \E i \in 1 .. RING_DEPTH, err \in {EAGAIN, EIO} : KernelError(i, err)
           \/ UNCHANGED vars
<1>1. \A n : n \in 0 .. MaxBatchPuts * RecSize => n \in Nat
  BY SizeAssumption
<1> QED
  BY <1>1, Zenon
     DEF Next, Stage2, Engine, Kernel, KernelFault, Completed, Interrupted

\* The batch at the head of the channel continues the stream: the assertion of
\* handle_batch holds.
LEMMA HeadBatch ==
    ASSUME SafetyInv, msgs # <<>>
    PROVE  /\ Head(msgs) = msgs[1]
           /\ Head(msgs) \in Batch
           /\ Head(msgs).low = ingested
           /\ Head(msgs).low < Head(msgs).hi
           /\ Size(Head(msgs)) \in Nat
<1>1. msgs \in Seq(Batch)
  BY DEF SafetyInv, TypeOK
<1>2. 1 \in 1 .. Len(msgs) /\ Head(msgs) = msgs[1] /\ msgs[1] \in Batch
  BY <1>1
<1>3. msgs[1].low = ingested /\ msgs[1].low < msgs[1].hi
  BY <1>2 DEF SafetyInv, StreamGapless
<1>4. Size(msgs[1]) \in Nat
  <2>1. msgs[1].hi - msgs[1].low \in Nat
    BY <1>2, <1>3 DEF Batch
  <2>2. \A x, y \in Nat : x * y \in Nat
    OBVIOUS
  <2> QED
    BY <2>1, <2>2, SizeAssumption DEF Size
<1> QED
  BY <1>2, <1>3, <1>4

\* What PollBatch does to the stream.
LEMMA PollBatchFacts ==
    ASSUME SafetyInv, PollBatch
    PROVE  LET b == Head(msgs)
           IN  /\ b \in Batch
               /\ b.low = ingested /\ b.low < b.hi
               /\ ingested' = b.hi
               /\ offset' = offset + Size(b)
               /\ Size(b) = (ingested' - ingested) * RecSize
               /\ Size(b) \in Nat
               /\ pending' = Append(pending, [op |-> "Write", low |-> b.low,
                                              hi |-> b.hi, off |-> offset,
                                              done |-> 0])
<1>1. msgs # <<>> /\ handle_batch(Head(msgs))
  BY DEF PollBatch
<1>2. /\ Head(msgs) \in Batch
      /\ Head(msgs).low = ingested /\ Head(msgs).low < Head(msgs).hi
      /\ Size(Head(msgs)) \in Nat
  BY <1>1, HeadBatch
<1> QED
  BY <1>1, <1>2 DEF handle_batch, Size

\* Products distribute over an interval cut in two.
LEMMA Cut ==
    ASSUME NEW x \in Int, NEW y \in Int, NEW z \in Int, NEW r \in Int
    PROVE  /\ (x - y) * r + (y - z) * r = (x - z) * r
           /\ (x - y) * r \in Int
  OBVIOUS

\* A write at its place stays there, and the page cache only grows.
LEMMA PlacedStays ==
    ASSUME SafetyInv, [Next]_vars
    PROVE  /\ cache \subseteq cache'
           /\ stable \subseteq stable'
           /\ \A w \in IoWork : Placed(w) => Placed(w)'
<1>0. ingested \in Nat /\ offset \in Nat /\ RecSize \in Nat
  BY SizeAssumption DEF SafetyInv, TypeOK
<1>1. CASE PollBatch
  <2>1. cache' = cache /\ stable' = stable
    BY <1>1 DEF PollBatch
  <2> SUFFICES ASSUME NEW w \in IoWork, Placed(w), w.op = "Write"
               PROVE  Placed(w)'
    BY <2>1 DEF Placed
  <2> DEFINE n == Size(Head(msgs))
  <2>2. /\ n \in Nat /\ offset' = offset + n
        /\ n = (ingested' - ingested) * RecSize
        /\ ingested' \in Nat /\ ingested < ingested'
    BY <1>1, PollBatchFacts DEF Batch
  <2>3. w.low \in Nat /\ w.hi \in Nat /\ w.off \in Nat
    BY WorkKinds DEF WriteOp
  <2>4. w.off + (ingested - w.low) * RecSize = offset /\ w.hi <= ingested
    BY DEF Placed
  <2> HIDE DEF n
  <2>5. w.off + (ingested' - w.low) * RecSize = offset'
    <3> DEFINE x == (ingested - w.low) * RecSize
               y == (ingested' - w.low) * RecSize
    <3>1. n + x = y /\ x \in Int /\ y \in Int
      BY <1>0, <2>2, <2>3, Cut
    <3>2. w.off + x = offset
      BY <2>4
    <3>3. n \in Nat /\ offset' = offset + n
      BY <2>2
    <3> HIDE DEF x, y
    <3>4. w.off + y = offset'
      BY <1>0, <2>3, <3>1, <3>2, <3>3
    <3> QED
      BY <3>4 DEF y
  <2>6. w.hi <= ingested'
    BY <1>0, <2>2, <2>3, <2>4
  <2> QED
    BY <2>1, <2>5, <2>6 DEF Placed
<1>2. CASE ingested' = ingested /\ offset' = offset
           /\ cache \subseteq cache' /\ stable \subseteq stable'
  BY <1>2 DEF Placed
<1>3. \/ PollBatch
      \/ ingested' = ingested /\ offset' = offset
         /\ cache \subseteq cache' /\ stable \subseteq stable'
  BY StepCases, ZenonT(60)
     DEF Stage2Send, PollEmpty, PlanFsync, handle_pending, ReapOk, ReapRetry,
         ReapDurable, ReapFatal, TurnEnd, SubmitFails, Wake, KernelWrite,
         FsyncStart, FsyncEnd, KernelError, Complete, vars
<1> QED
  BY <1>1, <1>2, <1>3

\* So the works, completions and batches that were good stay good.
LEMMA GoodStays ==
    ASSUME SafetyInv, [Next]_vars
    PROVE  /\ GoodWork \subseteq GoodWork'
           /\ GoodCqe \subseteq GoodCqe'
           /\ GoodBatch \subseteq GoodBatch'
           /\ \A s \in Seq(GoodWork) : s \in Seq(GoodWork')
           /\ \A s \in Seq(GoodCqe) : s \in Seq(GoodCqe')
           /\ \A s \in Seq(GoodBatch) : s \in Seq(GoodBatch')
<1>1. GoodWork \subseteq GoodWork'
  BY PlacedStays DEF GoodWork
<1>2. ASSUME NEW c \in GoodCqe
      PROVE  c \in GoodCqe'
  <2>1. c \in Cqe /\ c.work \in IoWork /\ c.res \in Int /\ Placed(c.work)
    BY ZenonT(60) DEF GoodCqe, Cqe
  <2>2. c.work.op = "Write" =>
           /\ Placed(Progress(c.work, c.res))
           /\ Progress(c.work, c.res) \in IoWork
    BY <2>1, WorkKinds, ProgressFacts DEF GoodCqe, IoWork
  <2> QED
    BY <2>1, <2>2, PlacedStays DEF GoodCqe
<1>3. GoodBatch \subseteq GoodBatch'
  BY PlacedStays DEF GoodBatch, Recorded
<1>4. \A S, T : S \subseteq T => \A s \in Seq(S) : s \in Seq(T)
  OBVIOUS
<1> QED
  BY <1>1, <1>2, <1>3, <1>4, Zenon
-----------------------------------------------------------------------------
(***************************************************************************)
(* Types, ring and stream.                                                 *)
(***************************************************************************)

\* Every step of stage 2, the WAL thread and the kernel keeps the types; the
\* dirty count of a retried write in reap_cqes is where they could break.
LEMMA TypeStep ==
    ASSUME SafetyInv, [Next]_vars
    PROVE  TypeOK'
<1> USE SizeAssumption
<1>0. TypeOK
  BY DEF SafetyInv
<1>1. ASSUME NEW k \in 1 .. MaxBatchPuts, Stage2Send(k)
      PROVE  TypeOK'
  <2>1. [low |-> lsn, hi |-> lsn + k] \in Batch
    BY <1>0 DEF TypeOK, Batch
  <2>2. acked' \subseteq Nat
    BY <1>0, <1>1 DEF TypeOK, Stage2Send, advance
  <2> QED
    BY <1>0, <1>1, <2>1, <2>2, SMTT(60) DEF TypeOK, Stage2Send
<1>2. CASE PollBatch
  <2>1. msgs # <<>> /\ Head(msgs) \in Batch /\ msgs' \in Seq(Batch)
    BY <1>0, <1>2, SMTT(60) DEF TypeOK, PollBatch
  <2> DEFINE b == Head(msgs)
             w == [op |-> "Write", low |-> b.low, hi |-> b.hi, off |-> offset,
                   done |-> 0]
  <2>2. w \in IoWork
    BY <1>0, <2>1, ZenonT(60) DEF IoWork, WriteOp, Batch, TypeOK
  <2>3. b.low = ingested /\ b.hi \in Nat /\ Size(b) \in Nat
    BY <2>1, HeadBatch DEF Batch
  <2>4. Append(pending, w) \in Seq(IoWork)
    BY <1>0, <2>2, SMTT(60) DEF TypeOK
  <2>5. /\ ingested' = b.hi
        /\ offset' = offset + Size(b)
        /\ dirty' = dirty + Size(b)
        /\ pending' = Append(pending, w)
        /\ spin' = SPIN_BUDGET
        /\ pc' = "plan"
        /\ flushing' = flushing
    BY <1>2, <2>3 DEF PollBatch, handle_batch
  <2> HIDE DEF w, b
  <2>6. ingested' \in Nat /\ offset' \in Nat /\ dirty' \in Nat
    <3>1. offset \in Nat /\ dirty \in Nat
      BY <1>0 DEF TypeOK
    <3> QED
      BY <2>3, <2>5, <3>1, SMTT(60)
  <2>7. UNCHANGED <<stage2Vars, left, awaiting, sq, kq, cq, diskVars, acked,
                    faults>>
    BY <1>2 DEF PollBatch
  <2>8. spin' \in 0 .. SPIN_BUDGET
    BY <2>5
  <2> QED
    BY <1>0, <2>1, <2>4, <2>5, <2>6, <2>7, <2>8, Zenon DEF TypeOK
<1>3. CASE PollEmpty
  BY <1>0, <1>3, SMTT(60) DEF TypeOK, PollEmpty
<1>4. CASE PlanFsync
  <2> DEFINE f == [op |-> "Fsync", lsn |-> ingested]
  <2>1. f \in IoWork
    BY <1>0 DEF IoWork, FsyncOp, TypeOK
  <2>2. dirty' \in Nat /\ pending' \in Seq(IoWork)
    <3>1. CASE FsyncDue
      <4>1. dirty' = 0 /\ pending' = Append(pending, f)
        BY <1>4, <3>1 DEF PlanFsync
      <4> HIDE DEF f
      <4> QED
        BY <1>0, <2>1, <4>1 DEF TypeOK
    <3>2. CASE ~FsyncDue
      BY <1>0, <1>4, <3>2 DEF TypeOK, PlanFsync
    <3> QED
      BY <3>1, <3>2
  <2>3. flushing' \in BOOLEAN
    BY <1>0, <1>4, Zenon DEF TypeOK, PlanFsync
  <2> QED
    BY <1>0, <1>4, <2>2, <2>3, ZenonT(60) DEF TypeOK, PlanFsync
<1>5. CASE handle_pending
  <2>1. PICK n \in 0 .. Len(pending) :
           /\ sq' = sq \o SubSeq(pending, 1, n)
           /\ pending' = SubSeq(pending, n + 1, Len(pending))
    <3> DEFINE room == RING_DEPTH - Inflight
               m == IF Len(pending) <= room THEN Len(pending) ELSE room
    <3>1. room \in Nat /\ Len(pending) \in Nat
      BY <1>0 DEF TypeOK, Inflight, SafetyInv, RingBound
    <3>2. m \in 0 .. Len(pending)
      BY <3>1
    <3>3. /\ sq' = sq \o SubSeq(pending, 1, m)
          /\ pending' = SubSeq(pending, m + 1, Len(pending))
      BY <1>5 DEF handle_pending
    <3> QED
      BY <3>2, <3>3, ZenonT(60)
  <2>2. sq' \in Seq(IoWork) /\ pending' \in Seq(IoWork)
    BY <1>0, <2>1, SMTT(60) DEF TypeOK
  <2>3. left' \in Nat /\ pc' = "reap"
    BY <1>0, <1>5 DEF TypeOK, handle_pending
  <2> QED
    BY <1>0, <1>5, <2>2, <2>3, Zenon DEF TypeOK, handle_pending
<1>6. CASE ReapOk
  <2> DEFINE w == cq[1].work
             b == [low |-> w.low, hi |-> w.hi]
  <2>1. Reap("Ok")
    BY <1>6, ZenonT(60) DEF ReapOk
  <2>2. w \in WriteOp
    BY <2>1, ReapFacts, VerdictFacts, WorkKinds, ZenonT(60)
  <2>3. b \in Batch /\ Puts(w) \subseteq Nat
    BY <2>2, SMTT(60) DEF WriteOp, Batch, Puts
  <2>4. /\ acked' = advance(Puts(w), Written)
        /\ \/ free' = free + 1 /\ awaiting' = awaiting
           \/ awaiting' = Append(awaiting, b) /\ free' = free
    <3>1. Head(cq) = cq[1]
      BY <2>1, ReapFacts
    <3> QED
      BY <1>6, <3>1 DEF ReapOk
  <2> HIDE DEF w, b
  <2>5. acked' \subseteq Nat /\ free' \in Nat /\ awaiting' \in Seq(Batch)
    <3>1. acked' \subseteq Nat
      BY <1>0, <2>3, <2>4, Zenon DEF TypeOK, advance
    <3>2. free' \in Nat /\ awaiting' \in Seq(Batch)
      <4>1. free \in Nat /\ awaiting \in Seq(Batch)
        BY <1>0 DEF TypeOK
      <4>2. Append(awaiting, b) \in Seq(Batch)
        BY <2>3, <4>1
      <4>3. free + 1 \in Nat
        BY <4>1
      <4> QED
        BY <2>4, <4>1, <4>2, <4>3, Zenon
    <3> QED
      BY <3>1, <3>2
  <2>6. cq' \in Seq(Cqe) /\ left' \in Nat
    BY <2>1, ReapFacts, SMTT(60)
  <2>7. UNCHANGED <<lsn, msgs, pc, spin, pending, planVars, streamVars, sq, kq,
                    diskVars, faults>>
    BY <1>6, ZenonT(60) DEF ReapOk
  <2> QED
    BY <1>0, <2>5, <2>6, <2>7, Zenon DEF TypeOK
<1>7. CASE ReapRetry
  <2> DEFINE w == Progress(cq[1].work, cq[1].res)
  <2>1. Reap("Retry")
    BY <1>7, ZenonT(60) DEF ReapRetry
  <2>2. cq[1].work \in WriteOp /\ cq[1].work.op = "Write" /\ cq[1].res \in Int
    BY <2>1, ReapFacts, VerdictFacts, WorkKinds
  <2>3. Placed(w)
    BY <2>1, <2>2, ReapFacts, ZenonT(60) DEF GoodCqe
  <2>4. w \in IoWork /\ w.done <= Size(w) /\ w.done \in Nat /\ Size(w) \in Int
    <3>1. w \in WriteOp /\ w.op = "Write"
      BY <2>2, ProgressFacts, ZenonT(60)
    <3> QED
      BY <2>3, <3>1, SizeIndexType, ZenonT(60) DEF Placed, IoWork, WriteOp
  <2>5. dirty' = dirty + (Size(w) - w.done) /\ pending' = <<w>> \o pending
    BY <1>7, <2>1, ReapFacts, ZenonT(60) DEF ReapRetry
  <2> HIDE DEF w
  <2>6. dirty' \in Nat /\ pending' \in Seq(IoWork)
    <3>1. dirty \in Nat /\ pending \in Seq(IoWork)
      BY <1>0 DEF TypeOK
    <3> QED
      BY <2>4, <2>5, <3>1
  <2>7. cq' \in Seq(Cqe) /\ left' \in Nat
    BY <2>1, ReapFacts, SMTT(60)
  <2>8. UNCHANGED <<stage2Vars, msgs, pc, spin, awaiting, flushing, streamVars,
                    sq, kq, diskVars, acked, faults>>
    BY <1>7, ZenonT(60) DEF ReapRetry
  <2> QED
    BY <1>0, <2>6, <2>7, <2>8, ZenonT(60) DEF TypeOK
<1>8. CASE ReapDurable
  <2>1. Reap("Durable")
    BY <1>8 DEF ReapDurable
  <2>2. ASSUME NEW i \in DOMAIN awaiting
        PROVE  Puts(awaiting[i]) \subseteq Nat
    <3>1. awaiting[i] \in Batch
      BY <1>0 DEF TypeOK
    <3> QED
      BY <3>1 DEF Batch, Puts
  <2>3. acked' \subseteq Nat
    BY <1>0, <1>8, <2>2, ZenonT(60) DEF TypeOK, ReapDurable, advance
  <2>4. free' \in Nat /\ awaiting' \in Seq(Batch)
    BY <1>0, <1>8 DEF TypeOK, ReapDurable
  <2>5. flushing' \in BOOLEAN
    BY <1>8, ZenonT(60) DEF ReapDurable
  <2>6. cq' \in Seq(Cqe) /\ left' \in Nat
    BY <2>1, ReapFacts, SMTT(60)
  <2> QED
    BY <1>0, <1>8, <2>3, <2>4, <2>5, <2>6, ZenonT(60) DEF TypeOK, ReapDurable
<1>9. CASE ReapFatal
  <2>1. Reap("Fatal")
    BY <1>9 DEF ReapFatal
  <2>2. cq' \in Seq(Cqe) /\ left' \in Nat
    BY <2>1, ReapFacts
  <2> QED
    BY <1>0, <1>9, <2>2, ZenonT(60) DEF TypeOK, ReapFatal
<1>10. CASE TurnEnd
  <2>1. kq \o sq \in Seq(IoWork)
    BY <1>0, SMTT(60) DEF TypeOK
  <2> QED
    BY <1>0, <1>10, <2>1 DEF TypeOK, TurnEnd
<1>11. CASE SubmitFails
  BY <1>0, <1>11, SMTT(60) DEF TypeOK, SubmitFails
<1>12. CASE Wake
  BY <1>0, <1>12, ZenonT(60) DEF TypeOK, Wake
<1>13. ASSUME NEW i \in 1 .. RING_DEPTH, NEW n \in Nat, KernelWrite(i, n)
       PROVE  TypeOK'
  <2>1. Startable(i) /\ Complete(i, n) /\ kq[i].op = "Write" /\ n \in Int
    BY <1>13, SMTT(60) DEF KernelWrite
  <2>2. kq[i] \in IoWork /\ kq' \in Seq(IoWork) /\ cq' \in Seq(Cqe)
    BY <2>1, CompleteFacts, ZenonT(60)
  <2>3. kq[i] \in WriteOp
    BY <2>1, <2>2, WorkKinds, ZenonT(60)
  <2>4. cache' \subseteq (Nat \X Nat \X Nat)
    <3>1. Bytes(kq[i], kq[i].done, kq[i].done + n) \subseteq (Nat \X Nat \X Nat)
      BY <2>3, BytesType, ZenonT(60)
    <3> QED
      BY <1>0, <1>13, <3>1, ZenonT(60) DEF TypeOK, KernelWrite
  <2>5. faults' \in 0 .. MaxFaults
    BY <1>0, <1>13, SMTT(60) DEF TypeOK, KernelWrite
  <2> QED
    BY <1>0, <1>13, <2>2, <2>4, <2>5, Zenon DEF TypeOK, KernelWrite, Complete
<1>14. ASSUME NEW i \in 1 .. RING_DEPTH, FsyncStart(i)
       PROVE  TypeOK'
  BY <1>0, <1>14 DEF TypeOK, FsyncStart
<1>15. ASSUME NEW i \in 1 .. RING_DEPTH, FsyncEnd(i)
       PROVE  TypeOK'
  <2>1. Startable(i) /\ Complete(i, 0) /\ 0 \in Int
    BY <1>15 DEF FsyncEnd
  <2>2. kq' \in Seq(IoWork) /\ cq' \in Seq(Cqe)
    BY <2>1, CompleteFacts, ZenonT(60)
  <2> QED
    BY <1>0, <1>15, <2>2, Zenon DEF TypeOK, FsyncEnd, Complete
<1>16. ASSUME NEW i \in 1 .. RING_DEPTH, NEW err \in {EAGAIN, EIO},
              KernelError(i, err)
       PROVE  TypeOK'
  <2>1. Startable(i) /\ Complete(i, err) /\ err \in Int
    BY <1>16 DEF KernelError, EAGAIN, EIO
  <2>2. kq' \in Seq(IoWork) /\ cq' \in Seq(Cqe)
    BY <2>1, CompleteFacts, Zenon
  <2>3. faults' \in 0 .. MaxFaults
    BY <1>0, <1>16, SMTT(60) DEF TypeOK, KernelError
  <2>4. UNCHANGED <<stage2Vars, msgs, pc, spin, left, pending, awaiting,
                    planVars, streamVars, sq, acked, diskVars>>
    BY <1>16, ZenonT(60) DEF KernelError, Complete
  <2> QED
    BY <1>0, <2>2, <2>3, <2>4, ZenonT(60) DEF TypeOK
<1>17. CASE UNCHANGED vars
  BY <1>0, <1>17, ZenonT(60) DEF TypeOK, vars
<1> QED
  BY StepCases, <1>1, <1>2, <1>3, <1>4, <1>5, <1>6, <1>7, <1>8, <1>9, <1>10,
     <1>11, <1>12, <1>13, <1>14, <1>15, <1>16, <1>17, SMTT(60)

\* handle_pending fills the ring no further than RING_DEPTH, and nothing else
\* adds to it.
LEMMA RingStep ==
    ASSUME SafetyInv, [Next]_vars
    PROVE  RingBound'
<1> USE SizeAssumption
<1>0. /\ sq \in Seq(IoWork) /\ kq \in Seq(IoWork) /\ cq \in Seq(Cqe)
      /\ pending \in Seq(IoWork)
      /\ left \in Nat
      /\ Len(sq) + Len(kq) + Len(cq) <= RING_DEPTH
      /\ left <= Len(cq)
  BY DEF SafetyInv, TypeOK, RingBound, Inflight
<1>1. CASE UNCHANGED <<sq, kq, cq, left>>
  BY <1>0, <1>1 DEF RingBound, Inflight
<1>2. CASE handle_pending
  <2> DEFINE room == RING_DEPTH - Inflight
             n    == IF Len(pending) <= room THEN Len(pending) ELSE room
  <2>1. room \in Nat /\ room = RING_DEPTH - (Len(sq) + Len(kq) + Len(cq))
    BY <1>0 DEF Inflight
  <2>2. n \in 0 .. Len(pending) /\ n <= room
    BY <1>0, <2>1, SMTT(60)
  <2>3. sq' = sq \o SubSeq(pending, 1, n) /\ kq' = kq /\ cq' = cq /\ left' = Len(cq)
    BY <1>2 DEF handle_pending
  <2> HIDE DEF n, room
  <2>4. SubSeq(pending, 1, n) \in Seq(IoWork) /\ Len(SubSeq(pending, 1, n)) = n
    BY <1>0, <2>2, SMTT(60)
  <2>5. Len(sq') = Len(sq) + n
    BY <1>0, <2>2, <2>3, <2>4, SMTT(60)
  <2> QED
    BY <1>0, <2>1, <2>2, <2>3, <2>5 DEF RingBound, Inflight
<1>3. ASSUME NEW v, Reap(v), UNCHANGED <<sq, kq>>
      PROVE  RingBound'
  <2>1. Len(cq') = Len(cq) - 1 /\ left' = left - 1 /\ left > 0
    BY <1>3, ReapFacts
  <2> QED
    BY <1>0, <1>3, <2>1, SMTT(60) DEF RingBound, Inflight
<1>4. CASE TurnEnd
  <2>1. kq' = kq \o sq /\ sq' = <<>> /\ cq' = cq /\ left' = left
    BY <1>4 DEF TurnEnd
  <2>2. Len(kq') = Len(kq) + Len(sq) /\ Len(sq') = 0
    BY <1>0, <2>1
  <2> QED
    BY <1>0, <2>1, <2>2, SMTT(60) DEF RingBound, Inflight
<1>5. ASSUME NEW i, Startable(i), NEW r \in Int, Complete(i, r)
      PROVE  RingBound'
  <2>1. Len(kq') = Len(kq) - 1 /\ Len(cq') = Len(cq) + 1
    BY <1>5, CompleteFacts, Zenon
  <2>2. sq' = sq /\ left' = left
    BY <1>5 DEF Complete
  <2> QED
    BY <1>0, <2>1, <2>2, SMTT(60) DEF RingBound, Inflight
<1>6. CASE \/ \E k \in 1 .. MaxBatchPuts : Stage2Send(k)
           \/ PollBatch \/ PollEmpty \/ PlanFsync \/ SubmitFails \/ Wake
           \/ \E i \in 1 .. RING_DEPTH : FsyncStart(i)
           \/ UNCHANGED vars
  BY <1>1, <1>6, Zenon
     DEF Stage2Send, PollBatch, PollEmpty, PlanFsync, SubmitFails, Wake,
         FsyncStart, vars
<1>7. CASE ReapOk \/ ReapRetry \/ ReapDurable \/ ReapFatal
  BY <1>3, <1>7, Zenon DEF ReapOk, ReapRetry, ReapDurable, ReapFatal
<1>8. CASE \/ \E i \in 1 .. RING_DEPTH, n \in Nat : KernelWrite(i, n)
           \/ \E i \in 1 .. RING_DEPTH : FsyncEnd(i)
           \/ \E i \in 1 .. RING_DEPTH, err \in {EAGAIN, EIO} : KernelError(i, err)
  <2>1. 0 \in Int /\ EAGAIN \in Int /\ EIO \in Int /\ \A n \in Nat : n \in Int
    BY DEF EAGAIN, EIO
  <2> QED
    BY <1>5, <1>8, <2>1, Zenon DEF KernelWrite, FsyncEnd, KernelError
<1> QED
  BY StepCases, <1>2, <1>4, <1>6, <1>7, <1>8, Zenon

\* Stage 2 appends to the LSN stream at its end, handle_batch takes from its
\* front.
LEMMA StreamStep ==
    ASSUME SafetyInv, [Next]_vars
    PROVE  StreamGapless'
<1>0. /\ msgs \in Seq(Batch) /\ lsn \in Nat /\ ingested \in Nat
      /\ Len(msgs) \in Nat
      /\ StreamGapless
  BY DEF SafetyInv, TypeOK
<1>1. ASSUME NEW k \in 1 .. MaxBatchPuts, Stage2Send(k)
      PROVE  StreamGapless'
  <2> DEFINE b == [low |-> lsn, hi |-> lsn + k]
  <2>1. /\ msgs' = Append(msgs, b) /\ lsn' = lsn + k /\ ingested' = ingested
        /\ b \in Batch /\ b.low = lsn /\ b.hi = lsn + k /\ k > 0 /\ k \in Nat
    BY <1>0, <1>1 DEF Stage2Send, Batch
  <2> HIDE DEF b
  <2>2. /\ Len(msgs') = Len(msgs) + 1
        /\ \A i \in 1 .. Len(msgs) : msgs'[i] = msgs[i]
        /\ msgs'[Len(msgs) + 1] = b
    BY <1>0, <2>1
  <2>3. lsn = IF Len(msgs) = 0 THEN ingested ELSE msgs[Len(msgs)].hi
    BY <1>0, ZenonT(60) DEF StreamGapless
  <2>4. ASSUME NEW i \in 1 .. Len(msgs')
        PROVE  /\ msgs'[i].low = IF i - 1 = 0 THEN ingested' ELSE msgs'[i - 1].hi
               /\ msgs'[i].low < msgs'[i].hi
    <3>1. CASE i = Len(msgs) + 1
      BY <1>0, <2>1, <2>2, <2>3, <3>1, SMTT(60)
    <3>2. CASE i \in 1 .. Len(msgs)
      <4>1. /\ msgs[i].low = IF i - 1 = 0 THEN ingested ELSE msgs[i - 1].hi
            /\ msgs[i].low < msgs[i].hi
        BY <1>0, <3>2, ZenonT(60) DEF StreamGapless
      <4> QED
        BY <1>0, <2>1, <2>2, <3>2, <4>1, SMTT(60)
    <3> QED
      BY <1>0, <2>2, <3>1, <3>2, SMTT(60)
  <2>5. Len(msgs') # 0 /\ msgs'[Len(msgs')].hi = lsn'
    BY <1>0, <2>1, <2>2, SMTT(60)
  <2> QED
    BY <2>4, <2>5, ZenonT(60) DEF StreamGapless
<1>2. CASE PollBatch
  <2>1. msgs # <<>> /\ msgs' = Tail(msgs) /\ lsn' = lsn
    BY <1>2 DEF PollBatch
  <2>2. ingested' = msgs[1].hi
    BY <1>2, <2>1, HeadBatch, ZenonT(60) DEF PollBatch, handle_batch
  <2>3. /\ Len(msgs') = Len(msgs) - 1
        /\ \A i \in 1 .. Len(msgs') : msgs'[i] = msgs[i + 1]
    BY <1>0, <2>1, SMTT(60)
  <2> QED
    BY <1>0, <2>1, <2>2, <2>3, SMTT(60) DEF StreamGapless
<1>3. CASE UNCHANGED <<msgs, lsn, ingested>>
  BY <1>0, <1>3 DEF StreamGapless
<1>4. \/ \E k \in 1 .. MaxBatchPuts : Stage2Send(k)
      \/ PollBatch
      \/ UNCHANGED <<msgs, lsn, ingested>>
  BY StepCases, ZenonT(60)
     DEF PollEmpty, PlanFsync, handle_pending, ReapOk, ReapRetry, ReapDurable,
         ReapFatal, TurnEnd, SubmitFails, Wake, KernelWrite, FsyncStart,
         FsyncEnd, KernelError, Complete, vars
<1> QED
  BY <1>1, <1>2, <1>3, <1>4
=============================================================================
