-------------------------- MODULE WalEngineProofs --------------------------
(***************************************************************************)
(* The theorems about WalEngine, for every mode, ring depth, number of     *)
(* buffers, record size and number of faults: the type invariant,          *)
(* RingBound, StreamGapless, AckedIsSafe and Layout.  They are conjuncts   *)
(* of the inductive invariant SafetyInv; one lemma here or in              *)
(* WalEngineLemmas shows that a step preserves each conjunct.              *)
(***************************************************************************)
EXTENDS WalEngineLemmas

USE DEF stage2Vars, planVars, streamVars, diskVars

\* Every queued, running or completed write stays at its place in the file, and
\* what it has done is in the page cache; so is every batch awaiting an fsync.
LEMMA WorksStep ==
    ASSUME SafetyInv, [Next]_vars
    PROVE  Works'
<1> USE SizeAssumption
<1>0. /\ pending \in Seq(GoodWork') /\ sq \in Seq(GoodWork')
      /\ kq \in Seq(GoodWork') /\ cq \in Seq(GoodCqe')
      /\ awaiting \in Seq(GoodBatch')
  BY GoodStays, Zenon DEF SafetyInv, Works
<1>1. CASE UNCHANGED <<pending, sq, kq, cq, awaiting>>
  BY <1>0, <1>1 DEF Works
<1>2. CASE PollBatch
  <2> DEFINE b == Head(msgs)
             w == [op |-> "Write", low |-> b.low, hi |-> b.hi, off |-> offset,
                   done |-> 0]
  <2>0. ingested \in Nat /\ offset \in Nat
    BY DEF SafetyInv, TypeOK
  <2>1. /\ b \in Batch /\ b.low = ingested /\ b.low < b.hi
        /\ ingested' = b.hi /\ Size(b) \in Nat
        /\ offset' = offset + Size(b)
        /\ pending' = Append(pending, w)
    BY <1>2, PollBatchFacts
  <2>2. w \in WriteOp /\ w.low = b.low /\ w.hi = b.hi /\ w.off = offset /\ w.done = 0
    BY <2>0, <2>1 DEF Batch, WriteOp
  <2> HIDE DEF w, b
  <2>3. Size(w) = Size(b)
    BY <2>2 DEF Size
  <2>4. Bytes(w, 0, w.done) = {}
    <3> SUFFICES ASSUME NEW c \in Bytes(w, 0, w.done)
                 PROVE  FALSE
      OBVIOUS
    <3>1. PICK l \in Puts(w), p \in 0 .. RecSize - 1 :
             0 <= Index(w, l, p) /\ Index(w, l, p) < w.done
      BY BytesElements
    <3>2. Index(w, l, p) \in Nat
      BY <2>2, SizeIndexType, Zenon
    <3> QED
      BY <2>2, <3>1, <3>2
  <2>5. w.low < w.hi /\ w.hi <= ingested' /\ w.done <= Size(w)
    BY <2>0, <2>1, <2>2, <2>3 DEF Batch
  <2>6. w.off + (ingested' - w.low) * RecSize = offset'
    BY <2>1, <2>2 DEF Size
  <2>7. w \in GoodWork'
    BY <2>2, <2>4, <2>5, <2>6 DEF GoodWork, Placed, IoWork
  <2>8. pending' \in Seq(GoodWork')
    BY <1>0, <2>1, <2>7
  <2> QED
    BY <1>0, <1>2, <2>8 DEF Works, PollBatch
<1>3. CASE PlanFsync
  <2> DEFINE f == [op |-> "Fsync", lsn |-> ingested]
  <2>1. pending' = pending \/ pending' = Append(pending, f)
    BY <1>3 DEF PlanFsync
  <2>2. f \in IoWork /\ f.op # "Write"
    BY DEF SafetyInv, TypeOK, IoWork, FsyncOp
  <2> HIDE DEF f
  <2>3. f \in GoodWork'
    BY <2>2 DEF GoodWork, Placed
  <2>4. Append(pending, f) \in Seq(GoodWork')
    BY <1>0, <2>3
  <2>5. pending' \in Seq(GoodWork')
    BY <1>0, <2>1, <2>4, Zenon
  <2> QED
    BY <1>0, <1>3, <2>5 DEF Works, PlanFsync
<1>4. CASE handle_pending
  <2> DEFINE room == RING_DEPTH - Inflight
             n    == IF Len(pending) <= room THEN Len(pending) ELSE room
  <2>1. room \in Nat /\ Len(pending) \in Nat
    BY DEF TypeOK, Inflight, SafetyInv, RingBound
  <2>2. n \in 0 .. Len(pending)
    BY <2>1
  <2>3. /\ sq' = sq \o SubSeq(pending, 1, n)
        /\ pending' = SubSeq(pending, n + 1, Len(pending))
        /\ kq' = kq /\ cq' = cq /\ awaiting' = awaiting
    BY <1>4 DEF handle_pending
  <2> HIDE DEF n, room
  <2>4. /\ SubSeq(pending, 1, n) \in Seq(GoodWork')
        /\ SubSeq(pending, n + 1, Len(pending)) \in Seq(GoodWork')
    BY <1>0, <2>2
  <2>5. sq \o SubSeq(pending, 1, n) \in Seq(GoodWork')
    BY <1>0, <2>4
  <2> QED
    BY <1>0, <2>3, <2>4, <2>5, ZenonT(60) DEF Works
<1>5. ASSUME NEW v, Reap(v)
      PROVE  cq' \in Seq(GoodCqe')
  BY <1>5, ReapFacts, GoodStays, Zenon
<1>6. CASE ReapOk
  <2> DEFINE w == cq[1].work
             b == [low |-> w.low, hi |-> w.hi]
  <2>1. Reap("Ok") /\ Head(cq) = cq[1]
    BY <1>6, ReapFacts DEF ReapOk
  <2>2. awaiting' = awaiting \/ awaiting' = Append(awaiting, b)
    BY <1>6, <2>1 DEF ReapOk
  <2>3. /\ cq[1] \in GoodCqe /\ w \in IoWork /\ cq[1].res \in Int
        /\ w.op = "Write" /\ cq[1].res >= 0 /\ w.done + cq[1].res >= Size(w)
    BY <2>1, ReapFacts, VerdictFacts
  <2>4. w \in WriteOp
    BY <2>3, WorkKinds
  <2>5. \A l \in Puts(w) : Recorded(l, cache)
    <3>1. Placed(Progress(w, cq[1].res))
      BY <2>3 DEF GoodCqe
    <3>2. Bytes(w, 0, w.done + cq[1].res) \subseteq cache
      <4> DEFINE v == Progress(w, cq[1].res)
      <4>1. v.op = "Write" /\ v.done = w.done + cq[1].res
        BY <2>3, <2>4, ProgressByBytes, ZenonT(60)
      <4>2. \A to : Bytes(v, 0, to) = Bytes(w, 0, to)
        BY <2>3, <2>4, ProgressByBytes, ZenonT(60)
      <4>3. Bytes(v, 0, v.done) \subseteq cache
        BY <3>1, <4>1 DEF Placed
      <4> HIDE DEF v
      <4> QED
        BY <4>1, <4>2, <4>3, Zenon
    <3>3. w.done + cq[1].res \in Int /\ Size(w) <= w.done + cq[1].res
      BY <2>3, <2>4, SizeIndexType DEF WriteOp
    <3> QED
      BY <2>4, <3>2, <3>3, BytesWhole
  <2>6. b \in Batch /\ Puts(b) = Puts(w)
    BY <2>4 DEF Batch, WriteOp, Puts
  <2>7. b \in GoodBatch'
    BY <2>5, <2>6, GoodStays DEF GoodBatch
  <2> HIDE DEF b
  <2>8. awaiting' \in Seq(GoodBatch')
    <3>1. Append(awaiting, b) \in Seq(GoodBatch')
      BY <1>0, <2>7
    <3> QED
      BY <1>0, <2>2, <3>1, Zenon
  <2>9. UNCHANGED <<pending, sq, kq>>
    BY <1>6 DEF ReapOk
  <2> QED
    BY <1>0, <1>5, <2>1, <2>8, <2>9, ZenonT(60) DEF Works
<1>7. CASE ReapRetry
  <2> DEFINE w == Progress(cq[1].work, cq[1].res)
  <2>1. Reap("Retry")
    BY <1>7 DEF ReapRetry
  <2>2. /\ Head(cq) = cq[1] /\ cq[1] \in GoodCqe
        /\ cq[1].work \in WriteOp /\ cq[1].work.op = "Write" /\ cq[1].res \in Int
    BY <2>1, ReapFacts, VerdictFacts, WorkKinds, ZenonT(60)
  <2>3. Placed(w) /\ w \in IoWork
    BY <2>2, ProgressFacts DEF GoodCqe, IoWork
  <2>4. w \in GoodWork'
    BY <2>3, GoodStays DEF GoodWork
  <2>5. pending' = <<w>> \o pending /\ UNCHANGED <<sq, kq, awaiting>>
    BY <1>7, <2>2, Zenon DEF ReapRetry
  <2> HIDE DEF w
  <2>6. pending' \in Seq(GoodWork')
    BY <1>0, <2>4, <2>5
  <2> QED
    BY <1>0, <1>5, <2>1, <2>5, <2>6 DEF Works
<1>8. CASE ReapDurable
  <2>1. Reap("Durable") /\ awaiting' = <<>> /\ UNCHANGED <<pending, sq, kq>>
    BY <1>8 DEF ReapDurable
  <2> QED
    BY <1>0, <1>5, <2>1 DEF Works
<1>9. CASE ReapFatal
  <2>1. Reap("Fatal") /\ UNCHANGED <<awaiting, pending, sq, kq>>
    BY <1>9 DEF ReapFatal
  <2> QED
    BY <1>0, <1>5, <2>1 DEF Works
<1>10. CASE TurnEnd
  <2>1. kq \o sq \in Seq(GoodWork') /\ <<>> \in Seq(GoodWork')
    BY <1>0
  <2> QED
    BY <1>0, <1>10, <2>1 DEF Works, TurnEnd
<1>11. ASSUME NEW i, Startable(i), NEW r \in Int, Complete(i, r),
              NEW w \in IoWork, w = kq[i],
              w.op = "Write" => Placed(Progress(w, r))'
       PROVE  Works'
  <2> DEFINE c == [work |-> w, res |-> r]
  <2>1. /\ kq[i] \in GoodWork
        /\ kq' \in Seq(GoodWork)
        /\ cq' = Append(cq, [work |-> kq[i], res |-> r])
    BY <1>11, CompleteFacts, Zenon
  <2>2. w \in GoodWork' /\ kq' \in Seq(GoodWork')
    BY <1>11, <2>1, GoodStays, Zenon
  <2>3. c \in Cqe /\ c.work = w /\ c.res = r
    BY <1>11 DEF Cqe
  <2>4. cq' = Append(cq, c)
    BY <1>11, <2>1, Zenon
  <2> HIDE DEF c
  <2>5. Placed(w)'
    BY <2>2 DEF GoodWork
  <2>6. c \in GoodCqe'
    BY <1>11, <2>3, <2>5 DEF GoodCqe
  <2>7. cq' \in Seq(GoodCqe')
    BY <1>0, <2>4, <2>6
  <2>8. UNCHANGED <<pending, sq, awaiting>>
    BY <1>11 DEF Complete
  <2> QED
    BY <1>0, <2>2, <2>7, <2>8 DEF Works
<1>12. ASSUME NEW i \in 1 .. RING_DEPTH, NEW n \in Nat, KernelWrite(i, n)
       PROVE  Works'
  <2>1. /\ Startable(i) /\ Complete(i, n) /\ kq[i].op = "Write" /\ n \in Int
        /\ n <= Size(kq[i]) - kq[i].done
        /\ cache' = cache \cup Bytes(kq[i], kq[i].done, kq[i].done + n)
    BY <1>12 DEF KernelWrite
  <2>2. kq[i] \in IoWork /\ kq[i] \in GoodWork
    BY <2>1, CompleteFacts, Zenon
  <2>3. PICK w \in IoWork : w = kq[i]
    BY <2>2
  <2>4. w \in WriteOp /\ w.op = "Write" /\ w.done \in Nat
    BY <2>1, <2>3, WorkKinds DEF WriteOp
  <2>5. Placed(w) /\ Placed(w)'
    BY <2>2, <2>3, PlacedStays DEF GoodWork
  <2> DEFINE v == Progress(w, n)
  <2>6. /\ v \in WriteOp /\ v.op = "Write" /\ v.low = w.low /\ v.hi = w.hi
        /\ v.off = w.off /\ v.done = w.done + n /\ Size(v) = Size(w)
        /\ Bytes(v, 0, v.done) = Bytes(w, 0, v.done)
    <3>1. n \in Int /\ n >= 0
      OBVIOUS
    <3>2. /\ v \in WriteOp /\ v.op = "Write" /\ v.low = w.low /\ v.hi = w.hi
          /\ v.off = w.off /\ v.done = w.done + n /\ Size(v) = Size(w)
      BY <2>4, <3>1, ProgressByBytes, Zenon
    <3>3. \A to : Bytes(v, 0, to) = Bytes(w, 0, to)
      BY <2>4, <3>1, ProgressByBytes, ZenonT(60)
    <3> HIDE DEF v
    <3> QED
      BY <3>2, <3>3, Zenon
  <2> HIDE DEF v
  <2>7. v.done <= Size(v)
    <3>1. Size(w) \in Int
      BY <2>4, SizeIndexType, ZenonT(60)
    <3> QED
      BY <2>1, <2>3, <2>4, <2>6, <3>1
  <2>8. Bytes(v, 0, v.done) \subseteq cache'
    <3>1. Bytes(w, 0, w.done + n) \subseteq
             Bytes(w, 0, w.done) \cup Bytes(w, w.done, w.done + n)
      BY <2>4, BytesSplit
    <3>2. Bytes(w, 0, w.done) \subseteq cache
      BY <2>4, <2>5, ZenonT(60) DEF Placed
    <3> QED
      BY <2>1, <2>3, <2>6, <3>1, <3>2
  <2>9. Placed(v)'
    BY <2>4, <2>5, <2>6, <2>7, <2>8 DEF Placed
  <2>10. w.op = "Write" => Placed(Progress(w, n))'
    BY <2>9 DEF v
  <2> QED
    BY <1>11, <2>1, <2>3, <2>10, ZenonT(60)
<1>13. ASSUME NEW i \in 1 .. RING_DEPTH, FsyncEnd(i)
       PROVE  Works'
  <2>1. Startable(i) /\ Complete(i, 0) /\ kq[i].op = "Fsync" /\ 0 \in Int
    BY <1>13 DEF FsyncEnd
  <2>2. kq[i] \in IoWork
    BY <2>1, CompleteFacts, Zenon
  <2>3. PICK w \in IoWork : w = kq[i]
    BY <2>2
  <2>4. w.op # "Write"
    BY <2>1, <2>3
  <2> QED
    BY <1>11, <2>1, <2>3, <2>4, ZenonT(60)
<1>14. ASSUME NEW i \in 1 .. RING_DEPTH, NEW err \in {EAGAIN, EIO},
              KernelError(i, err)
       PROVE  Works'
  <2>1. Startable(i) /\ Complete(i, err) /\ err \in Int /\ ~(err >= 0)
    BY <1>14 DEF KernelError, EAGAIN, EIO
  <2>2. kq[i] \in IoWork /\ kq[i] \in GoodWork
    BY <2>1, CompleteFacts, Zenon
  <2>3. PICK w \in IoWork : w = kq[i]
    BY <2>2
  <2>4. Placed(w)'
    BY <2>2, <2>3, PlacedStays DEF GoodWork
  <2>5. ASSUME w.op = "Write"
        PROVE  Placed(Progress(w, err))'
    <3> DEFINE v == Progress(w, err)
    <3>1. /\ v \in WriteOp /\ v.op = "Write" /\ v.low = w.low /\ v.hi = w.hi
          /\ v.off = w.off /\ v.done = w.done /\ Size(v) = Size(w)
          /\ Bytes(v, 0, v.done) = Bytes(w, 0, v.done)
      BY <2>1, <2>5, WorkKinds, ProgressFacts
    <3> HIDE DEF v
    <3>2. Placed(v)'
      BY <2>4, <2>5, <3>1 DEF Placed
    <3> QED
      BY <3>2 DEF v
  <2> QED
    BY <1>11, <2>1, <2>3, <2>5, Zenon
<1>15. CASE \/ \E k \in 1 .. MaxBatchPuts : Stage2Send(k)
            \/ PollEmpty \/ SubmitFails \/ Wake
            \/ \E i \in 1 .. RING_DEPTH : FsyncStart(i)
            \/ UNCHANGED vars
  BY <1>1, <1>15, Zenon
     DEF Stage2Send, PollEmpty, SubmitFails, Wake, FsyncStart, vars
<1> QED
  BY StepCases, <1>2, <1>3, <1>4, <1>6, <1>7, <1>8, <1>9, <1>10, <1>12, <1>13,
     <1>14, <1>15, Zenon

\* IO_DRAIN keeps a running fsync alone: the page cache is what it flushes.
LEMMA FsyncAloneStep ==
    ASSUME SafetyInv, [Next]_vars
    PROVE  FsyncAlone'
<1>0. kq \in Seq(IoWork) /\ sq \in Seq(IoWork) /\ FsyncAlone
  BY DEF SafetyInv, TypeOK
<1>1. CASE UNCHANGED <<kq, cache, syncOn, syncing>>
  BY <1>0, <1>1 DEF FsyncAlone
<1>2. CASE TurnEnd
  <2>1. kq' = kq \o sq /\ UNCHANGED <<cache, syncOn, syncing>>
    BY <1>2 DEF TurnEnd
  <2>2. kq # <<>> => kq' # <<>> /\ kq'[1] = kq[1]
    BY <1>0, <2>1
  <2> QED
    BY <1>0, <2>1, <2>2 DEF FsyncAlone
<1>3. ASSUME NEW i \in 1 .. RING_DEPTH, NEW n \in Nat, KernelWrite(i, n)
      PROVE  FsyncAlone'
  <2>1. Startable(i) /\ kq[i].op = "Write" /\ syncOn' = syncOn
    BY <1>3 DEF KernelWrite
  <2>2. ~syncOn
    BY <2>1, DrainFacts
  <2> QED
    BY <2>1, <2>2 DEF FsyncAlone
<1>4. ASSUME NEW i \in 1 .. RING_DEPTH, NEW err, KernelError(i, err)
      PROVE  FsyncAlone'
  <2>1. Startable(i) /\ (kq[i].op = "Fsync" => ~syncOn) /\ syncOn' = syncOn
    BY <1>4 DEF KernelError
  <2>2. ~syncOn
    BY <2>1, DrainFacts
  <2> QED
    BY <2>1, <2>2 DEF FsyncAlone
<1>5. ASSUME NEW i \in 1 .. RING_DEPTH, FsyncStart(i)
      PROVE  FsyncAlone'
  <2>1. /\ Startable(i) /\ kq[i].op = "Fsync"
        /\ kq' = kq /\ cache' = cache /\ syncing' = cache
    BY <1>5 DEF FsyncStart
  <2>2. i = 1 /\ i \in DOMAIN kq
    BY <2>1 DEF Startable
  <2>3. kq # <<>>
    BY <1>0, <2>2
  <2> QED
    BY <2>1, <2>2, <2>3 DEF FsyncAlone
<1>6. ASSUME NEW i \in 1 .. RING_DEPTH, FsyncEnd(i)
      PROVE  FsyncAlone'
  BY <1>6, Zenon DEF FsyncEnd, FsyncAlone
<1>7. \/ UNCHANGED <<kq, cache, syncOn, syncing>>
      \/ TurnEnd
      \/ \E i \in 1 .. RING_DEPTH, n \in Nat : KernelWrite(i, n)
      \/ \E i \in 1 .. RING_DEPTH : FsyncStart(i)
      \/ \E i \in 1 .. RING_DEPTH : FsyncEnd(i)
      \/ \E i \in 1 .. RING_DEPTH, err \in {EAGAIN, EIO} : KernelError(i, err)
  BY StepCases, Zenon
     DEF Stage2Send, PollBatch, PollEmpty, PlanFsync, handle_pending, ReapOk,
         ReapRetry, ReapDurable, ReapFatal, SubmitFails, Wake, vars
<1> QED
  BY <1>1, <1>2, <1>3, <1>4, <1>5, <1>6, <1>7, ZenonT(60)

\* A successful fsync covers the batches that await it when it is reaped, in
\* whatever order the writes before it completed.
LEMMA FsyncCoversStep ==
    ASSUME SafetyInv, [Next]_vars
    PROVE  FsyncCovers'
<1> DEFINE Flushed(c) == c.work.op = "Fsync" /\ c.res >= 0
           In(c, S) == c.work.op = "Write" =>
                          Bytes(c.work, 0, Progress(c.work, c.res).done) \subseteq S
           Safe(b, S) == \A l \in Puts(b) : Recorded(l, S)
<1>0. /\ cq \in Seq(Cqe) /\ cq \in Seq(GoodCqe)
      /\ awaiting \in Seq(GoodBatch)
      /\ Len(cq) \in Nat /\ Len(awaiting) \in Nat
  BY SMTT(60) DEF SafetyInv, TypeOK, Works
<1>1. ASSUME NEW j \in 1 .. Len(cq), Flushed(cq[j])
      PROVE  /\ \A k \in 1 .. Len(awaiting) : Safe(awaiting[k], stable)
             /\ \A i \in 1 .. j - 1 : In(cq[i], stable)
  BY <1>1 DEF SafetyInv, FsyncCovers
<1>2. \A c : In(c, stable) => In(c, stable')
  BY PlacedStays
<1>3. \A b : Safe(b, stable) => Safe(b, stable')
  BY PlacedStays, RecordedGrows, ZenonT(60)
<1> SUFFICES ASSUME NEW j \in 1 .. Len(cq'), Flushed(cq'[j])
             PROVE  /\ \A k \in 1 .. Len(awaiting') : Safe(awaiting'[k], stable')
                    /\ \A i \in 1 .. j - 1 : In(cq'[i], stable')
  BY SMTT(60) DEF FsyncCovers
<1> HIDE DEF Flushed, In, Safe
<1>4. CASE UNCHANGED <<cq, awaiting>>
  BY <1>1, <1>2, <1>3, <1>4, ZenonT(60)
<1>5. ASSUME NEW v, Reap(v)
      PROVE  /\ Len(cq) - 1 = Len(cq')
             /\ j + 1 \in 1 .. Len(cq)
             /\ \A k \in 1 .. Len(awaiting) : Safe(awaiting[k], stable')
             /\ \A i \in 1 .. j - 1 : In(cq'[i], stable')
             /\ In(cq[1], stable)
  <2>1. /\ Len(cq') = Len(cq) - 1
        /\ \A i \in 1 .. Len(cq') : cq'[i] = cq[i + 1]
    BY <1>5, ReapFacts, Zenon
  <2>2. j + 1 \in 1 .. Len(cq) /\ cq'[j] = cq[j + 1] /\ 1 \in 1 .. (j + 1) - 1
    BY <1>0, <2>1
  <2>3. Flushed(cq[j + 1])
    BY <2>2
  <2>4. /\ \A k \in 1 .. Len(awaiting) : Safe(awaiting[k], stable)
        /\ \A i \in 1 .. (j + 1) - 1 : In(cq[i], stable)
    BY <1>1, <2>2, <2>3, ZenonT(60)
  <2>5. ASSUME NEW i \in 1 .. j - 1
        PROVE  In(cq'[i], stable')
    <3>1. i + 1 \in 1 .. (j + 1) - 1 /\ cq'[i] = cq[i + 1]
      BY <1>0, <2>1, SMTT(60)
    <3> QED
      BY <1>2, <2>4, <3>1
  <2> QED
    BY <1>3, <2>1, <2>2, <2>4, <2>5
<1>6. CASE ReapOk
  <2> DEFINE w == cq[1].work
             b == [low |-> w.low, hi |-> w.hi]
  <2>1. Reap("Ok") /\ Head(cq) = cq[1]
    BY <1>6, ReapFacts DEF ReapOk
  <2>2. awaiting' = awaiting \/ awaiting' = Append(awaiting, b)
    BY <1>6, <2>1 DEF ReapOk
  <2>3. w \in IoWork /\ cq[1].res \in Int /\ Verdict(w, cq[1].res) = "Ok"
    BY <2>1, ReapFacts, ZenonT(60)
  <2>4. w.op = "Write" /\ In(cq[1], stable)
    BY <1>5, <2>1, <2>3, VerdictFacts, ZenonT(60)
  <2>5. \A l \in Puts(w) : Recorded(l, stable)
    BY <2>3, <2>4, OkRecorded DEF In
  <2>6. Safe(b, stable')
    <3>1. Puts(b) = Puts(w)
      BY DEF Puts
    <3>2. Safe(b, stable)
      BY <2>5, <3>1 DEF Safe
    <3> QED
      BY <1>3, <3>2
  <2> HIDE DEF b
  <2>7. /\ Len(Append(awaiting, b)) = Len(awaiting) + 1
        /\ \A k \in 1 .. Len(awaiting) : Append(awaiting, b)[k] = awaiting[k]
        /\ Append(awaiting, b)[Len(awaiting) + 1] = b
    BY <1>0
  <2>8. \A k \in 1 .. Len(awaiting) : Safe(awaiting[k], stable')
    BY <1>5, <2>1, ZenonT(60)
  <2>9. \A k \in 1 .. Len(Append(awaiting, b)) :
           Safe(Append(awaiting, b)[k], stable')
    BY <1>0, <2>6, <2>7, <2>8
  <2>10. \A k \in 1 .. Len(awaiting') : Safe(awaiting'[k], stable')
    BY <2>2, <2>8, <2>9, Zenon
  <2> QED
    BY <1>5, <2>1, <2>10, Zenon
<1>7. CASE ReapRetry \/ ReapFatal
  <2>1. awaiting' = awaiting /\ (Reap("Retry") \/ Reap("Fatal"))
    BY <1>7, Zenon DEF ReapRetry, ReapFatal
  <2> QED
    BY <1>5, <2>1, Zenon
<1>8. CASE ReapDurable
  <2>1. awaiting' = <<>> /\ Reap("Durable")
    BY <1>8 DEF ReapDurable
  <2>2. \A k \in 1 .. Len(awaiting') : Safe(awaiting'[k], stable')
    BY <2>1, SMTT(60)
  <2> QED
    BY <1>5, <2>1, <2>2, Zenon
<1>9. ASSUME NEW i, Startable(i), NEW r \in Int, Complete(i, r)
      PROVE  /\ Len(cq') = Len(cq) + 1
             /\ \A m \in 1 .. Len(cq) : cq'[m] = cq[m]
             /\ cq'[Len(cq) + 1] = [work |-> kq[i], res |-> r]
             /\ awaiting' = awaiting
             /\ j # Len(cq) + 1 =>
                   /\ \A k \in 1 .. Len(awaiting') : Safe(awaiting'[k], stable')
                   /\ \A m \in 1 .. j - 1 : In(cq'[m], stable')
  <2>1. /\ Len(cq') = Len(cq) + 1
        /\ \A m \in 1 .. Len(cq) : cq'[m] = cq[m]
        /\ cq'[Len(cq')] = [work |-> kq[i], res |-> r]
    BY <1>9, CompleteFacts, Zenon
  <2>2. awaiting' = awaiting
    BY <1>9, ZenonT(60) DEF Complete
  <2>3. ASSUME j # Len(cq) + 1
        PROVE  /\ \A k \in 1 .. Len(awaiting') : Safe(awaiting'[k], stable')
               /\ \A m \in 1 .. j - 1 : In(cq'[m], stable')
    <3>1. j \in 1 .. Len(cq) /\ cq'[j] = cq[j]
      BY <1>0, <2>1, <2>3, SMTT(60)
    <3>2. /\ \A k \in 1 .. Len(awaiting) : Safe(awaiting[k], stable)
          /\ \A m \in 1 .. j - 1 : In(cq[m], stable)
      BY <1>1, <3>1, ZenonT(60)
    <3>3. \A m \in 1 .. j - 1 : cq'[m] = cq[m]
      BY <1>0, <2>1, <3>1, SMTT(60)
    <3> QED
      BY <1>2, <1>3, <2>2, <3>2, <3>3, ZenonT(60)
  <2> QED
    BY <2>1, <2>2, <2>3, ZenonT(60)
<1>10. ASSUME NEW i \in 1 .. RING_DEPTH, NEW n \in Nat, KernelWrite(i, n)
       PROVE  /\ \A k \in 1 .. Len(awaiting') : Safe(awaiting'[k], stable')
              /\ \A m \in 1 .. j - 1 : In(cq'[m], stable')
  <2>1. Startable(i) /\ Complete(i, n) /\ kq[i].op = "Write" /\ n \in Int
    BY <1>10 DEF KernelWrite
  <2>2. cq'[Len(cq) + 1] = [work |-> kq[i], res |-> n]
    BY <1>9, <2>1, ZenonT(60)
  <2>3. j # Len(cq) + 1
    BY <2>1, <2>2 DEF Flushed
  <2> QED
    BY <1>9, <2>1, <2>3, ZenonT(60)
<1>11. ASSUME NEW i \in 1 .. RING_DEPTH, NEW err \in {EAGAIN, EIO},
              KernelError(i, err)
       PROVE  /\ \A k \in 1 .. Len(awaiting') : Safe(awaiting'[k], stable')
              /\ \A m \in 1 .. j - 1 : In(cq'[m], stable')
  <2>1. Startable(i) /\ Complete(i, err) /\ err \in Int /\ ~(err >= 0)
    BY <1>11 DEF KernelError, EAGAIN, EIO
  <2>2. cq'[Len(cq) + 1] = [work |-> kq[i], res |-> err]
    BY <1>9, <2>1, Zenon
  <2>3. j # Len(cq) + 1
    BY <2>1, <2>2 DEF Flushed
  <2> QED
    BY <1>9, <2>1, <2>3, ZenonT(60)
<1>12. ASSUME NEW i \in 1 .. RING_DEPTH, FsyncEnd(i)
       PROVE  /\ \A k \in 1 .. Len(awaiting') : Safe(awaiting'[k], stable')
              /\ \A m \in 1 .. j - 1 : In(cq'[m], stable')
  <2>1. /\ Startable(i) /\ Complete(i, 0) /\ syncOn /\ 0 \in Int
        /\ stable' = stable \cup syncing
    BY <1>12, SMTT(60) DEF FsyncEnd
  <2>2. cache \subseteq stable'
    BY <2>1, DrainFacts
  <2>3. CASE j # Len(cq) + 1
    BY <1>9, <2>1, <2>3, ZenonT(60)
  <2>4. CASE j = Len(cq) + 1
    <3>1. /\ \A m \in 1 .. Len(cq) : cq'[m] = cq[m]
          /\ awaiting' = awaiting
      BY <1>9, <2>1, Zenon
    <3>2. ASSUME NEW k \in 1 .. Len(awaiting)
          PROVE  Safe(awaiting[k], stable')
      <4>1. awaiting[k] \in GoodBatch
        BY <1>0, SMTT(60)
      <4> QED
        BY <2>2, <4>1, RecordedGrows DEF GoodBatch, Safe
    <3>3. ASSUME NEW m \in 1 .. Len(cq)
          PROVE  In(cq[m], stable')
      <4>1. cq[m] \in GoodCqe
        BY <1>0
      <4> QED
        BY <2>2, <4>1, CqeCached DEF In
    <3>4. \A m \in 1 .. j - 1 : m \in 1 .. Len(cq)
      BY <1>0, <2>4
    <3> QED
      BY <3>1, <3>2, <3>3, <3>4, ZenonT(60)
  <2> QED
    BY <2>3, <2>4, ZenonT(60)
<1>13. CASE \/ \E k \in 1 .. MaxBatchPuts : Stage2Send(k)
            \/ PollBatch \/ PollEmpty \/ PlanFsync \/ handle_pending
            \/ TurnEnd \/ SubmitFails \/ Wake
            \/ \E i \in 1 .. RING_DEPTH : FsyncStart(i)
            \/ UNCHANGED vars
  BY <1>4, <1>13, Zenon
     DEF Stage2Send, PollBatch, PollEmpty, PlanFsync, handle_pending, TurnEnd,
         SubmitFails, Wake, FsyncStart, vars
<1> QED
  BY StepCases, <1>6, <1>7, <1>8, <1>10, <1>11, <1>12, <1>13, Zenon

\* A write puts bytes only where the LSN order has them, and a new batch starts
\* where the last one ends.
LEMMA LayoutStep ==
    ASSUME SafetyInv, [Next]_vars
    PROVE  Layout'
<1>0. /\ ingested \in Nat /\ offset \in Nat /\ RecSize \in Nat
      /\ cache \subseteq (Nat \X Nat \X Nat)
      /\ Layout
  BY SizeAssumption DEF SafetyInv, TypeOK
<1>1. CASE UNCHANGED <<ingested, offset, cache>>
  BY <1>0, <1>1 DEF Layout
<1>2. CASE PollBatch
  <2>1. cache' = cache
    BY <1>2 DEF PollBatch
  <2> DEFINE n == Size(Head(msgs))
  <2>2. /\ n = (ingested' - ingested) * RecSize
        /\ ingested' \in Nat /\ ingested < ingested'
    BY <1>2, PollBatchFacts DEF Batch
  <2>3. n \in Nat /\ offset' = offset + n
    BY <1>2, PollBatchFacts
  <2> SUFFICES ASSUME NEW c \in cache
               PROVE  /\ c[2] <= ingested'
                      /\ c[1] + (ingested' - c[2] + 1) * RecSize = offset' + c[3]
    BY <2>1 DEF Layout
  <2>4. c[1] \in Nat /\ c[2] \in Nat /\ c[3] \in Nat
    BY <1>0
  <2> DEFINE x == (ingested - c[2] + 1) * RecSize
             y == (ingested' - c[2] + 1) * RecSize
  <2>5. c[2] <= ingested /\ c[1] + x = offset + c[3]
    BY <1>0 DEF Layout
  <2>6. x \in Int /\ y \in Int /\ n + x = y
    BY <1>0, <2>2, <2>4
  <2> HIDE DEF n, x, y
  <2>7. c[1] + y = offset' + c[3]
    BY <1>0, <2>3, <2>4, <2>5, <2>6
  <2>8. c[2] <= ingested'
    BY <1>0, <2>2, <2>4, <2>5, SMTT(60)
  <2> QED
    BY <2>7, <2>8 DEF y
<1>3. ASSUME NEW i \in 1 .. RING_DEPTH, NEW n \in Nat, KernelWrite(i, n)
      PROVE  Layout'
  <2>1. /\ Startable(i) /\ kq[i].op = "Write" /\ Complete(i, n) /\ n \in Int
        /\ cache' = cache \cup Bytes(kq[i], kq[i].done, kq[i].done + n)
    BY <1>3, SMTT(60) DEF KernelWrite
  <2>2. ingested' = ingested /\ offset' = offset
    BY <2>1 DEF Complete
  <2>3. kq[i] \in IoWork /\ kq[i] \in GoodWork
    BY <2>1, CompleteFacts, ZenonT(60)
  <2>4. kq[i] \in WriteOp /\ Placed(kq[i])
    BY <2>1, <2>3, WorkKinds, ZenonT(60) DEF GoodWork
  <2>5. \A c \in Bytes(kq[i], kq[i].done, kq[i].done + n) :
           /\ c[2] <= ingested
           /\ c[1] + (ingested - c[2] + 1) * RecSize = offset + c[3]
    BY <1>0, <2>4, BytesAtTheirPlace
  <2> QED
    BY <1>0, <2>1, <2>2, <2>5, ZenonT(60) DEF Layout
<1>4. \/ UNCHANGED <<ingested, offset, cache>>
      \/ PollBatch
      \/ \E i \in 1 .. RING_DEPTH, n \in Nat : KernelWrite(i, n)
  BY StepCases, Zenon
     DEF Stage2Send, PollEmpty, PlanFsync, handle_pending, ReapOk, ReapRetry,
         ReapDurable, ReapFatal, TurnEnd, SubmitFails, Wake, FsyncStart,
         FsyncEnd, KernelError, Complete, vars
<1> QED
  BY <1>1, <1>2, <1>3, <1>4, Zenon

\* The acker answers a PUT in stage 2, at a whole write or at an fsync, and each
\* time what the mode promises is already so.
LEMMA AckedStep ==
    ASSUME SafetyInv, [Next]_vars
    PROVE  AckedIsSafe'
<1> DEFINE Safe(l, c, d) == /\ AckLevel = Durable => Recorded(l, d)
                            /\ AckLevel = Written => Recorded(l, c)
<1>1. \A l \in acked : Safe(l, cache, stable)
  BY DEF SafetyInv, AckedIsSafe
<1>2. \A l : Safe(l, cache, stable) => Safe(l, cache', stable')
  BY PlacedStays, RecordedGrows
<1>3. SUFFICES ASSUME NEW l \in acked', l \notin acked
               PROVE  Safe(l, cache', stable')
  BY <1>1, <1>2 DEF AckedIsSafe
<1>4. ASSUME NEW k \in 1 .. MaxBatchPuts, Stage2Send(k)
      PROVE  Safe(l, cache', stable')
  <2>1. AckLevel <= Applied
    BY <1>3, <1>4 DEF Stage2Send, advance
  <2> QED
    BY <2>1, AckLevelValues, SMTT(60) DEF Applied, Written, Durable
<1>5. CASE ReapOk
  <2> DEFINE w == cq[1].work
  <2>1. Reap("Ok") /\ Head(cq) = cq[1]
    BY <1>5, ReapFacts, ZenonT(60) DEF ReapOk
  <2>2. AckLevel <= Written /\ l \in Puts(w)
    BY <1>3, <1>5, <2>1, Zenon DEF ReapOk, advance
  <2>3. AckLevel # Durable
    BY <2>2, AckLevelValues DEF Applied, Written, Durable
  <2>4. /\ w \in IoWork /\ cq[1].res \in Int /\ Verdict(w, cq[1].res) = "Ok"
        /\ cq[1] \in GoodCqe
    BY <2>1, ReapFacts, ZenonT(60)
  <2>5. Bytes(w, 0, Progress(w, cq[1].res).done) \subseteq cache
    BY <2>4, VerdictFacts, CqeCached, ZenonT(60)
  <2>6. Recorded(l, cache)
    BY <2>2, <2>4, <2>5, OkRecorded, ZenonT(60)
  <2> QED
    BY <1>2, <2>3, <2>6, ZenonT(60)
<1>6. CASE ReapDurable
  <2>1. Reap("Durable")
    BY <1>6 DEF ReapDurable
  <2>2. PICK k \in DOMAIN awaiting : l \in Puts(awaiting[k])
    BY <1>3, <1>6 DEF ReapDurable, advance
  <2>3. awaiting \in Seq(GoodBatch) /\ cq \in Seq(GoodCqe)
    BY DEF SafetyInv, Works
  <2>4. k \in 1 .. Len(awaiting) /\ awaiting[k] \in GoodBatch
    BY <2>2, <2>3
  <2>5. 1 \in 1 .. Len(cq)
    BY <2>1, <2>3, ReapFacts, SMTT(60)
  <2>6. cq[1].work.op = "Fsync" /\ cq[1].res >= 0
    BY <2>1, ReapFacts, VerdictFacts, SMTT(60)
  <2>7. Recorded(l, stable)
    BY <2>2, <2>4, <2>5, <2>6, ZenonT(60) DEF SafetyInv, FsyncCovers
  <2>8. Recorded(l, cache)
    BY <2>2, <2>4 DEF GoodBatch
  <2> QED
    BY <1>2, <2>7, <2>8
<1>7. \/ acked' = acked
      \/ \E k \in 1 .. MaxBatchPuts : Stage2Send(k)
      \/ ReapOk
      \/ ReapDurable
  BY StepCases, Zenon
     DEF PollBatch, PollEmpty, PlanFsync, handle_pending, ReapRetry, ReapFatal,
         TurnEnd, SubmitFails, Wake, KernelWrite, FsyncStart, FsyncEnd,
         KernelError, Complete, vars
<1> QED
  BY <1>3, <1>4, <1>5, <1>6, <1>7
-----------------------------------------------------------------------------
(***************************************************************************)
(* The theorems.                                                           *)
(***************************************************************************)

\* The engine starts with an empty segment, where SafetyInv holds.
LEMMA SafetyInit ==
    ASSUME Init
    PROVE  SafetyInv
<1> USE SizeAssumption DEF Init
<1>1. TypeOK
  <2>1. flushing \in BOOLEAN /\ syncOn \in BOOLEAN
    BY Zenon
  <2>2. spin \in 0 .. SPIN_BUDGET /\ faults \in 0 .. MaxFaults
    OBVIOUS
  <2>3. /\ msgs \in Seq(Batch) /\ awaiting \in Seq(Batch) /\ cq \in Seq(Cqe)
        /\ pending \in Seq(IoWork) /\ sq \in Seq(IoWork) /\ kq \in Seq(IoWork)
    OBVIOUS
  <2>4. free \in Nat /\ lsn \in Nat /\ ingested \in Nat
    BY ZenonT(60)
  <2> QED
    BY <2>1, <2>2, <2>3, <2>4 DEF TypeOK
<1>2. RingBound /\ StreamGapless /\ FsyncAlone /\ FsyncCovers
  BY SMTT(60) DEF RingBound, Inflight, StreamGapless, FsyncAlone, FsyncCovers
<1>3. Works
  BY DEF Works
<1>4. AckedIsSafe /\ Layout
  BY DEF AckedIsSafe, Layout
<1> QED
  BY <1>1, <1>2, <1>3, <1>4, ZenonT(60) DEF SafetyInv

\* SafetyInv is inductive: it holds of the start and is kept by every step of
\* stage 2, of the WAL thread and of the kernel.
THEOREM SafetyInvariant == Spec => []SafetyInv
<1>1. Init => SafetyInv
  BY SafetyInit
<1>2. SafetyInv /\ [Next]_vars => SafetyInv'
  <2> SUFFICES ASSUME SafetyInv, [Next]_vars
               PROVE  SafetyInv'
    OBVIOUS
  <2> QED
    BY TypeStep, RingStep, StreamStep, WorksStep, FsyncAloneStep,
       FsyncCoversStep, AckedStep, LayoutStep
       DEF SafetyInv
<1> QED
  BY <1>1, <1>2, PTL DEF Spec

\* Every variable keeps its type.
THEOREM TypeCorrect == Spec => []TypeOK
<1>1. SafetyInv => TypeOK
  BY DEF SafetyInv
<1> QED
  BY <1>1, SafetyInvariant, PTL

\* The push into the submission queue never fails, whatever the ring's depth.
THEOREM RingNeverOverflows == Spec => []RingBound
<1>1. SafetyInv => RingBound
  BY DEF SafetyInv
<1> QED
  BY <1>1, SafetyInvariant, PTL

\* The assertion of handle_batch on the LSN stream never fires.
THEOREM StreamNeverBreaks == Spec => []StreamGapless
<1>1. SafetyInv => StreamGapless
  BY DEF SafetyInv
<1> QED
  BY <1>1, SafetyInvariant, PTL

\* An answered PUT is as safe as its mode promises, for any number of buffers,
\* operations in flight, short writes, errors and retries.
THEOREM AnsweredPutsAreSafe == Spec => []AckedIsSafe
<1>1. SafetyInv => AckedIsSafe
  BY DEF SafetyInv
<1> QED
  BY <1>1, SafetyInvariant, PTL

\* Every byte of the segment is where the LSN order puts it.
THEOREM FileLayout == Spec => []Layout
<1>1. SafetyInv => Layout
  BY DEF SafetyInv
<1> QED
  BY <1>1, SafetyInvariant, PTL
=============================================================================
