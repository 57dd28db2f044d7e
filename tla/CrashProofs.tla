---------------------------- MODULE CrashProofs ----------------------------
(***************************************************************************)
(* The theorems about CrashRecovery, for every mode, record size, number   *)
(* of lives, kills, power losses and I/O faults: AppendOnly,               *)
(* RecoveredPrefix and ReplayInIssueOrder.                                 *)
(*                                                                         *)
(* The inductive invariant CrashInv has three parts.  SafetyInv is the one *)
(* of WalEngineProofs: it says nothing of how a life started, so it holds  *)
(* in each of them.  LifeInv ties the life to what it found: it numbers    *)
(* and writes only behind that.  PastInv says what all earlier lives       *)
(* together left (Hist), and that a byte which recovery did not count when *)
(* it chose where to go on is behind a hole that nobody will ever fill.    *)
(* CrashHistory has the facts about the files that the last part needs.    *)
(***************************************************************************)
EXTENDS CrashHistory, WalEngineProofs

USE DEF stage2Vars, planVars, streamVars, diskVars
-----------------------------------------------------------------------------
(***************************************************************************)
(* The inductive invariant.                                                *)
(***************************************************************************)
\* Works and completions of batches that came after the segment was opened.
LateWork == { w \in IoWork : w.op = "Write" => seg <= w.low }
LateCqe  == { c \in Cqe : c.work \in LateWork }

\* This life: everything it writes goes behind what it found.
LifeInv ==
    /\ run \in Nat /\ seg \in Nat
    /\ seg <= ingested /\ ingested <= lsn
    /\ \A i \in 1 .. Len(msgs) : msgs[i].hi <= lsn
    /\ offset = FileLen(files, seg) + (ingested - seg) * RecSize
    /\ pending \in Seq(LateWork) /\ sq \in Seq(LateWork)
    /\ kq \in Seq(LateWork) /\ cq \in Seq(LateCqe)
    /\ \A c \in cache : seg < c[2] /\ c[3] < RecSize
    /\ stable \subseteq cache

\* Earlier lives: what they left and what recovery made of it.
PastInv ==
    /\ Hist(files, oldPuts, run)
    /\ safe \subseteq files
    /\ recovered = Replayed(files)
    /\ seg = recover(recovered)
    /\ \A c \in files : c[1] # seg => c[3][2] < seg \/ Gone(c)
    /\ \A c, d \in files :
          c[3][1] < d[3][1] /\ c[1] # d[1] => c[3][2] < d[1] \/ Gone(c)

\* The inductive invariant.
CrashInv == SafetyInv /\ LifeInv /\ PastInv
-----------------------------------------------------------------------------
(***************************************************************************)
(* Steps of one life.                                                      *)
(***************************************************************************)

\* The bytes of a write of this life.
LEMMA LateBytes ==
    ASSUME seg \in Nat, NEW w \in LateWork, w.op = "Write", NEW from, NEW to,
           NEW c \in Bytes(w, from, to)
    PROVE  seg < c[2] /\ c[3] < RecSize /\ c \in Nat \X Nat \X Nat
<1>1. w \in IoWork /\ seg <= w.low
  BY DEF LateWork
<1>2. w \in WriteOp
  BY <1>1, WorkKinds, Zenon
<1>3. PICK l \in Puts(w), p \in 0 .. RecSize - 1 :
         c = <<w.off + Index(w, l, p), l, p>>
  BY BytesElements
<1>4. c[2] = l /\ c[3] = p
  BY <1>3
<1>5. w.low \in Nat /\ w.hi \in Nat
  BY <1>2 DEF WriteOp
<1>6. l \in (w.low + 1) .. w.hi
  BY <1>3 DEF Puts
<1>7. seg < l /\ p < RecSize
  BY <1>1, <1>3, <1>5, <1>6, SizeAssumption, SMTT(60)
<1>8. c \in Nat \X Nat \X Nat
  BY <1>2, BytesType
<1> QED
  BY <1>4, <1>7, <1>8, SMTT(60)

\* Stage 2 is never behind the engine, and the segment grows as batches come in.
LEMMA LifeNumbers ==
    ASSUME SafetyInv, LifeInv, [Next]_vars, FileLen(files, seg) \in Nat
    PROVE  /\ seg <= ingested' /\ ingested' <= lsn'
           /\ \A i \in 1 .. Len(msgs') : msgs'[i].hi <= lsn'
           /\ offset' = FileLen(files, seg) + (ingested' - seg) * RecSize
<1>0. /\ lsn \in Nat /\ msgs \in Seq(Batch) /\ ingested \in Nat /\ offset \in Nat
      /\ seg \in Nat /\ seg <= ingested /\ ingested <= lsn
      /\ \A i \in 1 .. Len(msgs) : msgs[i].hi <= lsn
      /\ offset = FileLen(files, seg) + (ingested - seg) * RecSize
  BY DEF SafetyInv, TypeOK, LifeInv
<1>1. CASE UNCHANGED <<lsn, msgs, ingested, offset>>
  BY <1>0, <1>1, ZenonT(60)
<1>2. ASSUME NEW k \in 1 .. MaxBatchPuts, Stage2Send(k)
      PROVE  /\ seg <= ingested' /\ ingested' <= lsn'
             /\ \A i \in 1 .. Len(msgs') : msgs'[i].hi <= lsn'
             /\ offset' = FileLen(files, seg) + (ingested' - seg) * RecSize
  <2> DEFINE b == [low |-> lsn, hi |-> lsn + k]
  <2>1. /\ lsn' = lsn + k /\ msgs' = Append(msgs, b)
        /\ ingested' = ingested /\ offset' = offset
    BY <1>2 DEF Stage2Send
  <2>2. b \in Batch /\ b.hi = lsn + k /\ k \in Nat
    BY <1>0, SizeAssumption DEF Batch
  <2> HIDE DEF b
  <2>3. /\ Len(msgs') = Len(msgs) + 1 /\ Len(msgs) \in Nat
        /\ msgs'[Len(msgs) + 1] = b
        /\ \A i \in 1 .. Len(msgs) : msgs'[i] = msgs[i]
    BY <1>0, <2>1, <2>2, SMTT(60)
  <2>4. ASSUME NEW i \in 1 .. Len(msgs')
        PROVE  msgs'[i].hi <= lsn'
    <3>1. CASE i = Len(msgs) + 1
      BY <1>0, <2>1, <2>2, <2>3, <3>1, SMTT(60)
    <3>2. CASE i \in 1 .. Len(msgs)
      <4>1. msgs[i] \in Batch /\ msgs'[i] = msgs[i] /\ msgs[i].hi <= lsn
        BY <1>0, <2>3, <3>2, SMTT(60)
      <4>2. msgs[i].hi \in Nat
        BY <4>1 DEF Batch
      <4>3. lsn \in Nat /\ k \in Nat /\ lsn' = lsn + k
        BY <1>0, <2>1, <2>2, Zenon
      <4>4. \A x, y, z \in Nat : x <= y => x <= y + z
        OBVIOUS
      <4> QED
        BY <4>1, <4>2, <4>3, <4>4, ZenonT(60)
    <3> QED
      BY <2>3, <3>1, <3>2, SMTT(60)
  <2>5. ingested' <= lsn'
    BY <1>0, <2>1, <2>2, SMTT(60)
  <2> QED
    BY <1>0, <2>1, <2>4, <2>5, ZenonT(60)
<1>3. CASE PollBatch
  <2> DEFINE b == Head(msgs)
  <2>1. /\ b \in Batch /\ b.low = ingested /\ b.low < b.hi
        /\ ingested' = b.hi /\ offset' = offset + Size(b)
        /\ Size(b) = (ingested' - ingested) * RecSize /\ Size(b) \in Nat
    BY <1>3, PollBatchFacts, Zenon
  <2>2. msgs # <<>> /\ msgs' = Tail(msgs) /\ lsn' = lsn
    BY <1>3 DEF PollBatch
  <2>3. /\ b = msgs[1] /\ Len(msgs) >= 1 /\ Len(msgs) \in Nat
        /\ Len(msgs') = Len(msgs) - 1
        /\ \A i \in 1 .. Len(msgs') : msgs'[i] = msgs[i + 1]
    BY <1>0, <2>2, SMTT(60)
  <2> HIDE DEF b
  <2>4. b.hi <= lsn
    BY <1>0, <2>3, SMTT(60)
  <2>5. ASSUME NEW i \in 1 .. Len(msgs')
        PROVE  msgs'[i].hi <= lsn'
    <3>1. i + 1 \in 1 .. Len(msgs) /\ msgs'[i] = msgs[i + 1]
      BY <2>3
    <3> QED
      BY <1>0, <2>2, <3>1, ZenonT(60)
  <2>6. ingested' \in Nat
    BY <2>1 DEF Batch
  <2>7. seg <= ingested' /\ ingested' <= lsn'
    BY <1>0, <2>1, <2>2, <2>4, <2>6, SMTT(60)
  <2>8. offset' = FileLen(files, seg) + (ingested' - seg) * RecSize
    <3> DEFINE x == (ingested - seg) * RecSize
               y == (ingested' - ingested) * RecSize
               f == FileLen(files, seg)
    <3>1. /\ y + x = (ingested' - seg) * RecSize
          /\ x \in Int /\ y \in Int
      BY <1>0, <2>6, Cut, SizeAssumption, SMTT(60)
    <3>2. offset = f + x /\ offset' = offset + y
      BY <1>0, <2>1
    <3>3. f \in Nat
      OBVIOUS
    <3> HIDE DEF x, y, f
    <3>4. offset' = f + (y + x)
      BY <3>1, <3>2, <3>3, SMTT(60)
    <3> QED
      BY <3>1, <3>4, ZenonT(60) DEF f
  <2> QED
    BY <2>5, <2>7, <2>8, ZenonT(60)
<1>4. \/ UNCHANGED <<lsn, msgs, ingested, offset>>
      \/ \E k \in 1 .. MaxBatchPuts : Stage2Send(k)
      \/ PollBatch
  BY StepCases, ZenonT(60)
     DEF PollEmpty, PlanFsync, handle_pending, ReapOk, ReapRetry, ReapDurable,
         ReapFatal, TurnEnd, SubmitFails, Wake, KernelWrite, FsyncStart,
         FsyncEnd, KernelError, Complete, vars
<1> QED
  BY <1>1, <1>2, <1>3, <1>4, ZenonT(60)

\* The queues hold only writes of this life, of LSNs above the segment's name.
LEMMA LifeQueues ==
    ASSUME SafetyInv, LifeInv, [Next]_vars
    PROVE  /\ pending' \in Seq(LateWork) /\ sq' \in Seq(LateWork)
           /\ kq' \in Seq(LateWork) /\ cq' \in Seq(LateCqe)
<1> DEFINE Late == /\ pending' \in Seq(LateWork) /\ sq' \in Seq(LateWork)
                   /\ kq' \in Seq(LateWork) /\ cq' \in Seq(LateCqe)
<1>0. /\ pending \in Seq(LateWork) /\ sq \in Seq(LateWork)
      /\ kq \in Seq(LateWork) /\ cq \in Seq(LateCqe)
      /\ ingested \in Nat /\ offset \in Nat /\ seg \in Nat /\ seg <= ingested
  BY DEF SafetyInv, TypeOK, LifeInv
<1>1. CASE UNCHANGED <<pending, sq, kq, cq>>
  BY <1>0, <1>1, ZenonT(60)
<1>2. CASE PollBatch
  <2> DEFINE b == Head(msgs)
             w == [op |-> "Write", low |-> b.low, hi |-> b.hi, off |-> offset,
                   done |-> 0]
  <2>1. b \in Batch /\ b.low = ingested /\ pending' = Append(pending, w)
    BY <1>2, PollBatchFacts, ZenonT(60)
  <2>2. w \in WriteOp /\ w.low = b.low
    BY <1>0, <2>1, ZenonT(60) DEF Batch, WriteOp
  <2> HIDE DEF w, b
  <2>3. w \in LateWork
    BY <1>0, <2>1, <2>2, ZenonT(60) DEF LateWork, IoWork
  <2>4. pending' \in Seq(LateWork)
    BY <1>0, <2>1, <2>3, SMTT(60)
  <2> QED
    BY <1>0, <1>2, <2>4 DEF PollBatch
<1>3. CASE PlanFsync
  <2> DEFINE f == [op |-> "Fsync", lsn |-> ingested]
  <2>1. pending' = pending \/ pending' = Append(pending, f)
    BY <1>3, ZenonT(60) DEF PlanFsync
  <2>2. f \in IoWork /\ f.op # "Write"
    BY <1>0 DEF IoWork, FsyncOp
  <2> HIDE DEF f
  <2>3. f \in LateWork
    BY <2>2 DEF LateWork
  <2>4. Append(pending, f) \in Seq(LateWork)
    BY <1>0, <2>3, SMTT(60)
  <2>5. pending' \in Seq(LateWork)
    BY <1>0, <2>1, <2>4, Zenon
  <2> QED
    BY <1>0, <1>3, <2>5, ZenonT(60) DEF PlanFsync
<1>4. CASE handle_pending
  <2> DEFINE room == RING_DEPTH - Inflight
             n    == IF Len(pending) <= room THEN Len(pending) ELSE room
  <2>1. room \in Nat /\ Len(pending) \in Nat
    BY SizeAssumption DEF TypeOK, Inflight, SafetyInv, RingBound
  <2>2. n \in 0 .. Len(pending)
    BY <2>1, SMTT(60)
  <2>3. /\ sq' = sq \o SubSeq(pending, 1, n)
        /\ pending' = SubSeq(pending, n + 1, Len(pending))
        /\ kq' = kq /\ cq' = cq
    BY <1>4 DEF handle_pending
  <2> HIDE DEF n, room
  <2>4. /\ SubSeq(pending, 1, n) \in Seq(LateWork)
        /\ SubSeq(pending, n + 1, Len(pending)) \in Seq(LateWork)
    BY <1>0, <2>2, SMTT(60)
  <2>5. sq \o SubSeq(pending, 1, n) \in Seq(LateWork)
    BY <1>0, <2>4, SMTT(60)
  <2> QED
    BY <1>0, <2>3, <2>4, <2>5, ZenonT(60)
<1>5. ASSUME NEW v, Reap(v)
      PROVE  cq' \in Seq(LateCqe) /\ cq[1] \in LateCqe
  <2>1. cq' = Tail(cq) /\ cq # <<>>
    BY <1>5, ReapFacts DEF Reap
  <2> QED
    BY <1>0, <2>1, SMTT(60)
<1>6. CASE ReapOk \/ ReapDurable \/ ReapFatal
  <2>1. /\ pending' = pending /\ sq' = sq /\ kq' = kq
        /\ \E v : Reap(v)
    BY <1>6, Zenon DEF ReapOk, ReapDurable, ReapFatal
  <2> QED
    BY <1>0, <1>5, <2>1, Zenon
<1>7. CASE ReapRetry
  <2> DEFINE w == Progress(cq[1].work, cq[1].res)
  <2>1. Reap("Retry") /\ Head(cq) = cq[1]
    BY <1>7, ReapFacts, ZenonT(60) DEF ReapRetry
  <2>2. pending' = <<w>> \o pending /\ sq' = sq /\ kq' = kq
    BY <1>7, <2>1 DEF ReapRetry
  <2>3. cq[1].work \in IoWork /\ cq[1].res \in Int
        /\ Verdict(cq[1].work, cq[1].res) = "Retry"
    BY <2>1, ReapFacts, ZenonT(60)
  <2>4. cq[1].work.op = "Write"
    BY <2>3, VerdictFacts, ZenonT(60)
  <2>5. cq[1].work \in WriteOp
    BY <2>3, <2>4, WorkKinds, ZenonT(40)
  <2>6. w \in WriteOp /\ w.low = cq[1].work.low
    BY <2>3, <2>5, ProgressFacts, ZenonT(60)
  <2>7. cq[1] \in LateCqe /\ cq' \in Seq(LateCqe)
    BY <1>5, <2>1, Zenon
  <2>8. seg <= cq[1].work.low
    BY <2>4, <2>7, Zenon DEF LateCqe, LateWork
  <2> HIDE DEF w
  <2>9. w \in LateWork
    BY <2>6, <2>8, Zenon DEF LateWork, IoWork
  <2>10. <<w>> \o pending \in Seq(LateWork)
    BY <1>0, <2>9
  <2> QED
    BY <1>0, <2>2, <2>7, <2>10, ZenonT(40)
<1>8. CASE TurnEnd
  <2>1. kq' = kq \o sq /\ sq' = <<>> /\ pending' = pending /\ cq' = cq
    BY <1>8 DEF TurnEnd
  <2>2. kq \o sq \in Seq(LateWork) /\ <<>> \in Seq(LateWork)
    BY <1>0
  <2> QED
    BY <1>0, <2>1, <2>2, ZenonT(60)
<1>9. ASSUME NEW i, Startable(i), NEW r \in Int, Complete(i, r)
      PROVE  Late
  <2> DEFINE q == [work |-> kq[i], res |-> r]
  <2>1. /\ kq' = Without(kq, i) /\ cq' = Append(cq, q)
        /\ pending' = pending /\ sq' = sq
    BY <1>9 DEF Complete
  <2>2. i \in 1 .. Len(kq) /\ kq[i] \in IoWork
    BY <1>9, CompleteFacts, ZenonT(60)
  <2>3. kq[i] \in LateWork
    BY <1>0, <2>2, SMTT(60)
  <2>4. q \in Cqe /\ q.work = kq[i]
    BY <2>2 DEF Cqe
  <2> HIDE DEF q
  <2>5. q \in LateCqe
    BY <2>3, <2>4, ZenonT(60) DEF LateCqe
  <2>6. Append(cq, q) \in Seq(LateCqe)
    BY <1>0, <2>5, SMTT(60)
  <2>7. Without(kq, i) \in Seq(LateWork)
    BY <1>0, <2>2, WithoutProperties, ZenonT(60)
  <2> QED
    BY <1>0, <2>1, <2>6, <2>7, ZenonT(60)
<1>10. ASSUME NEW i \in 1 .. RING_DEPTH, NEW n \in Nat, KernelWrite(i, n)
       PROVE  Late
  <2>1. Startable(i) /\ Complete(i, n) /\ n \in Int
    BY <1>10 DEF KernelWrite
  <2> QED
    BY <1>9, <2>1, ZenonT(60)
<1>11. ASSUME NEW i \in 1 .. RING_DEPTH, NEW err \in {EAGAIN, EIO},
              KernelError(i, err)
       PROVE  Late
  <2>1. Startable(i) /\ Complete(i, err) /\ err \in Int
    BY <1>11 DEF KernelError, EAGAIN, EIO
  <2> QED
    BY <1>9, <2>1, ZenonT(60)
<1>12. ASSUME NEW i \in 1 .. RING_DEPTH, FsyncEnd(i)
       PROVE  Late
  <2>1. Startable(i) /\ Complete(i, 0) /\ 0 \in Int
    BY <1>12 DEF FsyncEnd
  <2> QED
    BY <1>9, <2>1, ZenonT(60)
<1>13. CASE \/ \E k \in 1 .. MaxBatchPuts : Stage2Send(k)
            \/ PollEmpty \/ SubmitFails \/ Wake
            \/ \E i \in 1 .. RING_DEPTH : FsyncStart(i)
            \/ UNCHANGED vars
  BY <1>1, <1>13, Zenon
     DEF Stage2Send, PollEmpty, SubmitFails, Wake, FsyncStart, vars
<1> HIDE DEF Late
<1>14. Late
  BY StepCases, <1>2, <1>3, <1>4, <1>6, <1>7, <1>8, <1>10, <1>11, <1>12, <1>13,
     ZenonT(60) DEF Late
<1> QED
  BY <1>14 DEF Late

\* The bytes of this life are of PUTs it numbered, and only an fsync makes them
\* stable.
LEMMA LifeBytes ==
    ASSUME SafetyInv, LifeInv, [Next]_vars
    PROVE  /\ \A c \in cache' : seg < c[2] /\ c[3] < RecSize
           /\ stable' \subseteq cache'
<1>0. /\ \A c \in cache : seg < c[2] /\ c[3] < RecSize
      /\ stable \subseteq cache
  BY DEF LifeInv
<1>1. CASE UNCHANGED <<cache, stable>>
  BY <1>0, <1>1, ZenonT(60)
<1>2. ASSUME NEW i \in 1 .. RING_DEPTH, NEW n \in Nat, KernelWrite(i, n)
      PROVE  /\ \A c \in cache' : seg < c[2] /\ c[3] < RecSize
             /\ stable' \subseteq cache'
  <2> DEFINE w == kq[i]
  <2>1. /\ Startable(i) /\ w.op = "Write" /\ stable' = stable
        /\ cache' = cache \cup Bytes(w, w.done, w.done + n)
    BY <1>2 DEF KernelWrite
  <2>0. seg \in Nat /\ kq \in Seq(LateWork)
    BY ZenonT(60) DEF LifeInv
  <2>2. w \in LateWork
    BY <2>0, <2>1 DEF Startable
  <2>3. \A c \in Bytes(w, w.done, w.done + n) : seg < c[2] /\ c[3] < RecSize
    BY <2>0, <2>1, <2>2, LateBytes, Zenon
  <2> QED
    BY <1>0, <2>1, <2>3, ZenonT(60)
<1>3. ASSUME NEW i \in 1 .. RING_DEPTH, FsyncEnd(i)
      PROVE  /\ \A c \in cache' : seg < c[2] /\ c[3] < RecSize
             /\ stable' \subseteq cache'
  <2>1. /\ Startable(i) /\ syncOn /\ cache' = cache
        /\ stable' = stable \cup syncing
    BY <1>3 DEF FsyncEnd
  <2>2. syncing = cache
    BY <2>1, DrainFacts, Zenon
  <2> QED
    BY <1>0, <2>1, <2>2, ZenonT(60)
<1>4. \/ UNCHANGED <<cache, stable>>
      \/ \E i \in 1 .. RING_DEPTH, n \in Nat : KernelWrite(i, n)
      \/ \E i \in 1 .. RING_DEPTH : FsyncEnd(i)
  BY StepCases, ZenonT(60)
     DEF Stage2Send, PollBatch, PollEmpty, PlanFsync, handle_pending, ReapOk,
         ReapRetry, ReapDurable, ReapFatal, TurnEnd, SubmitFails, Wake,
         FsyncStart, KernelError, vars
<1> QED
  BY <1>1, <1>2, <1>3, <1>4, ZenonT(60)

\* A step of the engine, of stage 2 or of the kernel keeps the invariant of the
\* life and does not touch the past.
LEMMA LifeStep ==
    ASSUME CrashInv, [Next]_vars, UNCHANGED crashVars
    PROVE  CrashInv'
<1>1. SafetyInv /\ LifeInv /\ PastInv
  BY DEF CrashInv
<1>2. SafetyInv'
  BY <1>1, TypeStep, RingStep, StreamStep, WorksStep, FsyncAloneStep,
     FsyncCoversStep, AckedStep, LayoutStep, ZenonT(60) DEF SafetyInv
<1>3. /\ run' = run /\ seg' = seg /\ files' = files /\ safe' = safe
      /\ oldPuts' = oldPuts /\ recovered' = recovered
  BY DEF crashVars
<1>4. FileLen(files, seg) \in Nat
  BY <1>1, LenFacts, ZenonT(60) DEF PastInv, Hist
<1>5. LateWork' = LateWork /\ LateCqe' = LateCqe
  BY <1>3 DEF LateWork, LateCqe
<1>6. LifeInv'
  <2>1. /\ seg <= ingested' /\ ingested' <= lsn'
        /\ \A i \in 1 .. Len(msgs') : msgs'[i].hi <= lsn'
        /\ offset' = FileLen(files, seg) + (ingested' - seg) * RecSize
    BY <1>1, <1>4, LifeNumbers, ZenonT(60)
  <2>2. /\ pending' \in Seq(LateWork) /\ sq' \in Seq(LateWork)
        /\ kq' \in Seq(LateWork) /\ cq' \in Seq(LateCqe)
    BY <1>1, LifeQueues
  <2>3. /\ \A c \in cache' : seg < c[2] /\ c[3] < RecSize
        /\ stable' \subseteq cache'
    BY <1>1, LifeBytes, ZenonT(60)
  <2>4. run \in Nat /\ seg \in Nat
    BY <1>1 DEF LifeInv
  <2> QED
    BY <1>3, <1>5, <2>1, <2>2, <2>3, <2>4, ZenonT(60) DEF LifeInv
<1>7. PastInv'
  BY <1>1, <1>3, ZenonT(60) DEF PastInv, Gone
<1> QED
  BY <1>2, <1>6, <1>7, ZenonT(60) DEF CrashInv
-----------------------------------------------------------------------------
(***************************************************************************)
(* Crashes and restarts.                                                   *)
(***************************************************************************)

\* A byte that is where Layout has it goes behind what the life found.
LEMMA TagNew ==
    ASSUME SafetyInv, LifeInv, FileLen(files, seg) \in Nat,
           NEW c \in Nat \X Nat \X Nat, seg < c[2], c[3] < RecSize,
           c[2] <= ingested,
           c[1] + (ingested - c[2] + 1) * RecSize = offset + c[3]
    PROVE  NewByte(<<seg, c[1], <<run, c[2]>>, c[3]>>)
<1> DEFINE d == <<seg, c[1], <<run, c[2]>>, c[3]>>
<1>0. /\ ingested \in Nat /\ offset \in Nat /\ lsn \in Nat
      /\ run \in Nat /\ seg \in Nat /\ ingested <= lsn
      /\ offset = FileLen(files, seg) + (ingested - seg) * RecSize
      /\ c[1] \in Nat /\ c[2] \in Nat /\ c[3] \in Nat
  BY DEF SafetyInv, TypeOK, LifeInv
<1>1. /\ d \in FileByte
      /\ d[1] = seg /\ d[2] = c[1] /\ d[3] = <<run, c[2]>> /\ d[4] = c[3]
      /\ d[3][1] = run /\ d[3][2] = c[2]
  BY <1>0, ZenonT(60) DEF FileByte
<1> HIDE DEF d
<1>2. d[3][2] <= lsn
  BY <1>0, <1>1, SMTT(60)
<1>3. Origin(d) = FileLen(files, seg) - (seg + 1) * RecSize
  <2> DEFINE x == c[2] * RecSize
             y == ingested * RecSize
             z == seg * RecSize
             f == FileLen(files, seg)
  <2>1. Origin(d) = c[1] - c[3] - x
    BY <1>1, ZenonT(60) DEF Origin
  <2>2. /\ (ingested - seg) * RecSize = y - z
        /\ (ingested - c[2] + 1) * RecSize = y - x + RecSize
        /\ (seg + 1) * RecSize = z + RecSize
        /\ x \in Int /\ y \in Int /\ z \in Int /\ RecSize \in Int
    BY <1>0, SizeAssumption, SMTT(60)
  <2>3. offset = f + (y - z) /\ c[1] + (y - x + RecSize) = offset + c[3]
    BY <1>0, <2>2, ZenonT(60)
  <2> HIDE DEF x, y, z, f
  <2>4. f \in Nat
    BY DEF f
  <2>5. c[1] - c[3] - x = f - (z + RecSize)
    <3> DEFINE a == c[1]
               b == c[3]
    <3>1. a \in Int /\ b \in Int /\ a + (y - x + RecSize) = (f + (y - z)) + b
      BY <1>0, <2>3, SMTT(60)
    <3> HIDE DEF a, b
    <3>2. a - b - x = f - (z + RecSize)
      BY <2>2, <2>4, <3>1, SMTT(60)
    <3> QED
      BY <3>2, ZenonT(60) DEF a, b
  <2> QED
    BY <2>1, <2>2, <2>5, ZenonT(60) DEF f
<1>4. NewByte(d)
  BY <1>1, <1>2, <1>3, ZenonT(60) DEF NewByte
<1> QED
  BY <1>4, ZenonT(60) DEF d

\* What a crash can leave: all that was there and completed, and new bytes.
LEMMA CrashBytes ==
    ASSUME CrashInv
    PROVE  /\ \A c \in Tag(cache) : NewByte(c)
           /\ \A D \in CacheAtCrash :
                 /\ files \subseteq D /\ Tag(cache) \subseteq D
                 /\ \A c \in D : c \in files \/ NewByte(c)
           /\ Flushed \subseteq files \cup Tag(cache)
<1>0. SafetyInv /\ LifeInv /\ PastInv /\ FileLen(files, seg) \in Nat
  BY LenFacts, Zenon DEF CrashInv, PastInv, Hist
<1>1. ASSUME NEW c \in cache
      PROVE  NewByte(<<seg, c[1], <<run, c[2]>>, c[3]>>)
  <2>1. c \in Nat \X Nat \X Nat
    BY <1>0, ZenonT(60) DEF SafetyInv, TypeOK
  <2>2. seg < c[2] /\ c[3] < RecSize
    BY <1>0 DEF LifeInv
  <2>3. /\ c[2] <= ingested
        /\ c[1] + (ingested - c[2] + 1) * RecSize = offset + c[3]
    BY <1>0 DEF SafetyInv, Layout
  <2> QED
    BY <1>0, <2>1, <2>2, <2>3, TagNew, ZenonT(60)
<1>2. ASSUME NEW i \in WritesIn(kq), Startable(i), NEW to,
             NEW c \in Bytes(kq[i], kq[i].done, to)
      PROVE  NewByte(<<seg, c[1], <<run, c[2]>>, c[3]>>)
  <2>1. /\ kq \in Seq(GoodWork) /\ kq \in Seq(LateWork) /\ kq \in Seq(IoWork)
        /\ ingested \in Nat /\ offset \in Nat /\ seg \in Nat
    BY <1>0, ZenonT(60) DEF SafetyInv, TypeOK, Works, LifeInv
  <2>2. i \in DOMAIN kq /\ kq[i].op = "Write"
    BY DEF WritesIn
  <2>3. kq[i] \in GoodWork /\ kq[i] \in LateWork /\ kq[i] \in IoWork
    BY <2>1, <2>2, SMTT(60)
  <2>4. kq[i] \in WriteOp /\ Placed(kq[i])
    BY <2>2, <2>3, WorkKinds, ZenonT(60) DEF GoodWork
  <2>5. seg < c[2] /\ c[3] < RecSize /\ c \in Nat \X Nat \X Nat
    BY <1>2, <2>1, <2>2, <2>3, LateBytes, ZenonT(60)
  <2>6. /\ c[2] <= ingested
        /\ c[1] + (ingested - c[2] + 1) * RecSize = offset + c[3]
    BY <1>2, <2>1, <2>4, BytesAtTheirPlace, Zenon
  <2> QED
    BY <1>0, <2>5, <2>6, TagNew, ZenonT(60)
<1>3. \A c \in Tag(cache) : NewByte(c)
  BY <1>1, Zenon DEF Tag
<1>4. ASSUME NEW D \in CacheAtCrash
      PROVE  /\ files \subseteq D /\ Tag(cache) \subseteq D
             /\ \A c \in D : c \in files \/ NewByte(c)
  <2> DEFINE running == { i \in WritesIn(kq) : Startable(i) }
             part(f) == UNION { Bytes(kq[i], kq[i].done, f[i]) : i \in running }
  <2>1. PICK f : D = files \cup Tag(cache \cup part(f))
    BY Zenon DEF CacheAtCrash
  <2>2. \A c \in part(f) : \E i \in running : c \in Bytes(kq[i], kq[i].done, f[i])
    BY Zenon
  <2>3. \A c \in part(f) : NewByte(<<seg, c[1], <<run, c[2]>>, c[3]>>)
    BY <1>2, <2>2, Zenon
  <2> HIDE DEF part
  <2>4. \A c \in Tag(cache \cup part(f)) : NewByte(c)
    BY <1>1, <2>3, Zenon DEF Tag
  <2>5. Tag(cache) \subseteq Tag(cache \cup part(f))
    BY Zenon DEF Tag
  <2> QED
    BY <2>1, <2>4, <2>5, ZenonT(60)
<1>5. Flushed \subseteq files \cup Tag(cache)
  <2>1. Tag(stable) \subseteq Tag(cache)
    BY <1>0, Zenon DEF Tag, LifeInv
  <2>2. safe \subseteq files
    BY <1>0, ZenonT(60) DEF PastInv
  <2> QED
    BY <2>1, <2>2, Zenon DEF Flushed
<1> QED
  BY <1>3, <1>4, <1>5, ZenonT(60)

\* A new process starts as the first one did, with the numbers recover gives it.
LEMMA RestartLife ==
    ASSUME SafetyInv, LifeInv, NEW D, Bounded(D), Restart(D), files' = D
    PROVE  /\ SafetyInv' /\ LifeInv'
           /\ run' = run + 1
           /\ recovered' = Replayed(D) /\ seg' = recover(recovered')
           /\ oldPuts' = oldPuts \cup PutsNow
<1> DEFINE start == recover(Replayed(D))
<1>1. /\ run' = run + 1 /\ seg' = start /\ recovered' = Replayed(D)
      /\ oldPuts' = oldPuts \cup PutsNow
      /\ lsn' = start /\ ingested' = start
      /\ offset' = FileLen(D, start)
      /\ free' = N_BUFFERS
      /\ pc' = "poll" /\ spin' = SPIN_BUDGET /\ left' = 0
      /\ dirty' = 0 /\ flushing' = FALSE
      /\ syncOn' = FALSE /\ syncing' = {}
      /\ msgs' = <<>> /\ pending' = <<>> /\ awaiting' = <<>>
      /\ sq' = <<>> /\ kq' = <<>> /\ cq' = <<>>
      /\ cache' = {} /\ stable' = {} /\ acked' = {}
      /\ faults' = faults
  BY Zenon DEF Restart, FileEnd
<1>2. start \in Nat
  BY RecoverFacts, Zenon
<1>3. FileLen(D, start) \in Nat
  BY LenFacts, ZenonT(60)
<1>4. faults \in 0 .. MaxFaults
  BY DEF SafetyInv, TypeOK
<1> HIDE DEF start
<1>5. TypeOK'
  <2>1. flushing' \in BOOLEAN /\ syncOn' \in BOOLEAN
    BY <1>1, Zenon
  <2>2. spin' \in 0 .. SPIN_BUDGET /\ faults' \in 0 .. MaxFaults
    BY <1>1, <1>4, SizeAssumption, SMTT(60)
  <2>3. /\ msgs' \in Seq(Batch) /\ awaiting' \in Seq(Batch) /\ cq' \in Seq(Cqe)
        /\ pending' \in Seq(IoWork) /\ sq' \in Seq(IoWork) /\ kq' \in Seq(IoWork)
    BY <1>1, SMTT(60)
  <2>4. /\ free' \in Nat /\ lsn' \in Nat /\ ingested' \in Nat /\ offset' \in Nat
        /\ left' \in Nat /\ dirty' \in Nat
    BY <1>1, <1>2, <1>3, SizeAssumption, ZenonT(60)
  <2>5. /\ cache' \subseteq (Nat \X Nat \X Nat)
        /\ stable' \subseteq (Nat \X Nat \X Nat)
        /\ syncing' \subseteq (Nat \X Nat \X Nat)
        /\ acked' \subseteq Nat
        /\ pc' \in {"poll", "plan", "stage", "reap", "wait", "panic"}
    BY <1>1, ZenonT(60)
  <2> QED
    BY <2>1, <2>2, <2>3, <2>4, <2>5, ZenonT(60) DEF TypeOK
<1>6. RingBound' /\ FsyncAlone' /\ FsyncCovers'
  <2>1. /\ sq' = <<>> /\ kq' = <<>> /\ cq' = <<>> /\ pending' = <<>> /\ left' = 0
        /\ flushing' = FALSE /\ dirty' = 0 /\ syncOn' = FALSE
        /\ cache' = {} /\ syncing' = {}
    BY <1>1, Zenon
  <2>2. RingBound'
    BY <2>1, SizeAssumption, SMTT(60) DEF RingBound, Inflight
  <2>3. FsyncAlone'
    BY <2>1, SMTT(60) DEF FsyncAlone
  <2>4. FsyncCovers'
    BY <2>1, SMTT(60) DEF FsyncCovers
  <2> QED
    BY <2>2, <2>3, <2>4, Zenon
<1>7. StreamGapless'
  BY <1>1, <1>2 DEF StreamGapless
<1>8. Works'
  BY <1>1 DEF Works
<1>9. AckedIsSafe' /\ Layout'
  BY <1>1 DEF AckedIsSafe, Layout
<1>10. LifeInv'
  <2>1. run' \in Nat /\ seg' \in Nat /\ seg' <= ingested' /\ ingested' <= lsn'
    BY <1>1, <1>2, SMTT(60) DEF LifeInv
  <2>2. \A i \in 1 .. Len(msgs') : msgs'[i].hi <= lsn'
    BY <1>1, SMTT(60)
  <2>3. offset' = FileLen(files', seg') + (ingested' - seg') * RecSize
    <3>1. (start - start) * RecSize = 0
      BY <1>2, SizeAssumption, SMTT(60)
    <3> DEFINE f == FileLen(D, start)
    <3>2. offset' = f /\ FileLen(files', seg') = f
      BY <1>1
    <3>3. f \in Nat
      BY <1>3
    <3> HIDE DEF f
    <3> QED
      BY <1>1, <3>1, <3>2, <3>3, SMTT(60)
  <2>4. /\ pending' \in Seq(LateWork') /\ sq' \in Seq(LateWork')
        /\ kq' \in Seq(LateWork') /\ cq' \in Seq(LateCqe')
    BY <1>1, SMTT(60)
  <2>5. /\ \A c \in cache' : seg' < c[2] /\ c[3] < RecSize
        /\ stable' \subseteq cache'
    BY <1>1, ZenonT(60)
  <2> QED
    BY <2>1, <2>2, <2>3, <2>4, <2>5, ZenonT(60) DEF LifeInv
<1>11. SafetyInv'
  BY <1>5, <1>6, <1>7, <1>8, <1>9, ZenonT(60) DEF SafetyInv
<1> QED
  BY <1>1, <1>10, <1>11, ZenonT(60) DEF start

\* What no replay can reach stays so after a crash.
LEMMA GoneStays ==
    ASSUME CrashInv, NEW D, \A x \in D : x \in files \/ NewByte(x),
           NEW S, safe \subseteq S,
           NEW c \in files, Gone(c)
    PROVE  Hole(D, c) \/ \E e \in S : e[1] < c[1] /\ Hole(D, e)
<1>0. /\ SafetyInv /\ LifeInv /\ PastInv
      /\ Hist(files, oldPuts, run) /\ Bounded(files)
      /\ run \in Nat /\ seg \in Nat /\ lsn \in Nat
      /\ safe \subseteq files
  BY Zenon DEF CrashInv, PastInv, LifeInv, SafetyInv, TypeOK, Hist
<1>1. FileLen(files, seg) \in Nat
  BY <1>0, LenFacts, Zenon
<1>2. ASSUME NEW x \in files
      PROVE  x[3][1] # run /\ x[2] \in Nat
  <2>1. x[3][1] \in Nat /\ x[3] \in oldPuts /\ x[2] \in Nat
    BY <1>0, HistByte, Zenon
  <2>2. x[3][1] < run
    BY <1>0, <2>1, ZenonT(60) DEF Hist
  <2>3. \A i, j \in Nat : i < j => i # j
    OBVIOUS
  <2>4. run \in Nat
    BY <1>0, SMTT(30)
  <2> QED
    BY <2>1, <2>2, <2>3, <2>4, Zenon
<1>3. ASSUME NEW e \in files, Hole(files, e)
      PROVE  Hole(D, e)
  <2>1. e[2] \in Nat /\ \A x \in files : x[3][1] # run
    BY <1>2
  <2>2. ASSUME NEW x, NewByte(x)
        PROVE  x[3][1] = run /\ (x[1] = e[1] => e[2] < x[2])
    <3>1. x[3][1] = run /\ x[1] = seg
      BY <2>2 DEF NewByte
    <3>2. x[2] \in Nat /\ FileLen(files, seg) <= x[2]
      BY <1>0, <1>1, <2>2, NewByteFacts, Zenon
    <3>3. e[1] = seg => e[2] < FileLen(files, seg)
      BY <1>0, LenFacts, ZenonT(60)
    <3>4. e[1] = seg => e[2] < x[2]
      <4>1. \A i, m, n \in Nat : i < m /\ m <= n => i < n
        OBVIOUS
      <4> QED
        BY <1>1, <2>1, <3>2, <3>3, <4>1, ZenonT(60)
    <3> QED
      BY <3>1, <3>4, ZenonT(60)
  <2>3. GrowsBehind(files, D, e, run)
    BY <2>1, <2>2, ZenonT(60) DEF GrowsBehind
  <2> QED
    BY <1>3, <2>1, <2>3, HoleStays, ZenonT(60)
<1> QED
  BY <1>0, <1>3, ZenonT(60) DEF Gone

\* A crash and the restart on what it left keep the invariant.  A kill leaves all
\* that was there; after a power loss all that is there is on stable storage.
LEMMA RestartStep ==
    ASSUME CrashInv, NEW D, Restart(D), files' = D,
           safe' \subseteq D, safe \subseteq safe',
           \A x \in D : x \in files \/ NewByte(x),
           files \subseteq D \/ safe' = D
    PROVE  CrashInv'
<1>0. /\ SafetyInv /\ LifeInv /\ PastInv
      /\ Hist(files, oldPuts, run) /\ Bounded(files)
      /\ run \in Nat /\ seg \in Nat /\ lsn \in Nat
      /\ seg = recover(Replayed(files))
  BY Zenon DEF CrashInv, PastInv, LifeInv, SafetyInv, TypeOK, Hist
<1>1. Hist(D, oldPuts \cup PutsNow, run + 1)
  BY <1>0, NewLife, ZenonT(60)
<1>2. Bounded(D)
  BY <1>1 DEF Hist
<1>3. /\ SafetyInv' /\ LifeInv'
      /\ run' = run + 1
      /\ recovered' = Replayed(D) /\ seg' = recover(recovered')
      /\ oldPuts' = oldPuts \cup PutsNow
  BY <1>0, <1>2, RestartLife, Zenon
<1> DEFINE G(c) == Hole(D, c) \/ \E e \in safe' : e[1] < c[1] /\ Hole(D, e)
           start == recover(Replayed(D))
<1>4. ASSUME NEW c \in files, Gone(c)
      PROVE  G(c)
  BY <1>4, GoneStays, ZenonT(60)
<1>5. ASSUME NEW c \in D
      PROVE  /\ c[1] \in Nat /\ c[3][1] \in Nat /\ c[3][2] \in Nat
             /\ c[3][1] <= run
  <2>1. /\ c[1] \in Nat /\ c[3][1] \in Nat /\ c[3][2] \in Nat
        /\ c[3] \in oldPuts \cup PutsNow
    BY <1>1, HistByte, Zenon
  <2>2. c[3][1] < run + 1
    BY <1>1, <2>1, ZenonT(60) DEF Hist
  <2> QED
    BY <1>0, <2>1, <2>2, SMTT(60)
<1> HIDE DEF G
\* A life that wrote before another one, in another segment.
<1>6. ASSUME NEW c \in D, NEW d \in D, c[3][1] < d[3][1], c[1] # d[1]
      PROVE  c[3][2] < d[1] \/ G(c)
  <2>1. c \in files
    <3>1. c[3][1] # run
      <4>1. c[3][1] \in Nat /\ d[3][1] \in Nat /\ d[3][1] <= run
        BY <1>5, Zenon
      <4>2. run \in Nat
        BY <1>0
      <4>3. \A i, j, k \in Nat : i < j /\ j <= k => i # k
        OBVIOUS
      <4> QED
        BY <1>6, <4>1, <4>2, <4>3, ZenonT(60)
    <3> QED
      BY <3>1 DEF NewByte
  <2>2. CASE d \in files
    <3>1. c[3][2] < d[1] \/ Gone(c)
      BY <1>0, <1>6, <2>1, <2>2, ZenonT(60) DEF PastInv
    <3> QED
      BY <1>4, <2>1, <3>1, Zenon
  <2>3. CASE NewByte(d)
    <3>1. d[1] = seg
      BY <2>3 DEF NewByte
    <3>2. c[3][2] < seg \/ Gone(c)
      BY <1>0, <1>6, <2>1, <3>1, ZenonT(60) DEF PastInv
    <3> QED
      BY <1>4, <2>1, <3>1, <3>2, ZenonT(40)
  <2> QED
    BY <2>2, <2>3, ZenonT(60)
\* What the new process finds in another segment than its own.
<1>7. ASSUME NEW c \in D, c[1] # start
      PROVE  c[3][2] < start \/ G(c)
  <2>1. CASE c[3] \in Replayed(D)
    BY <1>2, <2>1, RecoverFacts, Zenon
  <2>2. ASSUME c[3] \notin Replayed(D)
        PROVE  \/ Hole(D, c)
               \/ ~Reached(D, c[1]) /\ \E e \in D : e[1] < c[1] /\ Hole(D, e)
    BY <1>1, <2>2, HiddenByHole, ZenonT(60)
  <2>3. CASE c[3] \notin Replayed(D) /\ safe' = D
    BY <2>2, <2>3, ZenonT(60) DEF G
  <2>4. CASE c[3] \notin Replayed(D) /\ files \subseteq D
    <3>1. \A x \in D : x \in files \/ x[1] = seg
      BY ZenonT(60) DEF NewByte
    <3>2. /\ seg <= start
          /\ start # seg => \A h \in list_segments(D) : Torn(D, h) => seg <= h
      BY <1>0, <1>1, <2>4, <3>1, KillKeeps, ZenonT(60)
    <3>3. CASE c[1] # seg
      <4>1. c \in files
        BY <3>1, <3>3, Zenon
      <4>2. c[3][2] < seg \/ Gone(c)
        BY <1>0, <3>3, <4>1, Zenon DEF PastInv
      <4>3. start \in Nat
        BY <1>2, RecoverFacts, ZenonT(60)
      <4>4. c[3][2] < seg => c[3][2] < start
        <5> HIDE DEF start
        <5>1. c[3][2] \in Nat /\ seg \in Nat
          BY <1>0, <1>5, ZenonT(60)
        <5>2. \A i, j, k \in Nat : i < j /\ j <= k => i < k
          OBVIOUS
        <5> QED
          BY <3>2, <4>3, <5>1, <5>2, ZenonT(60)
      <4> QED
        BY <1>4, <4>1, <4>2, <4>4, ZenonT(60)
    <3>4. CASE c[1] = seg
      <4>1. seg \in list_segments(D)
        BY <3>4 DEF list_segments
      <4>2. Reached(D, c[1])
        BY <1>7, <3>2, <3>4, <4>1, ZenonT(60) DEF Reached
      <4> QED
        BY <2>2, <2>4, <4>2, Zenon DEF G
    <3> QED
      BY <3>3, <3>4, ZenonT(60)
  <2> QED
    BY <2>1, <2>3, <2>4, ZenonT(60)
<1>8. PastInv'
  <2>1. Hist(files', oldPuts', run')
    BY <1>1, <1>3, SMTT(60)
  <2>2. \A c \in files' : c[1] # seg' => c[3][2] < seg' \/ Gone(c)'
    BY <1>3, <1>7, Zenon DEF G, Gone
  <2>3. \A c, d \in files' :
           c[3][1] < d[3][1] /\ c[1] # d[1] => c[3][2] < d[1] \/ Gone(c)'
    BY <1>6, Zenon DEF G, Gone
  <2> QED
    BY <1>3, <2>1, <2>2, <2>3, ZenonT(60) DEF PastInv
<1> QED
  BY <1>3, <1>8, ZenonT(60) DEF CrashInv

\* kill -9.
LEMMA KillStep ==
    ASSUME CrashInv, KillProcess
    PROVE  CrashInv'
<1>1. PICK D \in CacheAtCrash : files' = D /\ safe' = Flushed /\ Restart(D)
  BY Zenon DEF KillProcess
<1>2. /\ files \subseteq D /\ Tag(cache) \subseteq D
      /\ \A c \in D : c \in files \/ NewByte(c)
      /\ Flushed \subseteq files \cup Tag(cache)
  BY CrashBytes, Zenon
<1>3. safe' \subseteq D /\ safe \subseteq safe'
  BY <1>1, <1>2, ZenonT(60) DEF Flushed
<1> QED
  BY <1>1, <1>2, <1>3, RestartStep, ZenonT(60)

\* Power loss.
LEMMA LossStep ==
    ASSUME CrashInv, LosePower
    PROVE  CrashInv'
<1>1. PICK S \in SUBSET ((UNION CacheAtCrash) \ Flushed) :
         files' = Flushed \cup S /\ safe' = files' /\ Restart(files')
  BY Zenon DEF LosePower
<1>2. \A c \in UNION CacheAtCrash : c \in files \/ NewByte(c)
  BY CrashBytes, Zenon
<1>3. \A c \in Flushed : c \in files \/ NewByte(c)
  BY CrashBytes, Zenon
<1> DEFINE D == Flushed \cup S
<1>4. \A c \in D : c \in files \/ NewByte(c)
  BY <1>2, <1>3, ZenonT(60)
<1>5. safe' \subseteq D /\ safe \subseteq safe' /\ safe' = D /\ files' = D /\ Restart(D)
  BY <1>1 DEF Flushed
<1> HIDE DEF D
<1> QED
  BY <1>4, <1>5, RestartStep, SMTT(60)
-----------------------------------------------------------------------------
(***************************************************************************)
(* The theorems.                                                           *)
(***************************************************************************)

\* The first life starts on an empty directory.
LEMMA CrashInit ==
    ASSUME CRInit
    PROVE  CrashInv
<1>1. /\ Init /\ run = 1 /\ seg = 1 /\ files = {} /\ safe = {}
      /\ oldPuts = {} /\ recovered = {}
  BY DEF CRInit
<1>2. SafetyInv
  BY <1>1, SafetyInit, ZenonT(60)
<1>3. Hist(files, oldPuts, run) /\ Bounded(files)
  BY <1>1, ZenonT(60) DEF Hist, Bounded
<1>4. FileLen(files, seg) = 0
  BY <1>1, <1>3, LenFacts, ZenonT(60)
<1>5. LifeInv
  <2>1. /\ lsn = 1 /\ ingested = 1 /\ offset = 0 /\ msgs = <<>> /\ pending = <<>>
        /\ sq = <<>> /\ kq = <<>> /\ cq = <<>> /\ cache = {} /\ stable = {}
    BY <1>1, ZenonT(60) DEF Init
  <2>2. offset = FileLen(files, seg) + (ingested - seg) * RecSize
    BY <1>1, <1>4, <2>1, SizeAssumption, SMTT(60)
  <2> QED
    BY <1>1, <2>1, <2>2, SMTT(60) DEF LifeInv
<1>6. recovered = Replayed(files)
  <2>1. Replayed({}) = {}
    <3> SUFFICES ASSUME NEW id \in Replayed({})
                 PROVE  FALSE
      BY ZenonT(60)
    <3>1. \E c \in {} : c[3] = id
      BY <1>1, <1>3, ReplayedByte, SMTT(60)
    <3> QED
      BY <3>1
  <2> QED
    BY <1>1, <2>1, ZenonT(60)
<1>7. seg = recover(recovered)
  <2>1. recover({}) = Max({0}) + 1
    <3>1. {0} \cup { id[2] : id \in {} } = {0}
      OBVIOUS
    <3> QED
      BY <3>1, ZenonT(60) DEF recover
  <2>2. Max({0}) = 0
    <3>1. {0} \subseteq 0 .. 0 /\ {0} # {} /\ 0 \in Nat
      OBVIOUS
    <3>2. Max({0}) \in {0}
      BY <3>1, MaxFacts, ZenonT(60)
    <3> QED
      BY <3>2
  <2> QED
    BY <1>1, <2>1, <2>2
<1>8. PastInv
  BY <1>1, <1>3, <1>6, <1>7, ZenonT(60) DEF PastInv
<1> QED
  BY <1>2, <1>5, <1>8, ZenonT(60) DEF CrashInv

\* CrashInv is inductive: every step of a life, every kill, every power loss and
\* every restart keeps it.
THEOREM CrashInvariant == CRSpec => []CrashInv
<1>1. CRInit => CrashInv
  BY CrashInit
<1>2. CrashInv /\ [CRNext]_crVars => CrashInv'
  <2> SUFFICES ASSUME CrashInv, [CRNext]_crVars
               PROVE  CrashInv'
    OBVIOUS
  <2>1. CASE [Next]_vars /\ UNCHANGED crashVars
    BY <2>1, LifeStep, Zenon
  <2>2. CASE KillProcess
    BY <2>2, KillStep, Zenon
  <2>3. CASE LosePower
    BY <2>3, LossStep, Zenon
  <2> QED
    BY <2>1, <2>2, <2>3, Zenon DEF CRNext, crVars
<1> QED
  BY <1>1, <1>2, PTL DEF CRSpec

\* In every life, after any crashes, answered PUTs are as safe as the mode
\* promises and the segment is laid out in LSN order.
THEOREM EveryLifeIsSafe == CRSpec => [](AckedIsSafe /\ Layout)
<1>1. CrashInv => AckedIsSafe /\ Layout
  BY DEF CrashInv, SafetyInv
<1> QED
  BY <1>1, CrashInvariant, PTL

\* No life writes over a byte that an earlier one left.
THEOREM SegmentsOnlyGrow == CRSpec => []AppendOnly
<1>1. CrashInv => AppendOnly
  <2> SUFFICES ASSUME CrashInv
               PROVE  AppendOnly
    OBVIOUS
  <2> DEFINE D == files \cup Tag(cache)
  <2>1. \A c \in D : c \in files \/ NewByte(c)
    BY CrashBytes, Zenon
  <2>2. /\ Hist(files, oldPuts, run)
        /\ run \in Nat /\ seg \in Nat /\ lsn \in Nat
    BY Zenon DEF CrashInv, PastInv, LifeInv, SafetyInv, TypeOK
  <2> HIDE DEF D
  <2>3. Hist(D, oldPuts \cup PutsNow, run + 1)
    BY <2>1, <2>2, NewLife, ZenonT(60)
  <2>4. \A c, d \in D : c[1] = d[1] /\ c[2] = d[2] => c = d
    BY <2>3, HistUnique, Zenon
  <2> QED
    BY <2>4 DEF D, AppendOnly
<1> QED
  BY <1>1, CrashInvariant, PTL

\* Recovery brings back the first PUTs of a life, never one without those before.
THEOREM RecoveryIsAPrefix == CRSpec => []RecoveredPrefix
<1>1. CrashInv => RecoveredPrefix
  <2> SUFFICES ASSUME CrashInv
               PROVE  RecoveredPrefix
    OBVIOUS
  <2>1. Hist(files, oldPuts, run) /\ recovered = Replayed(files)
    BY DEF CrashInv, PastInv
  <2> SUFFICES ASSUME NEW a \in recovered, NEW b \in oldPuts,
                      a[1] = b[1], b[2] < a[2]
               PROVE  b \in recovered
    BY ZenonT(30) DEF RecoveredPrefix
  <2> QED
    BY <2>1, HistPrefix, ZenonT(60)
<1> QED
  BY <1>1, CrashInvariant, PTL

\* Recovery replays the lives in the order in which they wrote.
THEOREM RecoveryKeepsOrder == CRSpec => []ReplayInIssueOrder
<1>1. CrashInv => ReplayInIssueOrder
  <2> SUFFICES ASSUME CrashInv
               PROVE  ReplayInIssueOrder
    OBVIOUS
  <2>1. /\ Hist(files, oldPuts, run) /\ recovered = Replayed(files)
        /\ safe \subseteq files
        /\ \A c, d \in files :
              c[3][1] < d[3][1] /\ c[1] # d[1] => c[3][2] < d[1] \/ Gone(c)
    BY ZenonT(60) DEF CrashInv, PastInv
  <2>2. ASSUME NEW c \in files, Gone(c)
        PROVE  c[3] \notin recovered
    <3>1. \E e \in files : Hole(files, e) /\ (e = c \/ e[1] < c[1])
      BY <2>1, <2>2, ZenonT(60) DEF Gone
    <3> QED
      BY <2>1, <3>1, HoleHides, Zenon
  <2> SUFFICES ASSUME NEW c \in files, NEW d \in files,
                      c[3] \in recovered, c[3][1] < d[3][1]
               PROVE  Before(c, d) /\ (c[1] # d[1] => c[3][2] < d[3][2])
    BY ZenonT(60) DEF ReplayInIssueOrder
  <2>3. CASE c[1] = d[1]
    <3>1. c[2] < d[2]
      BY <2>1, <2>3, HistLater, ZenonT(60)
    <3> QED
      BY <2>3, <3>1 DEF Before
  <2>4. CASE c[1] # d[1]
    <3>1. c[3][2] < d[1]
      BY <2>1, <2>2, <2>4, ZenonT(60)
    <3>2. /\ c[1] \in Nat /\ c[3][2] \in Nat /\ c[1] < c[3][2]
          /\ d[1] \in Nat /\ d[3][2] \in Nat /\ d[1] < d[3][2]
      BY <2>1, HistByte, ZenonT(60)
    <3>3. c[1] < d[1] /\ c[3][2] < d[3][2]
      BY <3>1, <3>2
    <3> QED
      BY <3>3 DEF Before
  <2> QED
    BY <2>3, <2>4, ZenonT(60)
<1> QED
  BY <1>1, CrashInvariant, PTL
=============================================================================
