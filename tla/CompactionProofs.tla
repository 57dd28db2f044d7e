-------------------------- MODULE CompactionProofs --------------------------
(***************************************************************************)
(* That retire never meets the active segment, for every ring depth, batch *)
(* size, snapshot interval and number of lives.                            *)
(***************************************************************************)
EXTENDS Compaction, FiniteSetTheorems, WellFoundedInduction, TLAPS

USE DEF stage2, stage3, disk, snaps

Msg ==
    [op : {"Write"}, low : Nat, hi : 0 .. MaxLsn] \cup
    [op : {"Rotate"}, lsn : Int] \cup [op : {"Retire"}, lsn : Int]

GoodOp(w) == w.op = "Write" => w.low \in Nat /\ w.hi \in 0 .. MaxLsn
GoodSlot(e) == e[3][2] \in 0 .. MaxLsn
GoodSnap(s) == s = <<>> \/ s[1].lsn \in Nat

\* A Retire is right behind the Rotate to the segment above it, or that
\* rotation is under way, or its segment is the active one.
RotateFirst ==
    \A i \in 1 .. Len(chan) : chan[i].op = "Retire" =>
        IF i = 1
        THEN \/ eng = <<"rotate", chan[1].lsn + 1>>
             \/ eng = <<"loop">> /\ seg = chan[1].lsn + 1
        ELSE chan[i - 1] = [op |-> "Rotate", lsn |-> chan[i].lsn + 1]

Numbers ==
    /\ lsn \in Nat \ {0}
    /\ \E S : pending \in Seq(S) /\ \A w \in S : GoodOp(w)
    /\ \E S : ring \in Seq(S) /\ \A r \in S : GoodOp(r.work)
    /\ \A e \in cache \cup safe : GoodSlot(e)
    /\ GoodSnap(snap) /\ GoodSnap(snapSafe)
    /\ IsFiniteSet(dir) /\ IsFiniteSet(ghosts)

RetireInv == Numbers /\ chan \in Seq(Msg) /\ RotateFirst /\ RetireSparesActive

-----------------------------------------------------------------------------
\* A bounded set of numbers has a greatest element, and Max returns it.
LEMMA MaxInSet ==
    ASSUME NEW n \in Nat, NEW S, S \subseteq 0 .. n, S # {}
    PROVE  Max(S) \in S
<1> DEFINE T == { n - x : x \in S }
<1>0. \A x \in S : n - x \in Nat
  OBVIOUS
<1>1. T \subseteq Nat /\ T # {}
  BY <1>0, ZenonT(60)
<1>2. PICK y \in T : \A z \in T : ~(<<z, y>> \in OpToRel(<, Nat))
  <2> HIDE DEF T
  <2> QED
    BY <1>1, NatLessThanWellFounded, WFMin, Zenon
<1>3. \A z \in T : ~(z < y)
  BY <1>1, <1>2, ZenonT(60) DEF OpToRel
<1>4. PICK x \in S : y = n - x
  OBVIOUS
<1>5. \A z \in S : x >= z
  <2> SUFFICES ASSUME NEW z \in S PROVE x >= z
    BY Zenon
  <2>1. n - z \in T
    BY Zenon
  <2>2. ~(n - z < n - x)
    BY <1>3, <1>4, <2>1, Zenon
  <2> HIDE DEF T
  <2> QED
    BY <2>2, SMTT(60)
<1> QED
  BY <1>5, ZenonT(60) DEF Max

\* recover returns a watermark above 0 from files, and a snapshot, that hold
\* LSNs.
LEMMA NextLsnType ==
    ASSUME NEW D, \A e \in D : GoodSlot(e), NEW segs, NEW s, GoodSnap(s)
    PROVE  next_lsn(D, segs, s) \in Nat \ {0}
<1> DEFINE recs == { e \in D : e[1] \in Read(D, segs) /\ e[2] <= ValidLen(D, e[1]) }
           S == {SnapLsn(s)} \cup { e[3][2] : e \in recs }
<1>1. SnapLsn(s) \in Nat
  BY DEF SnapLsn, GoodSnap
<1>2. S \subseteq Nat /\ S # {}
  BY <1>1, CompactionAssumption, SMTT(60) DEF GoodSlot
<1>3. PICK n \in Nat : S \subseteq 0 .. n
  <2>1. MaxLsn \in Nat
    BY CompactionAssumption, ZenonT(60)
  <2>2. SnapLsn(s) + MaxLsn \in Nat /\ S \subseteq 0 .. (SnapLsn(s) + MaxLsn)
    BY <1>1, <2>1, SMTT(60) DEF GoodSlot
  <2> QED
    BY <2>2, ZenonT(60)
<1>4. Max(S) \in Nat
  <2> HIDE DEF S
  <2> QED
    BY <1>2, <1>3, MaxInSet, ZenonT(60)
<1>5. next_lsn(D, segs, s) = Max(S) + 1
  BY DEF next_lsn
<1> HIDE DEF S
<1> QED
  BY <1>4, <1>5, SMTT(60)

\* The slots a write fills hold LSNs.
LEMMA SlotsType ==
    ASSUME Numbers, NEW i \in 1 .. Len(ring), ring[i].work.op = "Write"
    PROVE  \A e \in Slots(ring[i]) : GoodSlot(e)
<1>1. GoodOp(ring[i].work)
  BY DEF Numbers
<1>2. ring[i].work.low \in Nat /\ ring[i].work.hi \in 0 .. MaxLsn /\ MaxLsn \in Nat
  BY <1>1, CompactionAssumption, ZenonT(60) DEF GoodOp
<1> QED
  BY <1>2, SMTT(60) DEF Slots, GoodSlot

\* A crash leaves what was there, and torn slots.
LEMMA OutcomesType ==
    ASSUME NEW kept, NEW doubt, \A e \in kept \cup doubt : GoodSlot(e),
           NEW D \in Outcomes(kept, doubt)
    PROVE  \A e \in D : GoodSlot(e)
<1>1. \A e \in D : e \in kept \/ e \in doubt \/ e[3] = TornPut
  BY DEF Outcomes
<1>2. \A e : e[3] = TornPut => GoodSlot(e)
  BY CompactionAssumption, SMTT(60) DEF TornPut, GoodSlot
<1> QED
  BY <1>1, <1>2, ZenonT(60)

LEMMA UnderwayType ==
    ASSUME Numbers
    PROVE  \A e \in Underway : GoodSlot(e)
<1>1. DOMAIN ring = 1 .. Len(ring)
  BY DEF Numbers
<1> QED
  BY <1>1, SlotsType, ZenonT(60) DEF Underway

LEMMA RecoverStep ==
    ASSUME Numbers, NEW D, \A e \in D : GoodSlot(e), NEW stable,
           \A e \in stable : GoodSlot(e), NEW segs, IsFiniteSet(segs),
           NEW s, GoodSnap(s), Recover(D, stable, segs, s),
           GoodSnap(snapSafe'), IsFiniteSet(ghosts')
    PROVE  RetireInv'
<1>1. lsn' \in Nat \ {0}
  BY NextLsnType, ZenonT(60) DEF Recover
<1>2. pending' = <<>> /\ ring' = <<>> /\ chan' = <<>> /\ eng' = <<"loop">>
      /\ cache' = D /\ safe' = stable /\ snap' = s /\ dir' = segs \cup {lsn'}
  BY DEF Recover
<1>3. IsFiniteSet(dir')
  BY <1>2, FS_AddElement, ZenonT(60)
<1>4. \E S : pending' \in Seq(S) /\ \A w \in S : GoodOp(w)
  BY <1>2, SMTT(60)
<1>5. \E S : ring' \in Seq(S) /\ \A r \in S : GoodOp(r.work)
  BY <1>2, SMTT(60)
<1>6. Numbers'
  BY <1>1, <1>2, <1>3, <1>4, <1>5, ZenonT(60) DEF Numbers
<1>7. chan' \in Seq(Msg) /\ RotateFirst' /\ RetireSparesActive'
  BY <1>2, SMTT(60) DEF RotateFirst, RetireSparesActive
<1> QED
  BY <1>6, <1>7, ZenonT(60) DEF RetireInv

-----------------------------------------------------------------------------
LEMMA RetireInit == Init => RetireInv
<1> SUFFICES ASSUME Init PROVE RetireInv
  BY ZenonT(60)
<1>1. IsFiniteSet(dir) /\ IsFiniteSet(ghosts)
  BY FS_Singleton, FS_EmptySet, ZenonT(60) DEF Init
<1>2. /\ \E S : pending \in Seq(S) /\ \A w \in S : GoodOp(w)
      /\ \E S : ring \in Seq(S) /\ \A r \in S : GoodOp(r.work)
  <2>1. pending \in Seq({}) /\ ring \in Seq({})
    BY DEF Init
  <2> QED
    BY <2>1, SMTT(60)
<1>3. Numbers
  <2>1. /\ lsn \in Nat \ {0} /\ cache \cup safe = {}
        /\ GoodSnap(snap) /\ GoodSnap(snapSafe)
    BY SMTT(60) DEF Init, GoodSnap
  <2> QED
    BY <1>1, <1>2, <2>1, ZenonT(60) DEF Numbers
<1>4. chan = <<>> /\ eng = <<"loop">>
  BY ZenonT(60) DEF Init
<1>5. chan \in Seq(Msg) /\ RotateFirst /\ RetireSparesActive
  BY <1>4, SMTT(60) DEF RotateFirst, RetireSparesActive
<1> QED
  BY <1>3, <1>5, ZenonT(60) DEF RetireInv

\* What a step that is no crash does to the numbers.
LEMMA NumbersStep ==
    ASSUME RetireInv, Next, ~KillProcess, ~LosePower
    PROVE  Numbers'
<1>0. Numbers /\ chan \in Seq(Msg) /\ MaxLsn \in Nat
  BY CompactionAssumption, ZenonT(60) DEF RetireInv
<1>p. PICK P : pending \in Seq(P) /\ \A w \in P : GoodOp(w)
  BY <1>0, ZenonT(60) DEF Numbers
<1>r. PICK R : ring \in Seq(R) /\ \A r \in R : GoodOp(r.work)
  BY <1>0, ZenonT(60) DEF Numbers
<1>1. ASSUME NEW n \in 1 .. MaxBatchPuts, ApplyBatch(n) PROVE Numbers'
  <2>1. n \in Nat /\ lsn \in Nat \ {0} /\ lsn' = lsn + n
    BY <1>0, <1>1, CompactionAssumption, SMTT(60) DEF ApplyBatch, Numbers
  <2> QED
    BY <1>0, <1>1, <2>1, SMTT(60) DEF ApplyBatch, Numbers
<1>2. CASE SnapRename
  <2>1. lsn - 1 \in Nat /\ GoodSnap(snap')
    BY <1>0, <1>2, SMTT(60) DEF SnapRename, Numbers, GoodSnap
  <2> QED
    BY <1>0, <1>2, <2>1, ZenonT(60) DEF SnapRename, Numbers
<1>3. CASE SnapFails
  BY <1>0, <1>3, ZenonT(60) DEF SnapFails, Numbers
<1>4. CASE SnapCommit
  <2>1. IsFiniteSet(ghosts')
    BY <1>4, FS_EmptySet, SMTT(60) DEF SnapCommit
  <2>2. \A e \in cache' \cup safe' : GoodSlot(e)
    BY <1>0, <1>4, ZenonT(60) DEF SnapCommit, Numbers
  <2> QED
    BY <1>0, <1>4, <2>1, <2>2, ZenonT(60) DEF SnapCommit, Numbers
<1>5. CASE TakeBatch
  <2> DEFINE b == Head(chan)
             w == [op |-> "Write", low |-> b.low, hi |-> b.hi, at |-> off]
  <2>1. b \in Msg /\ b.op = "Write"
    BY <1>0, <1>5, SMTT(60) DEF TakeBatch
  <2>2. GoodOp(w)
    BY <2>1, ZenonT(60) DEF Msg, GoodOp
  <2>3. pending' = Append(pending, w)
    BY <1>5, ZenonT(60) DEF TakeBatch
  <2> HIDE DEF w
  <2>4. pending' \in Seq(P \cup {w}) /\ \A x \in P \cup {w} : GoodOp(x)
    BY <1>p, <2>2, <2>3, SMTT(60)
  <2>5. \E S : pending' \in Seq(S) /\ \A x \in S : GoodOp(x)
    BY <2>4, ZenonT(60)
  <2> QED
    BY <1>0, <1>5, <2>5, ZenonT(60) DEF TakeBatch, Numbers
<1>6. CASE PlanFsync
  <2> DEFINE w == [op |-> "Fsync"]
  <2>1. GoodOp(w) /\ pending' = Append(pending, w)
    BY <1>6, ZenonT(60) DEF PlanFsync, GoodOp
  <2> HIDE DEF w
  <2>2. pending' \in Seq(P \cup {w}) /\ \A x \in P \cup {w} : GoodOp(x)
    BY <1>p, <2>1, SMTT(60)
  <2>3. \E S : pending' \in Seq(S) /\ \A x \in S : GoodOp(x)
    BY <2>2, ZenonT(60)
  <2> QED
    BY <1>0, <1>6, <2>3, SMTT(60) DEF PlanFsync, Numbers
<1>7. CASE Push
  <2> DEFINE r == [work |-> Head(pending), seg |-> seg]
  <2>1. /\ pending' \in Seq(P) /\ Head(pending) \in P
        /\ ring' = Append(ring, r)
    BY <1>p, <1>7, SMTT(60) DEF Push
  <2>2. GoodOp(r.work)
    BY <1>p, <2>1, ZenonT(60)
  <2> HIDE DEF r
  <2>3. ring' \in Seq(R \cup {r}) /\ \A x \in R \cup {r} : GoodOp(x.work)
    BY <1>r, <2>1, <2>2, SMTT(60)
  <2>4. /\ \E S : pending' \in Seq(S) /\ \A x \in S : GoodOp(x)
        /\ \E S : ring' \in Seq(S) /\ \A x \in S : GoodOp(x.work)
    BY <1>p, <2>1, <2>3, ZenonT(60)
  <2> QED
    BY <1>0, <1>7, <2>4, ZenonT(60) DEF Push, Numbers
<1>8. CASE TakeRotate
  BY <1>0, <1>8, SMTT(60) DEF TakeRotate, Numbers
<1>9. CASE RotateSeal
  <2>1. IsFiniteSet(dir') /\ \A e \in cache' \cup safe' : GoodSlot(e)
    BY <1>0, <1>9, FS_AddElement, ZenonT(60) DEF RotateSeal, Synced, Numbers
  <2> QED
    BY <1>0, <1>9, <2>1, ZenonT(60) DEF RotateSeal, Numbers
<1>10. CASE TakeRetire
  <2> DEFINE old == list_segments({ s \in dir : s < Head(chan).lsn })
             ops == [i \in DOMAIN old |-> [op |-> "Remove", seg |-> old[i]]]
             O == { ops[i] : i \in DOMAIN old }
  <2>1. pending' = pending \/ pending' = pending \o ops
    BY <1>10, ZenonT(60) DEF TakeRetire
  <2>2. PICK k \in Nat : DOMAIN old = 1 .. k
    <3>1. IsFiniteSet({ s \in dir : s < Head(chan).lsn })
      BY <1>0, FS_Subset, SMTT(60) DEF Numbers
    <3>2. Cardinality({ s \in dir : s < Head(chan).lsn }) \in Nat
      BY <3>1, FS_CardinalityType, ZenonT(60)
    <3> QED
      BY <3>2, ZenonT(60) DEF list_segments
  <2> HIDE DEF old
  <2>3. \A x \in O : GoodOp(x)
    <3>1. \A i \in DOMAIN old : ops[i].op = "Remove"
      OBVIOUS
    <3> QED
      BY <3>1, ZenonT(60) DEF GoodOp
  <2>4. ops \in Seq(O)
    BY <2>2, SMTT(60)
  <2> HIDE DEF ops, O
  <2>5. (pending \o ops) \in Seq(P \cup O) /\ \A x \in P \cup O : GoodOp(x)
    BY <1>p, <2>3, <2>4, SMTT(60)
  <2>6. \E S : pending' \in Seq(S) /\ \A x \in S : GoodOp(x)
    BY <1>p, <2>1, <2>5, ZenonT(60)
  <2> QED
    BY <1>0, <1>10, <2>6, ZenonT(60) DEF TakeRetire, Numbers
<1>11. ASSUME NEW i \in DOMAIN ring, Completes(i)
       PROVE  \E S : ring' \in Seq(S) /\ \A x \in S : GoodOp(x.work)
  <2>1. i \in 1 .. Len(ring) /\ ring' = RemoveAt(ring, i)
    BY <1>r, <1>11, SMTT(60) DEF Completes
  <2>2. ring' \in Seq(R)
    BY <1>r, <2>1, SMTT(60) DEF RemoveAt
  <2> QED
    BY <1>r, <2>2, SMTT(60)
<1>12. ASSUME NEW i \in DOMAIN ring, WriteDone(i) PROVE Numbers'
  <2>1. i \in 1 .. Len(ring) /\ ring[i].work.op = "Write" /\ Completes(i)
    BY <1>r, <1>12, SMTT(60) DEF WriteDone
  <2>2. \A e \in cache' \cup safe' : GoodSlot(e)
    BY <1>0, <1>12, <2>1, SlotsType, ZenonT(60) DEF WriteDone, Numbers
  <2> QED
    BY <1>0, <1>11, <1>12, <2>1, <2>2, ZenonT(60) DEF WriteDone, Numbers
<1>13. ASSUME NEW i \in DOMAIN ring, FsyncDone(i) PROVE Numbers'
  <2>1. \A e \in cache' \cup safe' : GoodSlot(e)
    BY <1>0, <1>13, ZenonT(60) DEF FsyncDone, Synced, Numbers
  <2> QED
    BY <1>0, <1>11, <1>13, <2>1, ZenonT(60) DEF FsyncDone, Numbers
<1>14. ASSUME NEW i \in DOMAIN ring, RemoveDone(i) PROVE Numbers'
  <2> DEFINE x == ring[i].work.seg
  <2>1. IsFiniteSet(dir) /\ IsFiniteSet(ghosts)
    BY <1>0, ZenonT(60) DEF Numbers
  <2>2. IsFiniteSet(dir \ {x}) /\ IsFiniteSet(ghosts \cup ({x} \cap dir))
    <3>1. IsFiniteSet({x} \cap dir)
      BY <2>1, FS_Subset, SMTT(60)
    <3> QED
      BY <2>1, <3>1, FS_RemoveElement, FS_Union, ZenonT(60)
  <2>3. IsFiniteSet(dir') /\ IsFiniteSet(ghosts')
    BY <1>14, <2>1, <2>2, ZenonT(60) DEF RemoveDone
  <2> QED
    BY <1>0, <1>11, <1>14, <2>3, SMTT(60) DEF RemoveDone, Numbers
<1> QED
  BY <1>1, <1>2, <1>3, <1>4, <1>5, <1>6, <1>7, <1>8, <1>9, <1>10, <1>12, <1>13,
     <1>14, ZenonT(60) DEF Next

\* What a step that is no crash does to the channel.
LEMMA ChannelStep ==
    ASSUME RetireInv, Next, ~KillProcess, ~LosePower
    PROVE  chan' \in Seq(Msg) /\ RotateFirst' /\ RetireSparesActive'
<1>0. /\ chan \in Seq(Msg) /\ Len(chan) \in Nat /\ RotateFirst
      /\ eng # <<"panic">> /\ lsn \in Nat /\ MaxLsn \in Nat
      /\ \A i \in 1 .. Len(chan) : chan[i] \in Msg
  BY CompactionAssumption, SMTT(60) DEF RetireInv, Numbers, RetireSparesActive
<1>t. \A m \in Msg : m.op \in {"Rotate", "Retire"} => m.lsn \in Int
  BY ZenonT(60) DEF Msg
<1>1. CASE UNCHANGED <<chan, eng, seg>>
  BY <1>0, <1>1, ZenonT(60) DEF RotateFirst, RetireSparesActive
<1>2. ASSUME NEW n \in 1 .. MaxBatchPuts, ApplyBatch(n)
      PROVE  chan' \in Seq(Msg) /\ RotateFirst' /\ RetireSparesActive'
  <2> DEFINE b == [op |-> "Write", low |-> lsn, hi |-> lsn + n]
  <2>1. chan' = Append(chan, b) /\ UNCHANGED <<eng, seg>>
    BY <1>2, ZenonT(60) DEF ApplyBatch
  <2>2. b \in Msg /\ b.op # "Retire"
    BY <1>0, <1>2, CompactionAssumption, SMTT(60) DEF ApplyBatch, Msg
  <2> HIDE DEF b
  <2>3. /\ chan' \in Seq(Msg) /\ Len(chan') = Len(chan) + 1
        /\ \A i \in 1 .. Len(chan) : chan'[i] = chan[i]
        /\ chan'[Len(chan) + 1] = b
    BY <1>0, <2>1, <2>2, SMTT(60)
  <2>4. \A i \in 1 .. Len(chan') : chan'[i].op = "Retire" => i \in 1 .. Len(chan)
    BY <1>0, <2>2, <2>3, SMTT(60)
  <2> QED
    BY <1>0, <2>1, <2>3, <2>4, SMTT(60) DEF RotateFirst, RetireSparesActive
<1>3. CASE SnapCommit
  <2> DEFINE b == [op |-> "Rotate", lsn |-> lsn - 1]
             c == [op |-> "Retire", lsn |-> lsn - 2]
             n == Len(chan)
  <2>1. chan' = chan \o <<b, c>> /\ UNCHANGED <<eng, seg>>
    BY <1>3, ZenonT(60) DEF SnapCommit, CompactMsgs
  <2>2. /\ b \in Msg /\ c \in Msg /\ b.op # "Retire" /\ c.op = "Retire"
        /\ b = [op |-> "Rotate", lsn |-> c.lsn + 1]
    BY <1>0, SMTT(60) DEF Msg
  <2> HIDE DEF b, c
  <2>3. /\ chan' \in Seq(Msg) /\ Len(chan') = n + 2
        /\ \A i \in 1 .. n : chan'[i] = chan[i]
        /\ chan'[n + 1] = b /\ chan'[n + 2] = c
    BY <1>0, <2>1, <2>2, SMTT(60)
  <2>4. ASSUME NEW i \in 1 .. Len(chan'), chan'[i].op = "Retire"
        PROVE  \/ i \in 1 .. n
               \/ i = n + 2 /\ i # 1 /\ i - 1 = n + 1
    BY <1>0, <2>2, <2>3, <2>4, SMTT(60)
  <2>5. RotateFirst'
    BY <1>0, <2>1, <2>2, <2>3, <2>4, SMTT(60) DEF RotateFirst
  <2> QED
    BY <1>0, <2>1, <2>3, <2>5, SMTT(60) DEF RetireSparesActive
<1>4. ASSUME chan # <<>>, chan' = Tail(chan)
      PROVE  /\ chan' \in Seq(Msg) /\ Len(chan') = Len(chan) - 1
             /\ \A i \in 1 .. Len(chan') : chan'[i] = chan[i + 1]
             /\ Head(chan) = chan[1] /\ 1 \in 1 .. Len(chan)
             /\ \A i \in 1 .. Len(chan') : chan'[i].op = "Retire" =>
                   chan[i] = [op |-> "Rotate", lsn |-> chan'[i].lsn + 1]
  <2>1. /\ chan' \in Seq(Msg) /\ Len(chan') = Len(chan) - 1
        /\ \A i \in 1 .. Len(chan') : chan'[i] = chan[i + 1]
        /\ Head(chan) = chan[1] /\ 1 \in 1 .. Len(chan)
    BY <1>0, <1>4, SMTT(60)
  <2>2. ASSUME NEW i \in 1 .. Len(chan'), chan'[i].op = "Retire"
        PROVE  chan[i] = [op |-> "Rotate", lsn |-> chan'[i].lsn + 1]
    <3>1. i + 1 \in 1 .. Len(chan) /\ i + 1 # 1 /\ (i + 1) - 1 = i
      BY <1>0, <2>1, SMTT(60)
    <3> QED
      BY <1>0, <2>1, <2>2, <3>1, ZenonT(60) DEF RotateFirst
  <2> QED
    BY <2>1, <2>2, ZenonT(60)
<1>5. ASSUME chan # <<>>, chan' = Tail(chan)
      PROVE  \A i \in 1 .. Len(chan') : i # 1 /\ chan'[i].op = "Retire" =>
                 chan'[i - 1] = [op |-> "Rotate", lsn |-> chan'[i].lsn + 1]
  <2>1. \A i \in 1 .. Len(chan') : i # 1 => i - 1 \in 1 .. Len(chan') /\ (i - 1) + 1 = i
    BY <1>0, <1>4, <1>5, SMTT(60)
  <2> QED
    BY <1>4, <1>5, <2>1, SMTT(60)
<1>6. CASE TakeBatch \/ TakeRetire
  <2>1. /\ chan # <<>> /\ chan' = Tail(chan) /\ Head(chan).op # "Rotate"
        /\ eng = <<"loop">>
    BY <1>6, ZenonT(60) DEF TakeBatch, TakeRetire
  <2>2. RotateFirst'
    <3>1. ASSUME 1 \in 1 .. Len(chan'), chan'[1].op = "Retire"
          PROVE  FALSE
      <4>1. Head(chan) = [op |-> "Rotate", lsn |-> chan'[1].lsn + 1]
        BY <1>4, <2>1, <3>1, ZenonT(60)
      <4> QED
        BY <2>1, <4>1, SMTT(60)
    <3> QED
      BY <1>5, <2>1, <3>1, ZenonT(60) DEF RotateFirst
  <2>3. ASSUME TakeRetire PROVE eng' = eng
    <3>1. Head(chan).op = "Retire" /\ Head(chan) = chan[1] /\ 1 \in 1 .. Len(chan)
      BY <1>4, <2>1, <2>3, SMTT(60) DEF TakeRetire
    <3>2. chan[1].lsn \in Int /\ seg = chan[1].lsn + 1
      BY <1>0, <1>t, <2>1, <3>1, ZenonT(60) DEF RotateFirst
    <3>3. ~(seg < Head(chan).lsn)
      BY <3>1, <3>2, SMTT(60)
    <3> QED
      BY <2>3, <3>3, SMTT(60) DEF TakeRetire
  <2>4. eng' = eng
    BY <1>6, <2>3, ZenonT(60) DEF TakeBatch
  <2> QED
    BY <1>0, <1>4, <2>1, <2>2, <2>4, ZenonT(60) DEF RetireSparesActive
<1>7. CASE TakeRotate
  <2>1. /\ chan # <<>> /\ chan' = Tail(chan)
        /\ eng' = <<"rotate", Head(chan).lsn>>
    BY <1>7, ZenonT(60) DEF TakeRotate
  <2>2. ASSUME 1 \in 1 .. Len(chan'), chan'[1].op = "Retire"
        PROVE  eng' = <<"rotate", chan'[1].lsn + 1>>
    <3>1. Head(chan) = [op |-> "Rotate", lsn |-> chan'[1].lsn + 1]
      BY <1>4, <2>1, <2>2, ZenonT(60)
    <3> DEFINE b == chan'[1].lsn + 1
    <3> HIDE DEF b
    <3>2. Head(chan).lsn = b
      BY <3>1, SMTT(60) DEF b
    <3> QED
      BY <2>1, <3>2, ZenonT(60) DEF b
  <2>3. RotateFirst'
    BY <1>5, <2>1, <2>2, ZenonT(60) DEF RotateFirst
  <2> QED
    BY <1>4, <2>1, <2>3, ZenonT(60) DEF RetireSparesActive
<1>8. CASE RotateSeal
  <2>1. eng[1] = "rotate" /\ seg' = eng[2] /\ eng' = <<"loop">> /\ chan' = chan
    BY <1>8, ZenonT(60) DEF RotateSeal
  <2>2. eng # <<"loop">>
    BY <2>1, SMTT(60)
  <2>3. RotateFirst'
    BY <1>0, <2>1, <2>2, SMTT(60) DEF RotateFirst
  <2> QED
    BY <1>0, <2>1, <2>3, ZenonT(60) DEF RetireSparesActive
<1>9. \/ UNCHANGED <<chan, eng, seg>>
      \/ \E n \in 1 .. MaxBatchPuts : ApplyBatch(n)
      \/ SnapCommit \/ TakeBatch \/ TakeRetire \/ TakeRotate \/ RotateSeal
  BY ZenonT(60) DEF Next, SnapRename, SnapFails, PlanFsync, Push, WriteDone, FsyncDone, RemoveDone
<1> QED
  BY <1>1, <1>2, <1>3, <1>6, <1>7, <1>8, <1>9, ZenonT(60)

\* A crash starts a life with an empty channel.
LEMMA CrashStep ==
    ASSUME RetireInv, KillProcess \/ LosePower
    PROVE  RetireInv'
<1>0. /\ Numbers /\ \A e \in cache \cup safe : GoodSlot(e)
      /\ GoodSnap(snap) /\ GoodSnap(snapSafe)
      /\ IsFiniteSet(dir) /\ IsFiniteSet(ghosts)
      /\ \A e \in Underway : GoodSlot(e)
  BY UnderwayType, ZenonT(60) DEF RetireInv, Numbers
<1>1. CASE KillProcess
  <2>1. PICK D \in Outcomes(cache, Underway) : Recover(D, safe, dir, snap)
    BY <1>1, ZenonT(60) DEF KillProcess
  <2>2. \A e \in D : GoodSlot(e)
    BY <1>0, OutcomesType, ZenonT(60)
  <2>3. ghosts' = ghosts /\ snapSafe' = snapSafe
    BY <1>1, ZenonT(60) DEF KillProcess
  <2> QED
    BY <1>0, <2>1, <2>2, <2>3, RecoverStep, SMTT(60)
<1>2. CASE LosePower
  <2>1. PICK back \in SUBSET ghosts :
          \E D \in Outcomes(In(safe, dir \cup back),
                            In((cache \cup Underway) \ safe, dir \cup back)) :
          \E s \in {snap, snapSafe} :
             Recover(D, D, dir \cup back, s) /\ snapSafe' = s
    BY <1>2, ZenonT(60) DEF LosePower
  <2> DEFINE kept == In(safe, dir \cup back)
             doubt == In((cache \cup Underway) \ safe, dir \cup back)
  <2>2. PICK D \in Outcomes(kept, doubt), s \in {snap, snapSafe} :
          Recover(D, D, dir \cup back, s) /\ snapSafe' = s
    BY <2>1, SMTT(60)
  <2>3. \A e \in kept \cup doubt : GoodSlot(e)
    BY <1>0, ZenonT(60) DEF In
  <2>4. \A e \in D : GoodSlot(e)
    <3> HIDE DEF kept, doubt
    <3> QED
      BY <2>2, <2>3, OutcomesType, ZenonT(60)
  <2>5. IsFiniteSet(dir \cup back)
    <3>1. IsFiniteSet(back)
      BY <1>0, <2>1, FS_Subset, SMTT(60)
    <3> QED
      BY <1>0, <3>1, FS_Union, ZenonT(60)
  <2>6. ghosts' = {} /\ IsFiniteSet(ghosts')
    BY <1>2, FS_EmptySet, ZenonT(60) DEF LosePower
  <2>7. GoodSnap(s) /\ GoodSnap(snapSafe')
    BY <1>0, <2>2, SMTT(60)
  <2> QED
    BY <1>0, <2>2, <2>4, <2>5, <2>6, <2>7, RecoverStep, SMTT(60)
<1> QED
  BY <1>1, <1>2, SMTT(60)

\* retire never finds the active segment among those it is to remove: its panic
\* (stage3/mod.rs:228) is out of reach, whatever crashes come between the steps
\* of a compaction.
THEOREM RetireIsSafe == Spec => []RetireSparesActive
<1>1. ASSUME RetireInv, [Next]_vars
      PROVE  RetireInv'
  <2>1. CASE UNCHANGED vars
    BY <1>1, <2>1, ZenonT(60)
       DEF vars, RetireInv, Numbers, RotateFirst, RetireSparesActive
  <2>2. CASE KillProcess \/ LosePower
    BY <1>1, <2>2, CrashStep, ZenonT(60)
  <2>3. CASE Next /\ ~KillProcess /\ ~LosePower
    BY <1>1, <2>3, NumbersStep, ChannelStep, ZenonT(60) DEF RetireInv
  <2> QED
    BY <1>1, <2>1, <2>2, <2>3, SMTT(60)
<1>2. RetireInv => RetireSparesActive
  BY DEF RetireInv
<1> QED
  BY <1>1, <1>2, RetireInit, PTL DEF Spec
=============================================================================
