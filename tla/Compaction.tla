------------------------------ MODULE Compaction ----------------------------
(***************************************************************************)
(* Compaction of the log: stage 2 writes a snapshot of the database, then  *)
(* tells stage 3 to rotate to a fresh segment and to retire the old ones;  *)
(* recovery loads the snapshot and replays what it does not cover.  The    *)
(* messages are sent by the trigger that is commented out in               *)
(* run_main_loop; it is modelled as it is written there, and everything    *)
(* it sets in motion is live code.                                         *)
(*                                                                         *)
(* Stage 3 is reduced to what compaction sees (WalEngine has the rest):    *)
(* operations wait in pending, are bound to the active segment when they   *)
(* enter the ring, and complete in any order but for the barrier of an     *)
(* fsync.  Every PUT waits for an fsync (mode Sync).  A record is one slot *)
(* of a segment, and slots are whole, torn, or missing after a crash.      *)
(***************************************************************************)
EXTENDS Integers, Sequences, FiniteSets, SequencesExt, FiniteSetsExt

CONSTANTS
    RING,                   \* depth of the ring
    SNAPSHOT_EVERY_LSN, SNAPSHOT_MIN_LSN_GAP,
    MaxBatchPuts,           \* PUTs of a batch
    MaxLsn, MaxRuns         \* bounds: the last LSN, and the lives of the server;
                            \* in the last one it only recovers

ASSUME CompactionAssumption ==
    /\ {RING, MaxBatchPuts, MaxRuns} \subseteq Nat \ {0}
    /\ {SNAPSHOT_EVERY_LSN, SNAPSHOT_MIN_LSN_GAP, MaxLsn} \subseteq Nat

VARIABLES
    run,        \* which life of the server this is
    lsn,        \* stage 2's watermark
    db,         \* the PUTs <<run, lsn>> in the order of their last application
    snapper,    \* [compact, boundary]: last_compact_lsn and last_boundary_lsn
    s2,         \* where stage 2 is: "run", or in write_snapshot_sync
    chan,       \* the channel from stage 2 to stage 3
    eng,        \* <<"loop">>, <<"rotate", boundary>>, or <<"panic">>
    seg, off,   \* the active segment and the slots used in it
    pending, ring,  \* stage 3's operations, waiting and in flight
    awaiting,   \* PUTs written and waiting for an fsync
    cache,      \* slots <<segment, position, PUT>> of the files
    safe,       \* those known to be on stable storage
    dir,        \* the segments in the directory
    ghosts,     \* segments unlinked since the directory was last synced
    snap, snapSafe, \* the snapshot file: <<>> or <<snapshot>>, and its stable form
    acked,      \* PUTs answered, in all lives
    scars       \* segments that recovery left torn or not on stable storage: they
                \* may hide the segments after them at the next recovery

stage2 == <<lsn, db, snapper, s2>>
stage3 == <<eng, seg, off, pending, ring, awaiting>>
disk == <<cache, safe, dir, ghosts>>
snaps == <<snap, snapSafe>>
vars == <<run, stage2, chan, stage3, disk, snaps, acked, scars>>

Puts == (1 .. MaxRuns) \X (1 .. MaxLsn)
TornPut == <<0, 0>>
Snapshots == [lsn : Nat, db : Seq(Puts)]

CPTypeOK ==
    /\ run \in 1 .. MaxRuns /\ lsn \in Nat /\ db \in Seq(Puts)
    /\ snapper \in [compact : Nat, boundary : Nat]
    /\ s2 \in {"run", "write", "dirsync"}
    /\ eng \in {<<"loop">>, <<"panic">>} \cup ({"rotate"} \X Nat)
    /\ seg \in dir /\ off \in Nat /\ Len(ring) <= RING
    /\ awaiting \subseteq Puts /\ acked \subseteq Puts
    /\ cache \subseteq Nat \X Nat \X (Puts \cup {TornPut}) /\ safe \subseteq cache
    /\ dir \cap ghosts = {} /\ scars \subseteq Nat
    /\ \A s \in {snap, snapSafe} : s = <<>> \/ s[1] \in Snapshots

\* The position after the last slot of segment s in files D.
FileLen(D, s) == Max({0} \cup { e[2] : e \in { f \in D : f[1] = s } })

-----------------------------------------------------------------------------
(* Recovery.                                                               *)

\* Decoding segment s stops before the first slot that is not a whole record.
ValidLen(D, s) ==
    LET whole == { e[2] : e \in { f \in D : f[1] = s /\ f[3] # TornPut } }
    IN  Max({ n \in {0} \cup whole : 1 .. n \subseteq whole })
Torn(D, s) == ValidLen(D, s) < FileLen(D, s)

RecordsOf(D, s) ==
    [ q \in 1 .. ValidLen(D, s) |->
        (CHOOSE e \in D : e[1] = s /\ e[2] = q)[3] ]

\* wal_format::list_segments: in the order of their start LSN.
list_segments(segs) ==
    [ i \in 1 .. Cardinality(segs) |->
        CHOOSE s \in segs : Cardinality({ t \in segs : t < s }) = i - 1 ]

\* The segments recover decodes: one after the other, up to and with the first
\* that is torn.
Read(D, segs) == { s \in segs : \A t \in segs : t < s => ~Torn(D, t) }

Decoded(D, segs) ==
    LET list == list_segments(Read(D, segs))
    IN  FlattenSeq([ i \in DOMAIN list |-> RecordsOf(D, list[i]) ])

\* Db::insert_raw: p is now the last application.
insert_raw(m, p) == Append(SelectSeq(m, LAMBDA x : x # p), p)

SnapLsn(s) == IF s = <<>> THEN 0 ELSE s[1].lsn
Replay(s, recs) ==
    FoldLeft(insert_raw, IF s = <<>> THEN <<>> ELSE s[1].db,
             SelectSeq(recs, LAMBDA p : p[2] > SnapLsn(s)))

\* One above the highest LSN of the snapshot and of the records decoded.
next_lsn(D, segs, s) ==
    LET recs == { e \in D : e[1] \in Read(D, segs) /\ e[2] <= ValidLen(D, e[1]) }
    IN  Max({SnapLsn(s)} \cup { e[3][2] : e \in recs }) + 1

\* recover, then the threads of a new life on what the disk holds.
Recover(D, stable, segs, s) ==
    /\ run' = run + 1
    /\ db' = Replay(s, Decoded(D, segs)) /\ lsn' = next_lsn(D, segs, s)
    /\ snapper' = [compact |-> lsn' - 1, boundary |-> lsn']
    /\ s2' = "run" /\ chan' = <<>>
    /\ eng' = <<"loop">> /\ pending' = <<>> /\ ring' = <<>> /\ awaiting' = {}
    /\ seg' = lsn' /\ off' = FileLen(D, lsn')
    /\ cache' = D /\ safe' = stable /\ dir' = segs \cup {lsn'} /\ snap' = s
    /\ acked' = IF scars \cap segs = {} THEN acked ELSE acked \cap ToSet(db')
    /\ scars' = { t \in segs : Torn(D, t) } \cup { e[1] : e \in D \ stable }

Init ==
    /\ run = 1 /\ lsn = 1 /\ db = <<>>
    /\ snapper = [compact |-> 0, boundary |-> 1]
    /\ s2 = "run" /\ chan = <<>>
    /\ eng = <<"loop">> /\ seg = 1 /\ off = 0
    /\ pending = <<>> /\ ring = <<>> /\ awaiting = {}
    /\ cache = {} /\ safe = {} /\ dir = {1} /\ ghosts = {}
    /\ snap = <<>> /\ snapSafe = <<>> /\ acked = {} /\ scars = {}

-----------------------------------------------------------------------------
(* Stage 2.                                                                *)

\* The LSN a snapshot is written at, once SNAPSHOT_EVERY_LSN PUTs have passed;
\* write_snapshot_sync refuses it while the gap to the last one is too small.
SnapshotDue(l) ==
    /\ l - snapper.compact >= SNAPSHOT_EVERY_LSN
    /\ (l - 1) - snapper.boundary > SNAPSHOT_MIN_LSN_GAP

\* apply_batch on a batch of n PUTs, its message to stage 3, and the trigger.
ApplyBatch(n) ==
    /\ s2 = "run" /\ lsn + n <= MaxLsn /\ run < MaxRuns
    /\ lsn' = lsn + n
    /\ db' = db \o [i \in 1 .. n |-> <<run, lsn + i>>]
    /\ chan' = Append(chan, [op |-> "Write", low |-> lsn, hi |-> lsn + n])
    /\ s2' = IF SnapshotDue(lsn + n) THEN "write" ELSE "run"
    /\ UNCHANGED <<run, snapper, stage3, disk, snaps, acked, scars>>

\* The temporary file, which recovery does not look at, is written, synced and
\* renamed;
SnapRename ==
    /\ s2 = "write"
    /\ snap' = <<[lsn |-> lsn - 1, db |-> db]>> /\ s2' = "dirsync"
    /\ UNCHANGED <<run, lsn, db, snapper, chan, stage3, disk, snapSafe, acked, scars>>

\* if any of that fails there is no compaction.
SnapFails ==
    /\ s2 = "write"
    /\ s2' = "run"
    /\ UNCHANGED <<run, lsn, db, snapper, chan, stage3, disk, snaps, acked, scars>>

\* The directory is synced, with the removals done so far, and stage 3 is told.
CompactMsgs_BugOrder ==
    <<[op |-> "Retire", lsn |-> lsn - 2], [op |-> "Rotate", lsn |-> lsn - 1]>>
CompactMsgs ==
    <<[op |-> "Rotate", lsn |-> lsn - 1], [op |-> "Retire", lsn |-> lsn - 2]>>
SnapCommit ==
    /\ s2 = "dirsync"
    /\ snapSafe' = snap
    /\ ghosts' = {} /\ cache' = { e \in cache : e[1] \notin ghosts }
    /\ safe' = { e \in safe : e[1] \notin ghosts }
    /\ snapper' = [compact |-> lsn, boundary |-> lsn - 1]
    /\ chan' = chan \o CompactMsgs /\ s2' = "run"
    /\ UNCHANGED <<run, lsn, db, stage3, dir, snap, acked, scars>>

-----------------------------------------------------------------------------
(* Stage 3.                                                                *)

\* handle_batch: the batch gets the next slots of the active segment.
TakeBatch ==
    /\ eng = <<"loop">> /\ chan # <<>> /\ Head(chan).op = "Write"
    /\ LET b == Head(chan)
       IN  /\ pending' = Append(pending, [op |-> "Write", low |-> b.low, hi |-> b.hi,
                                          at |-> off])
           /\ off' = off + (b.hi - b.low)
    /\ chan' = Tail(chan)
    /\ UNCHANGED <<run, stage2, eng, seg, ring, awaiting, disk, snaps, acked, scars>>

Works == ToSet(pending) \cup { r.work : r \in ToSet(ring) }

\* The planner asks for an fsync: one at a time, and of data that needs it.
PlanFsync ==
    /\ eng = <<"loop">>
    /\ awaiting # {} \/ \E w \in Works : w.op = "Write"
    /\ \A w \in Works : w.op # "Fsync"
    /\ pending' = Append(pending, [op |-> "Fsync"])
    /\ UNCHANGED <<run, stage2, chan, eng, seg, off, ring, awaiting, disk, snaps,
                   acked, scars>>

\* handle_pending: an operation enters the ring with the active segment's fd.
Push_BugDeep ==
    /\ pending # <<>> /\ Len(ring) <= RING /\ eng # <<"panic">>
    /\ ring' = Append(ring, [work |-> Head(pending), seg |-> seg])
    /\ pending' = Tail(pending)
    /\ UNCHANGED <<run, stage2, chan, eng, seg, off, awaiting, disk, snaps, acked,
                   scars>>
Push ==
    /\ pending # <<>> /\ Len(ring) < RING /\ eng # <<"panic">>
    /\ ring' = Append(ring, [work |-> Head(pending), seg |-> seg])
    /\ pending' = Tail(pending)
    /\ UNCHANGED <<run, stage2, chan, eng, seg, off, awaiting, disk, snaps, acked,
                   scars>>

\* The slots a write fills, and the PUTs in them.
Slots(r) ==
    { <<r.seg, r.work.at + i, <<run, r.work.low + i>>>> :
        i \in 1 .. r.work.hi - r.work.low }

\* IO_DRAIN: an fsync starts when all before it are done, and holds up the rest.
Startable(i) ==
    /\ \A j \in 1 .. i - 1 : ring[j].work.op # "Fsync"
    /\ ring[i].work.op = "Fsync" => i = 1

Completes(i) == Startable(i) /\ ring' = RemoveAt(ring, i)

\* A write completes: its PUTs wait for an fsync.
WriteDone(i) ==
    /\ ring[i].work.op = "Write" /\ Completes(i)
    /\ cache' = cache \cup Slots(ring[i])
    /\ awaiting' = awaiting \cup { e[3] : e \in Slots(ring[i]) }
    /\ UNCHANGED <<run, stage2, chan, eng, seg, off, pending, safe, dir, ghosts,
                   snaps, acked, scars>>

\* An fsync of segment s, and the answers that waited for it.
Synced(s) ==
    /\ safe' = safe \cup { e \in cache : e[1] = s }
    /\ acked' = acked \cup awaiting /\ awaiting' = {}

FsyncDone(i) ==
    /\ ring[i].work.op = "Fsync" /\ Completes(i)
    /\ Synced(ring[i].seg)
    /\ UNCHANGED <<run, stage2, chan, eng, seg, off, pending, cache, dir, ghosts,
                   snaps, scars>>

\* An unlink completes; if it failed the segment stays.
RemoveDone(i) ==
    /\ ring[i].work.op = "Remove" /\ Completes(i)
    /\ \/ /\ dir' = dir \ {ring[i].work.seg}
          /\ ghosts' = ghosts \cup ({ring[i].work.seg} \cap dir)
       \/ UNCHANGED <<dir, ghosts>>
    /\ UNCHANGED <<run, stage2, chan, eng, seg, off, pending, awaiting, cache, safe,
                   snaps, acked, scars>>

\* rotate begins: until pending and ring are empty, operations only enter the
\* ring and complete.
TakeRotate ==
    /\ eng = <<"loop">> /\ chan # <<>> /\ Head(chan).op = "Rotate"
    /\ eng' = <<"rotate", Head(chan).lsn>> /\ chan' = Tail(chan)
    /\ UNCHANGED <<run, stage2, seg, off, pending, ring, awaiting, disk, snaps, acked,
                   scars>>

Drained == pending = <<>> /\ ring = <<>>
RotateSeal ==
    /\ eng[1] = "rotate" /\ Drained
    /\ Synced(seg)
    /\ seg' = eng[2] /\ dir' = dir \cup {eng[2]} /\ off' = FileLen(cache, eng[2])
    /\ eng' = <<"loop">>
    /\ UNCHANGED <<run, stage2, chan, pending, ring, cache, ghosts, snaps, scars>>

\* retire: a removal for every older segment; a panic if it would remove the
\* active one.
TakeRetire ==
    /\ eng = <<"loop">> /\ chan # <<>> /\ Head(chan).op = "Retire"
    /\ LET old == list_segments({ s \in dir : s < Head(chan).lsn })
       IN  IF seg < Head(chan).lsn
           THEN eng' = <<"panic">> /\ UNCHANGED pending
           ELSE /\ pending' = pending \o
                     [i \in DOMAIN old |-> [op |-> "Remove", seg |-> old[i]]]
                /\ UNCHANGED eng
    /\ chan' = Tail(chan)
    /\ UNCHANGED <<run, stage2, seg, off, ring, awaiting, disk, snaps, acked, scars>>

-----------------------------------------------------------------------------
(* Crashes.                                                                *)

\* Slots of writes under way.
Underway ==
    UNION { Slots(ring[i]) :
              i \in { j \in DOMAIN ring : ring[j].work.op = "Write" /\ Startable(j) } }

\* What is left of each segment: of the slots in doubt the ones before some
\* point, and perhaps a torn one there.  (Nothing after it is ever decoded.)
Outcomes(kept, doubt) ==
    LET cuts == { w \in SUBSET doubt :
                    \A e \in w, f \in doubt : e[1] = f[1] /\ f[2] < e[2] => f \in w }
        next(w) == { e \in doubt \ w :
                       \A f \in doubt \ w : e[1] = f[1] => e[2] <= f[2] }
    IN  UNION { { kept \cup w \cup { <<e[1], e[2], TornPut>> : e \in t } :
                    t \in SUBSET next(w) } : w \in cuts }

\* The process dies: the page cache and the directory are as they were.
KillProcess ==
    /\ run < MaxRuns
    /\ \E D \in Outcomes(cache, Underway) : Recover(D, safe, dir, snap)
    /\ UNCHANGED <<ghosts, snapSafe>>

In(D, segs) == { e \in D : e[1] \in segs }

\* The power fails: what was not synced may be gone, and unlinked segments and
\* the old snapshot may be back.
LosePower ==
    /\ run < MaxRuns
    /\ \E segs \in { dir \cup back : back \in SUBSET ghosts } :
       \E D \in Outcomes(In(safe, segs), In((cache \cup Underway) \ safe, segs)) :
       \E s \in {snap, snapSafe} :
          Recover(D, D, segs, s) /\ snapSafe' = s
    /\ ghosts' = {}

-----------------------------------------------------------------------------
Next ==
    \/ \E n \in 1 .. MaxBatchPuts : ApplyBatch(n)
    \/ SnapRename \/ SnapFails \/ SnapCommit
    \/ TakeBatch \/ PlanFsync \/ Push \/ TakeRotate \/ RotateSeal \/ TakeRetire
    \/ \E i \in DOMAIN ring : WriteDone(i) \/ FsyncDone(i) \/ RemoveDone(i)
    \/ KillProcess \/ LosePower

Spec == Init /\ [][Next]_vars

-----------------------------------------------------------------------------
(* Properties.                                                             *)




\* "The active segment starts at >= boundary_lsn by construction": retire does
\* not panic.
RetireSparesActive == eng # <<"panic">>
=============================================================================
