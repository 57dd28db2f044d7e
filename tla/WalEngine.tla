----------------------------- MODULE WalEngine -----------------------------
(***************************************************************************)
(* Stage 3 of the server: the write-ahead-log thread (WalEngine), its      *)
(* fsync planner, its acker and the io_uring it drives.                    *)
(*                                                                         *)
(* Stage 2 numbers the PUTs and sends batches over a channel.  The engine  *)
(* encodes them, writes them through the ring, fsyncs when the planner     *)
(* says so, answers the clients at the point the mode asks for and gives   *)
(* the batch buffer back to stage 2.  The thread's steps are the values of *)
(* pc; stage 2 and the kernel run between any two of them.                 *)
(*                                                                         *)
(* A record is RecSize bytes, so that a write may stop on a record         *)
(* boundary or inside a record.  The file is a set of written bytes        *)
(* <<position, lsn, byte number within the record>>.                       *)
(*                                                                         *)
(* Definitions named ..._Bug... are the definition that follows them with  *)
(* a plausible coding mistake.  No specification uses them; they show that *)
(* the properties at the end can fail.                                     *)
(***************************************************************************)
EXTENDS Integers, Sequences, FiniteSets

CONSTANTS
    Mode,           \* durability mode: "NoFsync", "Async" or "Sync"
    N_BUFFERS,      \* batch buffers that circulate
    RING_DEPTH,     \* operations the ring may hold
    SPIN_BUDGET,    \* empty polls before the thread waits on the ring
    FSYNC_BYTES,    \* cadence of the Async mode
    RecSize,        \* bytes of an encoded record
    MaxBatchPuts,   \* bound: PUTs of one batch
    MaxLsn,         \* bound: last LSN stage 2 hands out
    MaxFaults       \* bound: short writes and I/O errors the kernel injects

ASSUME ModeAssumption == Mode \in {"NoFsync", "Async", "Sync"}
ASSUME SizeAssumption ==
    /\ N_BUFFERS \in Nat \ {0}
    /\ RING_DEPTH \in Nat \ {0}
    /\ SPIN_BUDGET \in Nat
    /\ FSYNC_BYTES \in Nat \ {0}
    /\ RecSize \in Nat \ {0}
    /\ MaxBatchPuts \in Nat \ {0}
    /\ MaxLsn \in Nat
    /\ MaxFaults \in Nat

VARIABLES
    free,       \* buffers in the pool channel (free_rx / recycle_tx)
    lsn,        \* stage 2's watermark
    msgs,       \* the stage 2 -> 3 channel
    pc,         \* where the engine's loop is
    spin,       \* spin_budget; everything <= 0 is 0
    left,       \* completions of the current reap_cqes still to handle
    pending,    \* encoded, not yet in the ring
    awaiting,   \* awaiting_fsync: written, somebody still waits for Durable
    dirty,      \* dirty_bytes
    flushing,   \* flush_running
    ingested,   \* last_ingested_lsn
    offset,     \* append position of the segment
    sq,         \* pushed to the submission queue, not yet submitted
    kq,         \* owned by the kernel, in submission order
    cq,         \* completions not yet reaped
    cache,      \* bytes of the segment in the page cache
    stable,     \* bytes of the segment on stable storage
    syncOn,     \* the kernel executes an fsync
    syncing,    \* the bytes that fsync is flushing
    acked,      \* LSNs whose PUT has been answered
    faults      \* faults injected so far

stage2Vars  == <<free, lsn>>
planVars    == <<dirty, flushing>>
streamVars  == <<ingested, offset>>
diskVars    == <<cache, stable, syncOn, syncing>>
vars == <<free, lsn, msgs, pc, spin, left, pending, awaiting, dirty, flushing,
          ingested, offset, sq, kq, cq, cache, stable, syncOn, syncing, acked,
          faults>>
-----------------------------------------------------------------------------
(***************************************************************************)
(* Batches, work items and completions.                                    *)
(***************************************************************************)

\* Batch: the PUTs low+1 .. hi.
Batch == [low : Nat, hi : Nat]

\* IoWork::Write and IoWork::Fsync.
WriteOp == [op : {"Write"}, low : Nat, hi : Nat, off : Nat, done : Nat]
FsyncOp == [op : {"Fsync"}, lsn : Nat]
IoWork  == WriteOp \cup FsyncOp

\* What the kernel reports: a byte count, or one of two classes of errors.
EAGAIN == -1        \* EINTR, EAGAIN
EIO    == -2        \* any other error
Cqe    == [work : IoWork, res : Int]

Puts(b) == (b.low + 1) .. b.hi
Size(b) == (b.hi - b.low) * RecSize

\* Position in batch.out of byte p of record l.
Index(b, l, p) == (l - b.low - 1) * RecSize + p

\* A retry that forgets to move the file offset with the buffer pointer.
Bytes_BugOffset(w, from, to) ==
    { <<w.off + Index(w, c[1], c[2]) - from, c[1], c[2]>> :
        c \in { d \in Puts(w) \X (0 .. RecSize - 1) :
                  from <= Index(w, d[1], d[2]) /\ Index(w, d[1], d[2]) < to } }

\* encode_record for each PUT: bytes from .. to-1 of the batch, where the write
\* puts them in the file.
Bytes(w, from, to) ==
    { <<w.off + Index(w, c[1], c[2]), c[1], c[2]>> :
        c \in { d \in Puts(w) \X (0 .. RecSize - 1) :
                  /\ from <= Index(w, d[1], d[2])
                  /\ Index(w, d[1], d[2]) < to } }

Inflight     == Len(sq) + Len(kq) + Len(cq)
out_of_spins == spin = 0
should_park  == pending = <<>> /\ Inflight = 0
ring_is_full == Inflight >= RING_DEPTH
-----------------------------------------------------------------------------
(***************************************************************************)
(* Acker: the level a PUT waits for, and its answer when it is reached.    *)
(***************************************************************************)
Applied == 1
Written == 2
Durable == 3

\* Async answers wait for the fsync too.
AckLevel_BugDurable == IF Mode = "NoFsync" THEN Applied ELSE Durable

AckLevel ==
    CASE Mode = "NoFsync" -> Applied
      [] Mode = "Async"   -> Written
      [] Mode = "Sync"    -> Durable

advance(lsns, reached) == IF AckLevel <= reached THEN acked \cup lsns ELSE acked

is_settled(lsns, answered) == lsns \subseteq answered

(***************************************************************************)
(* FsyncPlanner.                                                           *)
(***************************************************************************)
\* Waits for the running fsync in the Async cadence too.
FsyncDue_BugOneAtATime ==
    /\ dirty > 0
    /\ CASE Mode = "NoFsync" -> FALSE
         [] Mode = "Sync"    -> ~flushing
         [] Mode = "Async"   -> dirty >= FSYNC_BYTES /\ ~flushing

\* Waits for a volume in the Sync cadence too.
FsyncDue_BugVolume ==
    /\ dirty >= FSYNC_BYTES
    /\ CASE Mode = "NoFsync" -> FALSE
         [] Mode = "Sync"    -> ~flushing
         [] Mode = "Async"   -> TRUE

FsyncDue ==
    /\ dirty > 0
    /\ CASE Mode = "NoFsync" -> FALSE
         [] Mode = "Sync"    -> ~flushing
         [] Mode = "Async"   -> dirty >= FSYNC_BYTES

(***************************************************************************)
(* IoWork::complete.                                                       *)
(***************************************************************************)
\* Takes a short write for a complete one.
Verdict_BugShortWrite(work, res) ==
    IF work.op = "Fsync"
    THEN IF res < 0 THEN "Fatal" ELSE "Durable"
    ELSE CASE res = EAGAIN -> "Retry"
           [] res # EAGAIN /\ res < 0 -> "Fatal"
           [] res >= 0 -> "Ok"

Verdict(work, res) ==
    IF work.op = "Fsync"
    THEN IF res < 0 THEN "Fatal" ELSE "Durable"
    ELSE CASE res = EAGAIN -> "Retry"
           [] res # EAGAIN /\ res < 0 -> "Fatal"
           [] res >= 0 /\ work.done + res < Size(work) -> "Retry"
           [] res >= 0 /\ work.done + res >= Size(work) -> "Ok"

Progress(work, res) == [work EXCEPT !.done = IF res >= 0 THEN @ + res ELSE @]
-----------------------------------------------------------------------------
(***************************************************************************)
(* Stage 2 as the engine sees it: it takes a free buffer, gives the PUTs   *)
(* of a batch the next k numbers, answers them if the mode asks for no     *)
(* more than memory, and sends the batch.                                  *)
(***************************************************************************)
\* Numbers the batch by the closed interval low .. hi.
Stage2Send_BugClosedInterval(k) ==
    /\ pc # "panic"
    /\ free > 0
    /\ lsn + k <= MaxLsn
    /\ free' = free - 1
    /\ lsn' = lsn + k
    /\ msgs' = Append(msgs, [low |-> lsn + 1, hi |-> lsn + k])
    /\ acked' = advance((lsn + 1) .. (lsn + k), Applied)
    /\ UNCHANGED <<pc, spin, left, pending, awaiting, planVars, streamVars,
                   sq, kq, cq, diskVars, faults>>

Stage2Send(k) ==
    /\ pc # "panic"             \* a send into the closed channel panics
    /\ free > 0
    /\ lsn + k <= MaxLsn
    /\ free' = free - 1
    /\ lsn' = lsn + k
    /\ msgs' = Append(msgs, [low |-> lsn, hi |-> lsn + k])
    /\ acked' = advance((lsn + 1) .. (lsn + k), Applied)
    /\ UNCHANGED <<pc, spin, left, pending, awaiting, planVars, streamVars,
                   sq, kq, cq, diskVars, faults>>
-----------------------------------------------------------------------------
(***************************************************************************)
(* The engine's loop.                                                      *)
(***************************************************************************)

\* handle_batch: the assertion on the LSN stream, then encode and queue.
handle_batch(b) ==
    IF b.low # ingested
    THEN /\ pc' = "panic"
         /\ UNCHANGED <<spin, streamVars, planVars, pending>>
    ELSE /\ pc' = "plan"
         /\ spin' = SPIN_BUDGET
         /\ ingested' = b.hi
         /\ offset' = offset + Size(b)
         /\ dirty' = dirty + Size(b)
         /\ pending' = Append(pending, [op |-> "Write", low |-> b.low,
                                        hi |-> b.hi, off |-> offset,
                                        done |-> 0])
         /\ UNCHANGED flushing

\* poll_channel_or_park with a message in the channel (recv or try_recv).
PollBatch ==
    /\ pc = "poll"
    /\ msgs # <<>>
    /\ msgs' = Tail(msgs)
    /\ handle_batch(Head(msgs))
    /\ UNCHANGED <<stage2Vars, left, awaiting, sq, kq, cq, diskVars, acked,
                   faults>>

\* poll_channel_or_park: try_recv finds nothing.  With no work at all the
\* thread blocks in recv instead, and takes no step.
PollEmpty ==
    /\ pc = "poll"
    /\ msgs = <<>>
    /\ ~should_park
    /\ spin' = IF spin > 0 THEN spin - 1 ELSE 0
    /\ pc' = "plan"
    /\ UNCHANGED <<stage2Vars, msgs, left, pending, awaiting, planVars,
                   streamVars, sq, kq, cq, diskVars, acked, faults>>

\* should_fsync and the push of the fsync.
PlanFsync ==
    /\ pc = "plan"
    /\ pc' = "stage"
    /\ IF FsyncDue
       THEN /\ dirty' = 0
            /\ flushing' = TRUE
            /\ pending' = Append(pending, [op |-> "Fsync", lsn |-> ingested])
       ELSE UNCHANGED <<dirty, flushing, pending>>
    /\ UNCHANGED <<stage2Vars, msgs, spin, left, awaiting, streamVars, sq, kq,
                   cq, diskVars, acked, faults>>

\* Fills a whole ring's worth whatever is in flight.
handle_pending_BugNoRoomCheck ==
    LET n == IF Len(pending) <= RING_DEPTH THEN Len(pending) ELSE RING_DEPTH
    IN  /\ pc = "stage"
        /\ pc' = "reap"
        /\ sq' = sq \o SubSeq(pending, 1, n)
        /\ pending' = SubSeq(pending, n + 1, Len(pending))
        /\ left' = Len(cq)
        /\ UNCHANGED <<stage2Vars, msgs, spin, awaiting, planVars, streamVars,
                       kq, cq, diskVars, acked, faults>>

\* handle_pending: fill the ring from the front of pending.  The completions
\* that reap_cqes will handle are the ones posted when it starts.
handle_pending ==
    LET room == RING_DEPTH - Inflight
        n    == IF Len(pending) <= room THEN Len(pending) ELSE room
    IN  /\ pc = "stage"
        /\ pc' = "reap"
        /\ sq' = sq \o SubSeq(pending, 1, n)
        /\ pending' = SubSeq(pending, n + 1, Len(pending))
        /\ left' = Len(cq)
        /\ UNCHANGED <<stage2Vars, msgs, spin, awaiting, planVars, streamVars,
                       kq, cq, diskVars, acked, faults>>

\* reap_cqes takes the next completion, if it ends with verdict v.
Reap(v) ==
    /\ pc = "reap"
    /\ left > 0
    /\ Verdict(Head(cq).work, Head(cq).res) = v
    /\ cq' = Tail(cq)
    /\ left' = left - 1

\* Recycles a batch that is still owed an fsync.
ReapOk_BugRecycleEarly ==
    LET w == Head(cq).work
    IN  /\ Reap("Ok")
        /\ acked' = advance(Puts(w), Written)
        /\ free' = free + 1
        /\ awaiting' = IF is_settled(Puts(w), acked') THEN awaiting
                       ELSE Append(awaiting, [low |-> w.low, hi |-> w.hi])
        /\ UNCHANGED <<lsn, msgs, pc, spin, pending, planVars, streamVars,
                       sq, kq, diskVars, faults>>

ReapOk ==
    LET w == Head(cq).work
    IN  /\ Reap("Ok")
        /\ acked' = advance(Puts(w), Written)
        /\ IF is_settled(Puts(w), acked')
           THEN free' = free + 1 /\ UNCHANGED awaiting
           ELSE /\ awaiting' = Append(awaiting, [low |-> w.low, hi |-> w.hi])
                /\ UNCHANGED free
        /\ UNCHANGED <<lsn, msgs, pc, spin, pending, planVars, streamVars,
                       sq, kq, diskVars, faults>>

\* Does not count the rest of the write as dirty again.
ReapRetry_BugNotDirty ==
    LET w == Progress(Head(cq).work, Head(cq).res)
    IN  /\ Reap("Retry")
        /\ pending' = <<w>> \o pending
        /\ UNCHANGED <<stage2Vars, msgs, pc, spin, awaiting, planVars,
                       streamVars, sq, kq, diskVars, acked, faults>>

ReapRetry ==
    LET w == Progress(Head(cq).work, Head(cq).res)
    IN  /\ Reap("Retry")
        /\ dirty' = dirty + (Size(w) - w.done)
        /\ pending' = <<w>> \o pending
        /\ UNCHANGED <<stage2Vars, msgs, pc, spin, awaiting, flushing,
                       streamVars, sq, kq, diskVars, acked, faults>>

\* Forgets on_fsync_completed.
ReapDurable_BugFlagStays ==
    /\ Reap("Durable")
    /\ acked' = advance(UNION { Puts(awaiting[i]) : i \in DOMAIN awaiting },
                        Durable)
    /\ free' = free + Len(awaiting)
    /\ awaiting' = <<>>
    /\ UNCHANGED <<lsn, msgs, pc, spin, pending, planVars, streamVars, sq, kq,
                   diskVars, faults>>

ReapDurable ==
    /\ Reap("Durable")
    /\ acked' = advance(UNION { Puts(awaiting[i]) : i \in DOMAIN awaiting },
                        Durable)
    /\ free' = free + Len(awaiting)
    /\ awaiting' = <<>>
    /\ flushing' = FALSE
    /\ UNCHANGED <<lsn, msgs, pc, spin, pending, dirty, streamVars, sq, kq,
                   diskVars, faults>>

ReapFatal ==
    /\ Reap("Fatal")
    /\ pc' = "panic"
    /\ UNCHANGED <<stage2Vars, msgs, spin, pending, awaiting, planVars,
                   streamVars, sq, kq, diskVars, acked, faults>>

MustPark == (out_of_spins /\ Inflight > 0) \/ ring_is_full

\* The end of the turn: submit what was pushed, and wait for a completion if
\* the spins are used up or the ring is full.
TurnEnd ==
    /\ pc = "reap"
    /\ left = 0
    /\ pc' = IF MustPark THEN "wait" ELSE "poll"
    /\ kq' = kq \o sq
    /\ sq' = <<>>
    /\ UNCHANGED <<stage2Vars, msgs, spin, left, pending, awaiting, planVars,
                   streamVars, cq, diskVars, acked, faults>>

\* submit or submit_and_wait fails with anything but EINTR: the thread panics.
SubmitFails ==
    /\ pc = "reap"
    /\ left = 0
    /\ MustPark \/ sq # <<>>
    /\ faults < MaxFaults
    /\ faults' = faults + 1
    /\ pc' = "panic"
    /\ UNCHANGED <<stage2Vars, msgs, spin, left, pending, awaiting, planVars,
                   streamVars, sq, kq, cq, diskVars, acked>>

\* submit_and_wait(1) returns: a completion is there, or a signal came (EINTR).
Wake ==
    /\ pc = "wait"
    /\ pc' = "poll"
    /\ UNCHANGED <<stage2Vars, msgs, spin, left, pending, awaiting, planVars,
                   streamVars, sq, kq, cq, diskVars, acked, faults>>

Completed   == cq # <<>> /\ Wake
Interrupted == cq = <<>> /\ Wake
-----------------------------------------------------------------------------
(***************************************************************************)
(* The kernel.  It may run what it owns in any order, except that an fsync *)
(* carries IO_DRAIN: it starts when everything submitted before it is      *)
(* complete, and nothing submitted after it starts before it completes.    *)
(***************************************************************************)
\* The fsync without IO_DRAIN.
Startable_BugNoDrain(i) == i \in DOMAIN kq

Startable(i) ==
    /\ i \in DOMAIN kq
    /\ \A j \in 1 .. i - 1 : kq[j].op # "Fsync"
    /\ kq[i].op = "Fsync" => i = 1

Without(s, i) == SubSeq(s, 1, i - 1) \o SubSeq(s, i + 1, Len(s))

Complete(i, res) ==
    /\ kq' = Without(kq, i)
    /\ cq' = Append(cq, [work |-> kq[i], res |-> res])
    /\ UNCHANGED <<stage2Vars, msgs, pc, spin, left, pending, awaiting,
                   planVars, streamVars, sq, acked>>

\* n more bytes of the write reach the page cache; fewer than asked is a fault.
KernelWrite(i, n) ==
    LET w == kq[i]
    IN  /\ Startable(i)
        /\ w.op = "Write"
        /\ n <= Size(w) - w.done
        /\ IF n = Size(w) - w.done
           THEN UNCHANGED faults
           ELSE faults < MaxFaults /\ faults' = faults + 1
        /\ cache' = cache \cup Bytes(w, w.done, w.done + n)
        /\ Complete(i, n)
        /\ UNCHANGED <<stable, syncOn, syncing>>

KernelError(i, err) ==
    /\ Startable(i)
    /\ kq[i].op = "Fsync" => err = EIO /\ ~syncOn
    /\ faults < MaxFaults
    /\ faults' = faults + 1
    /\ Complete(i, err)
    /\ UNCHANGED diskVars

\* fdatasync flushes what the page cache held when it started.
FsyncStart(i) ==
    /\ Startable(i)
    /\ kq[i].op = "Fsync"
    /\ ~syncOn
    /\ syncOn' = TRUE
    /\ syncing' = cache
    /\ UNCHANGED <<stage2Vars, msgs, pc, spin, left, pending, awaiting,
                   planVars, streamVars, sq, kq, cq, cache, stable, acked,
                   faults>>

FsyncEnd(i) ==
    /\ Startable(i)
    /\ kq[i].op = "Fsync"
    /\ syncOn
    /\ stable' = stable \cup syncing
    /\ syncOn' = FALSE
    /\ syncing' = {}
    /\ Complete(i, 0)
    /\ UNCHANGED <<cache, faults>>
-----------------------------------------------------------------------------
\* recover on an empty directory returns 0 + 1, and both threads start there.
Init ==
    /\ free = N_BUFFERS
    /\ lsn = 1
    /\ msgs = <<>>
    /\ pc = "poll"
    /\ spin = SPIN_BUDGET
    /\ left = 0
    /\ pending = <<>>
    /\ awaiting = <<>>
    /\ dirty = 0
    /\ flushing = FALSE
    /\ ingested = 1
    /\ offset = 0
    /\ sq = <<>>
    /\ kq = <<>>
    /\ cq = <<>>
    /\ cache = {}
    /\ stable = {}
    /\ syncOn = FALSE
    /\ syncing = {}
    /\ acked = {}
    /\ faults = 0

Stage2 == \E k \in 1 .. MaxBatchPuts : Stage2Send(k)

\* The engine's own steps; a signal is not one of them.
Engine ==
    \/ PollBatch
    \/ PollEmpty
    \/ PlanFsync
    \/ handle_pending
    \/ ReapOk
    \/ ReapRetry
    \/ ReapDurable
    \/ ReapFatal
    \/ TurnEnd
    \/ Completed

Kernel ==
    \E i \in 1 .. RING_DEPTH :
        \/ \E n \in 0 .. MaxBatchPuts * RecSize : KernelWrite(i, n)
        \/ FsyncStart(i)
        \/ FsyncEnd(i)

KernelFault ==
    \/ \E i \in 1 .. RING_DEPTH, err \in {EAGAIN, EIO} : KernelError(i, err)
    \/ SubmitFails

Next == Stage2 \/ Engine \/ Kernel \/ KernelFault \/ Interrupted

Spec == Init /\ [][Next]_vars

(***************************************************************************)
(* Fairness: the engine is a thread the OS schedules, and the kernel       *)
(* completes what it is given.  Stage 2 owes nothing: clients may stop.    *)
(***************************************************************************)
FairSpec == Spec /\ WF_vars(Engine) /\ WF_vars(Kernel)
-----------------------------------------------------------------------------
(***************************************************************************)
(* Properties.                                                             *)
(***************************************************************************)

\* Every variable has its type.
TypeOK ==
    /\ free \in Nat
    /\ lsn \in Nat
    /\ msgs \in Seq(Batch)
    /\ pc \in {"poll", "plan", "stage", "reap", "wait", "panic"}
    /\ spin \in 0 .. SPIN_BUDGET
    /\ left \in Nat
    /\ pending \in Seq(IoWork)
    /\ awaiting \in Seq(Batch)
    /\ dirty \in Nat
    /\ flushing \in BOOLEAN
    /\ ingested \in Nat
    /\ offset \in Nat
    /\ sq \in Seq(IoWork)
    /\ kq \in Seq(IoWork)
    /\ cq \in Seq(Cqe)
    /\ cache \subseteq (Nat \X Nat \X Nat)
    /\ stable \subseteq (Nat \X Nat \X Nat)
    /\ syncOn \in BOOLEAN
    /\ syncing \subseteq (Nat \X Nat \X Nat)
    /\ acked \subseteq Nat
    /\ faults \in 0 .. MaxFaults

\* The ring never holds more than RING_DEPTH operations, so the push into the
\* submission queue (its unwrap) cannot fail, and a reap never runs past the
\* completions it found.
RingBound ==
    /\ Inflight <= RING_DEPTH
    /\ left <= Len(cq)

\* The batches in the channel continue the encoded stream without a gap, up to
\* stage 2's watermark: the assertion of handle_batch never fires.
StreamGapless ==
    LET after(i) == IF i = 0 THEN ingested ELSE msgs[i].hi
    IN  /\ \A i \in 1 .. Len(msgs) :
              msgs[i].low = after(i - 1) /\ msgs[i].low < msgs[i].hi
        /\ after(Len(msgs)) = lsn

\* All bytes of record l are in S.
Recorded(l, S) == \A p \in 0 .. RecSize - 1 : \E c \in S : c[2] = l /\ c[3] = p

\* An answered PUT is as safe as its mode promises: on stable storage in Sync,
\* in the page cache in Async, whatever short writes, retries and completion
\* orders happened on the way.
AckedIsSafe ==
    \A l \in acked :
        /\ AckLevel = Durable => Recorded(l, stable)
        /\ AckLevel = Written => Recorded(l, cache)

\* The file is the records in LSN order, each at its own place: no write, retry
\* or reordering ever overlaps, moves or swaps bytes.
Layout ==
    \A c \in cache :
        /\ c[2] <= ingested
        /\ c[1] + (ingested - c[2] + 1) * RecSize = offset + c[3]

\* A write is at its place in the stream, within its batch, and what it has done
\* is in the page cache.
Placed(w) ==
    w.op = "Write" =>
        /\ w.low < w.hi
        /\ w.hi <= ingested
        /\ w.off + (ingested - w.low) * RecSize = offset
        /\ w.done <= Size(w)
        /\ Bytes(w, 0, w.done) \subseteq cache

GoodWork  == { w \in IoWork : Placed(w) }
GoodCqe   == { c \in Cqe : /\ Placed(c.work)
                           /\ c.work.op = "Write" => Placed(Progress(c.work, c.res)) }
GoodBatch == { b \in Batch : \A l \in Puts(b) : Recorded(l, cache) }

Works ==
    /\ pending \in Seq(GoodWork)
    /\ sq \in Seq(GoodWork)
    /\ kq \in Seq(GoodWork)
    /\ cq \in Seq(GoodCqe)
    /\ awaiting \in Seq(GoodBatch)

\* While an fsync runs it is the kernel's oldest operation, and nothing has been
\* written since it started.
FsyncAlone ==
    syncOn => /\ kq # <<>>
              /\ kq[1].op = "Fsync"
              /\ syncing = cache

\* A successful fsync not yet reaped has put on stable storage the batches that
\* wait now and the ones whose completion comes before its own.
FsyncCovers ==
    \A j \in 1 .. Len(cq) :
        cq[j].work.op = "Fsync" /\ cq[j].res >= 0 =>
            /\ \A k \in 1 .. Len(awaiting) :
                  \A l \in Puts(awaiting[k]) : Recorded(l, stable)
            /\ \A i \in 1 .. j - 1 :
                  cq[i].work.op = "Write" =>
                    Bytes(cq[i].work, 0, Progress(cq[i].work, cq[i].res).done)
                      \subseteq stable

\* The inductive strengthening of AckedIsSafe and Layout: where every write is,
\* what a running fsync flushes and what a completed one covers.
SafetyInv ==
    /\ TypeOK
    /\ RingBound
    /\ StreamGapless
    /\ Works
    /\ FsyncAlone
    /\ FsyncCovers
    /\ AckedIsSafe
    /\ Layout

\* The write operations among the works of s.
WritesIn(s) == { i \in DOMAIN s : s[i].op = "Write" }

\* Every batch buffer is in exactly one place: the pool, the channel, pending,
\* the ring or awaiting_fsync.  A lost one would starve stage 2 in the end; one
\* recycled twice would be filled while the kernel still writes from it.
BuffersConserved ==
    pc # "panic" =>
    free + Len(msgs) + Len(awaiting)
         + Cardinality(WritesIn(pending)) + Cardinality(WritesIn(sq))
         + Cardinality(WritesIn(kq))
         + Cardinality({ i \in DOMAIN cq : cq[i].work.op = "Write" })
      = N_BUFFERS

\* An fsync is queued or in the ring.
FsyncArmed ==
    \/ \E i \in DOMAIN pending : pending[i].op = "Fsync"
    \/ \E i \in DOMAIN sq : sq[i].op = "Fsync"
    \/ \E i \in DOMAIN kq : kq[i].op = "Fsync"
    \/ \E i \in DOMAIN cq : cq[i].work.op = "Fsync"

\* Clients never wait for an fsync nobody will ask for: while a batch awaits
\* one, an fsync is armed or the planner still counts dirty bytes.  This is
\* what the re-count of a retried write in reap_cqes is for.
NoForgottenFsync ==
    awaiting # <<>> /\ pc # "panic" => FsyncArmed \/ dirty > 0

\* flush_running is exact in the Sync cadence: it says whether an fsync is
\* armed, so the planner neither stacks a second one nor waits for one that is
\* not there.
FlushFlagExact ==
    Mode = "Sync" =>
        /\ pc # "panic" => (flushing <=> FsyncArmed)
        /\ \A i, j \in DOMAIN pending :
              pending[i].op = "Fsync" /\ pending[j].op = "Fsync" => i = j

\* Async: what a power cut can take is bounded by volume, one fsync window and
\* the batch that overran it, although nobody waits for the fsync.  A write that
\* is retried re-enters behind the fsync that was armed for it, and adds at most
\* its batch.  A failed fsync ends the promise: the engine panics when it reaps
\* it.
FsyncFailed ==
    pc = "panic" \/ \E i \in DOMAIN cq : cq[i].work.op = "Fsync" /\ cq[i].res < 0

LossWindow ==
    Mode = "Async" /\ ~FsyncFailed =>
        Cardinality(cache \ stable)
          <= FSYNC_BYTES - 1 + (1 + faults) * MaxBatchPuts * RecSize

\* Async and NoFsync: every PUT that stage 2 numbered is answered.
EveryPutAnswered ==
    \A l \in 2 .. MaxLsn : (l <= lsn) ~> (l \in acked \/ pc = "panic")

Waiting(l) == \E i \in DOMAIN awaiting : l \in Puts(awaiting[i])

\* Sync: when a later batch comes, everything that waited before it is answered.
\* It may have to come: an fsync and a later write reaped in the same turn leave
\* nothing pending or in flight, and the loop parks in recv with dirty bytes.
ReleasedByNextBatch ==
    \A l \in 2 .. MaxLsn :
        (Waiting(l) /\ msgs # <<>>) ~> (l \in acked \/ pc = "panic")

==============================================================================
