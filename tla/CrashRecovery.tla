--------------------------- MODULE CrashRecovery ---------------------------
(***************************************************************************)
(* The WAL across process lives.  A crash leaves some of the written       *)
(* bytes; recover (crates/storage) replays the segments at the next start, *)
(* and the new process numbers its PUTs and opens its segment after what   *)
(* it found.                                                               *)
(*                                                                         *)
(* The engine of one life is WalEngine.  The bytes of all lives are        *)
(* <<segment, position, id, byte number>>, where the id of a PUT is its    *)
(* life and its LSN: after a crash an LSN can be given out again.          *)
(***************************************************************************)
EXTENDS WalEngine, FiniteSetsExt

CONSTANTS
    MaxRuns,        \* bound: lives of the process; the last one only recovers
    MaxRunPuts,     \* bound: PUTs of each of the others
    PowerLoss       \* whether a crash may take the page cache with it

ASSUME RunAssumption ==
    /\ MaxRuns \in Nat \ {0}
    /\ MaxRunPuts \in Nat
    /\ PowerLoss \in BOOLEAN

VARIABLES
    run,            \* the current life
    seg,            \* start_lsn of the open segment, which names its file
    files,          \* bytes earlier lives left in the files
    safe,           \* those of them that are on stable storage
    oldPuts,        \* ids numbered by earlier lives
    oldAcked,       \* ids they answered
    recovered       \* ids replayed into memory when this life started

crashVars == <<run, seg, files, safe, oldPuts, oldAcked, recovered>>

Tag(S) == { <<seg, c[1], <<run, c[2]>>, c[3]>> : c \in S }
Ids(lsns) == { <<run, l>> : l \in lsns }

\* PUTs this life has numbered; its first watermark is the segment's name.
PutsNow == Ids((seg + 1) .. lsn)
-----------------------------------------------------------------------------
(***************************************************************************)
(* recover, on the bytes D of the directory.                               *)
(***************************************************************************)
FileLen(D, g) == Max({0} \cup { c[2] + 1 : c \in { d \in D : d[1] = g } })

\* decode_record at position q: the whole record of one PUT, or None (a short
\* tail, or a checksum over bytes that do not belong together).
decode_record(D, g, q) ==
    { id \in { c[3] : c \in { d \in D : d[1] = g /\ d[2] = q } } :
        \A p \in 0 .. RecSize - 1 : <<g, q + p, id, p>> \in D }

\* Records of g that decode one after the other from the start of the file.
ValidRecords(D, g) ==
    Min({ j \in 0 .. FileLen(D, g) \div RecSize :
            decode_record(D, g, j * RecSize) = {} })

list_segments(D) == { c[1] : c \in D }

Torn(D, g) == ValidRecords(D, g) * RecSize < FileLen(D, g)

Records(D, g, n) == UNION { decode_record(D, g, j * RecSize) : j \in 0 .. n - 1 }

\* Skips a torn record and reads on with the next one.
Replayed_BugSkipTorn(D) ==
    UNION { Records(D, g, FileLen(D, g)) : g \in list_segments(D) }

\* Segments are read in the order of their names, up to the first torn record.
Replayed(D) ==
    LET segs == list_segments(D)
        torn == { g \in segs : Torn(D, g) }
        read == { g \in segs : \A h \in torn : g <= h }
    IN  UNION { Records(D, g, ValidRecords(D, g)) : g \in read }

\* Goes on from the number of records, and gives LSNs out again.
recover_BugCount(ids) == Max({1, Cardinality(ids)})

\* The LSN to go on from, after the replay of these PUTs.
recover(ids) == Max({0} \cup { id[2] : id \in ids }) + 1
-----------------------------------------------------------------------------
\* Opens the segment at its start, as if it were always new.
FileEnd_BugAlwaysNew(D, start) == 0

\* Segment::open: appends to the file if it exists.
FileEnd(D, start) == FileLen(D, start)

\* A new process on the directory D: recover, then both threads start at its
\* result, and the segment of that name is opened and appended to.
Restart(D) ==
    \E ids \in {Replayed(D)} : \E start \in {recover(ids)} :
        /\ run' = run + 1
        /\ seg' = start
        /\ recovered' = ids
        /\ oldPuts' = oldPuts \cup PutsNow
        /\ oldAcked' = oldAcked \cup Ids(acked)
        /\ lsn' = start /\ ingested' = start
        /\ offset' = FileEnd(D, start)
        /\ free' = N_BUFFERS
        /\ pc' = "poll" /\ spin' = SPIN_BUDGET /\ left' = 0
        /\ dirty' = 0 /\ flushing' = FALSE
        /\ syncOn' = FALSE /\ syncing' = {}
        /\ msgs' = <<>> /\ pending' = <<>> /\ awaiting' = <<>>
        /\ sq' = <<>> /\ kq' = <<>> /\ cq' = <<>>
        /\ cache' = {} /\ stable' = {} /\ acked' = {}
        /\ UNCHANGED faults

\* What the page cache may hold when the process dies: the completed writes,
\* and a first part of each write the kernel was executing.
CacheAtCrash ==
    LET running == { i \in WritesIn(kq) : Startable(i) }
        part(f) == UNION { Bytes(kq[i], kq[i].done, f[i]) : i \in running }
    IN  { files \cup Tag(cache \cup part(f)) :
            f \in { g \in [running -> 0 .. MaxBatchPuts * RecSize] :
                      \A i \in running : g[i] \in kq[i].done .. Size(kq[i]) } }

\* The bytes on stable storage.  An fsync flushes the whole file: the bytes an
\* earlier life left in the same segment too.
Flushed ==
    safe \cup Tag(stable)
         \cup { c \in files : c[1] = seg /\ stable # {} }

\* kill -9, or a panic that ends the process: the page cache stays.
KillProcess ==
    /\ run < MaxRuns
    /\ \E D \in CacheAtCrash :
          /\ files' = D
          /\ safe' = Flushed
          /\ Restart(D)

\* Power loss: whatever the cache may have held and was not flushed may or may
\* not have reached the disk.
LosePower ==
    /\ PowerLoss
    /\ run < MaxRuns
    /\ \E S \in SUBSET ((UNION CacheAtCrash) \ Flushed) :
          /\ files' = Flushed \cup S
          /\ safe' = files'
          /\ Restart(files')

CRInit ==
    /\ Init
    /\ run = 1
    /\ seg = 1
    /\ files = {}
    /\ safe = {}
    /\ oldPuts = {}
    /\ oldAcked = {}
    /\ recovered = {}

LastLsn == IF run < MaxRuns THEN seg + MaxRunPuts ELSE seg

CRNext ==
    \/ Next /\ lsn' <= LastLsn /\ UNCHANGED crashVars
    \/ KillProcess
    \/ LosePower

crVars == <<vars, crashVars>>
CRSpec == CRInit /\ [][CRNext]_crVars
-----------------------------------------------------------------------------
\* An answered PUT is in memory again after every crash its mode claims to
\* survive.
AckedSurvives == oldAcked \subseteq recovered

\* c is read before d when the segments are replayed.
Before(c, d) == c[1] < d[1] \/ (c[1] = d[1] /\ c[2] < d[2])

\* Where the replay of D leaves segment g.
Stop(D, g) == <<g, ValidRecords(D, g) * RecSize>>

\* In Sync mode one thing can keep an answered PUT out of memory after a crash:
\* it is whole in the files with all that its life numbered before it, but
\* recover stops at a tear in front of everything that life wrote.  So nothing
\* hides the PUTs of the first life, however many crashes follow.
OnlyOldTearsHide ==
    \A id \in oldAcked \ recovered :
        /\ \A x \in oldPuts : x[1] = id[1] /\ x[2] <= id[2] =>
              Cardinality({ c \in files : c[3] = x }) = RecSize
        /\ \E g \in list_segments(files) :
              /\ Torn(files, g)
              /\ \A c \in files : c[3][1] = id[1] => Before(Stop(files, g), c)

\* What recovery brings back of a life is the first PUTs of that life: no PUT
\* is there without the ones numbered before it, whatever order the writes
\* completed in and wherever they were cut.
RecoveredPrefix ==
    \A a \in recovered, b \in oldPuts :
        a[1] = b[1] /\ b[2] < a[2] => b \in recovered

\* No life writes over a byte that an earlier one left: segments only grow.
AppendOnly ==
    \A c, d \in files \cup Tag(cache) : c[1] = d[1] /\ c[2] = d[2] => c = d

\* The last write wins also after recovery: a PUT of a later life is replayed
\* after those of earlier lives (segment name, then position), and in another
\* segment it has a higher LSN than they.  In the same segment it need not have:
\* two lives can go on from the same LSN while a tear is in front of both, and a
\* power loss can take the tear away.
ReplayInIssueOrder ==
    \A c, d \in { x \in files : x[3] \in recovered } :
        c[3][1] < d[3][1] =>
            Before(c, d) /\ (c[1] # d[1] => c[3][2] < d[3][2])
=============================================================================
