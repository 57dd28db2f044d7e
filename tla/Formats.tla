------------------------------ MODULE Formats ------------------------------
(***************************************************************************)
(* The byte formats: requests and responses on a socket (crates/wire, the  *)
(* server's handle_conn, the clients' FrameReader), the records of the log *)
(* (wal_format.rs) and the snapshot file (snapshot.rs).                    *)
(*                                                                         *)
(* A client and a server exchange real byte sequences, and the server      *)
(* keeps a real log and snapshot.  The digits are smaller than in the      *)
(* code: a byte is 0 .. BASE - 1, a u32 has U32 bytes and a u64 has U64.   *)
(* A request goes through the stages of the server, which are the subject  *)
(* of Pipeline and WalEngine, in one step.                                 *)
(***************************************************************************)
EXTENDS Integers, SequencesExt, Bitwise

CONSTANTS
    BASE,           \* values of a byte; 256 in the code
    U32, U64,       \* bytes of a u32 and of a u64; 4 and 8 in the code
    MAX_FRAME,      \* longest request body the server takes; 8 MiB
    BASIS, PRIME,   \* of the checksum, modulo the width
    MAGIC,          \* SNAPSHOT_MAGIC, modulo the width
    Keys, Values,   \* byte sequences the client uses
    MaxReqs         \* bound: requests of the client

\* Widths are such that no length and no LSN wraps: a body of 4 GiB or more
\* would, in encode_raw as well as in encode_record.
ASSUME FormatsAssumption ==
    /\ BASE > 3 /\ U32 > 0 /\ U64 > 0
    /\ MAX_FRAME > 0 /\ MAX_FRAME + U64 < BASE ^ U32
    /\ BASIS \in 1 .. BASE ^ U64 - 1 /\ PRIME % 2 = 1
    /\ Keys \cup Values \subseteq Seq(0 .. BASE - 1)
    /\ \A k \in Keys, v \in Values : 1 + U32 + Len(k) + Len(v) < BASE ^ U32
    /\ MaxReqs + 2 < BASE ^ U64

VARIABLES
    asked,          \* history: the requests the client encoded
    up,             \* bytes on their way to the server
    reading,        \* handle_conn: 0 before a header, the length of the body
                    \* it reads, or -1 when it has left its loop
    served,         \* history: the requests as the server decodes them
    db,             \* the map, a set of pairs
    lsn,            \* watermark of stage 2
    log,            \* bytes of the segment
    snap,           \* bytes of the snapshot file, <<>> before the first
    replied,        \* history: the responses the server encoded
    down,           \* bytes on their way to the client
    buf,            \* FrameReader.buf
    got             \* the responses as the client decodes them

vars == <<asked, up, reading, served, db, lsn, log, snap, replied, down, buf, got>>
-----------------------------------------------------------------------------
(***************************************************************************)
(* Integers.                                                               *)
(***************************************************************************)
to_le_bytes(n, w) == [i \in 1 .. w |-> (n \div BASE ^ (i - 1)) % BASE]
from_le_bytes(b) == FoldRight(LAMBDA x, n : x + BASE * n, b, 0)

u32(n) == to_le_bytes(n, U32)
u64(n) == to_le_bytes(n, U64)
rd_u32(b) == from_le_bytes(SubSeq(b, 1, U32))
rd_u64(b) == from_le_bytes(SubSeq(b, 1, U64))

From(b, i) == SubSeq(b, i + 1, Len(b))      \* b[i..]
Upto(b, i) == SubSeq(b, 1, i)               \* b[..i]
-----------------------------------------------------------------------------
(***************************************************************************)
(* The wire: a body is [op][klen][key][val], a frame [len][body].          *)
(***************************************************************************)
OP_GET == 0
OP_PUT == 1
BODY_HDR == 1 + U32

\* An option is a sequence of at most one element.
unwrap_or(o, default) == IF o = <<>> THEN default ELSE Head(o)

\* klen counts the value too.
encode_raw_BugLen(o, k, v) ==
    IF o = OP_PUT /\ v = <<>> THEN <<>>
    ELSE LET kv   == k \o unwrap_or(v, <<>>)
             body == <<o>> \o u32(Len(kv)) \o kv
         IN  u32(Len(body)) \o body

encode_raw(o, k, v) ==
    IF o = OP_PUT /\ v = <<>> THEN <<>>
    ELSE LET val  == unwrap_or(v, <<>>)
             body == <<o>> \o u32(Len(k)) \o k \o val
         IN  u32(Len(body)) \o body

op(body) == Head(body)
klen(body) == rd_u32(From(body, 1))
split_kv(body) ==
    LET kv == From(body, BODY_HDR)
    IN  <<Upto(kv, klen(body)), From(kv, klen(body))>>

\* Resp: a code, and the bytes of a Value.
Resp(code, val) == [code |-> code, val |-> val]
Value == 0
Ok == 1
Miss == 2
UnknownOp == 3

from_proto_code(body) ==
    Resp(Head(body), IF Head(body) = Value THEN Tail(body) ELSE <<>>)

encode_resp(r) == u32(1 + Len(r.val)) \o <<r.code>> \o r.val
-----------------------------------------------------------------------------
(***************************************************************************)
(* The log: a record is [len]([lsn][body])[checksum].                      *)
(***************************************************************************)
checksum(b) == FoldLeft(LAMBDA h, x : ((h ^^ x) * PRIME) % BASE ^ U64, BASIS, b)

encode_record(l, wire) ==
    LET body == u64(l) \o wire
    IN  u32(Len(body)) \o body \o u64(checksum(body))

\* Takes a length of zero for padding, and reads on behind it.
decode_record_BugPadding(b) ==
    LET end  == U32 + rd_u32(b)
        body == SubSeq(b, U32 + 1, end)
    IN  IF Len(b) < U32 THEN <<>>
        ELSE IF rd_u32(b) = 0 THEN <<[lsn |-> 0, body |-> <<>>, consumed |-> U32]>>
        ELSE IF end + U64 > Len(b) THEN <<>>
        ELSE IF checksum(body) # rd_u64(From(b, end)) THEN <<>>
        ELSE <<[lsn |-> rd_u64(body), body |-> From(body, U64),
                consumed |-> end + U64]>>

\* The record at the start of b, as an option.
decode_record(b) ==
    LET end  == U32 + rd_u32(b)
        body == SubSeq(b, U32 + 1, end)
    IN  IF Len(b) < U32 THEN <<>>
        ELSE IF end + U64 > Len(b) THEN <<>>
        ELSE IF checksum(body) # rd_u64(From(b, end)) THEN <<>>
        ELSE <<[lsn |-> rd_u64(body), body |-> From(body, U64),
                consumed |-> end + U64]>>

\* The records that decode one after the other from the start of b.
RECURSIVE Records(_)
Records(b) ==
    LET rec == decode_record(b)
    IN  IF rec = <<>> THEN <<>> ELSE rec \o Records(From(b, rec[1].consumed))
-----------------------------------------------------------------------------
(***************************************************************************)
(* The snapshot: [magic][lsn][len]([klen][key][vlen][val])*, the pairs in  *)
(* the order of the HashMap's iterator.                                    *)
(***************************************************************************)
insert_raw(d, kv) == { p \in d : p[1] # kv[1] } \cup {kv}
get(d, k) == { p[2] : p \in { q \in d : q[1] = k } }

write_snapshot(pairs, l) ==
    u32(MAGIC) \o u64(l) \o u64(Len(pairs)) \o
    FlattenSeq([i \in DOMAIN pairs |-> u32(Len(pairs[i][1])) \o pairs[i][1] \o
                                       u32(Len(pairs[i][2])) \o pairs[i][2]])

\* Inserts into d up to n pairs read from b.
RECURSIVE LoadPairs(_, _, _)
LoadPairs(b, n, d) ==
    IF n = 0 \/ Len(b) < U32 THEN d
    ELSE LET k == SubSeq(b, U32 + 1, U32 + rd_u32(b))
             c == From(b, U32 + Len(k))
             v == SubSeq(c, U32 + 1, U32 + rd_u32(c))
         IN  LoadPairs(From(c, U32 + Len(v)), n - 1, insert_raw(d, <<k, v>>))

SNAP_HDR == U32 + 2 * U64

load(b) ==
    IF Len(b) < SNAP_HDR THEN [lsn |-> 0, db |-> {}]
    ELSE IF rd_u32(b) # MAGIC THEN [lsn |-> 0, db |-> {}]
    ELSE [lsn |-> rd_u64(From(b, U32)),
          db  |-> LoadPairs(From(b, SNAP_HDR), rd_u64(From(b, U32 + U64)), {})]

Replay(d, recs) ==
    FoldLeft(LAMBDA e, r : IF op(r.body) # OP_PUT THEN e
                           ELSE insert_raw(e, split_kv(r.body)), d, recs)


\* recover, on the snapshot s and the segment b.
recover(s, b) ==
    LET base == load(s)
        recs == SelectSeq(Records(b), LAMBDA r : r.lsn > base.lsn)
    IN  [db   |-> Replay(base.db, recs),
         next |-> Max({base.lsn} \cup { r.lsn : r \in ToSet(recs) }) + 1]
-----------------------------------------------------------------------------
Init ==
    /\ asked = <<>> /\ served = <<>> /\ replied = <<>> /\ got = <<>>
    /\ up = <<>> /\ down = <<>> /\ buf = <<>>
    /\ reading = 0
    /\ db = {}
    /\ lsn = recover(<<>>, <<>>).next
    /\ log = <<>> /\ snap = <<>>

\* The client encodes a request and writes it; without bytes there is no call.
Ask(o, k, v) ==
    /\ Len(asked) < MaxReqs
    /\ encode_raw(o, k, v) # <<>>
    /\ up' = up \o encode_raw(o, k, v)
    /\ asked' = Append(asked, <<o, k, unwrap_or(v, <<>>)>>)
    /\ UNCHANGED <<reading, served, db, lsn, log, snap, replied, down, buf, got>>

\* Takes a body of any length.
ReadLen_BugAnyLen ==
    /\ reading = 0
    /\ Len(up) >= U32
    /\ reading' = IF rd_u32(up) = 0 THEN -1 ELSE rd_u32(up)
    /\ up' = From(up, U32)
    /\ UNCHANGED <<asked, served, db, lsn, log, snap, replied, down, buf, got>>

\* read_exact of the header; a length the server does not take ends the loop.
ReadLen ==
    /\ reading = 0
    /\ Len(up) >= U32
    /\ LET len == rd_u32(up)
       IN  reading' = IF len = 0 \/ len > MAX_FRAME THEN -1 ELSE len
    /\ up' = From(up, U32)
    /\ UNCHANGED <<asked, served, db, lsn, log, snap, replied, down, buf, got>>

\* apply_batch on one request.
Answer(d, body) ==
    LET v == get(d, split_kv(body)[1])
    IN  CASE op(body) = OP_GET /\ v # {} -> Resp(Value, CHOOSE x \in v : TRUE)
          [] op(body) = OP_GET /\ v = {} -> Resp(Miss, <<>>)
          [] op(body) = OP_PUT           -> Resp(Ok, <<>>)
          [] OTHER                       -> Resp(UnknownOp, <<>>)

\* read_exact of the body, the request applied and logged, the answer written.
ReadBody ==
    /\ reading > 0
    /\ Len(up) >= reading
    /\ LET body == Upto(up, reading)
           kv   == split_kv(body)
       IN  /\ served' = Append(served, <<op(body), kv[1], kv[2]>>)
           /\ replied' = Append(replied, Answer(db, body))
           /\ IF op(body) = OP_PUT
              THEN /\ db' = insert_raw(db, kv)
                   /\ lsn' = lsn + 1
                   /\ log' = log \o encode_record(lsn + 1, body)
              ELSE UNCHANGED <<db, lsn, log>>
    /\ down' = down \o encode_resp(Last(replied'))
    /\ up' = From(up, reading)
    /\ reading' = 0
    /\ UNCHANGED <<asked, snap, buf, got>>

\* A snapshot, with a minimal gap of 0.
Snapshot ==
    /\ lsn > Max({1, load(snap).lsn})
    /\ \E pairs \in SetToSeqs(db) : snap' = write_snapshot(pairs, lsn)
    /\ UNCHANGED <<asked, up, reading, served, db, lsn, log, replied, down, buf, got>>

FrameReady(b) == Len(b) >= U32 /\ Len(b) >= U32 + rd_u32(b)

\* The client reads n more bytes, once no whole frame is left in its buffer.
feed(n) ==
    /\ ~FrameReady(buf)
    /\ buf' = buf \o Upto(down, n)
    /\ down' = From(down, n)
    /\ UNCHANGED <<asked, up, reading, served, db, lsn, log, snap, replied, got>>

\* Clears the buffer after a frame, with what had arrived of the next ones.
try_extract_BugClear ==
    /\ FrameReady(buf)
    /\ got' = Append(got, from_proto_code(SubSeq(buf, U32 + 1, U32 + rd_u32(buf))))
    /\ buf' = <<>>
    /\ UNCHANGED <<asked, up, reading, served, db, lsn, log, snap, replied, down>>

try_extract ==
    /\ FrameReady(buf)
    /\ LET total == U32 + rd_u32(buf)
       IN  /\ got' = Append(got, from_proto_code(SubSeq(buf, U32 + 1, total)))
           /\ buf' = From(buf, total)
    /\ UNCHANGED <<asked, up, reading, served, db, lsn, log, snap, replied, down>>

Next ==
    \/ \E o \in {OP_GET, OP_PUT, 2}, k \in Keys,
          v \in {<<>>} \cup { <<x>> : x \in Values } : Ask(o, k, v)
    \/ ReadLen
    \/ ReadBody
    \/ Snapshot
    \/ \E n \in 1 .. Len(down) : feed(n)
    \/ try_extract

Spec == Init /\ [][Next]_vars
-----------------------------------------------------------------------------
\* Types.
FormatsTypeOK ==
    /\ UNION { ToSet(b) : b \in {up, down, buf, log, snap} } \subseteq 0 .. BASE - 1
    /\ reading \in -1 .. MAX_FRAME
    /\ lsn \in 1 .. MaxReqs + 1

Fits(r) == BODY_HDR + Len(r[2]) + Len(r[3]) <= MAX_FRAME

\* What the server decodes is what the client asked, operation, key and value,
\* request after request.  The reader leaves its loop at the first request that
\* is too long, and only there: no length is ever read out of step.
RequestsArrive ==
    /\ IsPrefix(served, asked)
    /\ \A i \in DOMAIN served : Fits(asked[i])
    /\ reading = -1 => ~Fits(asked[Len(served) + 1])

\* The frames of b, if all of it has arrived.
RECURSIVE Frames(_)
Frames(b) ==
    IF ~FrameReady(b) THEN <<>>
    ELSE LET total == U32 + rd_u32(b)
         IN  <<from_proto_code(SubSeq(b, U32 + 1, total))>>
               \o Frames(From(b, total))

\* However the responses are cut into reads, the client decodes the ones the
\* server encoded, in their order, and the bytes it has not decoded yet are
\* exactly the others: no byte of one frame is taken for part of another.
ResponsesArrive == got \o Frames(buf \o down) = replied

\* The client has read everything, and nothing is on its way: the properties of
\* the files are asked here only, where every log and snapshot is reached.
Quiet == up = <<>> /\ down = <<>> /\ buf = <<>>

Puts == SelectSeq(served, LAMBDA r : r[1] = OP_PUT)
StoreAfter(n) == FoldLeft(LAMBDA d, r : insert_raw(d, <<r[2], r[3]>>), {},
                          SubSeq(Puts, 1, n))
RecordLen(i) == U32 + U64 + BODY_HDR + Len(Puts[i][2]) + Len(Puts[i][3]) + U64
End(i) == MapThenSumSet(RecordLen, 1 .. i)


\* Writes complete in any order, so a crash can leave zeros where a record
\* belongs and whole records after them.  The zeros never decode as a record:
\* the replay stops there.
HoleStopsReplay ==
    Quiet =>
        \A i \in DOMAIN Puts :
            LET zeros == [j \in 1 .. RecordLen(i) |-> 0]
                holed == Upto(log, End(i - 1)) \o zeros \o From(log, End(i))
            IN  Records(holed) = Records(Upto(log, End(i - 1)))
=============================================================================
