------------------------------ MODULE Pipeline ------------------------------
(***************************************************************************)
(* The path of a request through the server: the two tasks stage 1 runs    *)
(* for a connection, the main loop of stage 2 with its map, the acker, and *)
(* stage 3 reduced to what the requests see of it (WalEngine has the rest).*)
(*                                                                         *)
(* A request is named by <<connection, n>>: the n-th request its client    *)
(* sent.  An answer carries that name here, so that properties can speak   *)
(* of it; on the wire it does not, and no action looks at it.              *)
(*                                                                         *)
(* LSNs count from start_lsn.  A value is <<length, tag>>.  Definitions    *)
(* named ..._Bug... are faulty variants of the definition that follows.    *)
(***************************************************************************)
EXTENDS Integers, Sequences, FiniteSets, SequencesExt

CONSTANTS
    Conns,          \* connections
    Quitters,       \* the connections whose client may hang up
    Keys, Values,
    Ops,            \* operations the clients send
    Mode,           \* "NoFsync", "Async" or "Sync"
    MAX_BATCH,      \* requests of a batch
    Buffers,        \* the N_BUFFERS batch buffers
    REQ_BOUND,      \* capacity of the stage 1 -> 2 channel
    RESP_BOUND,     \* capacity of a connection's reply channel
    SOCK_BOUND,     \* answers a socket takes before write_all blocks
    MaxReqs         \* bound: MaxReqs[c] requests of client c

ASSUME ConnAssumption == Quitters \subseteq Conns
ASSUME OpsAssumption  == Ops \subseteq {"Get", "Put", "Unknown"}
ASSUME ModeAssumption == Mode \in {"NoFsync", "Async", "Sync"}
ASSUME SizeAssumption ==
    /\ {MAX_BATCH, REQ_BOUND, RESP_BOUND, SOCK_BOUND} \subseteq Nat \ {0}
    /\ MaxReqs \in [Conns -> Nat]

VARIABLES
    sent,       \* sent[c]: the requests client c has written to its socket
    client,     \* "open", "half" (sends no more, still reads) or "gone"
    taken,      \* taken[c]: how many of them the reader task has passed on
    reader,     \* reader[c]: the reader task runs
    writer,     \* writer[c]: the writer task runs
    items,      \* the stage 1 -> 2 channel
    db,         \* key -> the Arc it points to, 0 if absent
    heap,       \* Arc -> value; an Arc is named by the LSN that allocated it
    lsn,        \* stage 2's watermark
    bufs,       \* bufs[b]: the batch in buffer b
    turn,       \* the buffer stage 2 works on: <<b>>, or <<>> between turns
    rest,       \* its requests that apply_batch has not come to yet
    recycled,   \* recycled_batch: <<b>> if it is Some, <<>> if it is None
    free,       \* buffers in the pool
    msgs,       \* the buffers in the stage 2 -> 3 channel
    flight,     \* those stage 3 has encoded and not yet seen written
    awaiting,   \* awaiting_fsync
    job,        \* the buffers stage 3 is advancing, and to which point
    log,        \* the records stage 3 has encoded
    reps,       \* reps[c]: the reply channel
    out,        \* out[c]: encoded and given to write_all, not read yet
    got,        \* got[c]: the answers client c has read
    applied     \* the answers in the order stage 2 applied the requests

clientVars == <<sent, client>>
taskVars   == <<taken, reader, writer>>
dbVars     == <<db, heap, lsn, applied>>
poolVars   == <<turn, rest, recycled, free>>
walVars    == <<msgs, flight, awaiting, job, log>>
replyVars  == <<reps, out, got>>
vars == <<sent, client, taken, reader, writer, items, db, heap, lsn, bufs, turn,
          rest, recycled, free, msgs, flight, awaiting, job, log, reps, out,
          got, applied>>
-----------------------------------------------------------------------------
(***************************************************************************)
(* Requests, answers, batches.                                             *)
(***************************************************************************)
Request == UNION { [op : {"Get"}, key : Keys],
                   [op : {"Put"}, key : Keys, val : Values],
                   [op : {"Unknown"}] }
Ids == UNION { {c} \X (1 .. MaxReqs[c]) : c \in Conns }
Req(id) == sent[id[1]][id[2]]

\* Resp: Value holds an Arc, the others hold nothing.
Resp(code, cell) == [code |-> code, cell |-> cell]
Taken == Resp("None", 0)        \* resp is None: the answer has been sent

NoBatch == [items |-> <<>>, low |-> 0, hi |-> 0]
\* A batch with a single PUT passes for one without.
has_wal_work_BugOffByOne(b) == b.hi > b.low + 1
has_wal_work(b) == b.hi > b.low

\* Batch::recycle.
recycle(b) == [bufs EXCEPT ![b] = NoBatch]

BatchItems == UNION { ToSet(bufs[b].items) : b \in Buffers }

\* The answers somebody still holds, encoded ones excepted.
Unsent == { it.resp : it \in BatchItems }
Queued == { r.resp : r \in UNION { ToSet(reps[c]) : c \in Conns } }

\* What encode_resp puts on the wire: the value is copied out of its Arc in h.
encode_resp(h, r) ==
    [id |-> r.id, code |-> r.resp.code,
     val |-> IF r.resp.code = "Value" THEN <<h[r.resp.cell]>> ELSE <<>>]
-----------------------------------------------------------------------------
(***************************************************************************)
(* Clients (the environment).                                              *)
(***************************************************************************)
ClientSend(c, r) ==
    /\ client[c] = "open"
    /\ Len(sent[c]) < MaxReqs[c]
    /\ sent' = [sent EXCEPT ![c] = Append(@, r)]
    /\ UNCHANGED <<client, taskVars, items, dbVars, bufs, poolVars, walVars,
                   replyVars>>

ClientRead(c) ==
    /\ client[c] # "gone"
    /\ out[c] # <<>>
    /\ got' = [got EXCEPT ![c] = Append(@, Head(out[c]))]
    /\ out' = [out EXCEPT ![c] = Tail(@)]
    /\ UNCHANGED <<clientVars, taskVars, items, dbVars, bufs, poolVars,
                   walVars, reps>>

\* The client shuts down its sending side, or closes the connection.
ClientLeave(c, how) ==
    /\ c \in Quitters
    /\ \/ client[c] = "open" /\ how = "half"
       \/ client[c] # "gone" /\ how = "gone"
    /\ client' = [client EXCEPT ![c] = how]
    /\ UNCHANGED <<sent, taskVars, items, dbVars, bufs, poolVars, walVars,
                   replyVars>>
-----------------------------------------------------------------------------
(***************************************************************************)
(* Stage 1: the reader and the writer of a connection.                     *)
(***************************************************************************)
\* The reader parses the next request and sends it, waiting for room.
ReaderSend(c) ==
    /\ reader[c]
    /\ taken[c] < Len(sent[c])
    /\ Len(items) < REQ_BOUND
    /\ taken' = [taken EXCEPT ![c] = @ + 1]
    /\ items' = Append(items, <<c, taken[c] + 1>>)
    /\ UNCHANGED <<clientVars, reader, writer, dbVars, bufs, poolVars, walVars,
                   replyVars>>

\* read_exact fails: at the end of what the client sent, or anywhere once the
\* connection is closed.  The reader drops its resp_tx and its socket half.
ReaderEnd(c) ==
    /\ reader[c]
    /\ \/ client[c] = "half" /\ taken[c] = Len(sent[c])
       \/ client[c] = "gone"
    /\ reader' = [reader EXCEPT ![c] = FALSE]
    /\ UNCHANGED <<clientVars, taken, writer, items, dbVars, bufs, poolVars,
                   walVars, replyVars>>

\* The writer receives a first answer and what try_recv adds to it, encodes
\* them, and writes.  It comes back when write_all has returned, that is when
\* the socket has room again.
WriterTake(c, n) ==
    /\ writer[c]
    /\ n \in 1 .. Len(reps[c])
    /\ Len(out[c]) < SOCK_BOUND
    /\ out' = [out EXCEPT ![c] =
                  @ \o [i \in 1 .. n |-> encode_resp(heap, reps[c][i])]]
    /\ reps' = [reps EXCEPT ![c] = SubSeq(@, n + 1, Len(@))]
    /\ UNCHANGED <<clientVars, taken, reader, writer, items, dbVars, bufs,
                   poolVars, walVars, got>>

\* write_all fails: the writer breaks and drops resp_rx.
WriterFail(c) ==
    /\ writer[c]
    /\ client[c] = "gone"
    /\ reps[c] # <<>> \/ out[c] # <<>>
    /\ writer' = [writer EXCEPT ![c] = FALSE]
    /\ reps' = [reps EXCEPT ![c] = <<>>]
    /\ out' = [out EXCEPT ![c] = <<>>]
    /\ UNCHANGED <<clientVars, taken, reader, items, dbVars, bufs, poolVars,
                   walVars, got>>

\* Requests in a batch hold no sender.
SenderAlive_BugBatches(c) ==
    \/ reader[c]
    \/ \E id \in ToSet(items) \cup ToSet(rest) : id[1] = c

\* The senders of c's reply channel: the reader's, and the clone in each
\* request that is queued or in a batch, answered or not.
SenderAlive(c) ==
    \/ reader[c]
    \/ \E id \in ToSet(items) \cup ToSet(rest) \cup { it.id : it \in BatchItems } :
          id[1] = c

\* recv returns None once every sender is dropped and the channel is empty.
WriterEnd(c) ==
    /\ writer[c]
    /\ ~SenderAlive(c)
    /\ reps[c] = <<>>
    /\ Len(out[c]) < SOCK_BOUND
    /\ writer' = [writer EXCEPT ![c] = FALSE]
    /\ UNCHANGED <<clientVars, taken, reader, items, dbVars, bufs, poolVars,
                   walVars, replyVars>>
-----------------------------------------------------------------------------
(***************************************************************************)
(* The acker.                                                              *)
(***************************************************************************)
Applied == 1
Written == 2
Durable == 3

AckLevel == CASE Mode = "NoFsync" -> Applied
              [] Mode = "Async"   -> Written
              [] Mode = "Sync"    -> Durable

\* A PUT waits for its write in every mode.
required_BugPutsWait(id) ==
    IF Req(id).op = "Put" THEN Max({AckLevel, Written}) ELSE Applied

required(id) == IF Req(id).op = "Get" THEN Applied ELSE AckLevel

\* The requests of a batch that advance still has to answer at this point.
Due(b, reached) ==
    { i \in DOMAIN b.items : /\ required(b.items[i].id) <= reached
                             /\ b.items[i].resp # Taken }

is_settled(b) == \A i \in DOMAIN b.items : b.items[i].resp = Taken

\* The i-th answer of buffer b is taken out.
TakeResp(b, i) == [bufs EXCEPT ![b].items[i].resp = Taken]

\* A send that does not wait for room.
blocking_send_BugUnbounded(it) ==
    LET c == it.id[1]
    IN  reps' = IF writer[c] THEN [reps EXCEPT ![c] = Append(@, it)] ELSE reps

\* The answer is sent: the send waits for room, and fails at once if the writer
\* has gone.
blocking_send(it) ==
    LET c == it.id[1]
    IN  \/ writer[c] /\ Len(reps[c]) < RESP_BOUND
                     /\ reps' = [reps EXCEPT ![c] = Append(@, it)]
        \/ ~writer[c] /\ reps' = reps
-----------------------------------------------------------------------------
(***************************************************************************)
(* Stage 2: the map and the main loop.                                     *)
(***************************************************************************)
\* Overwrites in place without asking get_mut.
Shared_BugNever(cell) == FALSE

\* An answer that is not encoded yet holds the Arc, so that get_mut refuses it.
\* (The writer keeps one Arc until write_all returns; by then the value is
\* copied, and all it can do is make put allocate.)
Shared(cell) ==
    \E r \in Unsent \cup Queued : r.code = "Value" /\ r.cell = cell

\* Db::put: overwrite in place if the length fits and nobody shares the Arc,
\* otherwise a new Arc.
DbPut(k, v) ==
    LET cell    == db[k]
        InPlace == cell # 0 /\ heap[cell][1] = v[1] /\ ~Shared(cell)
    IN  \/ /\ InPlace
           /\ heap' = [heap EXCEPT ![cell] = v]
           /\ db' = db
        \/ /\ ~InPlace
           /\ heap' = [x \in DOMAIN heap \cup {lsn'} |->
                          IF x = lsn' THEN v ELSE heap[x]]
           /\ db' = [db EXCEPT ![k] = lsn']

\* Db::get.
DbGet(k) ==
    IF db[k] # 0 THEN Resp("Value", db[k]) ELSE Resp("Miss", 0)

\* Sorts the writes of a batch before its reads.
Stage2Turn_BugWritesFirst(b, n) ==
    /\ turn = <<>>
    /\ recycled = <<b>> \/ (recycled = <<>> /\ b \in free)
    /\ n \in 1 .. Min({MAX_BATCH, Len(items)})
    /\ recycled' = <<>>
    /\ free' = free \ {b}
    /\ turn' = <<b>>
    /\ LET ids == SubSeq(items, 1, n)
       IN  rest' = SelectSeq(ids, LAMBDA id : Req(id).op = "Put")
                     \o SelectSeq(ids, LAMBDA id : Req(id).op # "Put")
    /\ items' = SubSeq(items, n + 1, Len(items))
    /\ bufs' = [bufs EXCEPT ![b].low = lsn, ![b].hi = lsn]
    /\ UNCHANGED <<clientVars, taskVars, dbVars, walVars, replyVars>>

\* A turn begins: take a buffer (the recycled one, or one of the pool), receive
\* up to MAX_BATCH requests.
Stage2Turn(b, n) ==
    /\ turn = <<>>
    /\ recycled = <<b>> \/ (recycled = <<>> /\ b \in free)
    /\ n \in 1 .. Min({MAX_BATCH, Len(items)})
    /\ recycled' = <<>>
    /\ free' = free \ {b}
    /\ turn' = <<b>>
    /\ rest' = SubSeq(items, 1, n)
    /\ items' = SubSeq(items, n + 1, Len(items))
    /\ bufs' = [bufs EXCEPT ![b].low = lsn, ![b].hi = lsn]
    /\ UNCHANGED <<clientVars, taskVars, dbVars, walVars, replyVars>>

\* The next request of the batch, and what is left to do once apply_batch has
\* its response.  (lsn_hi is set after the loop; nobody reads it before.)
Here == Head(rest)
Respond(resp) ==
    LET it == [id |-> Here, resp |-> resp]
    IN  /\ rest' = Tail(rest)
        /\ bufs' = [bufs EXCEPT ![turn[1]].items = Append(@, it),
                                ![turn[1]].hi = lsn']
        /\ applied' = Append(applied, encode_resp(heap', it))
        /\ UNCHANGED <<clientVars, taskVars, items, turn, recycled, free,
                       walVars, replyVars>>

\* The body of apply_batch's loop.  The tasks of stage 1 run in the meantime.
ApplyGet ==
    /\ rest # <<>>
    /\ Req(Here).op = "Get"
    /\ UNCHANGED <<db, heap, lsn>>
    /\ Respond(DbGet(Req(Here).key))

ApplyPut ==
    /\ rest # <<>>
    /\ Req(Here).op = "Put"
    /\ lsn' = lsn + 1
    /\ DbPut(Req(Here).key, Req(Here).val)
    /\ Respond(Resp("Ok", 0))

ApplyUnknown ==
    /\ rest # <<>>
    /\ Req(Here).op = "Unknown"
    /\ UNCHANGED <<db, heap, lsn>>
    /\ Respond(Resp("UnknownOp", 0))

\* The batch stage 2 holds is applied, and nobody is left to answer at Applied.
AppliedAndAnswered(b) ==
    /\ turn = <<b>>
    /\ rest = <<>>
    /\ Due(bufs[b], Applied) = {}

\* Answers the batch from its end.
Stage2Advance_BugBackwards(b) ==
    /\ turn = <<b>>
    /\ rest = <<>>
    /\ Due(bufs[b], Applied) # {}
    /\ LET i == Max(Due(bufs[b], Applied))
       IN  /\ blocking_send(bufs[b].items[i])
           /\ bufs' = TakeResp(b, i)
    /\ UNCHANGED <<clientVars, taskVars, items, dbVars, poolVars, walVars, out,
                   got>>

\* ack.advance(batch, Applied), one answer at a time.
Stage2Advance(b) ==
    /\ turn = <<b>>
    /\ rest = <<>>
    /\ Due(bufs[b], Applied) # {}
    /\ LET i == Min(Due(bufs[b], Applied))
       IN  /\ blocking_send(bufs[b].items[i])
           /\ bufs' = TakeResp(b, i)
    /\ UNCHANGED <<clientVars, taskVars, items, dbVars, poolVars, walVars, out,
                   got>>

\* The batch has PUTs: it goes to stage 3.
Stage2Send(b) ==
    /\ AppliedAndAnswered(b)
    /\ has_wal_work(bufs[b])
    /\ msgs' = Append(msgs, b)
    /\ turn' = <<>>
    /\ UNCHANGED <<clientVars, taskVars, items, dbVars, bufs, rest, recycled,
                   free, flight, awaiting, job, log, replyVars>>

\* Clears the batch before everybody is answered.
Stage2Recycle_BugEarly(b) ==
    /\ turn = <<b>>
    /\ rest = <<>>
    /\ ~has_wal_work(bufs[b])
    /\ bufs' = recycle(b)
    /\ turn' = <<>>
    /\ recycled' = <<b>>
    /\ UNCHANGED <<clientVars, taskVars, items, dbVars, rest, free, walVars,
                   replyVars>>

\* Keeps the buffer and gives it back too.
Stage2Recycle_BugToPool(b) ==
    /\ AppliedAndAnswered(b)
    /\ ~has_wal_work(bufs[b])
    /\ bufs' = recycle(b)
    /\ turn' = <<>>
    /\ recycled' = <<b>>
    /\ free' = free \cup {b}
    /\ UNCHANGED <<clientVars, taskVars, items, dbVars, rest, walVars,
                   replyVars>>

\* It has none: stage 2 clears it and keeps the buffer for the next turn.
Stage2Recycle(b) ==
    /\ AppliedAndAnswered(b)
    /\ ~has_wal_work(bufs[b])
    /\ bufs' = recycle(b)
    /\ turn' = <<>>
    /\ recycled' = <<b>>
    /\ UNCHANGED <<clientVars, taskVars, items, dbVars, rest, free, walVars,
                   replyVars>>
-----------------------------------------------------------------------------
(***************************************************************************)
(* Stage 3, as the requests see it: batches are encoded in the order they  *)
(* come, their writes complete in any order, an fsync releases the batches *)
(* that wait.  Answering is one step per answer, because it may block; in  *)
(* the meantime the thread does nothing else.                              *)
(***************************************************************************)
Idle == job.todo = <<>>

\* Among(ids, S)[n]: those of the first n ids that are in S, in order.  (A recursive
\* function, which proofs can reason about, unlike SelectSeq.)
Among(ids, S) ==
    LET P[n \in 0 .. Len(ids)] == IF n = 0 THEN <<>>
                                  ELSE IF ids[n] \in S THEN Append(P[n - 1], ids[n])
                                  ELSE P[n - 1]
    IN  P

PutIds == { id \in Ids : id[2] <= Len(sent[id[1]]) /\ Req(id).op = "Put" }
PutsOf(ids) == Among(ids, PutIds)[Len(ids)]
IdsOf(its) == [i \in DOMAIN its |-> its[i].id]


\* The records handle_batch encodes, with the LSNs it counts from lsn_low.
Encode(b) ==
    LET ids == PutsOf(IdsOf(b.items))
    IN  [i \in DOMAIN ids |-> [lsn |-> b.low + i, id |-> ids[i]]]

handle_batch ==
    /\ Idle
    /\ msgs # <<>>
    /\ log' = log \o Encode(bufs[Head(msgs)])
    /\ flight' = flight \cup {Head(msgs)}
    /\ msgs' = Tail(msgs)
    /\ UNCHANGED <<clientVars, taskVars, items, dbVars, bufs, poolVars,
                   awaiting, job, replyVars>>

\* A write of the ring has completed.
WriteDone(b) ==
    /\ Idle
    /\ b \in flight
    /\ job' = [level |-> Written, todo |-> <<b>>]
    /\ flight' = flight \ {b}
    /\ UNCHANGED <<clientVars, taskVars, items, dbVars, bufs, poolVars, msgs,
                   awaiting, log, replyVars>>

\* An fsync has completed.
FsyncDone ==
    /\ Idle
    /\ awaiting # <<>>
    /\ job' = [level |-> Durable, todo |-> awaiting]
    /\ awaiting' = <<>>
    /\ UNCHANGED <<clientVars, taskVars, items, dbVars, bufs, poolVars, msgs,
                   flight, log, replyVars>>

Stage3Advance ==
    /\ ~Idle
    /\ LET b == Head(job.todo)
           i == Min(Due(bufs[b], job.level))
       IN  /\ Due(bufs[b], job.level) # {}
           /\ blocking_send(bufs[b].items[i])
           /\ bufs' = TakeResp(b, i)
    /\ UNCHANGED <<clientVars, taskVars, items, dbVars, poolVars, walVars, out,
                   got>>

\* Nobody is left to answer at this point: the buffer goes back to the pool,
\* or the batch waits for the fsync.
Stage3Release ==
    /\ ~Idle
    /\ Due(bufs[Head(job.todo)], job.level) = {}
    /\ job' = IF Len(job.todo) = 1 THEN [level |-> Applied, todo |-> <<>>]
                                   ELSE [job EXCEPT !.todo = Tail(@)]
    /\ LET b == Head(job.todo)
       IN  \/ /\ job.level = Durable \/ is_settled(bufs[b])
              /\ bufs' = recycle(b)
              /\ free' = free \cup {b}
              /\ awaiting' = awaiting
           \/ /\ job.level = Written
              /\ ~is_settled(bufs[b])
              /\ awaiting' = Append(awaiting, b)
              /\ UNCHANGED <<bufs, free>>
    /\ UNCHANGED <<clientVars, taskVars, items, dbVars, turn, rest, recycled,
                   msgs, flight, log, replyVars>>
-----------------------------------------------------------------------------
Init ==
    /\ sent = [c \in Conns |-> <<>>]
    /\ client = [c \in Conns |-> "open"]
    /\ taken = [c \in Conns |-> 0]
    /\ reader = [c \in Conns |-> TRUE]
    /\ writer = [c \in Conns |-> TRUE]
    /\ items = <<>>
    /\ db = [k \in Keys |-> 0]
    /\ heap = <<>>
    /\ lsn = 0
    /\ bufs = [b \in Buffers |-> NoBatch]
    /\ turn = <<>>
    /\ rest = <<>>
    /\ recycled = <<>>
    /\ free = Buffers
    /\ msgs = <<>>
    /\ flight = {}
    /\ awaiting = <<>>
    /\ job = [level |-> Applied, todo |-> <<>>]
    /\ log = <<>>
    /\ reps = [c \in Conns |-> <<>>]
    /\ out = [c \in Conns |-> <<>>]
    /\ got = [c \in Conns |-> <<>>]
    /\ applied = <<>>

Client(c) ==
    \/ \E r \in Request : r.op \in Ops /\ ClientSend(c, r)
    \/ ClientLeave(c, "half")
    \/ ClientLeave(c, "gone")
handle_conn(c) ==
    \/ ReaderSend(c)
    \/ ReaderEnd(c)
    \/ \E n \in 1 .. RESP_BOUND : WriterTake(c, n)
    \/ WriterFail(c)
    \/ WriterEnd(c)
Stage2 ==
    \/ \E b \in Buffers, n \in 1 .. MAX_BATCH : Stage2Turn(b, n)
    \/ ApplyGet
    \/ ApplyPut
    \/ ApplyUnknown
    \/ \E b \in Buffers : Stage2Advance(b) \/ Stage2Send(b) \/ Stage2Recycle(b)
Stage3 ==
    \/ handle_batch
    \/ \E b \in Buffers : WriteDone(b)
    \/ FsyncDone
    \/ Stage3Advance
    \/ Stage3Release

Next ==
    \/ \E c \in Conns : Client(c) \/ ClientRead(c) \/ handle_conn(c)
    \/ Stage2
    \/ Stage3

Spec == Init /\ [][Next]_vars

\* The tasks and threads are scheduled, and the clients that stay keep reading.
Fairness ==
    /\ \A c \in Conns : /\ WF_vars(ClientRead(c))
                        /\ WF_vars(ReaderSend(c))
                        /\ WF_vars(\E n \in 1 .. RESP_BOUND : WriterTake(c, n))
                        /\ WF_vars(WriterFail(c))
    /\ WF_vars(Stage2)
    /\ WF_vars(Stage3)
FairSpec == Spec /\ Fairness
-----------------------------------------------------------------------------
(***************************************************************************)
(* Properties.                                                             *)
(***************************************************************************)
AnswerCodes == {"Value", "Ok", "Miss", "UnknownOp"}
WireAnswer == [id : Ids, code : AnswerCodes,
               val : {<<>>} \cup { <<v>> : v \in Values }]
Item == [id : Ids, resp : [code : AnswerCodes \cup {"None"}, cell : Nat]]

\* Every variable has its type, the channels stay within their capacity and the
\* map points to allocated values.
PipeTypeOK ==
    /\ \A c \in Conns : /\ ToSet(sent[c]) \subseteq Request
                        /\ taken[c] \in 0 .. Len(sent[c])
                        /\ client[c] \in {"open", "half", "gone"}
                        /\ reader[c] \in BOOLEAN /\ writer[c] \in BOOLEAN
                        /\ ToSet(reps[c]) \subseteq Item
                        /\ Len(reps[c]) <= RESP_BOUND
                        /\ ToSet(out[c]) \cup ToSet(got[c]) \subseteq WireAnswer
    /\ ToSet(items) \cup ToSet(rest) \subseteq Ids
    /\ ToSet(log) \subseteq [lsn : 1 .. lsn, id : Ids]
    /\ ToSet(applied) \subseteq WireAnswer
    /\ Len(items) <= REQ_BOUND
    /\ DOMAIN heap \subseteq 1 .. lsn
    /\ \A k \in Keys : db[k] \in DOMAIN heap \cup {0}
    /\ BatchItems \subseteq Item
    /\ \A b \in Buffers : 0 <= bufs[b].low /\ bufs[b].low <= bufs[b].hi
                                           /\ bufs[b].hi <= lsn
    /\ job.level \in {Applied, Written, Durable}

\* Where the buffers are.
Holders == <<free, flight, ToSet(turn), ToSet(recycled), ToSet(msgs),
             ToSet(awaiting), ToSet(job.todo)>>

\* Every buffer is in the pool, with stage 2 or with stage 3, once, and is empty
\* when it is in the pool.  A batch without PUTs must not return to the pool and
\* be kept for the next turn too.
PoolConserved ==
    /\ \A b \in Buffers : \E h \in DOMAIN Holders :
          \A g \in DOMAIN Holders : b \in Holders[g] <=> g = h
    /\ \A s \in {msgs, awaiting, job.todo} : IsInjective(s)
    /\ \A b \in free : bufs[b] = NoBatch

\* The value of k after the PUTs among the requests rs: none or one value.
ValueAfter(rs, k) ==
    LET P == { i \in DOMAIN rs : rs[i].op = "Put" /\ rs[i].key = k }
    IN  IF P = {} THEN <<>> ELSE <<rs[Max(P)].val>>

ReqsOf(ids) == [i \in DOMAIN ids |-> Req(ids[i])]

\* What the i-th applied request must be answered.
Expected(i) ==
    LET r == Req(applied[i].id)
        v == IF r.op = "Get"
             THEN ValueAfter([j \in 1 .. i - 1 |-> Req(applied[j].id)], r.key)
             ELSE <<>>
    IN  [id |-> applied[i].id, val |-> v,
         code |-> CASE r.op = "Put"               -> "Ok"
                    [] r.op = "Unknown"           -> "UnknownOp"
                    [] r.op = "Get" /\ v = <<>>   -> "Miss"
                    [] r.op = "Get" /\ v # <<>>   -> "Value"]

\* Every answer, wherever it is, says what the requests applied before it make
\* it say: a PUT that overwrites a value in place never changes an answer that
\* still waits in a batch or a reply channel.
AnswersStayTrue ==
    LET held == { it \in BatchItems : it.resp # Taken }
        all  == { encode_resp(heap, r) : r \in held \cup
                                     UNION { ToSet(reps[c]) : c \in Conns } }
                  \cup UNION { ToSet(out[c]) \cup ToSet(got[c]) : c \in Conns }
    IN  all \subseteq { Expected(i) : i \in DOMAIN applied }

\* The requests stage 2 drops unanswered: an unknown operation is not read-only,
\* so it waits for stage 3, but a batch without PUTs never gets there.
Forgotten(id) ==
    /\ Req(id).op = "Unknown"
    /\ Mode # "NoFsync"
    /\ \E i \in DOMAIN applied : applied[i].id = id
    /\ \A it \in BatchItems : it.id # id

\* The answers of c in the order the client reads them.
Stream(c) == IdsOf(got[c]) \o (IdsOf(out[c]) \o IdsOf(reps[c]))

\* The places that hold a request that is not answered yet, or its answer.
Places(id) ==
    LET c     == id[1]
        queue == rest \o items
    IN  { <<"queue", i>> : i \in { j \in DOMAIN queue : queue[j] = id } }
          \cup UNION { { <<"bufs", b, i>> : i \in { j \in DOMAIN bufs[b].items :
                                              /\ bufs[b].items[j].id = id
                                              /\ bufs[b].items[j].resp # Taken } }
                         : b \in Buffers }
          \cup { <<"stream", i>> : i \in { j \in DOMAIN Stream(c) : Stream(c)[j] = id } }

\* While its client is there, a request the reader has taken, or its answer, is
\* in exactly one place: nothing is answered twice, and no answer is lost
\* between the stages or by a writer that ends before its last sender.  The
\* exception is an unknown operation outside NoFsync.  The reader and the writer
\* stay as long as they have work.
OnePlaceEach ==
    \A c \in Conns : client[c] # "gone" =>
        /\ \A n \in 1 .. taken[c] :
              \/ \E p \in Places(<<c, n>>) : Places(<<c, n>>) = {p}
              \/ Places(<<c, n>>) = {} /\ Forgotten(<<c, n>>)
        /\ taken[c] < Len(sent[c]) => reader[c]
        /\ reps[c] # <<>> => writer[c]

\* The GETs of a connection are answered in the order they were sent, in every
\* mode: stage 2 answers all of them before it takes the next batch.
GetsInOrder ==
    \A c \in Conns : LET s == Stream(c) IN
        \A i, j \in DOMAIN s :
            i < j /\ Req(s[i]).op = "Get" /\ Req(s[j]).op = "Get"
              => s[i][2] < s[j][2]

\* All answers of a connection come in the order of its requests, which is how
\* the smart clients match them (their queue of waiting calls is a FIFO).
AnswersInOrder ==
    \A c \in Conns : LET s == Stream(c) IN
        \A i, j \in DOMAIN s : i < j => s[i][2] < s[j][2]

\* The buffers whose records are still to be encoded, in order, and the LSNs
\* where their ranges begin and end.
Unlogged == msgs \o turn
Begins == [i \in DOMAIN Unlogged |-> bufs[Unlogged[i]].low] \o <<lsn>>
Ends   == <<Len(log)>> \o [i \in DOMAIN Unlogged |-> bufs[Unlogged[i]].hi]


\* Every request is answered as long as its client stays, and keeps reading.
EveryRequestAnswered ==
    \A id \in Ids :
        id[2] <= Len(sent[id[1]])
          ~> \/ client[id[1]] = "gone"
             \/ \E i \in DOMAIN got[id[1]] : got[id[1]][i].id = id
-----------------------------------------------------------------------------
(***************************************************************************)
(* The pipeline implements the store: a call is executed when stage 2      *)
(* applies it, and returns when its client reads the answer.               *)
(***************************************************************************)
Bare(a) == [code |-> a.code, val |-> a.val]

\* The answers c's requests had when they were applied.
ResultsOf(c) ==
    LET A == { i \in DOMAIN applied : applied[i].id[1] = c }
    IN  [n \in { applied[i].id[2] : i \in A } |->
           Bare(applied[CHOOSE i \in A : applied[i].id[2] = n])]

Abstract == INSTANCE Store WITH
    Calls    <- Request,
    calls    <- sent,
    store    <- [k \in Keys |-> IF db[k] = 0 THEN <<>> ELSE <<heap[db[k]]>>],
    results  <- [c \in Conns |-> ResultsOf(c)],
    returned <- [c \in Conns |->
                   { <<got[c][i].id[2], Bare(got[c][i])>> : i \in DOMAIN got[c] }]

\* Stages 1 to 3 implement the store: every client sees, in some order, the
\* results its calls had when stage 2 applied them, in the order it made them.
ImplementsStore == Abstract!StoreSpec
=============================================================================
