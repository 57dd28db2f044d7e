----------------------------- MODULE SmartClient ----------------------------
(***************************************************************************)
(* The two smart clients: the blocking one (a driver thread that writes,   *)
(* and one reader thread per connection) and the tokio one (a supervisor   *)
(* task that polls a writer and a reader).  Callers put calls into a       *)
(* bounded channel; the writer moves them, in batches, to the queue of     *)
(* waiting calls (fifo) and to the socket; the reader gives the n-th       *)
(* response of a connection to its n-th waiting call.                      *)
(*                                                                         *)
(* A connection is its two directions: requests the server has not         *)
(* executed, and pieces of responses the client has not read (a response   *)
(* frame is a header and a body).  It may break at any time; what was      *)
(* under way is then lost from some point on, in each direction.  The      *)
(* server answers the requests of a connection in order.                   *)
(***************************************************************************)
EXTENDS Integers, Sequences, FiniteSets, Functions

CONSTANTS
    Kinds,      \* the clients to look at: a subset of {"sync", "async"}
    Callers,    \* threads or tasks, each with a clone of the client handle
    MaxCalls,   \* calls each of them makes
    CALLS,      \* capacity of the channel of calls (512)
    REQS,       \* requests a socket buffers on their way to the server
    RESPS,      \* pieces of responses a socket buffers on their way back
    MaxConns    \* connections the client opens; the last one does not break

ASSUME ClientAssumption ==
    /\ Kinds \subseteq {"sync", "async"}
    /\ {MaxCalls, CALLS, REQS, RESPS, MaxConns} \subseteq Nat \ {0}

VARIABLES
    kind,       \* which client this is
    handles,    \* the callers that have not dropped their handle
    calls,      \* calls[c]: calls made by c
    rx,         \* the channel of calls
    drv,        \* where the driver (or the supervisor with its writer) is
    batch,      \* calls taken from rx and not yet put into fifo
    write_buf,  \* requests encoded and not yet written
    fifo,       \* the waiting calls of the connection
    rdr,        \* where the reader is ("done": there is none)
    framer,     \* FrameReader.buf
    dead,       \* the flag the reader raises for the driver
    conn,       \* the newest connection
    rconn,      \* the connection the reader reads
    net,        \* net[g]: connection g
    ret,        \* ret[i]: what call i returned (<<>> while it waits)
    ran         \* ran[i]: how often the server executed call i

caller == <<handles, calls>>
writer == <<rx, drv, batch, write_buf>>
reader == <<rdr, framer, dead, rconn>>
world == <<conn, net>>
seen == <<ret, ran>>
vars == <<kind, caller, writer, fifo, reader, world, seen>>

Ids == Callers \X (1 .. MaxCalls)
Made == { i \in Ids : i[2] <= calls[i[1]] }
Conns == 1 .. MaxConns
Pieces == Ids \X {"header", "body"}

SCTypeOK ==
    /\ kind \in Kinds /\ handles \subseteq Callers
    /\ calls \in [Callers -> 0 .. MaxCalls]
    /\ drv \in {"start", "recv", "check", "queue", "write", "reconnect", "join",
                "ended"}
    /\ \A q \in {rx, batch, write_buf, fifo} : q \in Seq(Ids)
    /\ Len(rx) <= CALLS
    /\ rdr \in {"read", "extract", "drain", "exit", "done"}
    /\ framer \in Seq(Pieces)
    /\ dead \in BOOLEAN /\ conn \in Conns /\ rconn \in Conns
    /\ net \in [Conns -> [up : BOOLEAN, reqs : Seq(Ids), resps : Seq(Pieces)]]
    /\ \A g \in Conns : Len(net[g].reqs) <= REQS /\ Len(net[g].resps) <= RESPS
    /\ ret \in [Ids -> {<<>>, <<"err">>, <<"garbled">>} \cup ({"ok"} \X Ids)]
    /\ ran \in [Ids -> Nat]

\* Client::connect and async_client::connect.
Init ==
    /\ kind \in Kinds
    /\ handles = Callers /\ calls = [c \in Callers |-> 0]
    /\ rx = <<>> /\ batch = <<>> /\ write_buf = <<>> /\ fifo = <<>>
    /\ drv = "start" /\ rdr = "done" /\ framer = <<>> /\ dead = FALSE
    /\ conn = 1 /\ rconn = 1
    /\ net = [g \in Conns |-> [up |-> g = 1, reqs |-> <<>>, resps |-> <<>>]]
    /\ ret = [i \in Ids |-> <<>>] /\ ran = [i \in Ids |-> 0]

-----------------------------------------------------------------------------
(* Callers.                                                                *)

Waits(c) == calls[c] > 0 /\ ret[<<c, calls[c]>>] = <<>>

\* Client::call: the send blocks while the channel is full, and the call then
\* waits for its reply channel.
Call_BugUnbounded(c) ==
    /\ c \in handles /\ calls[c] < MaxCalls /\ ~Waits(c)
    /\ calls' = [calls EXCEPT ![c] = @ + 1]
    /\ rx' = Append(rx, <<c, calls[c] + 1>>)
    /\ UNCHANGED <<kind, handles, drv, batch, write_buf, fifo, reader, world, seen>>

Call(c) ==
    /\ c \in handles /\ calls[c] < MaxCalls /\ ~Waits(c) /\ Len(rx) < CALLS
    /\ calls' = [calls EXCEPT ![c] = @ + 1]
    /\ rx' = Append(rx, <<c, calls[c] + 1>>)
    /\ UNCHANGED <<kind, handles, drv, batch, write_buf, fifo, reader, world, seen>>

DropHandle(c) ==
    /\ c \in handles /\ ~Waits(c)
    /\ handles' = handles \ {c}
    /\ UNCHANGED <<kind, calls, writer, fifo, reader, world, seen>>

\* A call's reply sender is used, or dropped unused: the caller sees an error.
Return(ids, res) == ret' = [i \in Ids |-> IF i \in ids THEN res ELSE ret[i]]

-----------------------------------------------------------------------------
(* The driver of the blocking client.                                      *)

\* The top of 'reconnect: the socket is cloned, the flag lowered, and a reader
\* started with a new fifo.
DriverStart ==
    /\ kind = "sync" /\ drv = "start"
    /\ dead' = FALSE /\ fifo' = <<>> /\ framer' = <<>>
    /\ rdr' = "read" /\ rconn' = conn /\ drv' = "recv"
    /\ UNCHANGED <<kind, caller, rx, batch, write_buf, world, seen>>

\* clone_pair failed: another connection is opened; there is no reader to join.
DriverCloneFails ==
    /\ kind = "sync" /\ drv = "start" /\ conn < MaxConns
    /\ drv' = "reconnect"
    /\ UNCHANGED <<kind, caller, rx, batch, write_buf, fifo, reader, world, seen>>

DriverRecv ==
    /\ kind = "sync" /\ drv = "recv" /\ rx # <<>>
    /\ batch' = <<Head(rx)>> /\ rx' = Tail(rx) /\ drv' = "check"
    /\ UNCHANGED <<kind, caller, write_buf, fifo, reader, world, seen>>

\* recv fails: all handles are dropped, and the driver returns.  Its reader
\* stays in read until the server closes the connection.
DriverReturns ==
    /\ kind = "sync" /\ drv = "recv" /\ rx = <<>> /\ handles = {}
    /\ drv' = "ended"
    /\ UNCHANGED <<kind, caller, rx, batch, write_buf, fifo, reader, world, seen>>

\* The flag is up: the call just taken fails, and the client reconnects.
DriverFindsDead ==
    /\ drv = "check" /\ dead
    /\ Return(Range(batch), <<"err">>) /\ batch' = <<>> /\ drv' = "reconnect"
    /\ UNCHANGED <<kind, caller, rx, write_buf, fifo, reader, world, ran>>

\* The flag is down: the calls that try_recv finds complete the batch, and
\* write_buf is cleared.
DriverBatch_BugNoClear ==
    /\ drv = "check" /\ ~dead
    /\ batch' = batch \o rx /\ rx' = <<>> /\ drv' = "queue"
    /\ UNCHANGED <<kind, caller, write_buf, fifo, reader, world, seen>>

DriverBatch ==
    /\ drv = "check" /\ ~dead
    /\ batch' = batch \o rx /\ rx' = <<>> /\ write_buf' = <<>> /\ drv' = "queue"
    /\ UNCHANGED <<kind, caller, fifo, reader, world, seen>>

\* One turn of the for loop: the call is encoded and its reply sender put into
\* fifo; a reader that is gone has dropped its end, and the sender with it.
DriverQueue ==
    /\ drv = "queue"
    /\ write_buf' = Append(write_buf, Head(batch)) /\ batch' = Tail(batch)
    /\ drv' = IF Len(batch) = 1 THEN "write" ELSE "queue"
    /\ IF rdr = "done"
       THEN Return({Head(batch)}, <<"err">>) /\ UNCHANGED fifo
       ELSE fifo' = Append(fifo, Head(batch)) /\ UNCHANGED ret
    /\ UNCHANGED <<kind, caller, rx, reader, world, ran>>

\* write_all hands the bytes to the socket, and blocks while it is full.
Write ==
    /\ drv = "write" /\ net[conn].up /\ Len(net[conn].reqs) < REQS
    /\ net' = [net EXCEPT ![conn].reqs = Append(@, Head(write_buf))]
    /\ write_buf' = Tail(write_buf)
    /\ drv' = IF Len(write_buf) = 1 THEN "recv" ELSE "write"
    /\ UNCHANGED <<kind, caller, rx, batch, fifo, reader, conn, seen>>

\* The connection is broken and the socket does not know it: the write succeeds.
WriteLost ==
    /\ drv = "write" /\ ~net[conn].up
    /\ write_buf' = <<>> /\ drv' = "recv"
    /\ UNCHANGED <<kind, caller, rx, batch, fifo, reader, world, seen>>

DriverWriteFails ==
    /\ kind = "sync" /\ drv = "write" /\ ~net[conn].up
    /\ dead' = TRUE /\ drv' = "reconnect"
    /\ UNCHANGED <<kind, caller, rx, batch, write_buf, fifo, rdr, framer, rconn,
                   world, seen>>

\* The driver waits for the old reader before it starts the next one.
DriverJoin ==
    /\ drv = "join" /\ rdr = "done"
    /\ drv' = "start"
    /\ UNCHANGED <<kind, caller, rx, batch, write_buf, fifo, reader, world, seen>>

-----------------------------------------------------------------------------
(* The reader; the steps on the framer are those of both clients.          *)

\* read returns some of the bytes that have arrived, and feed keeps them.
ReaderRead ==
    /\ rdr = "read"
    /\ \E n \in 1 .. Len(net[rconn].resps) :
          /\ framer' = framer \o SubSeq(net[rconn].resps, 1, n)
          /\ net' = [net EXCEPT ![rconn].resps = SubSeq(@, n + 1, Len(@))]
    /\ rdr' = "extract"
    /\ UNCHANGED <<kind, caller, writer, fifo, dead, rconn, conn, seen>>

\* try_extract: the front of buf is a whole frame.
FrameReady_BugLate == Len(framer) > 2
FrameReady == Len(framer) >= 2

\* from_proto_code on the frame at the front of buf.
Decoded_BugToEnd ==
    IF Len(framer) = 2 THEN <<"ok", framer[1][1]>> ELSE <<"garbled">>
Decoded ==
    IF framer[1][1] = framer[2][1] /\ framer[1][2] = "header"
    THEN <<"ok", framer[1][1]>> ELSE <<"garbled">>

\* try_extract finds a frame, and the first waiting call gets it.
ReaderDeliver ==
    /\ rdr = "extract" /\ FrameReady /\ fifo # <<>>
    /\ Return({Head(fifo)}, Decoded)
    /\ fifo' = Tail(fifo) /\ framer' = SubSeq(framer, 3, Len(framer))
    /\ UNCHANGED <<kind, caller, writer, rdr, dead, rconn, world, ran>>

\* try_extract needs more bytes.
ReaderNeedsMore ==
    /\ rdr = "extract" /\ ~FrameReady
    /\ rdr' = "read"
    /\ UNCHANGED <<kind, caller, writer, fifo, framer, dead, rconn, world, seen>>

Eof == rdr = "read" /\ ~net[rconn].up /\ net[rconn].resps = <<>>

\* The blocking reader raises the flag, fails the calls that wait, and ends.
\* What is put into fifo after that is dropped with its receiver.
ReaderEof ==
    /\ kind = "sync" /\ Eof
    /\ dead' = TRUE /\ rdr' = "drain"
    /\ UNCHANGED <<kind, caller, writer, fifo, framer, rconn, world, seen>>

ReaderDrains ==
    /\ rdr = "drain" /\ fifo # <<>>
    /\ Return({Head(fifo)}, <<"err">>) /\ fifo' = Tail(fifo)
    /\ UNCHANGED <<kind, caller, writer, reader, world, ran>>

ReaderDrained ==
    /\ rdr = "drain" /\ fifo = <<>>
    /\ rdr' = "exit"
    /\ UNCHANGED <<kind, caller, writer, fifo, framer, dead, rconn, world, seen>>

ReaderExits ==
    /\ rdr = "exit"
    /\ Return(Range(fifo), <<"err">>) /\ fifo' = <<>> /\ rdr' = "done"
    /\ UNCHANGED <<kind, caller, writer, framer, dead, rconn, world, ran>>

-----------------------------------------------------------------------------
(* The supervisor of the tokio client.                                     *)

\* The connection is split between a new writer and a new reader.
TasksStart ==
    /\ kind = "async" /\ drv = "start"
    /\ fifo' = <<>> /\ framer' = <<>> /\ rdr' = "read" /\ rconn' = conn
    /\ drv' = "recv"
    /\ UNCHANGED <<kind, caller, rx, batch, write_buf, dead, world, seen>>

\* The writer takes all calls there are and queues them; no other task runs in
\* between.
TaskBatch ==
    /\ kind = "async" /\ drv = "recv" /\ rx # <<>>
    /\ write_buf' = rx /\ fifo' = fifo \o rx /\ rx' = <<>> /\ drv' = "write"
    /\ UNCHANGED <<kind, caller, batch, reader, world, seen>>

\* One of the two tasks has returned: select! drops the other, the calls that
\* wait lose their reply sender, and the supervisor reconnects.
TasksEnd_BugFifoKept ==
    /\ net' = [net EXCEPT ![conn].up = FALSE]
    /\ rdr' = "done" /\ drv' = "reconnect"
    /\ UNCHANGED <<kind, caller, rx, batch, write_buf, fifo, framer, dead, rconn,
                   conn, seen>>

TasksEnd ==
    /\ Return(Range(fifo), <<"err">>) /\ fifo' = <<>>
    /\ net' = [net EXCEPT ![conn].up = FALSE]
    /\ rdr' = "done" /\ drv' = "reconnect"
    /\ UNCHANGED <<kind, caller, rx, batch, write_buf, framer, dead, rconn, conn,
                   ran>>

TaskWriteFails == kind = "async" /\ drv = "write" /\ ~net[conn].up /\ TasksEnd

\* All handles are dropped: the writer returns, and the supervisor goes on.
TaskHandlesGone ==
    kind = "async" /\ drv = "recv" /\ rx = <<>> /\ handles = {} /\ TasksEnd

TaskEof == kind = "async" /\ Eof /\ TasksEnd

-----------------------------------------------------------------------------
(* The network and the server.                                             *)

\* reconnect: after attempts that fail, connect succeeds.
Connect ==
    /\ drv = "reconnect" /\ conn < MaxConns
    /\ conn' = conn + 1
    /\ net' = [net EXCEPT ![conn + 1].up = TRUE]
    /\ drv' = IF kind = "sync" THEN "join" ELSE "start"
    /\ UNCHANGED <<kind, caller, rx, batch, write_buf, fifo, reader, seen>>

Break(g) ==
    /\ net[g].up /\ g < MaxConns
    /\ \E n \in 0 .. Len(net[g].reqs), m \in 0 .. Len(net[g].resps) :
          net' = [net EXCEPT ![g] = [up |-> FALSE, reqs |-> SubSeq(@.reqs, 1, n),
                                     resps |-> SubSeq(@.resps, 1, m)]]
    /\ UNCHANGED <<kind, caller, writer, fifo, reader, conn, seen>>

\* The server executes the next request of g.  It answers if g is up, and waits
\* for room in the socket; of a broken connection it executes what it received.
Serve(g) ==
    /\ net[g].reqs # <<>>
    /\ net[g].up => Len(net[g].resps) + 2 <= RESPS
    /\ LET i == Head(net[g].reqs)
       IN  /\ ran' = [ran EXCEPT ![i] = @ + 1]
           /\ net' = [net EXCEPT ![g] =
                [up |-> @.up, reqs |-> Tail(@.reqs),
                 resps |-> IF @.up THEN @.resps \o <<<<i, "header">>, <<i, "body">>>>
                           ELSE @.resps]]
    /\ UNCHANGED <<kind, caller, writer, fifo, reader, conn, ret>>

-----------------------------------------------------------------------------
Driver ==
    \/ DriverStart \/ DriverCloneFails \/ DriverRecv \/ DriverReturns
    \/ DriverFindsDead \/ DriverBatch \/ DriverQueue \/ DriverWriteFails
    \/ DriverJoin
Reader ==
    \/ ReaderRead \/ ReaderDeliver \/ ReaderNeedsMore \/ ReaderEof \/ ReaderDrains
    \/ ReaderDrained \/ ReaderExits
Tasks == TasksStart \/ TaskBatch \/ TaskWriteFails \/ TaskHandlesGone \/ TaskEof

Next ==
    \/ \E c \in Callers : Call(c) \/ DropHandle(c)
    \/ Driver \/ Tasks \/ Write \/ WriteLost \/ Reader \/ Connect
    \/ \E g \in Conns : Break(g) \/ Serve(g)

\* Threads and tasks that can run do run, a server that is connected goes on
\* serving, and reconnecting succeeds at last.
Fairness ==
    /\ WF_vars(Driver \/ Tasks \/ Write \/ WriteLost)
    /\ WF_vars(Reader) /\ WF_vars(Connect)
    /\ \A g \in Conns : WF_vars(net[g].up /\ Serve(g))

Spec == Init /\ [][Next]_vars
FairSpec == Spec /\ Fairness

-----------------------------------------------------------------------------
(* Properties.                                                             *)

\* The pieces of the answers to these calls.
Frames(ids) ==
    [n \in 1 .. 2 * Len(ids) |->
        IF n % 2 = 1 THEN <<ids[(n + 1) \div 2], "header">>
                     ELSE <<ids[n \div 2], "body">>]

\* The sequence t begins with s.
Begins(s, t) == Len(s) <= Len(t) /\ s = SubSeq(t, 1, Len(s))

\* What the reader has read or can still read.
Arriving == framer \o net[rconn].resps

\* Encoded, and not yet handed to the socket.
Unwritten == IF drv \in {"queue", "write"} THEN write_buf ELSE <<>>

\* The n-th waiting call is the n-th request of the connection that is not yet
\* answered: what arrives is the answers to the first of them, the server has
\* the next ones, and the rest is not yet written.  On a connection that broke,
\* what still arrives is a first part of the answers to the waiting calls.  So
\* the reader's fifo.recv never waits and never fails, and no call gets the
\* answer of another.
WaitersMatchRequests ==
    rdr \in {"read", "extract"} =>
        IF net[rconn].up
        THEN Arriving \o Frames(net[rconn].reqs \o Unwritten) = Frames(fifo)
        ELSE Begins(Arriving, Frames(fifo))

\* A call that has not returned is in exactly one place (the channel, the
\* writer's hands, or fifo), once; a call that has returned is in none.
EveryCallInOnePlace ==
    LET places == rx \o batch \o fifo
    IN  /\ IsInjective(places)
        /\ Range(places) = { i \in Made : ret[i] = <<>> }

\* Both clients keep the promise of RemoteCalls across lost connections: no
\* call is executed twice, none gets the answer of another, none returns twice.
RC == INSTANCE RemoteCalls WITH made <- Made, runs <- ran, result <- ret
ImplementsCalls == RC!CallsSpec

\* Every call returns, with an answer or with an error.
EveryCallReturns == \A i \in Ids : (i \in Made) ~> (ret[i] # <<>>)
=============================================================================
