------------------------------ MODULE Framing -------------------------------
(***************************************************************************)
(* From packets to bytes and back: the Writer of one end of a connection   *)
(* (src/src/io/writer.rs) with its accumulator                             *)
(* (src/src/buffer_pool/accumulators/), a transport, and the Reader of the *)
(* other end (src/src/io/reader.rs).                                       *)
(*                                                                         *)
(* The transport is TCP or TLS, which take and give any number of bytes at *)
(* a time, or WebSocket (src/src/io/tokio_ws.rs), which makes a message of *)
(* every write, may keep messages until it is flushed, and gives a reader  *)
(* the bytes of one message at a time, among messages without data.        *)
(*                                                                         *)
(* A packet is its first byte and the parts of its body.  A part is copied *)
(* to the buffer that the accumulator owns (try_put_slice) or shared with  *)
(* the packet (put_shared).                                                *)
(***************************************************************************)
EXTENDS Varint

CONSTANTS
    Packets,            \* what is written: [first_byte, parts]
    NoPacket,
    NumIovecs,          \* slices of one vectored write, 128 in the code
    AcceptBelow,        \* can_accept_more: so many chunks, 128 - 10 in the code
    Transports,         \* the transports that are tried
    MaxPackets,         \* bound: packets written
    MaxCancels,         \* bound: reads canceled
    MaxControl          \* bound: messages without data under way

Part == [shared : BOOLEAN, bytes : Seq(Bytes)]

ASSUME FramingAssumption ==
    /\ \A p \in Packets : p.first_byte \in Bytes /\ p.parts \in Seq(Part)
    /\ NoPacket \notin Packets
    /\ {NumIovecs, AcceptBelow} \subseteq Nat \ {0}
    /\ Transports \subseteq {"tcp", "tls", "ws"}
    /\ {MaxPackets, MaxCancels, MaxControl} \subseteq Nat

VARIABLES
    transport,
    open,               \* whether the transport still accepts bytes
    wire,               \* bytes in the transport
    sink,               \* WebSocket: messages written and not yet sent
    frames,             \* WebSocket: the lengths of the messages in wire, after
    next_read,          \* so many bytes of the message that is being read
    text,               \* WebSocket: a text message comes after wire
    \* The writer.
    chunks, total_size, \* the accumulator and its length
    written,            \* bytes of the current batch that the transport has taken
    writer,             \* "ready", "writing", or "flushing" in inner.flush()
    pending,            \* the packet whose write() waits for a flush
    unflushed,          \* the driver has written since its last flush
    \* The reader.
    buf,                \* filled bytes
    header,             \* local of read(): [len, first_byte, remaining_length]
    reader,             \* "idle", "reading", "eof" or "error"
    cancels,            \* how often a read was canceled
    \* History.
    sent, received      \* packets accepted by write() and returned by read()

writerVars == <<chunks, total_size, written, writer, pending, unflushed, sent>>
readerVars == <<buf, header, reader, cancels, received>>
frameVars == <<frames, next_read, text>>
linkVars == <<transport, open, wire, sink, frameVars>>
vars == <<linkVars, writerVars, readerVars>>

NoHeader == [len |-> 0, first_byte |-> 0, remaining_length |-> 0]

Init ==
    /\ transport \in Transports
    /\ open = TRUE
    /\ wire = <<>>
    /\ sink = <<>>
    /\ frames = <<>>
    /\ next_read = 0
    /\ text = FALSE
    /\ chunks = <<>>
    /\ total_size = 0
    /\ written = 0
    /\ writer = "ready"
    /\ pending = NoPacket
    /\ unflushed = FALSE
    /\ buf = <<>>
    /\ header = NoHeader
    /\ reader = "idle"
    /\ cancels = 0
    /\ sent = <<>>
    /\ received = <<>>

-----------------------------------------------------------------------------
(***************************************************************************)
(* The accumulator.                                                        *)
(***************************************************************************)
Body(p) == FlattenSeq([i \in DOMAIN p.parts |-> p.parts[i].bytes])
FixedHeader(p) == <<p.first_byte>> \o encode_varint[Len(Body(p))]

\* encode starts with the fixed header.
Parts(p) == <<[shared |-> FALSE, bytes |-> FixedHeader(p)]>> \o p.parts

\* put_done: what has been copied becomes a chunk.
PutDone(acc) ==
    [owned |-> <<>>,
     chunks |-> IF acc.owned = <<>> THEN acc.chunks ELSE Append(acc.chunks, acc.owned)]

\* try_put_slice and put_shared; empty shared parts are ignored.
Put(acc, part) ==
    IF ~part.shared THEN [acc EXCEPT !.owned = @ \o part.bytes]
    ELSE IF part.bytes = <<>> THEN acc
    ELSE [PutDone(acc) EXCEPT !.chunks = Append(@, part.bytes)]

Encoded(p) == PutDone(FoldLeft(Put, [owned |-> <<>>, chunks |-> <<>>], Parts(p))).chunks

TotalLen(c) == Len(FlattenSeq(c))

\* EitherAccumulator: Iovecs for TCP, Single for the others.
Single == transport # "tcp"

\* The accumulator with one more packet.  SingleAccumulator has one buffer, which
\* every part is copied to.
Queued(p) ==
    IF Single THEN <<FlattenSeq(chunks \o Encoded(p))>> ELSE chunks \o Encoded(p)

CanAcceptMore == Single \/ Len(chunks) < AcceptBelow

\* What to_iovecs hands to one vectored write.
Batch == FlattenSeq(SubSeq(chunks, 1, Min({NumIovecs, Len(chunks)})))

\* drain_slow: chunks are dropped while n covers them.
DropBytes(c, n) ==
    FoldLeft(LAMBDA acc, chunk :
                 IF acc.n >= Len(chunk) THEN [acc EXCEPT !.n = @ - Len(chunk)]
                 ELSE [n |-> 0, rest |-> Append(acc.rest, SubSeq(chunk, acc.n + 1, Len(chunk)))],
             [n |-> n, rest |-> <<>>], c).rest

\* drain, with its fast path.
Drained(n) == IF total_size = n THEN <<>> ELSE DropBytes(chunks, n)

-----------------------------------------------------------------------------
(***************************************************************************)
(* The writer.                                                             *)
(***************************************************************************)
\* total_size after put_shared and put_done.
AddedSize(p) == TotalLen(Encoded(p))

\* The rest of write(): a packet too large to encode is refused by the counting
\* pass, before anything is queued, and ends the connection.
Enqueue(p) ==
    IF Encodable(Len(Body(p)))
    THEN /\ chunks' = Queued(p)
         /\ total_size' = total_size + AddedSize(p)
         /\ sent' = Append(sent, p)
         /\ unflushed' = TRUE
         /\ UNCHANGED open
    ELSE /\ open' = FALSE
         /\ UNCHANGED <<chunks, total_size, sent, unflushed>>

write(p) ==
    /\ open
    /\ writer = "ready"
    /\ Len(sent) < MaxPackets
    /\ IF CanAcceptMore
       THEN Enqueue(p) /\ UNCHANGED <<writer, pending>>
       ELSE /\ pending' = p
            /\ writer' = "writing"
            /\ UNCHANGED <<open, chunks, total_size, sent, unflushed>>
    /\ UNCHANGED <<transport, wire, sink, frameVars, written, readerVars>>

\* The driver flushes what it has written.
flush ==
    /\ open
    /\ writer = "ready"
    /\ unflushed
    /\ writer' = IF chunks = <<>> THEN "flushing" ELSE "writing"
    /\ UNCHANGED <<linkVars, chunks, total_size, written, pending, unflushed, sent,
                   readerVars>>

\* Fault: one batch is taken for everything.
MoreToWriteNever(c) == FALSE

\* The loop of flush goes on until to_iovecs finds nothing.
MoreToWrite(c) == c # <<>>

\* What the transport does with bytes it takes; poll_write makes a message of them.
Takes(bytes) ==
    IF transport = "ws" THEN sink' = Append(sink, bytes) /\ UNCHANGED wire
    ELSE wire' = wire \o bytes /\ UNCHANGED sink

\* The transport takes the next k bytes of the batch; poll_write of a WebSocket
\* takes the whole buffer.
write_vectored(k) ==
    /\ open
    /\ writer = "writing"
    /\ k \in 1 .. (Len(Batch) - written)
    /\ transport = "ws" => k = Len(Batch)
    /\ Takes(SubSeq(Batch, written + 1, written + k))
    /\ IF written + k < Len(Batch)
       THEN written' = written + k /\ UNCHANGED <<chunks, total_size, writer>>
       ELSE /\ written' = 0
            /\ chunks' = Drained(written + k)
            /\ total_size' = total_size - (written + k)
            /\ writer' = IF MoreToWrite(chunks') THEN "writing" ELSE "flushing"
    /\ UNCHANGED <<transport, open, frameVars, pending, unflushed, sent, readerVars>>

\* The messages of the sink are sent.
Send ==
    /\ wire' = wire \o FlattenSeq(sink)
    /\ frames' = frames \o [i \in DOMAIN sink |-> Len(sink[i])]
    /\ sink' = <<>>
    /\ UNCHANGED <<next_read, text>>

\* The WebSocket library may send before it is flushed.
send_early ==
    /\ open
    /\ sink # <<>>
    /\ Send
    /\ UNCHANGED <<transport, open, writerVars, readerVars>>

\* inner.flush() returns, to the driver or to the write() that waits.
flushed ==
    /\ open
    /\ writer = "flushing"
    /\ Send
    /\ writer' = "ready"
    /\ pending' = NoPacket
    /\ IF pending # NoPacket
       THEN Enqueue(pending)
       ELSE unflushed' = FALSE /\ UNCHANGED <<open, chunks, total_size, sent>>
    /\ UNCHANGED <<transport, written, readerVars>>

\* The transport fails; bytes that are under way may still arrive, those of a
\* WebSocket message together.  A WebSocket peer may also stop with a text message.
connection_lost ==
    /\ open
    /\ open' = FALSE
    /\ \E k \in 0..Len(wire), n \in 0..Len(frames) :
          /\ transport = "ws" => k = FoldLeft(LAMBDA sum, len : sum + len, next_read,
                                              SubSeq(frames, 1, n))
          /\ wire' = SubSeq(wire, 1, k)
          /\ frames' = SubSeq(frames, 1, n)
    /\ sink' = <<>>
    /\ text' \in {FALSE, transport = "ws"}
    /\ UNCHANGED <<transport, next_read, writerVars, readerVars>>

\* The peer's WebSocket sends a message without data: Ping, Pong or empty Binary.
control_message ==
    /\ transport = "ws"
    /\ open
    /\ Len(SelectSeq(frames, LAMBDA n : n = 0)) < MaxControl
    /\ frames' = Append(frames, 0)
    /\ UNCHANGED <<transport, open, wire, sink, next_read, text, writerVars, readerVars>>

-----------------------------------------------------------------------------
(***************************************************************************)
(* The reader.                                                             *)
(***************************************************************************)
\* decode_fixed_header
DecodeHeader(b) ==
    [len |-> 1 + VarintLen(Tail(b)), first_byte |-> Head(b),
     remaining_length |-> decode_varint(Tail(b))]
HeaderComplete(b) == b # <<>> /\ Complete(Tail(b))
HeaderInvalid(b) == b # <<>> /\ TooHigh(Tail(b))

\* Fault: the header is drained before the body is complete.
AwaitingBodyDrained(b, h) == SubSeq(b, h.len + 1, Len(b))

\* The buffer while the rest of the packet is awaited.
AwaitingBody(b, h) == b

\* The packet is split off the buffer.
Return(b, h) ==
    /\ buf' = SubSeq(b, h.len + h.remaining_length + 1, Len(b))
    /\ received' = Append(received, [first_byte |-> h.first_byte,
                                     body |-> SubSeq(b, h.len + 1, h.len + h.remaining_length)])
    /\ header' = NoHeader
    /\ reader' = "idle"

\* What read() does with the bytes b, up to its next await or its result.
Advance(b) ==
    IF header = NoHeader /\ HeaderInvalid(b)
    THEN /\ buf' = b
         /\ reader' = "error"
         /\ UNCHANGED <<header, received>>
    ELSE IF header = NoHeader /\ ~HeaderComplete(b)
    THEN /\ buf' = b
         /\ reader' = "reading"
         /\ UNCHANGED <<header, received>>
    ELSE LET h == IF header = NoHeader THEN DecodeHeader(b) ELSE header
         IN IF Len(b) >= h.len + h.remaining_length THEN Return(b, h)
            ELSE /\ buf' = AwaitingBody(b, h)
                 /\ header' = h
                 /\ reader' = "reading"
                 /\ UNCHANGED received

\* read() is polled for the first time.
read ==
    /\ reader = "idle"
    /\ Advance(buf)
    /\ UNCHANGED <<linkVars, writerVars, cancels>>

\* The space that is certain to be free in the buffer: reserve(5), or what is
\* missing of the packet.
Room ==
    IF header = NoHeader THEN 1 + MaxVarint
    ELSE header.len + header.remaining_length - Len(buf)

\* Fault: a message without data ends the read with no bytes.
AfterMessageReturns(n) == IF n = 0 THEN "eof" ELSE "reading"

\* poll_read looks for another message until it has data.
AfterMessage(n) == "reading"

\* poll_read of a WebSocket has no bytes left and takes the next message.
next_message ==
    /\ reader = "reading"
    /\ next_read = 0
    /\ frames # <<>>
    /\ next_read' = Head(frames)
    /\ frames' = Tail(frames)
    /\ reader' = AfterMessage(Head(frames))
    /\ UNCHANGED <<transport, open, wire, sink, text, writerVars, buf, header, cancels,
                   received>>

\* The bytes inner.read() finds.
Readable == IF transport = "ws" THEN next_read ELSE Len(wire)

\* inner.read() returns k bytes.  A WebSocket gives all there are if they fit.
fill(k) ==
    /\ reader = "reading"
    /\ Room > 0
    /\ k \in 1..Readable
    /\ transport = "ws" => k = Readable \/ k >= Room
    /\ Advance(buf \o SubSeq(wire, 1, k))
    /\ wire' = SubSeq(wire, k + 1, Len(wire))
    /\ next_read' = IF transport = "ws" THEN next_read - k ELSE 0
    /\ UNCHANGED <<transport, open, sink, frames, text, writerVars, cancels>>

\* inner.read() returns 0: the end of the stream, or no space to read into.  A text
\* message is an error.
end_of_stream ==
    /\ reader = "reading"
    /\ (wire = <<>> /\ frames = <<>> /\ ~open) \/ Room <= 0
    /\ reader' = IF text /\ Room > 0 THEN "error" ELSE "eof"
    /\ UNCHANGED <<linkVars, writerVars, buf, header, cancels, received>>

\* The loop of run_until_disconnect_inner drops the future of read(): it has a
\* packet to send, or a timeout.
cancel ==
    /\ reader = "reading"
    /\ cancels < MaxCancels
    /\ cancels' = cancels + 1
    /\ reader' = "idle"
    /\ header' = NoHeader
    /\ UNCHANGED <<linkVars, writerVars, buf, received>>

WriterStep ==
    \/ flush
    \/ \E k \in 1..Len(Batch) : write_vectored(k)
    \/ flushed

ReaderStep ==
    \/ read
    \/ next_message
    \/ \E k \in 1..Len(wire) : fill(k)
    \/ end_of_stream

Next ==
    \/ \E p \in Packets : write(p)
    \/ WriterStep
    \/ send_early
    \/ control_message
    \/ connection_lost
    \/ ReaderStep
    \/ cancel

\* The driver flushes what it wrote, the transport makes progress, and read() is
\* polled.
Spec == Init /\ [][Next]_vars /\ WF_vars(WriterStep) /\ WF_vars(ReaderStep)

-----------------------------------------------------------------------------
\* A packet as read() returns it.
Received(p) == [first_byte |-> p.first_byte, body |-> Body(p)]
RawPackets == {Received(p) : p \in Packets}

\* The writer and the reader together implement a FIFO stream of packets: however
\* the transport splits the bytes, and however often read() is canceled and called
\* again, it returns the packets that write() accepted, whole and in order.
Stream == INSTANCE PacketStream WITH
    Packet <- RawPackets, sent <- [i \in DOMAIN sent |-> Received(sent[i])]

ImplementsStream == Stream!Spec

\* read() reports the end of the stream, or a header that does not decode, only if
\* the connection was lost: it never waits with a full buffer, write() never emits a
\* length that read() refuses, and a WebSocket message without data ends nothing.
NoFalseEnd == reader \in {"eof", "error"} => ~open

\* Every packet that write() has accepted is received, or the connection is lost:
\* flush leaves nothing behind, in however many batches it goes out, in the
\* accumulator or in the transport.
PacketsArrive == Len(received) < Len(sent) ~> (Len(received) = Len(sent) \/ ~open)
=============================================================================
