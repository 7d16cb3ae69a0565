----------------------------- MODULE MsgStream -----------------------------
(***************************************************************************)
(* The receive side of a connection: recvByteStream and HandleMsgStream of *)
(* common/src/ConnectionPool/TransLayer.h, with the message handler that   *)
(* Agent registers (HandleHelloMsg of common.cpp).                         *)
(*                                                                         *)
(* The peer's frames arrive as bytes, cut into segments of any size.  A    *)
(* byte is <<f, k>>, the k-th byte of the peer's f-th frame; the length    *)
(* and type of a frame are read from its first HEADER bytes.               *)
(***************************************************************************)
EXTENDS Integers, Sequences

CONSTANTS
    IN_MSG_BUF_SIZE,   \* bytes of in_buf, 4096
    HEADER,            \* sizeof(Header), 8
    BodyLengths,       \* the lengths a peer may announce
    MaxFrames          \* bound: frames of one connection

\* What a frame is to the handlers: a hello of a supported collector-agent, of
\* an older one, one that is not JSON, or a type that nobody registered.
Kinds == {"hello", "old", "invalid", "unknown"}

VARIABLES
    sent,      \* frames of this connection, in order
    stream,    \* bytes the agent has not received
    in_buf,    \* the bytes of in_buf, up to in_buf_size_ (+ ret while handling)
    offset,    \* how far HandleMsgStream has come
    pc,
    handled,   \* the frames given to the handlers (or skipped), this connection
    ready      \* ProcessState::ready_

vars == <<sent, stream, in_buf, offset, pc, handled, ready>>

FrameBytes(f, len) == [k \in 1 .. HEADER + len |-> <<f, k>>]

Init ==
    /\ sent = <<>> /\ stream = <<>> /\ in_buf = <<>> /\ offset = 0 /\ pc = "idle"
    /\ handled = <<>> /\ ready = FALSE

\* The peer sends a frame.
PeerSends(len, kind) ==
    /\ Len(sent) < MaxFrames
    /\ sent' = Append(sent, [len |-> len, kind |-> kind])
    /\ stream' = stream \o FrameBytes(Len(sent) + 1, len)
    /\ UNCHANGED <<in_buf, offset, pc, handled, ready>>

\* A read event (or a poll that finds none).
ReadEvent ==
    /\ pc = "idle"
    /\ pc' = "recv"
    /\ UNCHANGED <<sent, stream, in_buf, offset, handled, ready>>

\* _reset_remote and a new connection, once the call has returned -1.
Reset ==
    /\ sent' = <<>> /\ stream' = <<>> /\ in_buf' = <<>> /\ offset' = 0
    /\ pc' = "idle" /\ handled' = <<>>
    /\ UNCHANGED ready

\* The loop ends with an error when in_buf is full, which it never is (NeverFull).
\* recv: some bytes; none for now; or the end of the stream.
Recv ==
    /\ pc = "recv"
    /\ Len(in_buf) < IN_MSG_BUF_SIZE
    /\ \/ \E n \in 1 .. Len(stream) :
             /\ n <= IN_MSG_BUF_SIZE - Len(in_buf)
             /\ in_buf' = in_buf \o SubSeq(stream, 1, n)
             /\ stream' = SubSeq(stream, n + 1, Len(stream))
             /\ offset' = 0
             /\ pc' = "handle"
             /\ UNCHANGED <<sent, handled, ready>>
       \/ /\ stream = <<>>
          /\ pc' = "idle"
          /\ UNCHANGED <<sent, stream, in_buf, offset, handled, ready>>
       \/ stream = <<>> /\ Reset

-----------------------------------------------------------------------------
(* HandleMsgStream.                                                        *)

Left == Len(in_buf) - offset

\* The bytes at offset are the header of a frame of this connection.
IsHeader == Left >= HEADER /\ \E f \in 1 .. Len(sent) :
    \A k \in 1 .. HEADER : in_buf[offset + k] = <<f, k>>
Header == sent[in_buf[offset + 1][1]]

\* Mutant of TooLong: the header is not counted.
TooLongForBody(len) == len > IN_MSG_BUF_SIZE

TooLong(len) == len > IN_MSG_BUF_SIZE - HEADER

\* Mutant of Incomplete: a frame that ends with the buffer has to wait.
IncompleteAtEnd(len) == HEADER + len >= Left

Incomplete(len) == HEADER + len > Left

\* HandleMsgStream returns offset, and recvByteStream keeps what is left over.
Return ==
    /\ in_buf' = SubSeq(in_buf, offset + 1, Len(in_buf))
    /\ pc' = "recv"

\* Fewer bytes than a header, or than the frame, are left: wait for more.
HandleStops ==
    /\ pc = "handle"
    /\ Left < HEADER \/ (IsHeader /\ ~TooLong(Header.len) /\ Incomplete(Header.len))
    /\ Return
    /\ UNCHANGED <<sent, stream, offset, handled, ready>>

\* HandleHelloMsg: once ready, every message is accepted; before, an older
\* collector-agent is an error, and anything without a time is ignored.
Accepted(kind) == ready \/ kind # "old"

\* The frame is too long, or its handler returns -1.
HandleFails ==
    /\ pc = "handle"
    /\ IsHeader
    /\ TooLong(Header.len) \/ (~Incomplete(Header.len) /\ ~Accepted(Header.kind))
    /\ Reset

\* One turn of the loop: the frame goes to its handler, if it has one.
HandleFrame ==
    /\ pc = "handle"
    /\ IsHeader
    /\ ~TooLong(Header.len) /\ ~Incomplete(Header.len) /\ Accepted(Header.kind)
    /\ handled' = Append(handled, Header)
    /\ ready' = (ready \/ Header.kind = "hello")
    /\ offset' = offset + HEADER + Header.len
    /\ UNCHANGED <<sent, stream, in_buf, pc>>
-----------------------------------------------------------------------------
Next ==
    \/ \E len \in BodyLengths, kind \in Kinds : PeerSends(len, kind)
    \/ ReadEvent \/ Recv
    \/ HandleStops \/ HandleFails \/ HandleFrame

Spec == Init /\ [][Next]_vars
-----------------------------------------------------------------------------
(* Properties.                                                             *)

\* A frame that is admitted fits: the buffer is never full when the loop of
\* recvByteStream comes round, so that its last return is never taken.
NeverFull == pc = "recv" => Len(in_buf) < IN_MSG_BUF_SIZE

\* Types, and that the receive buffer is neither overrun nor ever found full.
TypeOK ==
    /\ sent \in Seq([len : BodyLengths, kind : Kinds])
    /\ handled \in Seq([len : BodyLengths, kind : Kinds])
    /\ Len(in_buf) <= IN_MSG_BUF_SIZE /\ NeverFull
    /\ offset \in 0 .. IN_MSG_BUF_SIZE
    /\ pc \in {"idle", "recv", "handle"}
    /\ ready \in BOOLEAN

\* However the stream is cut, the frames are handled in the order they were
\* sent, each once and none skipped, and a length is only ever read from a header;
\* and when the agent goes back to wait for bytes it has handled every frame that
\* has arrived whole (recvByteStream, HandleMsgStream).
HandledInOrder ==
    /\ \E n \in 0 .. Len(sent) : handled = SubSeq(sent, 1, n)
    /\ pc = "handle" /\ Left >= HEADER => IsHeader
    /\ pc = "idle" /\ Len(in_buf) >= HEADER =>
           Len(in_buf) < HEADER + sent[Len(handled) + 1].len
=============================================================================
