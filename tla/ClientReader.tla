---------------------------- MODULE ClientReader ----------------------------
(***************************************************************************)
(* How the collector-agent cuts the byte stream of a client into packets:  *)
(* handleClient, matchFullPacket and parsePacket of                        *)
(* collector-agent/server/Server.go.                                       *)
(*                                                                         *)
(* A byte is <<p, k>>, the k-th byte of the client's p-th packet.  The     *)
(* buffer clientInBuf is its unparsed part, bytes packetOffset .. inOffset *)
(* of the code, and the number of bytes before it.                         *)
(***************************************************************************)
EXTENDS Integers, Sequences

CONSTANTS
    RecvBufSize,         \* bytes of clientInBuf
    CLIENT_HEADER_SIZE,  \* 8
    BodyLengths,         \* the lengths a client sends
    MaxPackets           \* bound: packets of the connection

\* A packet is a span the router takes, one it refuses, a request for a unique
\* id, or of a type the server does not know.
Types == {"span", "refused", "unique_id", "unknown"}

VARIABLES
    sent,          \* the packets the client has sent
    stream,        \* bytes on their way
    open,          \* the client has not closed the connection
    packetOffset,  \* bytes of the buffer before the unparsed ones
    unparsed,      \* the bytes read and not parsed
    pc,            \* "read", "parse", or why the connection was given up
    handled        \* the packets given to parsePacket

vars == <<sent, stream, open, packetOffset, unparsed, pc, handled>>

PacketBytes(p, len) == [k \in 1 .. CLIENT_HEADER_SIZE + len |-> <<p, k>>]

Init ==
    /\ sent = <<>> /\ stream = <<>> /\ open = TRUE
    /\ packetOffset = 0 /\ unparsed = <<>> /\ pc = "read" /\ handled = <<>>

ClientSends(len, type) ==
    /\ open
    /\ Len(sent) < MaxPackets
    /\ sent' = Append(sent, [len |-> len, type |-> type])
    /\ stream' = stream \o PacketBytes(Len(sent) + 1, len)
    /\ UNCHANGED <<open, packetOffset, unparsed, pc, handled>>

ClientCloses ==
    /\ open
    /\ open' = FALSE
    /\ UNCHANGED <<sent, stream, packetOffset, unparsed, pc, handled>>

inOffset == packetOffset + Len(unparsed)

\* Mutant of Read: the bytes already in the buffer are not taken into account.
ReadWhole ==
    /\ pc = "read"
    /\ \E n \in 1 .. Len(stream) :
           /\ n <= RecvBufSize
           /\ unparsed' = unparsed \o SubSeq(stream, 1, n)
           /\ stream' = SubSeq(stream, n + 1, Len(stream))
    /\ pc' = "parse"
    /\ UNCHANGED <<sent, open, packetOffset, handled>>

\* con.Read fills some of the rest of the buffer.
Read ==
    /\ pc = "read"
    /\ \E n \in 1 .. Len(stream) :
           /\ n <= RecvBufSize - inOffset
           /\ unparsed' = unparsed \o SubSeq(stream, 1, n)
           /\ stream' = SubSeq(stream, n + 1, Len(stream))
    /\ pc' = "parse"
    /\ UNCHANGED <<sent, open, packetOffset, handled>>

\* io.EOF, or the connection was closed by the shutdown of the server.
ReadFails ==
    /\ pc = "read"
    /\ stream = <<>>
    /\ ~open
    /\ pc' = "read error"
    /\ UNCHANGED <<sent, stream, open, packetOffset, unparsed, handled>>

\* A read into an empty slice returns 0 and no error.
ReadNothing ==
    /\ pc = "read"
    /\ inOffset = RecvBufSize
    /\ pc' = "closed by client"
    /\ UNCHANGED <<sent, stream, open, packetOffset, unparsed, handled>>
-----------------------------------------------------------------------------
(* matchFullPacket.                                                        *)

total == Len(unparsed)

\* The length in the first bytes, which are a header when the stream is in step.
InStep == \E p \in 1 .. Len(sent) :
    \A k \in 1 .. CLIENT_HEADER_SIZE : unparsed[k] = <<p, k>>
bodyLen == sent[unparsed[1][1]].len

HasHeader == total >= CLIENT_HEADER_SIZE
Oversized == HasHeader /\ bodyLen > RecvBufSize
Whole == HasHeader /\ ~Oversized /\ total >= bodyLen + CLIENT_HEADER_SIZE

\* Bytes that are missing for the header, or for the packet.
needs == (IF HasHeader THEN bodyLen + CLIENT_HEADER_SIZE ELSE CLIENT_HEADER_SIZE) - total
-----------------------------------------------------------------------------
(* The loop of handleClient at ParseAgain.                                 *)

ParseOversized ==
    /\ pc = "parse"
    /\ Oversized
    /\ pc' = "oversized packet"
    /\ UNCHANGED <<sent, stream, open, packetOffset, unparsed, handled>>

NoRoom == RecvBufSize - inOffset < needs

\* Mutant of TooFar: compared with the rest of the buffer.
TooFarRest == needs > RecvBufSize - inOffset

TooFar == needs > RecvBufSize \div 2

\* Wait for more bytes.  When they do not fit behind the others, those are moved
\* to the front of the buffer, unless more than half a buffer is missing.
ParseMore ==
    /\ pc = "parse"
    /\ ~Oversized /\ ~Whole
    /\ pc' = IF NoRoom /\ TooFar THEN "packet overflow" ELSE "read"
    /\ packetOffset' = IF NoRoom /\ ~TooFar THEN 0 ELSE packetOffset
    /\ UNCHANGED <<sent, stream, open, unparsed, handled>>

token == bodyLen + CLIENT_HEADER_SIZE

Rest == SubSeq(unparsed, token + 1, total)

\* Mutant of Again: one packet for each read.
AgainReads == "read"

\* What is left over is parsed at once.
Again == IF Rest = <<>> THEN "read" ELSE "parse"

\* parsePacket: only the router refuses a packet.  When nothing is left over,
\* the buffer is filled from its start.
ParsePacket ==
    /\ pc = "parse"
    /\ Whole
    /\ LET packet == sent[unparsed[1][1]] IN
       /\ handled' = Append(handled, packet)
       /\ \/ /\ packet.type = "refused"
             /\ pc' = "packet error"
             /\ packetOffset' = packetOffset + token
          \/ /\ packet.type # "refused"
             /\ pc' = Again
             /\ packetOffset' = IF Rest = <<>> THEN 0 ELSE packetOffset + token
    /\ unparsed' = Rest
    /\ UNCHANGED <<sent, stream, open>>
-----------------------------------------------------------------------------
Next ==
    \/ \E len \in BodyLengths, type \in Types : ClientSends(len, type)
    \/ ClientCloses
    \/ Read \/ ReadFails \/ ReadNothing
    \/ ParseOversized \/ ParseMore \/ ParsePacket

Spec == Init /\ [][Next]_vars
-----------------------------------------------------------------------------
(* Properties.                                                             *)

TypeOK ==
    /\ sent \in Seq([len : BodyLengths, type : Types])
    /\ handled \in Seq([len : BodyLengths, type : Types])
    /\ open \in BOOLEAN
    /\ packetOffset \in 0 .. RecvBufSize /\ inOffset <= RecvBufSize
    /\ pc \in {"read", "parse", "read error", "closed by client", "oversized packet",
               "packet overflow", "packet error"}

\* However the stream is cut and wherever the buffer is compacted, packets are
\* handled in the order they were sent, each once, a length is read from a header
\* and nothing else, and back at con.Read no packet that has arrived whole is left
\* in the buffer (handleClient, matchFullPacket).
HandledInOrder ==
    /\ \E n \in 0 .. Len(sent) : handled = SubSeq(sent, 1, n)
    /\ pc = "parse" /\ HasHeader => InStep
    /\ pc = "read" => ~Whole /\ ~Oversized

\* A packet that takes up to half of the buffer, header included, is never the
\* reason to give up a connection.
HalfIsEnough ==
    pc \in {"closed by client", "oversized packet", "packet overflow"} =>
        /\ HasHeader
        /\ CLIENT_HEADER_SIZE + bodyLen > RecvBufSize \div 2
=============================================================================
