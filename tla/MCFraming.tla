----------------------------- MODULE MCFraming -----------------------------
(***************************************************************************)
(* The two ends of a connection as readers of frames: the agent (MsgStream)*)
(* and the collector-agent (ClientReader).  A behaviour follows the bytes  *)
(* in one direction, since neither reader looks at what the other does.    *)
(***************************************************************************)
EXTENDS Integers, Sequences

CONSTANTS
    IN_MSG_BUF_SIZE, HEADER, MessageLengths, MaxFrames,           \* MsgStream
    RecvBufSize, CLIENT_HEADER_SIZE, PacketLengths, MaxPackets    \* ClientReader

ASSUME MessageSizes ==
    /\ HEADER \in Nat \ {0} /\ IN_MSG_BUF_SIZE \in Nat /\ IN_MSG_BUF_SIZE > HEADER
    /\ MessageLengths \subseteq Nat /\ MaxFrames \in Nat

ASSUME PacketSizes ==
    /\ CLIENT_HEADER_SIZE \in Nat \ {0}
    /\ RecvBufSize \in Nat /\ RecvBufSize >= 2 * CLIENT_HEADER_SIZE
    /\ PacketLengths \subseteq Nat /\ MaxPackets \in Nat

VARIABLES
    reader,                                   \* who reads in this behaviour
    sent, stream, pc, handled,                \* of both readers
    in_buf, offset, ready,                    \* of MsgStream
    open, packetOffset, unparsed              \* of ClientReader

Agent == INSTANCE MsgStream WITH BodyLengths <- MessageLengths
Collector == INSTANCE ClientReader WITH BodyLengths <- PacketLengths

vars == <<reader, sent, stream, pc, handled, in_buf, offset, ready, open, packetOffset, unparsed>>

Init ==
    \/ /\ reader = "agent" /\ Agent!Init
       /\ open = TRUE /\ packetOffset = 0 /\ unparsed = <<>>
    \/ /\ reader = "collector" /\ Collector!Init
       /\ in_buf = <<>> /\ offset = 0 /\ ready = FALSE

Next ==
    \/ reader = "agent" /\ Agent!Next /\ UNCHANGED <<reader, open, packetOffset, unparsed>>
    \/ reader = "collector" /\ Collector!Next /\ UNCHANGED <<reader, in_buf, offset, ready>>

Spec == Init /\ [][Next]_vars
-----------------------------------------------------------------------------
(* Properties.                                                             *)

\* However the bytes are cut on their way, each end handles the frames of the
\* other in the order they were sent, each once, reads a length from a header and
\* from nothing else, never overruns its buffer, and waits for bytes only when it
\* has handled all that arrived whole (HandleMsgStream; handleClient).  The
\* collector-agent gives up a connection over the size of a packet only when the
\* packet takes more than half of its buffer.
HandledInOrder ==
    /\ reader = "agent" => Agent!TypeOK /\ Agent!HandledInOrder
    /\ reader = "collector" =>
          Collector!TypeOK /\ Collector!HandledInOrder /\ Collector!HalfIsEnough
=============================================================================
