----------------------------- MODULE TransLayer -----------------------------
(***************************************************************************)
(* A connection to the collector-agent, common/src/ConnectionPool/         *)
(* TransLayer.{h,cpp}, driven by Agent::TrySendSpan of common.cpp.         *)
(*                                                                         *)
(* The socket does not block: connecting completes or fails later, a send  *)
(* takes what there is room for, and an error found by one poll resets     *)
(* the connection.  A connection belongs to one thread at a time; what     *)
(* runs beside it is the network and the peer, which reads its streams     *)
(* frame by frame (collector-agent/server/Server.go, handleClient).        *)
(*                                                                         *)
(* A frame is PARTS units <<frame, 1>> .. <<frame, PARTS>>, of which the   *)
(* first is its header.  The send buffer is a queue of units, which module *)
(* Chunks refines.                                                         *)
(***************************************************************************)
EXTENDS Integers, Sequences

CONSTANTS
    PARTS,            \* units of a frame
    Modes,            \* what span_timeout asks of TrySendSpan
    MAX_RETRY_ITEMS,  \* polls of SyncSendAll, 20
    ManyFiles,        \* a descriptor may be FD_SETSIZE or more
    RECONNECT_TIME,   \* clock ticks between two connects, 5 s
    BUFFER,           \* bound: units of the send buffer (c_max_size)
    WIRE,             \* bound: units the network holds
    MaxSpans          \* bound: frames accepted

ASSUME SizesAssumption == /\ PARTS \in Nat \ {0} /\ MAX_RETRY_ITEMS \in Nat
                          /\ RECONNECT_TIME \in Nat /\ BUFFER \in Nat
                          /\ WIRE \in Nat \ {0} /\ MaxSpans \in Nat
ASSUME ModesAssumption == /\ Modes \subseteq {"sync", "once", "drop"}
                          /\ ManyFiles \in BOOLEAN

VARIABLES
    sock,     \* c_fd: "none" for -1, else the state of the descriptor
    flags,    \* _state
    wait,     \* ticks until connect_remote may connect again
    buf,      \* the send buffer
    pc,       \* "idle", or the mode of the TrySendSpan that runs
    retry,    \* polls made by the running SyncSendAll
    spans,    \* frames accepted so far; the frames are 1 .. spans
    hello,    \* what the peer has sent and the agent not read
    ready,    \* ProcessState::ready_: a hello message was handled
    wire,     \* units under way on this connection
    due,      \* the unit the peer expects next on this connection
    got,      \* frames the peer has read whole
    garbled   \* the peer read a unit it did not expect

vars == <<sock, flags, wait, buf, pc, retry, spans, hello, ready,
          wire, due, got, garbled>>
agent == <<flags, wait, buf, pc, retry, spans, ready>>
peer == <<due, got, garbled>>

S_WRITING == "writing"
S_READING == "reading"
S_ERROR == "error"

Frame(f) == [p \in 1 .. PARTS |-> <<f, p>>]

\* The peer waits for the header of any frame.
Boundary == <<0, 1>>

Init ==
    /\ sock = "none" /\ flags = {} /\ wait = 0 /\ buf = <<>>
    /\ pc = "idle" /\ retry = 0 /\ spans = 0 /\ hello = "none" /\ ready = FALSE
    /\ wire = <<>> /\ due = Boundary /\ got = {} /\ garbled = FALSE
-----------------------------------------------------------------------------
(* The peer and the network.                                               *)

\* The units of a frame, and the frames of a connection, follow one another.
Following(u) == IF u[2] = PARTS THEN <<u[1] + 1, 1>> ELSE <<u[1], u[2] + 1>>

\* u is not what the peer expects, or is of a frame it has read before.
Unexpected(u) ==
    \/ u[2] # due[2]
    \/ due # Boundary /\ u # due
    \/ u[1] \in got

\* The peer reads a unit.
Parse(u) ==
    /\ due' = Following(u)
    /\ got' = IF u[2] = PARTS THEN got \cup {u[1]} ELSE got
    /\ garbled' = (garbled \/ Unexpected(u))

\* Also of a connection that is broken, what has arrived.
PeerReads ==
    /\ sock \in {"up", "broken"}
    /\ wire # <<>>
    /\ Parse(Head(wire))
    /\ wire' = Tail(wire)
    /\ UNCHANGED <<sock, agent, hello>>

\* A connect that was under way completes; the peer says hello at once.
Connected ==
    /\ sock = "connecting"
    /\ sock' = "up"
    /\ hello' \in {"hello", "old"}
    /\ UNCHANGED <<agent, wire, peer>>

\* The connect is refused, or the connection breaks: the next select tells.
Broken ==
    /\ sock \in {"connecting", "up"}
    /\ sock' = "broken"
    /\ UNCHANGED <<agent, hello, wire, peer>>

Tick ==
    /\ wait > 0
    /\ wait' = wait - 1
    /\ UNCHANGED <<sock, flags, buf, pc, retry, spans, hello, ready, wire, peer>>
-----------------------------------------------------------------------------
(* connect_remote.  c_fd is -1 when it is called.                          *)

\* The descriptor after an attempt: none when socket() or connect() fails at
\* once (always so for a unix socket that nobody listens on).
Attempts == {"none", "connecting", "up"}

\* A second attempt within RECONNECT_TIME_SEC is not made.  The event flags are
\* set even when the attempt has failed.
ConnectRemote(from, waited) ==
    \/ /\ waited > 0
       /\ sock' = "none"
       /\ flags' = from
       /\ hello' = "none"
       /\ UNCHANGED wait
    \/ /\ waited = 0
       /\ wait' = RECONNECT_TIME
       /\ sock' \in Attempts
       /\ flags' = from \cup {S_ERROR, S_READING, S_WRITING}
       /\ hello' \in IF sock' = "up" THEN {"hello", "old"} ELSE {"none"}

\* The connection is closed.  What the peer still gets of it, it may as well have
\* read before; it waits for nothing after that.
Closed ==
    /\ wire' = <<>> /\ due' = Boundary
    /\ UNCHANGED <<got, garbled>>

\* Mutant of ResetRemote: the chunks are kept for the next connection.
ResetRemoteKeepsChunks ==
    /\ Closed
    /\ UNCHANGED buf

\* _reset_remote: close, and resetChunks.
ResetRemote ==
    /\ Closed
    /\ buf' = <<>>
-----------------------------------------------------------------------------
(* PoolEventOnce, the whole of it.                                         *)

\* A poll counts for SyncSendAll, which goes on while S_WRITING is set and
\* polls are left; any other TrySendSpan ends here.
Polled ==
    IF pc = "sync" /\ S_WRITING \in flags' /\ retry + 1 < MAX_RETRY_ITEMS
    THEN retry' = retry + 1 /\ UNCHANGED pc
    ELSE retry' = 0 /\ pc' = "idle"

Polling == pc \in {"sync", "once"}

\* c_fd is -1 and stays so: return -1, with the buffer kept.  select returns -1
\* (EINTR) with a descriptor: likewise.
PollFails ==
    /\ Polling
    /\ \/ sock = "none" /\ ConnectRemote(flags, wait) /\ sock' = "none"
       \/ sock # "none" /\ UNCHANGED <<sock, flags, wait, hello>>
    /\ Polled
    /\ UNCHANGED <<buf, spans, ready, wire, peer>>

\* c_fd was -1 and a connect begins: the poll goes on to select.
PollConnects ==
    /\ Polling
    /\ sock = "none"
    /\ ConnectRemote(flags, wait)
    /\ sock' # "none"
    /\ UNCHANGED <<buf, pc, retry, spans, ready, wire, peer>>

\* The descriptor is beyond FD_SETSIZE: reset, with no new connect.
PollTooLarge ==
    /\ ManyFiles
    /\ Polling
    /\ sock # "none"
    /\ sock' = "none" /\ flags' = {} /\ hello' = "none"
    /\ ResetRemote
    /\ Polled
    /\ UNCHANGED <<wait, spans, ready>>

\* recvByteStream with HandleHelloMsg: what the peer said is accepted unless it
\* is a collector-agent older than v0.7.0 and no other has answered before.
Accepts(msg) == msg # "old" \/ ready

\* An error event; a read that finds the connection closed or the message
\* unacceptable; or a write that fails: ERR_NETWORK, reset and connect again.
PollError ==
    /\ Polling
    /\ sock # "none"
    /\ \/ sock = "broken"
       \/ sock = "up" /\ ~Accepts(hello)
       \/ sock = "up" /\ S_WRITING \in flags /\ buf # <<>>
    /\ ready' \in {ready, ready \/ hello = "hello"}
    /\ ResetRemote
    /\ ConnectRemote({}, wait)
    /\ Polled
    /\ UNCHANGED spans

\* Mutant of Drained: S_WRITING is cleared by every send.
DrainedClears(n) == flags \ {S_WRITING}

\* _do_write_data clears S_WRITING with each chunk that is sent, and sets it
\* when the socket is full; drainOutWithPipe leaves it alone when the buffer is
\* empty.  n units of the buffer were sent.
Drained(n) ==
    IF buf = <<>> THEN flags
    ELSE IF n = Len(buf) THEN flags \ {S_WRITING} ELSE flags \cup {S_WRITING}

\* select returns the events there are (none is a timeout): read, then write
\* as much as the network takes.
PollEvents ==
    /\ Polling
    /\ sock = "up"
    /\ Accepts(hello)
    /\ ready' = (ready \/ hello = "hello")
    /\ hello' = "none"
    /\ LET room == WIRE - Len(wire)
           n == IF S_WRITING \notin flags THEN 0
                ELSE IF Len(buf) < room THEN Len(buf) ELSE room
       IN /\ wire' = wire \o SubSeq(buf, 1, n)
          /\ buf' = SubSeq(buf, n + 1, Len(buf))
          /\ flags' = IF S_WRITING \in flags /\ room > 0 THEN Drained(n) ELSE flags
    /\ Polled
    /\ UNCHANGED <<sock, wait, spans, peer>>

\* The connect is still under way: select times out.
PollTimeout ==
    /\ Polling
    /\ sock = "connecting"
    /\ UNCHANGED <<sock, flags, wait, buf, spans, hello, ready, wire, peer>>
    /\ Polled
-----------------------------------------------------------------------------
(* TrySendSpan.                                                            *)

\* The poll that follows: SyncSendAll does not begin when S_WRITING is not set.
Begin(mode) ==
    pc' = IF mode = "drop" \/ (mode = "sync" /\ S_WRITING \notin flags')
          THEN "idle" ELSE mode

\* Mutant of TrySendSpan: the capacity is not checked.
TrySendSpanUnchecked(mode) ==
    /\ pc = "idle"
    /\ \/ /\ spans < MaxSpans
          /\ spans' = spans + 1
          /\ buf' = buf \o Frame(spans + 1)
          /\ flags' = flags \cup {S_WRITING}
       \/ UNCHANGED <<spans, buf, flags>>
    /\ Begin(mode)
    /\ UNCHANGED <<sock, wait, retry, hello, ready, wire, peer>>

\* copy_into_send_buffer takes the frame, or refuses it, and the call goes on.
TrySendSpan(mode) ==
    /\ pc = "idle"
    /\ \/ /\ spans < MaxSpans
          /\ Len(buf) + PARTS <= BUFFER
          /\ spans' = spans + 1
          /\ buf' = buf \o Frame(spans + 1)
          /\ flags' = flags \cup {S_WRITING}
       \/ UNCHANGED <<spans, buf, flags>>
    /\ Begin(mode)
    /\ UNCHANGED <<sock, wait, retry, hello, ready, wire, peer>>
-----------------------------------------------------------------------------
Poll == PollFails \/ PollConnects \/ PollTooLarge \/ PollError \/ PollEvents \/ PollTimeout

Next ==
    \/ \E mode \in Modes : TrySendSpan(mode)
    \/ Poll
    \/ PeerReads \/ Connected \/ Broken \/ Tick

\* Spans keep coming, a call that has begun goes on, the clock runs, the peer
\* reads, and a connect comes to an end.  A signal does not interrupt every
\* select: events that keep coming back are seen.  Nothing has to break.
Fairness ==
    /\ WF_vars(\E mode \in Modes \ {"drop"} : TrySendSpan(mode))
    /\ WF_vars(Poll) /\ SF_vars(PollEvents)
    /\ SF_vars(PollError /\ (sock = "broken" \/ ~Accepts(hello)))
    /\ WF_vars(Tick) /\ WF_vars(sock = "up" /\ PeerReads)
    /\ WF_vars(Connected \/ (sock = "connecting" /\ Broken))

Spec == Init /\ [][Next]_vars
FairSpec == Spec /\ Fairness
-----------------------------------------------------------------------------
(* Properties.                                                             *)

Units == (1 .. MaxSpans) \X (1 .. PARTS)

TypeOK ==
    /\ sock \in {"none", "connecting", "up", "broken"}
    /\ flags \subseteq {S_WRITING, S_READING, S_ERROR}
    /\ wait \in 0 .. RECONNECT_TIME
    /\ buf \in Seq(Units) /\ Len(buf) <= BUFFER
    /\ pc \in {"idle", "sync", "once"} /\ retry \in 0 .. MAX_RETRY_ITEMS
    /\ spans \in 0 .. MaxSpans
    /\ hello \in {"none", "hello", "old"} /\ ready \in BOOLEAN
    /\ wire \in Seq(Units) /\ Len(wire) <= WIRE
    /\ due \in (0 .. MaxSpans + 1) \X (1 .. PARTS)
    /\ got \subseteq 1 .. MaxSpans /\ garbled \in BOOLEAN

\* Whatever is in the send buffer, the next poll selects for writing, and
\* SyncSendAll does not stop while there is something to send; and a descriptor
\* never stays without the flags for errors and messages (_do_write_data,
\* connect_remote, _reset_remote).  The buffer keeps within its capacity.
FlagsFollow ==
    /\ TypeOK
    /\ buf # <<>> => S_WRITING \in flags
    /\ sock # "none" => {S_READING, S_ERROR} \subseteq flags

\* Every connection carries whole frames from the first byte on, in order and
\* without a gap, and no frame reaches the peer twice: a frame that was cut off
\* by a reset is not continued on the next connection, nor sent again.
PeerInSync == ~garbled

\* If the connection is up again and again, no frame stays in the send buffer
\* for ever: partial sends, full sockets, interrupted polls and reconnects all
\* lead on.
InBuf(f) == \E i \in DOMAIN buf : buf[i][1] = f
Flushes == []<>(sock = "up") => \A f \in 1 .. MaxSpans : InBuf(f) ~> ~InBuf(f)
=============================================================================
