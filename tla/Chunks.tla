------------------------------- MODULE Chunks -------------------------------
(***************************************************************************)
(* The send buffer of a connection: common/src/Cache/Chunk.{h,cpp}, and    *)
(* its one writer, TransLayer::copy_into_send_buffer.                      *)
(*                                                                         *)
(* Bytes wait in a list of chunks, ready_cks; chunks that were sent wait   *)
(* in free_cks to be filled again.  ck_alloc_size and ck_free_ck_capacity  *)
(* are counters kept beside the lists.  One step is one turn of a loop of  *)
(* the code, pc says which; a connection belongs to one thread at a time,  *)
(* so that nothing else happens between the turns.                         *)
(***************************************************************************)
EXTENDS Integers, Sequences, SequencesExt

CONSTANTS
    HEADER,        \* sizeof(DataChunk), 12
    THRESHOLD,     \* the smallest allocation, 1024
    RESIDENT,      \* c_resident_size, 40 K
    MAX,           \* c_max_size, 10 M
    WORD,          \* 2^32, the values of a uint32_t
    Powers,        \* the powers of two below WORD
    FRAME,         \* sizeof(Header) of a message, 8
    BodySizes,     \* the spans the clients send
    Colours,       \* byte values, see ByteQueue
    MallocFails    \* malloc may return NULL

ASSUME SizesAssumption ==
    /\ HEADER \in Nat \ {0} /\ FRAME \in Nat \ {0}
    /\ THRESHOLD \in Nat /\ THRESHOLD > HEADER
    /\ RESIDENT \in Nat /\ MAX \in Nat /\ RESIDENT <= MAX
    /\ Colours \in Nat \ {0}
ASSUME WordAssumption ==
    /\ WORD \in Nat \ {0}
    /\ Powers \subseteq Nat
    /\ \A i \in 1 .. WORD - 1 : \E k \in Powers : k <= i /\ i < 2 * k
\* A span is a JSON text far below 2^31 bytes.
ASSUME SpansAssumption ==
    /\ BodySizes \subseteq Nat
    /\ \A n \in BodySizes \cup {FRAME} : 2 * (HEADER + n) < WORD
ASSUME MallocAssumption == MallocFails \in BOOLEAN

VARIABLES
    ready,    \* ready_cks, the oldest first
    free,     \* free_cks, front first
    alloc,    \* ck_alloc_size
    freeCap,  \* ck_free_ck_capacity
    pc,       \* the loop that runs
    data,     \* what the running copyDataIntoChunks has left to copy
    body,     \* the body, while the header is copied
    next,     \* the next byte of the stream
    sent      \* bytes the pipe has taken, modulo Colours

vars == <<ready, free, alloc, freeCap, pc, data, body, next, sent>>
lists == <<ready, free, alloc, freeCap>>
copying == <<data, body, next>>

Word(n) == n % WORD

\* A chunk: its block_size, its l_ofs and the bytes between l_ofs and r_ofs.
ROfs(c) == c.l + Len(c.bytes)
Room(c) == c.block - ROfs(c)
Emptied(c) == [c EXCEPT !.l = 0, !.bytes = <<>>]

\* ck_ceil_to_k: the power of two above i, at least the threshold.
CkCeilToK(i) ==
    IF i < THRESHOLD THEN THRESHOLD
    ELSE Word(2 * (CHOOSE k \in Powers : k <= i /\ i < 2 * k))

\* Mutant of UseExistingChunk: the room of the last chunk is counted twice.
UseExistingTwice(length) ==
    IF ready = <<>> THEN freeCap >= length
    ELSE 2 * Room(Last(ready)) + freeCap >= length

\* useExistingChunk; length -= available wraps when there is room to spare.
UseExistingChunk(length) ==
    IF ready = <<>> THEN freeCap >= length
    ELSE /\ Room(Last(ready)) >= length
         /\ freeCap >= Word(length - Room(Last(ready)))

CheckCapacity(length) == UseExistingChunk(length) \/ Word(alloc + length) <= MAX

Init ==
    /\ ready = <<>> /\ free = <<>>
    /\ alloc = 0 /\ freeCap = 0
    /\ pc = "idle" /\ data = <<>> /\ body = <<>> /\ next = 0 /\ sent = 0
-----------------------------------------------------------------------------
(* copy_into_send_buffer: the header, then the body.                       *)

Bytes(b, n) == [i \in 1 .. n |-> (b + i - 1) % Colours]

\* A frame that checkCapacity accepts; a refused one changes nothing.
Offer(n) ==
    /\ pc = "idle"
    /\ CheckCapacity(FRAME + n)
    /\ data' = Bytes(next, FRAME)
    /\ body' = Bytes(next + FRAME, n)
    /\ next' = (next + FRAME + n) % Colours
    /\ pc' = "ready"
    /\ UNCHANGED <<lists, sent>>

\* rest is left of the running copy, which goes on at p; when nothing is left
\* the body's copy begins, or the call returns.
Continue(rest, p) ==
    IF rest # <<>>
    THEN data' = rest /\ pc' = p /\ UNCHANGED body
    ELSE data' = body /\ body' = <<>> /\ pc' = IF body = <<>> THEN "idle" ELSE "ready"

\* c with as many of the bytes s as it has room for, and the bytes left over.
Fits(c, s) == IF Room(c) >= Len(s) THEN Len(s) ELSE Room(c)
Filled(c, s) == [c EXCEPT !.bytes = @ \o SubSeq(s, 1, Fits(c, s))]
Rest(c, s) == SubSeq(s, Fits(c, s) + 1, Len(s))

\* copyDataIntoReadyCK.
CopyDataIntoReadyCK ==
    /\ pc = "ready"
    /\ \/ /\ ready = <<>>
          /\ pc' = "free"
          /\ UNCHANGED <<ready, data, body>>
       \/ /\ ready # <<>>
          /\ ready' = Append(Front(ready), Filled(Last(ready), data))
          /\ Continue(Rest(Last(ready), data), "free")
    /\ UNCHANGED <<free, alloc, freeCap, next, sent>>

\* Mutant of CopyDataIntoFreeCK: the chunk's capacity stays in the counter.
CopyFreeKeepsCapacity ==
    /\ pc = "free"
    /\ free # <<>>
    /\ free' = Tail(free)
    /\ ready' = Append(ready, Filled(Head(free), data))
    /\ Continue(Rest(Head(free), data), "free")
    /\ UNCHANGED <<alloc, freeCap, next, sent>>

\* One turn of copyDataIntoFreeCK.
CopyDataIntoFreeCK ==
    /\ pc = "free"
    /\ free # <<>>
    /\ free' = Tail(free)
    /\ ready' = Append(ready, Filled(Head(free), data))
    /\ freeCap' = Word(freeCap - Head(free).block)
    /\ Continue(Rest(Head(free), data), "free")
    /\ UNCHANGED <<alloc, next, sent>>

\* copyDataIntoNewChunk, once no free chunk is left.  When malloc fails the
\* rest of this copy is lost; the caller goes on to the body all the same.
CopyDataIntoNewChunk ==
    LET mem == CkCeilToK(HEADER + Len(data)) IN
    /\ pc = "free"
    /\ free = <<>>
    /\ \/ /\ ready' = Append(ready, [block |-> mem - HEADER, l |-> 0, bytes |-> data])
          /\ alloc' = Word(alloc + mem)
       \/ MallocFails /\ UNCHANGED <<ready, alloc>>
    /\ Continue(<<>>, "free")
    /\ UNCHANGED <<free, freeCap, next, sent>>
-----------------------------------------------------------------------------
(* drainOutWithPipe, resetChunks and the checkWaterLevel that ends both.   *)

DrainOutWithPipe ==
    /\ pc = "idle"
    /\ ready # <<>>
    /\ pc' = "drain"
    /\ UNCHANGED <<lists, copying, sent>>

\* Mutant of DrainTurn: a chunk that was only partly sent is dropped.
DrainTurnDropsRest ==
    /\ pc = "drain"
    /\ ready # <<>>
    /\ \E ret \in 0 .. Len(Head(ready).bytes) :
          \/ /\ ret = 0
             /\ pc' = "idle"
             /\ UNCHANGED <<ready, free, freeCap, sent>>
          \/ /\ ret > 0
             /\ ready' = Tail(ready)
             /\ free' = <<Emptied(Head(ready))>> \o free
             /\ freeCap' = Word(freeCap + Head(ready).block)
             /\ sent' = (sent + ret) % Colours
             /\ UNCHANGED pc
    /\ UNCHANGED <<alloc, copying>>

\* One turn: the pipe takes ret bytes of the first chunk.  It returns 0 or -1
\* when it can take none, which ends the call at once.
DrainTurn ==
    /\ pc = "drain"
    /\ ready # <<>>
    /\ LET cur == Head(ready)
           size == Len(cur.bytes)
       IN \E ret \in -1 .. size :
          \/ /\ ret <= 0
             /\ pc' = "idle"
             /\ UNCHANGED <<ready, free, freeCap, sent>>
          \/ /\ ret > 0 /\ ret = size
             /\ ready' = Tail(ready)
             /\ free' = <<Emptied(cur)>> \o free
             /\ freeCap' = Word(freeCap + cur.block)
             /\ sent' = (sent + ret) % Colours
             /\ UNCHANGED pc
          \/ /\ ret > 0 /\ ret < size
             /\ ready' = <<[cur EXCEPT !.l = @ + ret,
                                       !.bytes = SubSeq(@, ret + 1, size)]>> \o Tail(ready)
             /\ sent' = (sent + ret) % Colours
             /\ UNCHANGED <<free, freeCap, pc>>
    /\ UNCHANGED <<alloc, copying>>

ResetChunks ==
    /\ pc = "idle"
    /\ pc' = "reset"
    /\ UNCHANGED <<lists, copying, sent>>

\* Mutant of ResetTurn: the offsets of the chunk are not reset.
ResetTurnKeepsOffsets ==
    /\ pc = "reset"
    /\ ready # <<>>
    /\ ready' = Tail(ready)
    /\ free' = Append(free, Head(ready))
    /\ freeCap' = Word(freeCap + Head(ready).block)
    /\ UNCHANGED <<alloc, pc, copying, sent>>

ResetTurn ==
    /\ pc = "reset"
    /\ ready # <<>>
    /\ ready' = Tail(ready)
    /\ free' = Append(free, Emptied(Head(ready)))
    /\ freeCap' = Word(freeCap + Head(ready).block)
    /\ UNCHANGED <<alloc, pc, copying, sent>>

\* Both loops end with checkWaterLevel, when nothing is left to send.
LastTurn ==
    /\ pc \in {"drain", "reset"}
    /\ ready = <<>>
    /\ pc' = "water"
    /\ UNCHANGED <<lists, copying, sent>>

\* Mutant of CheckWaterLevel: one chunk is released, not as many as it takes.
CheckWaterLevelOnce ==
    /\ pc = "water"
    /\ pc' = "idle"
    /\ \/ /\ RESIDENT < alloc /\ free # <<>>
          /\ free' = Tail(free)
          /\ alloc' = Word(alloc - (Head(free).block + HEADER))
          /\ freeCap' = Word(freeCap - Head(free).block)
       \/ /\ RESIDENT >= alloc \/ free = <<>>
          /\ UNCHANGED <<free, alloc, freeCap>>
    /\ UNCHANGED <<ready, copying, sent>>

\* One turn of checkWaterLevel, with reduceFreeCK, or its end.
CheckWaterLevel ==
    /\ pc = "water"
    /\ \/ /\ RESIDENT < alloc /\ free # <<>>
          /\ free' = Tail(free)
          /\ alloc' = Word(alloc - (Head(free).block + HEADER))
          /\ freeCap' = Word(freeCap - Head(free).block)
          /\ UNCHANGED pc
       \/ /\ RESIDENT >= alloc \/ free = <<>>
          /\ pc' = "idle"
          /\ UNCHANGED <<free, alloc, freeCap>>
    /\ UNCHANGED <<ready, copying, sent>>
-----------------------------------------------------------------------------
\* The turns of a call that has begun.
Turn ==
    \/ CopyDataIntoReadyCK \/ CopyDataIntoFreeCK \/ CopyDataIntoNewChunk
    \/ DrainTurn \/ ResetTurn \/ LastTurn \/ CheckWaterLevel

Next ==
    \/ \E n \in BodySizes : Offer(n)
    \/ DrainOutWithPipe
    \/ ResetChunks
    \/ Turn

Spec == Init /\ [][Next]_vars
-----------------------------------------------------------------------------
(* Properties.                                                             *)

ChunkType == [block : Nat, l : Nat, bytes : Seq(0 .. Colours - 1)]

TypeOK ==
    /\ ready \in Seq(ChunkType) /\ free \in Seq(ChunkType)
    /\ alloc \in Nat /\ freeCap \in Nat
    /\ pc \in {"idle", "ready", "free", "drain", "reset", "water"}
    /\ data \in Seq(0 .. Colours - 1) /\ body \in Seq(0 .. Colours - 1)
    /\ next \in 0 .. Colours - 1 /\ sent \in 0 .. Colours - 1

\* Every chunk that waits has unsent bytes, inside its block: an empty one would
\* make the pipe return 0 and block the queue for ever.  A chunk in the free list
\* has both offsets at 0, so that its whole block counts as capacity.
ChunksSound ==
    /\ \A i \in 1 .. Len(ready) : ready[i].bytes # <<>> /\ ROfs(ready[i]) <= ready[i].block
    /\ \A i \in 1 .. Len(free) : free[i].bytes = <<>> /\ free[i].l = 0 /\ free[i].block > 0

SumOf(f(_), s) == FoldSeq(LAMBDA c, sum : f(c) + sum, 0, s)

\* The two counters agree with the lists they are kept beside, through copies,
\* partial sends, resets and releases.
CountersExact ==
    /\ freeCap = SumOf(LAMBDA c : c.block, free)
    /\ alloc = SumOf(LAMBDA c : c.block + HEADER, ready \o free)

\* The bytes that can be stored without an allocation.
RoomLeft == freeCap + IF ready = <<>> THEN 0 ELSE Room(Last(ready))

\* A yes of useExistingChunk is never wrong: a frame accepted beyond the limit
\* because it fits needs no allocation.
YesMeansRoom == pc = "idle" => \A n \in BodySizes :
                    UseExistingChunk(FRAME + n) => RoomLeft >= FRAME + n

\* The buffer of a connection passes c_max_size only by the rounding up of the
\* last frame's two allocations, and with nothing to send it keeps at most
\* c_resident_size, after drains and resets alike (checkCapacity, checkWaterLevel).
MemoryBounded ==
    /\ alloc <= MAX + 2 * THRESHOLD + 2 * HEADER + Max(BodySizes)
    /\ pc = "idle" /\ ready = <<>> => alloc <= RESIDENT

\* What checkCapacity decides from is right, and so is what it decides: the
\* counters are exact, a yes means room, and memory stays bounded.
CapacitySound == CountersExact /\ YesMeansRoom /\ MemoryBounded

\* The chunks are a queue of bytes: every frame enters whole and in order,
\* and leaves in order, however the sends are split.
Queue == INSTANCE ByteQueue WITH
            queue <- FlattenSeq([i \in DOMAIN ready |-> ready[i].bytes]),
            todo <- data \o body,
            Sizes <- {FRAME + n : n \in BodySizes},
            Lossy <- MallocFails
IsByteQueue == Queue!Spec
=============================================================================
