---------------------------- MODULE ChunksProofs ----------------------------
(***************************************************************************)
(* Proofs about Chunks for all sizes, limits and spans.  SoundInv says of  *)
(* the lists that they are sequences over the sets of sound chunks, and    *)
(* adds what a copy in progress needs: it has bytes left, and few enough   *)
(* for the rounding of ck_ceil_to_k not to overflow.                       *)
(***************************************************************************)
EXTENDS Chunks, SequenceTheorems, TLAPS

Byte == 0 .. Colours - 1
ReadyCK == {c \in ChunkType : c.bytes # <<>> /\ ROfs(c) <= c.block}
FreeCK == {c \in ChunkType : c.bytes = <<>> /\ c.l = 0 /\ c.block > 0}

\* A piece that is copied.
Small(s) == s \in Seq(Byte) /\ 2 * (HEADER + Len(s)) < WORD

SoundInv ==
    /\ ready \in Seq(ReadyCK)
    /\ free \in Seq(FreeCK)
    /\ Small(data) /\ Small(body)
    /\ pc \in {"ready", "free"} => data # <<>>
    /\ pc \in {"idle", "ready", "free", "drain", "reset", "water"}
    /\ alloc \in Nat /\ freeCap \in Nat
    /\ next \in Byte /\ sent \in Byte

\* The new chunk holds the bytes it is made for.
LEMMA CeilHolds ==
    ASSUME NEW n \in Nat, 2 * (HEADER + n) < WORD
    PROVE  CkCeilToK(HEADER + n) \in Nat /\ CkCeilToK(HEADER + n) > HEADER + n
<1> DEFINE i == HEADER + n
<1>1. /\ HEADER \in Nat /\ HEADER > 0 /\ THRESHOLD \in Nat /\ WORD \in Nat
      /\ i \in Nat /\ i > 0 /\ 2 * i < WORD
  BY SizesAssumption, WordAssumption
<1> HIDE DEF i
<1>2. CASE i < THRESHOLD
  BY <1>1, <1>2 DEF CkCeilToK, i
<1>3. CASE ~(i < THRESHOLD)
  <2> DEFINE P(k) == k <= i /\ i < 2 * k
             c == CHOOSE k \in Powers : P(k)
  <2>1. i \in 1 .. WORD - 1
    BY <1>1
  <2>2. \E k \in Powers : P(k)
    BY <2>1, WordAssumption
  <2>3. c \in Powers /\ P(c)
    BY <2>2
  <2>4. c \in Nat /\ c <= i /\ i < 2 * c
    BY <2>3, WordAssumption
  <2>5. CkCeilToK(i) = Word(2 * c)
    BY <1>3 DEF CkCeilToK
  <2> HIDE DEF c
  <2>6. 2 * c \in Nat /\ 2 * c < WORD
    BY <1>1, <2>4
  <2>7. Word(2 * c) = 2 * c
    BY <1>1, <2>6 DEF Word
  <2> QED
    BY <1>1, <2>4, <2>5, <2>6, <2>7 DEF i
<1> QED
  BY <1>2, <1>3

\* A sequence cut in two.
LEMMA CutSeq ==
    ASSUME NEW S, NEW s \in Seq(S), NEW k \in 0 .. Len(s)
    PROVE  /\ SubSeq(s, 1, k) \in Seq(S) /\ Len(SubSeq(s, 1, k)) = k
           /\ SubSeq(s, k + 1, Len(s)) \in Seq(S)
           /\ Len(SubSeq(s, k + 1, Len(s))) = Len(s) - k
<1>1. Len(s) \in Nat /\ \A i \in 1 .. Len(s) : s[i] \in S
  BY LenProperties, ElementOfSeq
<1> DEFINE n == Len(s)
           m == k + 1
<1>2. n \in Int /\ k \in Int /\ 1 \in Int /\ m \in Int /\ k >= 0 /\ k <= n /\ m >= 1 /\ m = k + 1
  BY <1>1
<1>3. (\A i \in 1 .. k : s[i] \in S) /\ (\A i \in m .. n : s[i] \in S)
  BY <1>1, <1>2
<1> HIDE DEF n, m
<1>4. /\ SubSeq(s, 1, k) \in Seq(S)
      /\ Len(SubSeq(s, 1, k)) = IF 1 <= k THEN k - 1 + 1 ELSE 0
  BY <1>2, <1>3, SubSeqProperties
<1>5. /\ SubSeq(s, m, n) \in Seq(S)
      /\ Len(SubSeq(s, m, n)) = IF m <= n THEN n - m + 1 ELSE 0
  BY <1>2, <1>3, SubSeqProperties
<1> QED
  BY <1>2, <1>4, <1>5 DEF n, m

\* The ends of a non-empty sequence, and sequences put together.
LEMMA EndsOfSeq ==
    ASSUME NEW S, NEW s \in Seq(S), s # <<>>
    PROVE  /\ Front(s) \in Seq(S) /\ Last(s) \in S
           /\ Head(s) \in S /\ Tail(s) \in Seq(S)
<1>1. Len(s) \in Nat /\ Len(s) > 0 /\ s[Len(s)] \in S
  BY EmptySeq, LenProperties, ElementOfSeq
<1>2. Len(s) - 1 \in 0 .. Len(s)
  BY <1>1
<1>3. SubSeq(s, 1, Len(s) - 1) \in Seq(S)
  BY <1>2, CutSeq
<1> QED
  BY <1>1, <1>3, HeadTailProperties DEF Front, Last

\* One more element in front of a sequence, or behind it.
LEMMA ConsSeq ==
    ASSUME NEW S, NEW s \in Seq(S), NEW x \in S
    PROVE  <<x>> \o s \in Seq(S) /\ Append(s, x) \in Seq(S)
<1>1. <<x>> \in Seq(S)
  OBVIOUS
<1> QED
  BY <1>1, ConcatProperties, AppendProperties

\* Filling a chunk.
LEMMA FilledChunk ==
    ASSUME NEW c \in ChunkType, ROfs(c) <= c.block, NEW s, Small(s),
           c.bytes # <<>> \/ (s # <<>> /\ ROfs(c) < c.block)
    PROVE  Filled(c, s) \in ReadyCK /\ Small(Rest(c, s))
<1> DEFINE f == Fits(c, s)
           part == SubSeq(s, 1, f)
           all == c.bytes \o part
<1>1. /\ s \in Seq(Byte) /\ Len(s) \in Nat /\ 2 * (HEADER + Len(s)) < WORD
      /\ c.block \in Nat /\ c.l \in Nat /\ c.bytes \in Seq(Byte) /\ Len(c.bytes) \in Nat
      /\ HEADER \in Nat /\ WORD \in Nat
  BY LenProperties, SizesAssumption, WordAssumption DEF Small, ChunkType, Byte
<1>2. f \in 0 .. Len(s) /\ f <= c.block - ROfs(c)
  BY <1>1 DEF Fits, Room, ROfs
<1>3. /\ part \in Seq(Byte) /\ Len(part) = f
      /\ SubSeq(s, f + 1, Len(s)) \in Seq(Byte)
      /\ Len(SubSeq(s, f + 1, Len(s))) = Len(s) - f
  BY <1>1, <1>2, CutSeq
<1>4. Small(Rest(c, s))
  <2> DEFINE rest == SubSeq(s, f + 1, Len(s))
  <2>1. Rest(c, s) = rest
    BY DEF Rest
  <2>2. rest \in Seq(Byte) /\ Len(rest) = Len(s) - f
    BY <1>3
  <2> HIDE DEF rest, f
  <2>3. 2 * (HEADER + Len(rest)) < WORD
    BY <1>1, <1>2, <2>2
  <2> QED
    BY <2>1, <2>2, <2>3 DEF Small
<1> HIDE DEF part
<1>5. all \in Seq(Byte) /\ Len(all) = Len(c.bytes) + f
  <2>1. all \in Seq(Byte) /\ Len(all) = Len(c.bytes) + Len(part)
    BY <1>1, <1>3, ConcatProperties
  <2> QED
    BY <1>3, <2>1
<1>6. all # <<>>
  <2>1. CASE c.bytes # <<>>
    <3>1. Len(c.bytes) > 0
      BY <1>1, <2>1, EmptySeq
    <3> QED
      BY <1>1, <1>2, <1>5, <3>1, EmptySeq
  <2>2. CASE s # <<>> /\ ROfs(c) < c.block
    <3>1. Len(s) > 0
      BY <1>1, <2>2, EmptySeq
    <3>2. f > 0
      BY <1>1, <2>2, <3>1 DEF Fits, Room, ROfs
    <3> QED
      BY <1>1, <1>2, <1>5, <3>2, EmptySeq
  <2> QED
    BY <2>1, <2>2
<1> HIDE DEF f, all
<1>7. Filled(c, s) = [c EXCEPT !.bytes = all]
  BY DEF Filled, all, part, f
<1>8. [c EXCEPT !.bytes = all] \in ChunkType
  BY <1>5 DEF ChunkType, Byte
<1>9. ROfs([c EXCEPT !.bytes = all]) <= c.block
  <2>1. c.l + (Len(c.bytes) + f) <= c.block
    BY <1>1, <1>2 DEF ROfs
  <2>2. [c EXCEPT !.bytes = all].l = c.l /\ [c EXCEPT !.bytes = all].bytes = all
    BY DEF ChunkType
  <2> QED
    BY <1>5, <2>1, <2>2 DEF ROfs
<1> QED
  BY <1>4, <1>6, <1>7, <1>8, <1>9 DEF ReadyCK, ChunkType

\* A chunk whose bytes are all gone, and one that keeps some.
LEMMA EmptiedChunk ==
    ASSUME NEW c \in ReadyCK
    PROVE  Emptied(c) \in FreeCK
<1>1. /\ c.block \in Nat /\ c.l \in Nat /\ c.bytes \in Seq(Byte)
      /\ c.bytes # <<>> /\ c.l + Len(c.bytes) <= c.block
  BY DEF ReadyCK, ChunkType, ROfs, Byte
<1>2. Len(c.bytes) \in Nat /\ Len(c.bytes) > 0 /\ c.block > 0
  BY <1>1, LenProperties, EmptySeq
<1>3. <<>> \in Seq(0 .. Colours - 1)
  OBVIOUS
<1> QED
  BY <1>1, <1>2, <1>3 DEF Emptied, FreeCK, ReadyCK, ChunkType

\* A chunk of which a part was sent still waits with the rest (drainOutWithPipe).
LEMMA PartlySent ==
    ASSUME NEW c \in ReadyCK, NEW ret \in Nat, ret > 0, ret < Len(c.bytes)
    PROVE  [c EXCEPT !.l = @ + ret, !.bytes = SubSeq(@, ret + 1, Len(c.bytes))] \in ReadyCK
<1> DEFINE left == SubSeq(c.bytes, ret + 1, Len(c.bytes))
<1>1. /\ c.block \in Nat /\ c.l \in Nat /\ c.bytes \in Seq(Byte)
      /\ c.l + Len(c.bytes) <= c.block /\ Len(c.bytes) \in Nat
  BY LenProperties DEF ReadyCK, ChunkType, ROfs, Byte
<1>2. left \in Seq(Byte) /\ Len(left) = Len(c.bytes) - ret
  <2>1. ret \in 0 .. Len(c.bytes)
    BY <1>1
  <2> QED
    BY <1>1, <2>1, CutSeq
<1> HIDE DEF left
<1>3. left # <<>>
  BY <1>1, <1>2, EmptySeq
<1>4. c.l + ret \in Nat /\ c.l + ret + Len(left) <= c.block
  BY <1>1, <1>2
<1> QED
  BY <1>1, <1>2, <1>3, <1>4 DEF ReadyCK, ChunkType, ROfs, Byte, left
-----------------------------------------------------------------------------
\* Continue keeps the pieces small, and the copy that goes on has bytes.
LEMMA ContinueSound ==
    ASSUME Small(body), NEW rest, Small(rest), Continue(rest, "free")
    PROVE  /\ Small(data') /\ Small(body')
           /\ pc' \in {"idle", "ready", "free"}
           /\ pc' \in {"ready", "free"} => data' # <<>>
<1>1. Small(<<>>)
  BY SizesAssumption, WordAssumption, SpansAssumption DEF Small
<1> QED
  BY <1>1 DEF Continue

\* What a caller copies is short of a word, and empty only if its size is 0.
LEMMA BytesSmall ==
    ASSUME NEW b \in Nat, NEW n \in BodySizes \cup {FRAME}
    PROVE  Small(Bytes(b, n)) /\ (n > 0 => Bytes(b, n) # <<>>)
<1>1. n \in Nat /\ 2 * (HEADER + n) < WORD /\ Colours \in Nat \ {0}
  BY SizesAssumption, SpansAssumption
<1>2. \A i \in 1 .. n : (b + i - 1) % Colours \in Byte
  BY <1>1 DEF Byte
<1>3. Bytes(b, n) \in Seq(Byte) /\ Len(Bytes(b, n)) = n
  BY <1>1, <1>2 DEF Bytes
<1> QED
  BY <1>1, <1>3, EmptySeq DEF Small

\* Every turn of copying, draining and resetting keeps the lists sound.
LEMMA SoundStep ==
    ASSUME SoundInv, [Next]_vars
    PROVE  SoundInv'
<1> USE DEF lists, copying
<1>a. /\ ready \in Seq(ReadyCK) /\ free \in Seq(FreeCK) /\ Small(data) /\ Small(body)
      /\ alloc \in Nat /\ freeCap \in Nat /\ next \in Byte /\ sent \in Byte
  BY DEF SoundInv
<1>b. /\ \A i \in Int : Word(i) \in Nat
      /\ \A i \in Int : i % Colours \in Byte
      /\ HEADER \in Nat \ {0} /\ FRAME \in Nat \ {0}
  BY SizesAssumption, WordAssumption DEF Word, Byte
<1>c. /\ \A c \in ReadyCK : c.block \in Nat /\ c \in ChunkType /\ ROfs(c) <= c.block
                             /\ c.bytes # <<>> /\ Len(c.bytes) \in Nat
      /\ \A c \in FreeCK : c.block \in Nat /\ c \in ChunkType /\ ROfs(c) < c.block
                            /\ ROfs(c) <= c.block
  BY LenProperties, EmptySeq DEF ReadyCK, FreeCK, ChunkType, ROfs
<1>1. CASE UNCHANGED vars
  BY <1>1 DEF vars, SoundInv, Small
<1>2. ASSUME NEW n \in BodySizes, Offer(n)
      PROVE  SoundInv'
  <2>1. next \in Nat /\ next + FRAME \in Nat /\ n \in Nat
    BY <1>a, <1>b, SpansAssumption DEF Byte
  <2>2. Small(data') /\ Small(body') /\ data' # <<>>
    BY <1>2, <1>b, <2>1, BytesSmall DEF Offer
  <2>3. next' \in Byte
    BY <1>2, <1>b, <2>1 DEF Offer
  <2> QED
    BY <1>2, <1>a, <2>2, <2>3 DEF Offer, SoundInv
<1>3. CASE CopyDataIntoReadyCK
  <2>1. CASE ready = <<>> /\ pc' = "free" /\ UNCHANGED <<ready, data, body>>
    BY <1>3, <2>1, <1>a DEF CopyDataIntoReadyCK, SoundInv, Small
  <2>2. CASE /\ ready # <<>>
             /\ ready' = Append(Front(ready), Filled(Last(ready), data))
             /\ Continue(Rest(Last(ready), data), "free")
    <3>1. Front(ready) \in Seq(ReadyCK) /\ Last(ready) \in ReadyCK
      BY <1>a, <2>2, EndsOfSeq
    <3>2. Filled(Last(ready), data) \in ReadyCK /\ Small(Rest(Last(ready), data))
      BY <1>a, <1>c, <3>1, FilledChunk
    <3>3. ready' \in Seq(ReadyCK)
      BY <2>2, <3>1, <3>2, ConsSeq
    <3> QED
      BY <1>3, <2>2, <1>a, <3>2, <3>3, ContinueSound DEF CopyDataIntoReadyCK, SoundInv
  <2> QED
    BY <1>3, <2>1, <2>2 DEF CopyDataIntoReadyCK
<1>4. CASE CopyDataIntoFreeCK
  <2>1. /\ pc = "free" /\ free # <<>> /\ free' = Tail(free)
        /\ ready' = Append(ready, Filled(Head(free), data))
        /\ freeCap' = Word(freeCap - Head(free).block)
        /\ Continue(Rest(Head(free), data), "free")
        /\ UNCHANGED <<alloc, next, sent>>
    BY <1>4 DEF CopyDataIntoFreeCK
  <2>2. Head(free) \in FreeCK /\ Tail(free) \in Seq(FreeCK) /\ data # <<>>
    BY <1>a, <2>1, EndsOfSeq DEF SoundInv
  <2>3. Filled(Head(free), data) \in ReadyCK /\ Small(Rest(Head(free), data))
    BY <1>a, <1>c, <2>2, FilledChunk
  <2>4. ready' \in Seq(ReadyCK)
    BY <1>a, <2>1, <2>3, ConsSeq
  <2>5. freeCap' \in Nat
    <3>1. freeCap - Head(free).block \in Int
      BY <1>a, <1>c, <2>2
    <3> QED
      BY <1>b, <2>1, <3>1
  <2>6. /\ Small(data') /\ Small(body') /\ pc' \in {"idle", "ready", "free"}
        /\ pc' \in {"ready", "free"} => data' # <<>>
    BY <1>a, <2>1, <2>3, ContinueSound
  <2> QED
    BY <1>a, <2>1, <2>2, <2>4, <2>5, <2>6 DEF SoundInv
<1>5. CASE CopyDataIntoNewChunk
  <2> DEFINE mem == CkCeilToK(HEADER + Len(data))
             c == [block |-> mem - HEADER, l |-> 0, bytes |-> data]
  <2>1. /\ pc = "free" /\ free = <<>> /\ Continue(<<>>, "free")
        /\ UNCHANGED <<free, freeCap, next, sent>>
    BY <1>5 DEF CopyDataIntoNewChunk
  <2>2. data \in Seq(Byte) /\ Len(data) \in Nat /\ data # <<>> /\ 2 * (HEADER + Len(data)) < WORD
    BY <1>a, <2>1, LenProperties DEF SoundInv, Small
  <2>3. mem \in Nat /\ mem > HEADER + Len(data)
    BY <2>2, CeilHolds
  <2> HIDE DEF mem
  <2>4. c \in ReadyCK
    <3>1. mem - HEADER \in Nat /\ Len(data) <= mem - HEADER /\ 0 + Len(data) = Len(data)
      BY <2>2, <2>3, SizesAssumption
    <3>2. c \in ChunkType
      BY <2>2, <3>1 DEF ChunkType, Byte
    <3>3. c.bytes # <<>> /\ c.l + Len(c.bytes) <= c.block
      BY <2>2, <3>1
    <3> QED
      BY <3>2, <3>3 DEF ReadyCK, ROfs
  <2>5. /\ Small(data') /\ Small(body') /\ pc' \in {"idle", "ready", "free"}
        /\ pc' \in {"ready", "free"} => data' # <<>>
    <3>1. Small(<<>>)
      BY SizesAssumption, WordAssumption, SpansAssumption DEF Small
    <3> QED
      BY <1>a, <2>1, <3>1, ContinueSound
  <2>6. ready' \in Seq(ReadyCK) /\ alloc' \in Nat
    <3>1. CASE ready' = Append(ready, c) /\ alloc' = Word(alloc + mem)
      <4>1. alloc + mem \in Int
        BY <1>a, <2>3
      <4> QED
        BY <1>a, <1>b, <2>4, <3>1, <4>1, ConsSeq
    <3>2. CASE UNCHANGED <<ready, alloc>>
      BY <1>a, <3>2
    <3> QED
      BY <1>5, <3>1, <3>2 DEF CopyDataIntoNewChunk, mem
  <2> QED
    BY <1>a, <2>1, <2>5, <2>6 DEF SoundInv
<1>6. CASE DrainOutWithPipe \/ ResetChunks \/ LastTurn
  BY <1>6, <1>a DEF DrainOutWithPipe, ResetChunks, LastTurn, SoundInv, Small
<1>7. CASE DrainTurn
  <2> DEFINE cur == Head(ready)
             size == Len(cur.bytes)
  <2>1. pc = "drain" /\ ready # <<>> /\ UNCHANGED <<alloc, data, body, next>>
    BY <1>7 DEF DrainTurn
  <2>2. cur \in ReadyCK /\ Tail(ready) \in Seq(ReadyCK) /\ size \in Nat /\ cur.block \in Nat
    BY <1>a, <1>c, <2>1, EndsOfSeq
  <2>3. PICK ret \in -1 .. size :
          \/ ret <= 0 /\ pc' = "idle" /\ UNCHANGED <<ready, free, freeCap, sent>>
          \/ /\ ret > 0 /\ ret = size
             /\ ready' = Tail(ready)
             /\ free' = <<Emptied(cur)>> \o free
             /\ freeCap' = Word(freeCap + cur.block)
             /\ sent' = (sent + ret) % Colours
             /\ UNCHANGED pc
          \/ /\ ret > 0 /\ ret < size
             /\ ready' = <<[cur EXCEPT !.l = @ + ret,
                                       !.bytes = SubSeq(@, ret + 1, size)]>> \o Tail(ready)
             /\ sent' = (sent + ret) % Colours
             /\ UNCHANGED <<free, freeCap, pc>>
    BY <1>7 DEF DrainTurn
  <2>4. ret \in Int /\ sent + ret \in Int /\ freeCap + cur.block \in Int
    BY <1>a, <2>2, <2>3 DEF Byte
  <2>5. CASE ret <= 0
    BY <1>a, <2>1, <2>3, <2>4, <2>5 DEF SoundInv, Small
  <2>6. CASE ret > 0 /\ ret = size
    <3>1. free' \in Seq(FreeCK)
      BY <1>a, <2>2, <2>3, <2>6, EmptiedChunk, ConsSeq
    <3>a. /\ freeCap' = Word(freeCap + cur.block) /\ sent' = (sent + ret) % Colours
          /\ ready' = Tail(ready) /\ pc' = pc
      BY <2>2, <2>3, <2>4, <2>6
    <3> HIDE DEF cur
    <3>2. freeCap' \in Nat /\ sent' \in Byte /\ ready' \in Seq(ReadyCK) /\ pc' = pc
      BY <1>b, <2>2, <2>4, <3>a
    <3> QED
      BY <1>a, <2>1, <3>1, <3>2 DEF SoundInv, Small
  <2>7. CASE ret > 0 /\ ret < size
    <3> DEFINE d == [cur EXCEPT !.l = @ + ret, !.bytes = SubSeq(@, ret + 1, size)]
    <3>1. d \in ReadyCK
      <4>1. ret \in Nat /\ ret > 0 /\ ret < Len(cur.bytes) /\ cur \in ReadyCK
        BY <2>2, <2>4, <2>7
      <4> HIDE DEF cur
      <4> QED
        BY <4>1, PartlySent
    <3>2. /\ ready' = <<d>> \o Tail(ready) /\ sent' = (sent + ret) % Colours
          /\ UNCHANGED <<free, freeCap, pc>>
      BY <2>2, <2>3, <2>4, <2>7
    <3> HIDE DEF d
    <3>3. ready' \in Seq(ReadyCK) /\ sent' \in Byte
      BY <1>b, <2>2, <2>4, <3>1, <3>2, ConsSeq
    <3> QED
      BY <1>a, <2>1, <3>2, <3>3 DEF SoundInv, Small
  <2> QED
    BY <2>2, <2>4, <2>5, <2>6, <2>7, <2>3
<1>8. CASE ResetTurn
  <2>1. Head(ready) \in ReadyCK /\ Tail(ready) \in Seq(ReadyCK) /\ Head(ready).block \in Nat
    BY <1>8, <1>a, <1>c, EndsOfSeq DEF ResetTurn
  <2>2. free' \in Seq(FreeCK)
    BY <1>8, <1>a, <2>1, EmptiedChunk, ConsSeq DEF ResetTurn
  <2>3. freeCap' \in Nat
    <3>1. freeCap + Head(ready).block \in Int
      BY <1>a, <2>1
    <3> QED
      BY <1>8, <1>b, <3>1 DEF ResetTurn
  <2> QED
    BY <1>8, <1>a, <2>1, <2>2, <2>3 DEF ResetTurn, SoundInv, Small
<1>9. CASE CheckWaterLevel
  <2>1. CASE RESIDENT < alloc /\ free # <<>> /\ free' = Tail(free)
             /\ alloc' = Word(alloc - (Head(free).block + HEADER))
             /\ freeCap' = Word(freeCap - Head(free).block) /\ UNCHANGED pc
    <3>1. Head(free) \in FreeCK /\ Tail(free) \in Seq(FreeCK) /\ Head(free).block \in Nat
      BY <1>a, <1>c, <2>1, EndsOfSeq
    <3>2. alloc - (Head(free).block + HEADER) \in Int /\ freeCap - Head(free).block \in Int
      <4>1. alloc \in Int /\ freeCap \in Int /\ HEADER \in Int
        BY <1>a, <1>b
      <4> QED
        BY <3>1, <4>1
    <3>3. alloc' \in Nat /\ freeCap' \in Nat
      BY <1>b, <2>1, <3>2
    <3> QED
      BY <1>9, <1>a, <2>1, <3>1, <3>3 DEF CheckWaterLevel, SoundInv, Small
  <2>2. CASE pc' = "idle" /\ UNCHANGED <<free, alloc, freeCap>>
    BY <1>9, <1>a, <2>2 DEF CheckWaterLevel, SoundInv, Small
  <2> QED
    BY <1>9, <2>1, <2>2 DEF CheckWaterLevel
<1> QED
  BY <1>1, <1>2, <1>3, <1>4, <1>5, <1>6, <1>7, <1>8, <1>9 DEF Next, Turn

\* A new Chunks has empty lists.
LEMMA SoundInit ==
    ASSUME Init
    PROVE  SoundInv
<1>1. Small(<<>>) /\ 0 \in Byte
  BY SizesAssumption, WordAssumption, SpansAssumption DEF Small, Byte
<1> QED
  BY <1>1 DEF Init, SoundInv

\* The strengthening says what ChunksSound and the types say.
LEMMA SoundImplies ==
    ASSUME SoundInv
    PROVE  TypeOK /\ ChunksSound
<1>1. \A i \in 1 .. Len(ready) : ready[i] \in ReadyCK
  BY ElementOfSeq DEF SoundInv
<1>2. \A i \in 1 .. Len(free) : free[i] \in FreeCK
  BY ElementOfSeq DEF SoundInv
<1>3. ChunksSound
  BY <1>1, <1>2 DEF ChunksSound, ReadyCK, FreeCK
<1>4. ready \in Seq(ChunkType) /\ free \in Seq(ChunkType)
  BY DEF SoundInv, ReadyCK, FreeCK
<1> QED
  BY <1>3, <1>4 DEF SoundInv, TypeOK, Small, Byte

\* Whatever is written, however the pipe takes it and whether or not memory runs
\* out: no chunk that waits is empty or over-full, so that the pipe always has
\* bytes to take, and every free chunk is empty.
THEOREM ChunksSoundAlways == Spec => []ChunksSound
<1>1. Init => SoundInv
  BY SoundInit
<1>2. SoundInv /\ [Next]_vars => SoundInv'
  BY SoundStep
<1>3. SoundInv => ChunksSound
  BY SoundImplies
<1> QED
  BY <1>1, <1>2, <1>3, PTL DEF Spec

\* The types: in particular block_size never wraps below zero.
THEOREM ChunksTypeOK == Spec => []TypeOK
<1>1. Init => SoundInv
  BY SoundInit
<1>2. SoundInv /\ [Next]_vars => SoundInv'
  BY SoundStep
<1>3. SoundInv => TypeOK
  BY SoundImplies
<1> QED
  BY <1>1, <1>2, <1>3, PTL DEF Spec
=============================================================================
