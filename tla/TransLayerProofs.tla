-------------------------- MODULE TransLayerProofs --------------------------
(***************************************************************************)
(* The flags of a connection follow its buffer, and its peer reads whole   *)
(* frames in order: for frames, buffers and networks of any size.          *)
(***************************************************************************)
EXTENDS TransLayer, TLAPS

(* The units that are not read yet: those under way, then those in the     *)
(* send buffer.                                                            *)
Unread(w, b) == Len(w) + Len(b)
UnitAt(w, b, i) == IF i <= Len(w) THEN w[i] ELSE b[i - Len(w)]

(* They follow one another, up to the last frame that was accepted, from   *)
(* the unit on that the peer expects.                                      *)
InStep(w, b, d, g, f) ==
    /\ \A i \in 1 .. Unread(w, b) :
          /\ UnitAt(w, b, i)[1] <= f
          /\ i < Unread(w, b) => UnitAt(w, b, i + 1) = Following(UnitAt(w, b, i))
    /\ Unread(w, b) > 0 => UnitAt(w, b, Unread(w, b)) = <<f, PARTS>>
    /\ d # Boundary => d = IF Unread(w, b) > 0 THEN UnitAt(w, b, 1) ELSE <<f + 1, 1>>
    /\ d = Boundary /\ Unread(w, b) > 0 => UnitAt(w, b, 1)[2] = 1
    /\ \A h \in g : /\ h <= f
                    /\ d # Boundary => h < d[1]
                    /\ Unread(w, b) > 0 => h < UnitAt(w, b, 1)[1]

StreamInv == FlagsFollow /\ InStep(wire, buf, due, got, spans) /\ ~garbled

-----------------------------------------------------------------------------
\* Moving the first n elements of b to the end of w.
LEMMA MoveElements ==
    ASSUME NEW S, NEW w \in Seq(S), NEW b \in Seq(S), NEW n \in 0 .. Len(b)
    PROVE  LET w2 == w \o SubSeq(b, 1, n)
               b2 == SubSeq(b, n + 1, Len(b))
           IN /\ w2 \in Seq(S) /\ Len(w2) = Len(w) + n
              /\ b2 \in Seq(S) /\ Len(b2) = Len(b) - n
              /\ \A i \in 1 .. Len(w) : w2[i] = w[i]
              /\ \A i \in 1 .. n : w2[Len(w) + i] = b[i]
              /\ \A i \in 1 .. Len(b) - n : b2[i] = b[n + i]
<1> DEFINE x == SubSeq(b, 1, n)
           b2 == SubSeq(b, n + 1, Len(b))
<1>1. x \in Seq(S) /\ Len(x) = n /\ \A i \in 1 .. n : x[i] = b[i]
  OBVIOUS
<1>2. b2 \in Seq(S) /\ Len(b2) = Len(b) - n /\ \A i \in 1 .. Len(b) - n : b2[i] = b[n + i]
  OBVIOUS
<1> HIDE DEF x, b2
<1>3. /\ w \o x \in Seq(S) /\ Len(w \o x) = Len(w) + n
      /\ \A i \in 1 .. Len(w) : (w \o x)[i] = w[i]
      /\ \A i \in 1 .. n : (w \o x)[Len(w) + i] = b[i]
  BY <1>1
<1> QED BY <1>2, <1>3 DEF x, b2

\* A new frame behind the sequence b.
LEMMA AppendFrame ==
    ASSUME NEW b \in Seq(Units), NEW f \in 1 .. MaxSpans
    PROVE  /\ b \o Frame(f) \in Seq(Units) /\ Len(b \o Frame(f)) = Len(b) + PARTS
           /\ \A i \in 1 .. Len(b) : (b \o Frame(f))[i] = b[i]
           /\ \A p \in 1 .. PARTS : (b \o Frame(f))[Len(b) + p] = <<f, p>>
<1> DEFINE x == Frame(f)
<1>1. PARTS \in Nat
  BY SizesAssumption
<1>2. x \in [1 .. PARTS -> Units] /\ \A p \in 1 .. PARTS : x[p] = <<f, p>>
  BY <1>1 DEF Frame, Units
<1>3. x \in Seq(Units) /\ Len(x) = PARTS
  BY <1>1, <1>2
<1> HIDE DEF x
<1>4. /\ b \o x \in Seq(Units) /\ Len(b \o x) = Len(b) + PARTS
      /\ \A i \in 1 .. Len(b) : (b \o x)[i] = b[i]
      /\ \A p \in 1 .. PARTS : (b \o x)[Len(b) + p] = x[p]
  BY <1>1, <1>3
<1> QED BY <1>2, <1>4 DEF x

\* The empty sequence, and what is left behind the first element.
LEMMA Remaining ==
    ASSUME NEW S
    PROVE  /\ <<>> \in Seq(S) /\ Len(<<>>) = 0
           /\ \A s \in Seq(S) : s # <<>> =>
                 /\ Head(s) = s[1] /\ s[1] \in S /\ Len(s) \in Nat \ {0}
                 /\ Tail(s) \in Seq(S) /\ Len(Tail(s)) = Len(s) - 1
                 /\ \A i \in 1 .. Len(s) - 1 : Tail(s)[i] = s[i + 1]
OBVIOUS

-----------------------------------------------------------------------------
\* Sending moves units from the buffer to the network, and changes nothing else.
LEMMA SentInStep ==
    ASSUME NEW w \in Seq(Units), NEW b \in Seq(Units), NEW n \in 0 .. Len(b),
           NEW d, NEW g, NEW f, InStep(w, b, d, g, f)
    PROVE  InStep(w \o SubSeq(b, 1, n), SubSeq(b, n + 1, Len(b)), d, g, f)
<1> DEFINE w2 == w \o SubSeq(b, 1, n)
           b2 == SubSeq(b, n + 1, Len(b))
<1>1. /\ Len(w) \in Nat /\ Len(b) \in Nat /\ n \in Nat /\ n <= Len(b)
      /\ Len(w2) = Len(w) + n /\ Len(b2) = Len(b) - n
      /\ \A i \in 1 .. Len(w) : w2[i] = w[i]
      /\ \A i \in 1 .. n : w2[Len(w) + i] = b[i]
      /\ \A i \in 1 .. Len(b) - n : b2[i] = b[n + i]
  BY MoveElements
<1> HIDE DEF w2, b2
<1>2. Unread(w2, b2) = Unread(w, b) /\ Unread(w, b) \in Nat
  BY <1>1 DEF Unread
<1>3. ASSUME NEW i \in 1 .. Unread(w, b)
      PROVE  UnitAt(w2, b2, i) = UnitAt(w, b, i)
  <2>1. CASE i <= Len(w)
    BY <1>1, <2>1 DEF UnitAt
  <2>2. CASE Len(w) < i /\ i <= Len(w) + n
    <3>1. i - Len(w) \in 1 .. n /\ i = Len(w) + (i - Len(w)) /\ i <= Len(w2) /\ ~(i <= Len(w))
      BY <1>1, <2>2
    <3> QED BY <1>1, <3>1 DEF UnitAt
  <2>3. CASE Len(w) + n < i
    <3>1. /\ i - Len(w2) \in 1 .. Len(b) - n /\ n + (i - Len(w2)) = i - Len(w)
          /\ ~(i <= Len(w2)) /\ ~(i <= Len(w))
      BY <1>1, <1>2, <2>3 DEF Unread
    <3> QED BY <1>1, <3>1 DEF UnitAt
  <2> QED BY <1>1, <2>1, <2>2, <2>3
<1>4. \A i \in 1 .. Unread(w, b) : i < Unread(w, b) => i + 1 \in 1 .. Unread(w, b)
  BY <1>2
<1>5. Unread(w, b) > 0 => 1 \in 1 .. Unread(w, b) /\ Unread(w, b) \in 1 .. Unread(w, b)
  BY <1>2
<1>6. InStep(w2, b2, d, g, f)
  BY <1>2, <1>3, <1>4, <1>5 DEF InStep
<1> QED BY <1>6 DEF w2, b2

\* A frame that is accepted follows the last one.
LEMMA AcceptInStep ==
    ASSUME NEW w \in Seq(Units), NEW b \in Seq(Units), NEW d, NEW g,
           NEW f \in Nat, f + 1 \in 1 .. MaxSpans, \A h \in g : h \in Nat, InStep(w, b, d, g, f)
    PROVE  InStep(w, b \o Frame(f + 1), d, g, f + 1)
<1> DEFINE b2 == b \o Frame(f + 1)
           m == Unread(w, b)
           m2 == Unread(w, b2)
<1>1. /\ Len(b2) = Len(b) + PARTS /\ Len(w) \in Nat /\ Len(b) \in Nat /\ PARTS \in Nat \ {0}
      /\ \A i \in 1 .. Len(b) : b2[i] = b[i]
      /\ \A p \in 1 .. PARTS : b2[Len(b) + p] = <<f + 1, p>>
  BY AppendFrame, SizesAssumption
<1> HIDE DEF b2
<1>2. m \in Nat /\ m2 = m + PARTS /\ m2 \in Nat /\ m = Len(w) + Len(b)
  BY <1>1 DEF Unread
<1>3. ASSUME NEW i \in 1 .. m
      PROVE  UnitAt(w, b2, i) = UnitAt(w, b, i)
  BY <1>1, <1>2 DEF UnitAt
<1>4. ASSUME NEW p \in 1 .. PARTS
      PROVE  UnitAt(w, b2, m + p) = <<f + 1, p>>
  <2>1. ~(m + p <= Len(w)) /\ (m + p) - Len(w) = Len(b) + p
    BY <1>1, <1>2
  <2> QED BY <1>1, <2>1 DEF UnitAt
<1> HIDE DEF m, m2
<1>5. \A i \in 1 .. m2 : i \in 1 .. m \/ \E p \in 1 .. PARTS : i = m + p
  <2> SUFFICES ASSUME NEW i \in 1 .. m2, ~(i \in 1 .. m)
               PROVE  \E p \in 1 .. PARTS : i = m + p
    OBVIOUS
  <2>1. i - m \in 1 .. PARTS /\ i = m + (i - m)
    BY <1>1, <1>2
  <2> QED BY <2>1
<1>6. ASSUME NEW i \in 1 .. m2
      PROVE  UnitAt(w, b2, i)[1] <= f + 1
  <2>1. CASE i \in 1 .. m
    <3>1. UnitAt(w, b, i)[1] <= f /\ UnitAt(w, b, i) \in Units
      <4>1. UnitAt(w, b, i)[1] <= f
        BY <2>1 DEF InStep, m
      <4>2. i <= Len(w) => i \in 1 .. Len(w)
        BY <2>1, <1>1
      <4>3. ~(i <= Len(w)) => i - Len(w) \in 1 .. Len(b)
        BY <2>1, <1>1, <1>2
      <4>4. UnitAt(w, b, i) \in Units
        BY <4>2, <4>3 DEF UnitAt
      <4> QED BY <4>1, <4>4
    <3>2. UnitAt(w, b, i)[1] \in Nat
      BY <3>1, SizesAssumption DEF Units
    <3> QED BY <1>3, <2>1, <3>1, <3>2
  <2>2. ASSUME NEW p \in 1 .. PARTS, i = m + p
        PROVE  UnitAt(w, b2, i)[1] <= f + 1
    BY <1>4, <2>2
  <2> QED BY <1>5, <2>1, <2>2
<1>7. ASSUME NEW i \in 1 .. m2, i < m2
      PROVE  UnitAt(w, b2, i + 1) = Following(UnitAt(w, b2, i))
  <2>1. CASE i \in 1 .. m /\ i < m
    <3>1. i + 1 \in 1 .. m
      BY <1>2, <2>1
    <3> QED BY <1>3, <2>1, <3>1 DEF InStep, m
  <2>2. CASE i = m
    <3>1. m > 0 /\ m \in 1 .. m /\ 1 \in 1 .. PARTS
      BY <1>1, <1>2, <2>2
    <3>2. UnitAt(w, b2, i) = <<f, PARTS>>
      BY <1>3, <2>2, <3>1 DEF InStep, m
    <3>3. UnitAt(w, b2, i + 1) = <<f + 1, 1>>
      BY <1>4, <2>2, <3>1
    <3> QED BY <3>2, <3>3 DEF Following
  <2>3. ASSUME NEW p \in 1 .. PARTS, i = m + p
        PROVE  UnitAt(w, b2, i + 1) = Following(UnitAt(w, b2, i))
    <3>1. p < PARTS /\ p + 1 \in 1 .. PARTS /\ i + 1 = m + (p + 1) /\ p # PARTS
      BY <1>1, <1>2, <1>7, <2>3
    <3>2. UnitAt(w, b2, i + 1) = <<f + 1, p + 1>>
      BY <1>4, <3>1
    <3>3. UnitAt(w, b2, i) = <<f + 1, p>>
      BY <1>4, <2>3
    <3> QED BY <3>1, <3>2, <3>3 DEF Following
  <2>4. i \in 1 .. m => i < m \/ i = m
    BY <1>2
  <2> QED BY <1>5, <2>1, <2>2, <2>3, <2>4
<1>8. UnitAt(w, b2, m2) = <<f + 1, PARTS>>
  <2>1. PARTS \in 1 .. PARTS /\ m2 = m + PARTS
    BY <1>1, <1>2
  <2> QED BY <1>4, <2>1
<1>9. m2 > 0 /\ IF m > 0 THEN UnitAt(w, b2, 1) = UnitAt(w, b, 1)
                         ELSE UnitAt(w, b2, 1) = <<f + 1, 1>>
  <2>1. m2 > 0 /\ 1 \in 1 .. PARTS /\ (m > 0 => 1 \in 1 .. m) /\ (~(m > 0) => m + 1 = 1)
    BY <1>1, <1>2
  <2>2. m > 0 => UnitAt(w, b2, 1) = UnitAt(w, b, 1)
    BY <1>3, <2>1
  <2>3. ~(m > 0) => UnitAt(w, b2, 1) = <<f + 1, 1>>
    BY <1>4, <2>1
  <2> QED BY <2>1, <2>2, <2>3
<1>10. /\ d # Boundary => d = UnitAt(w, b2, 1)
       /\ d = Boundary => UnitAt(w, b2, 1)[2] = 1
  BY <1>9 DEF InStep, m
<1>11. ASSUME NEW h \in g
       PROVE  h <= f + 1 /\ (d # Boundary => h < d[1]) /\ h < UnitAt(w, b2, 1)[1]
  <2>1. h <= f /\ h \in Nat /\ h < f + 1 /\ h <= f + 1
    BY DEF InStep
  <2> QED BY <1>9, <2>1 DEF InStep, m
<1>12. InStep(w, b2, d, g, f + 1)
  BY <1>6, <1>7, <1>8, <1>9, <1>10, <1>11 DEF InStep, m2
<1> QED BY <1>12 DEF b2

\* The unit that the peer reads is the one it expects, and so is the next one.
LEMMA ReadInStep ==
    ASSUME NEW w \in Seq(Units), w # <<>>, NEW b \in Seq(Units), NEW d, NEW g,
           NEW f \in Nat, \A h \in g : h \in Nat, InStep(w, b, d, g, f),
           d # Boundary => d[1] \in Nat
    PROVE  LET u == Head(w)
               g2 == IF u[2] = PARTS THEN g \cup {u[1]} ELSE g
           IN /\ u[2] = d[2] /\ (d # Boundary => u = d) /\ u[1] \notin g
              /\ InStep(Tail(w), b, Following(u), g2, f)
<1> DEFINE u == Head(w)
           g2 == IF u[2] = PARTS THEN g \cup {u[1]} ELSE g
           w2 == Tail(w)
           m == Unread(w, b)
           m2 == Unread(w2, b)
<1>1. /\ u = w[1] /\ u \in Units /\ Len(w) \in Nat \ {0} /\ Len(b) \in Nat
      /\ Len(w2) = Len(w) - 1 /\ \A i \in 1 .. Len(w) - 1 : w2[i] = w[i + 1]
  BY Remaining
<1>2. u[1] \in Nat \ {0} /\ u[2] \in Nat /\ u = <<u[1], u[2]>>
  BY <1>1, SizesAssumption DEF Units
<1> HIDE DEF u, w2
<1>3. m \in Nat \ {0} /\ m2 = m - 1 /\ m2 \in Nat /\ m = Len(w) + Len(b)
  BY <1>1 DEF Unread
<1>4. UnitAt(w, b, 1) = u
  BY <1>1 DEF UnitAt
<1>5. ASSUME NEW i \in 1 .. m2
      PROVE  UnitAt(w2, b, i) = UnitAt(w, b, i + 1) /\ i + 1 \in 1 .. m /\ i \in 1 .. m
  <2>1. i + 1 \in 1 .. m /\ i \in 1 .. m
    BY <1>3
  <2>2. CASE i <= Len(w2)
    <3>1. i \in 1 .. Len(w) - 1 /\ i + 1 <= Len(w)
      BY <1>1, <2>2
    <3> QED BY <1>1, <2>1, <2>2, <3>1 DEF UnitAt
  <2>3. CASE ~(i <= Len(w2))
    <3>1. ~(i + 1 <= Len(w)) /\ i - Len(w2) = (i + 1) - Len(w)
      BY <1>1, <2>3
    <3> QED BY <2>1, <2>3, <3>1 DEF UnitAt
  <2> QED BY <2>2, <2>3
<1> HIDE DEF m, m2
<1>6. u[2] = d[2] /\ (d # Boundary => u = d)
  <2>1. m > 0
    BY <1>3
  <2> QED BY <1>4, <2>1 DEF InStep, m, Boundary
<1>7. \A h \in g : h < u[1] /\ h <= f /\ h \in Nat
  <2>1. m > 0
    BY <1>3
  <2> QED BY <1>4, <2>1 DEF InStep, m
<1>8. u[1] \notin g
  BY <1>2, <1>7
<1>9. Following(u) # Boundary /\ Following(u)[1] = IF u[2] = PARTS THEN u[1] + 1 ELSE u[1]
  BY <1>2 DEF Following, Boundary
<1>10. u[1] <= f
  <2>1. 1 \in 1 .. m
    BY <1>3
  <2> QED BY <1>4, <2>1 DEF InStep, m
<1>11. ASSUME NEW h \in g2
       PROVE  h <= f /\ h < Following(u)[1]
  <2>1. CASE h \in g
    BY <1>2, <1>7, <1>9, <2>1
  <2>2. CASE u[2] = PARTS /\ h = u[1]
    BY <1>2, <1>9, <1>10, <2>2
  <2> QED BY <2>1, <2>2
<1>12. Following(u) = IF m2 > 0 THEN UnitAt(w2, b, 1) ELSE <<f + 1, 1>>
  <2>1. CASE m2 > 0
    <3>1. 1 \in 1 .. m2 /\ 1 \in 1 .. m /\ 1 < m
      BY <1>3, <2>1
    <3> QED BY <1>4, <1>5, <2>1, <3>1 DEF InStep, m
  <2>2. CASE ~(m2 > 0)
    <3>1. m = 1 /\ m > 0
      BY <1>3, <2>2
    <3>2. u = <<f, PARTS>>
      BY <1>4, <3>1 DEF InStep, m
    <3> QED BY <2>2, <3>2 DEF Following
  <2> QED BY <2>1, <2>2
<1>13. ASSUME NEW i \in 1 .. m2
       PROVE  /\ UnitAt(w2, b, i)[1] <= f
              /\ i < m2 => UnitAt(w2, b, i + 1) = Following(UnitAt(w2, b, i))
  <2>1. UnitAt(w2, b, i)[1] <= f
    BY <1>5 DEF InStep, m
  <2>2. ASSUME i < m2
        PROVE  UnitAt(w2, b, i + 1) = Following(UnitAt(w2, b, i))
    <3>1. i + 1 \in 1 .. m2 /\ i + 1 < m
      BY <1>3, <2>2
    <3> QED BY <1>5, <3>1 DEF InStep, m
  <2> QED BY <2>1, <2>2
<1>14. m2 > 0 => UnitAt(w2, b, m2) = <<f, PARTS>>
  <2>1. m2 > 0 => m2 \in 1 .. m2 /\ m2 + 1 = m /\ m > 0
    BY <1>3
  <2> QED BY <1>5, <2>1 DEF InStep, m
<1>15. InStep(w2, b, Following(u), g2, f)
  BY <1>9, <1>11, <1>12, <1>13, <1>14 DEF InStep, m2
<1> QED BY <1>6, <1>8, <1>15 DEF u, w2

\* A connection that is closed leaves nothing unread.
LEMMA ResetInStep ==
    ASSUME NEW g, NEW f, \A h \in g : h <= f
    PROVE  InStep(<<>>, <<>>, Boundary, g, f)
<1>1. Unread(<<>>, <<>>) = 0
  BY DEF Unread
<1> QED BY <1>1 DEF InStep

-----------------------------------------------------------------------------
Flags == {S_WRITING, S_READING, S_ERROR}

\* A descriptor that connect_remote leaves is watched for errors and messages.
LEMMA ConnectFlags ==
    ASSUME TypeOK, NEW from \in SUBSET Flags, ConnectRemote(from, wait)
    PROVE  /\ sock' \in {"none", "connecting", "up"} /\ hello' \in {"none", "hello", "old"}
           /\ flags' \in SUBSET Flags /\ from \subseteq flags' /\ wait' \in 0 .. RECONNECT_TIME
           /\ sock' # "none" => {S_READING, S_ERROR} \subseteq flags'
<1>1. wait' \in 0 .. RECONNECT_TIME
  BY SizesAssumption DEF ConnectRemote, TypeOK
<1> QED BY <1>1 DEF ConnectRemote, Attempts, Flags

\* SyncSendAll counts its polls.
LEMMA PolledType ==
    ASSUME TypeOK, Polled
    PROVE  pc' \in {"idle", "sync", "once"} /\ retry' \in 0 .. MAX_RETRY_ITEMS
<1>1. retry \in 0 .. MAX_RETRY_ITEMS /\ pc \in {"idle", "sync", "once"}
  BY DEF TypeOK
<1> QED BY <1>1, SizesAssumption DEF Polled

\* What the peer and the network do.
LEMMA PeerStep ==
    ASSUME StreamInv, PeerReads \/ Connected \/ Broken \/ Tick
    PROVE  StreamInv'
<1> USE DEF StreamInv, FlagsFollow, agent, peer
<1>1. CASE PeerReads
  <2>1. /\ wire \in Seq(Units) /\ wire # <<>> /\ buf \in Seq(Units) /\ spans \in Nat
        /\ got \subseteq 1 .. MaxSpans /\ due \in (0 .. MaxSpans + 1) \X (1 .. PARTS)
    BY <1>1, SizesAssumption DEF PeerReads, TypeOK
  <2> DEFINE u == Head(wire)
             w == Tail(wire)
             g == IF u[2] = PARTS THEN got \cup {u[1]} ELSE got
  <2>2. u \in Units /\ w \in Seq(Units) /\ Len(w) <= WIRE
    <3>1. u \in Units /\ w \in Seq(Units) /\ Len(w) = Len(wire) - 1 /\ Len(wire) \in Nat
      BY <2>1, Remaining
    <3> HIDE DEF u, w
    <3> QED BY <3>1, SizesAssumption DEF TypeOK
  <2>3. /\ u[2] = due[2] /\ (due # Boundary => u = due) /\ u[1] \notin got
        /\ InStep(w, buf, Following(u), g, spans)
    <3>1. (\A h \in got : h \in Nat) /\ due[1] \in Nat
      BY <2>1, SizesAssumption
    <3> QED BY <2>1, <3>1, ReadInStep
  <2>4. /\ wire' = w /\ due' = Following(u) /\ got' = g /\ garbled' = (garbled \/ Unexpected(u))
        /\ UNCHANGED <<sock, flags, wait, buf, pc, retry, spans, hello, ready>>
    BY <1>1 DEF PeerReads, Parse
  <2> HIDE DEF u, w
  <2>5. Following(u) \in (0 .. MaxSpans + 1) \X (1 .. PARTS) /\ u[1] \in 1 .. MaxSpans
    BY <2>2, SizesAssumption DEF Following, Units
  <2>6. ~garbled'
    BY <2>3, <2>4 DEF Unexpected
  <2>7. TypeOK'
    BY <2>2, <2>4, <2>5, <2>6 DEF TypeOK
  <2> QED BY <2>3, <2>4, <2>6, <2>7
<1>2. CASE Connected \/ Broken
  <2>1. /\ sock # "none" /\ sock' \in {"up", "broken"} /\ hello' \in {hello, "hello", "old"}
        /\ UNCHANGED <<flags, wait, buf, pc, retry, spans, ready, wire, due, got, garbled>>
    BY <1>2 DEF Connected, Broken
  <2> QED BY <2>1 DEF TypeOK
<1>3. CASE Tick
  <2>1. wait' \in 0 .. RECONNECT_TIME
    BY <1>3, SizesAssumption DEF Tick, TypeOK
  <2> QED BY <1>3, <2>1 DEF Tick, TypeOK
<1> QED BY <1>1, <1>2, <1>3

\* A span that is accepted asks for writing.
LEMMA TrySendStep ==
    ASSUME StreamInv, NEW mode \in Modes, TrySendSpan(mode)
    PROVE  StreamInv'
<1> USE DEF StreamInv, FlagsFollow, peer
<1>1. pc' \in {"idle", "sync", "once"}
  BY ModesAssumption DEF TrySendSpan, Begin
<1>2. CASE UNCHANGED <<spans, buf, flags>>
  <2>1. UNCHANGED <<sock, wait, retry, hello, ready, wire, due, got, garbled>>
    BY DEF TrySendSpan
  <2> QED BY <1>1, <1>2, <2>1 DEF TypeOK
<1>3. CASE /\ spans < MaxSpans /\ Len(buf) + PARTS <= BUFFER
           /\ spans' = spans + 1 /\ buf' = buf \o Frame(spans + 1)
           /\ flags' = flags \cup {S_WRITING}
  <2>1. spans \in Nat /\ spans + 1 \in 1 .. MaxSpans
    BY <1>3, SizesAssumption DEF TypeOK
  <2>2. buf' \in Seq(Units) /\ Len(buf') = Len(buf) + PARTS
    BY <1>3, <2>1, AppendFrame DEF TypeOK
  <2>3. InStep(wire, buf', due, got, spans')
    <3>1. \A h \in got : h \in Nat
      BY SizesAssumption DEF TypeOK
    <3> QED BY <1>3, <2>1, <3>1, AcceptInStep DEF TypeOK
  <2>4. spans' \in 0 .. MaxSpans
    BY <1>3, <2>1
  <2>5. UNCHANGED <<sock, wait, retry, hello, ready, wire, due, got, garbled>>
    BY DEF TrySendSpan
  <2>6. TypeOK'
    BY <1>1, <1>3, <2>2, <2>4, <2>5 DEF TypeOK
  <2> QED BY <1>3, <2>3, <2>5, <2>6
<1> QED BY <1>2, <1>3 DEF TrySendSpan

\* After a reset the buffer is empty and the peer expects any frame.
LEMMA ResetStep ==
    ASSUME StreamInv, ResetRemote, Polled, UNCHANGED spans, ready' \in BOOLEAN,
           sock' \in {"none", "connecting", "up"}, hello' \in {"none", "hello", "old"},
           flags' \subseteq Flags, wait' \in 0 .. RECONNECT_TIME,
           sock' # "none" => {S_READING, S_ERROR} \subseteq flags'
    PROVE  StreamInv'
<1> USE DEF StreamInv, FlagsFollow
<1>1. buf' = <<>> /\ wire' = <<>> /\ due' = Boundary /\ UNCHANGED <<got, garbled>>
  BY DEF ResetRemote, Closed
<1>2. InStep(wire', buf', due', got', spans')
  <2>1. \A h \in got : h <= spans
    BY DEF InStep
  <2> QED BY <1>1, <2>1, ResetInStep
<1>3. <<>> \in Seq(Units) /\ Len(<<>>) = 0
  BY Remaining
<1>4. Boundary \in (0 .. MaxSpans + 1) \X (1 .. PARTS)
  BY SizesAssumption DEF Boundary
<1>5. TypeOK'
  <2>1. Len(buf') <= BUFFER /\ Len(wire') <= WIRE
    BY <1>1, <1>3, SizesAssumption
  <2> QED BY <1>1, <1>3, <1>4, <2>1, PolledType DEF TypeOK, Flags
<1> QED BY <1>1, <1>2, <1>5

\* What is left in the buffer after a send is selected for writing by the next poll.
LEMMA EventsStep ==
    ASSUME StreamInv, PollEvents
    PROVE  StreamInv'
<1> USE DEF StreamInv, FlagsFollow, peer
<1> DEFINE room == WIRE - Len(wire)
           n == IF S_WRITING \notin flags THEN 0
                ELSE IF Len(buf) < room THEN Len(buf) ELSE room
<1>1. /\ wire' = wire \o SubSeq(buf, 1, n) /\ buf' = SubSeq(buf, n + 1, Len(buf))
      /\ flags' = IF S_WRITING \in flags /\ room > 0 THEN Drained(n) ELSE flags
      /\ ready' = (ready \/ hello = "hello") /\ hello' = "none" /\ Polled
      /\ UNCHANGED <<sock, wait, spans, due, got, garbled>>
  BY DEF PollEvents
<1>2. /\ Len(buf) \in Nat /\ room \in Nat /\ Len(wire) \in Nat /\ WIRE \in Nat
      /\ BUFFER \in Nat /\ Len(buf) <= BUFFER /\ wire \in Seq(Units) /\ buf \in Seq(Units)
  <2>1. /\ wire \in Seq(Units) /\ buf \in Seq(Units) /\ Len(wire) <= WIRE /\ Len(buf) <= BUFFER
    BY DEF TypeOK
  <2>2. Len(buf) \in Nat /\ Len(wire) \in Nat
    BY <2>1
  <2> QED BY <2>1, <2>2, SizesAssumption
<1>3. n \in 0 .. Len(buf) /\ n <= room
  BY <1>2
<1> HIDE DEF n
<1>4. /\ wire' \in Seq(Units) /\ Len(wire') = Len(wire) + n
      /\ buf' \in Seq(Units) /\ Len(buf') = Len(buf) - n
  <2> DEFINE w2 == wire \o SubSeq(buf, 1, n)
             b2 == SubSeq(buf, n + 1, Len(buf))
  <2>1. /\ w2 \in Seq(Units) /\ Len(w2) = Len(wire) + n
        /\ b2 \in Seq(Units) /\ Len(b2) = Len(buf) - n
    BY <1>2, <1>3, MoveElements
  <2>2. wire' = w2 /\ buf' = b2
    BY <1>1
  <2> HIDE DEF w2, b2
  <2> QED BY <2>1, <2>2
<1>5. InStep(wire', buf', due', got', spans')
  BY <1>1, <1>2, <1>3, SentInStep
<1>6. Len(wire') <= WIRE /\ Len(buf') <= BUFFER
  BY <1>2, <1>3, <1>4
<1>7. flags' \in {flags, flags \ {S_WRITING}, flags \cup {S_WRITING}}
  BY <1>1 DEF Drained
<1>8. TypeOK'
  BY <1>1, <1>4, <1>6, <1>7, PolledType DEF TypeOK
<1>9. buf' # <<>> => S_WRITING \in flags'
  <2> SUFFICES ASSUME buf' # <<>>
               PROVE  S_WRITING \in flags'
    OBVIOUS
  <2>1. n # Len(buf)
    BY <1>1, <1>2
  <2>2. buf # <<>>
    BY <1>2, <1>3, <2>1
  <2> QED BY <1>1, <2>1, <2>2 DEF Drained
<1>10. sock' # "none" => {S_READING, S_ERROR} \subseteq flags'
  BY <1>1, <1>7 DEF S_READING, S_ERROR, S_WRITING
<1> QED BY <1>1, <1>5, <1>8, <1>9, <1>10

\* The other outcomes of a poll.
LEMMA PollStep ==
    ASSUME StreamInv, Poll
    PROVE  StreamInv'
<1> USE DEF StreamInv, FlagsFollow, peer
<1>1. flags \in SUBSET Flags /\ {} \in SUBSET Flags
  BY DEF TypeOK, Flags
<1>2. ASSUME ConnectRemote(flags, wait), pc' \in {"idle", "sync", "once"},
             retry' \in 0 .. MAX_RETRY_ITEMS, UNCHANGED <<buf, spans, ready, wire, due, got, garbled>>
      PROVE  StreamInv'
  <2>1. /\ sock' \in {"none", "connecting", "up"} /\ hello' \in {"none", "hello", "old"}
        /\ flags' \in SUBSET Flags /\ flags \subseteq flags' /\ wait' \in 0 .. RECONNECT_TIME
        /\ sock' # "none" => {S_READING, S_ERROR} \subseteq flags'
    BY <1>1, <1>2, ConnectFlags
  <2>2. TypeOK'
    BY <1>2, <2>1 DEF TypeOK, Flags
  <2> QED BY <1>2, <2>1, <2>2
<1>3. ASSUME Polled, UNCHANGED <<sock, flags, wait, buf, spans, hello, ready, wire, due, got, garbled>>
      PROVE  StreamInv'
  <2>1. TypeOK'
    BY <1>3, PolledType DEF TypeOK
  <2> QED BY <1>3, <2>1
<1>4. CASE PollFails \/ PollTimeout
  BY <1>2, <1>3, <1>4, PolledType DEF PollFails, PollTimeout
<1>5. CASE PollConnects
  BY <1>2, <1>5 DEF PollConnects, TypeOK
<1>6. CASE PollTooLarge
  BY <1>1, <1>6, ResetStep DEF PollTooLarge, TypeOK
<1>7. CASE PollError
  <2>1. /\ sock' \in {"none", "connecting", "up"} /\ hello' \in {"none", "hello", "old"}
        /\ flags' \in SUBSET Flags /\ wait' \in 0 .. RECONNECT_TIME
        /\ sock' # "none" => {S_READING, S_ERROR} \subseteq flags'
    BY <1>1, <1>7, ConnectFlags DEF PollError
  <2>2. ResetRemote /\ Polled /\ UNCHANGED spans /\ ready' \in BOOLEAN
    BY <1>7 DEF PollError, TypeOK
  <2> QED BY <2>1, <2>2, ResetStep
<1>8. CASE PollEvents
  BY <1>8, EventsStep
<1> QED BY <1>4, <1>5, <1>6, <1>7, <1>8 DEF Poll

-----------------------------------------------------------------------------
\* The inductive invariant of a connection.
LEMMA StreamInvAlways == Spec => []StreamInv
<1>1. Init => StreamInv
  <2> SUFFICES ASSUME Init
               PROVE  StreamInv
    OBVIOUS
  <2>1. TypeOK
    <3>1. <<>> \in Seq(Units) /\ Len(<<>>) = 0
      BY Remaining
    <3>2. Boundary \in (0 .. MaxSpans + 1) \X (1 .. PARTS)
      BY SizesAssumption DEF Boundary
    <3>3. /\ 0 \in 0 .. RECONNECT_TIME /\ 0 \in 0 .. MAX_RETRY_ITEMS /\ 0 \in 0 .. MaxSpans
          /\ 0 <= BUFFER /\ 0 <= WIRE
      BY SizesAssumption
    <3> QED BY <3>1, <3>2, <3>3 DEF Init, TypeOK
  <2>2. InStep(wire, buf, due, got, spans)
    BY ResetInStep DEF Init
  <2> QED BY <2>1, <2>2 DEF Init, StreamInv, FlagsFollow
<1>2. StreamInv /\ [Next]_vars => StreamInv'
  <2> SUFFICES ASSUME StreamInv, [Next]_vars
               PROVE  StreamInv'
    OBVIOUS
  <2>1. CASE Next
    BY <2>1, PeerStep, TrySendStep, PollStep DEF Next
  <2>2. CASE UNCHANGED vars
    BY <2>2 DEF vars, StreamInv, FlagsFollow, TypeOK
  <2> QED BY <2>1, <2>2
<1> QED BY <1>1, <1>2, PTL DEF Spec

\* Whatever is in the send buffer is selected for writing, a descriptor is always
\* watched for errors and messages, and the buffer keeps within its capacity
\* (_do_write_data, connect_remote, _reset_remote, copy_into_send_buffer).
THEOREM FlagsFollowAlways == Spec => []FlagsFollow
<1>1. StreamInv => FlagsFollow
  BY DEF StreamInv
<1> QED BY <1>1, StreamInvAlways, PTL

\* Every connection carries whole frames, in order and without a gap, and no frame
\* reaches the peer twice (drainOutWithPipe, _reset_remote).
THEOREM PeerInSyncAlways == Spec => []PeerInSync
<1>1. StreamInv => PeerInSync
  BY DEF StreamInv, PeerInSync
<1> QED BY <1>1, StreamInvAlways, PTL
=============================================================================
