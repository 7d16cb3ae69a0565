--------------------------- MODULE FramingProofs ----------------------------
(***************************************************************************)
(* Both readers of frames handle what was sent, in order: for buffers,     *)
(* headers and frames of any size, however the bytes are cut.              *)
(***************************************************************************)
EXTENDS MCFraming, TLAPS

Byte == Nat \X Nat

(* The bytes that a reader has not handled: those of its buffer b behind   *)
(* the first o, then those that are under way.                             *)
UnreadLen(b, o, s) == (Len(b) - o) + Len(s)
UnreadAt(b, o, s, i) == IF i <= Len(b) - o THEN b[o + i] ELSE s[i - (Len(b) - o)]
Unread(b, o, s) == [i \in 1 .. UnreadLen(b, o, s) |-> UnreadAt(b, o, s, i)]

(* The n bytes u are those of the frames h + 1 .. F, of sizes sz: each     *)
(* byte is one of a frame, a frame that has begun is whole, the next one   *)
(* follows it, and nothing comes twice.                                    *)
Placed(u, n, F, sz, h) == \A i \in 1 .. n :
    u[i] \in Byte /\ u[i][1] \in h + 1 .. F /\ u[i][2] \in 1 .. sz[u[i][1]]
Complete(u, n, sz) == \A i \in 1 .. n : \A k \in 1 .. sz[u[i][1]] :
    i + k - u[i][2] >= 1 => i + k - u[i][2] <= n /\ u[i + k - u[i][2]] = <<u[i][1], k>>
Followed(u, n, sz) == \A i \in 1 .. n :
    i < n /\ u[i][2] = sz[u[i][1]] => u[i + 1] = <<u[i][1] + 1, 1>>
Ordered(u, n) == \A i, j \in 1 .. n :
    i < j => u[i][1] < u[j][1] \/ (u[i][1] = u[j][1] /\ u[j][2] - u[i][2] = j - i)
Ends(u, n, F, sz, h) ==
    /\ n > 0 => u[1] = <<h + 1, 1>> /\ u[n] = <<F, sz[F]>>
    /\ n = 0 => h = F
FirstWhole(u, n, F, sz, h) ==
    /\ h + 1 \in 1 .. F /\ sz[h + 1] \in 1 .. n
    /\ \A k \in 1 .. sz[h + 1] : u[k] = <<h + 1, k>>
InFrames(u, n, F, sz, h) ==
    Placed(u, n, F, sz, h) /\ Complete(u, n, sz) /\ Followed(u, n, sz) /\ Ordered(u, n)
    /\ Ends(u, n, F, sz, h)

-----------------------------------------------------------------------------
\* What comes first is the next frame, whole.
LEMMA FirstFrame ==
    ASSUME NEW u, NEW n \in Nat \ {0}, NEW F \in Nat, NEW sz \in [1 .. F -> Nat \ {0}],
           NEW h \in Nat, InFrames(u, n, F, sz, h)
    PROVE  FirstWhole(u, n, F, sz, h)
<1>1. 1 \in 1 .. n /\ u[1] = <<h + 1, 1>>
  BY DEF InFrames, Ends
<1>2. u[1][1] = h + 1 /\ u[1][2] = 1
  BY <1>1
<1>3. h + 1 \in 1 .. F
  BY <1>1, <1>2 DEF InFrames, Placed
<1>4. sz[h + 1] \in Nat \ {0}
  BY <1>3
<1>5. ASSUME NEW k \in 1 .. sz[h + 1]
      PROVE  k <= n /\ u[k] = <<h + 1, k>>
  <2>1. k \in Nat /\ 1 + k - 1 = k /\ k >= 1
    BY <1>4
  <2>2. 1 + k - u[1][2] >= 1 => 1 + k - u[1][2] <= n /\ u[1 + k - u[1][2]] = <<u[1][1], k>>
    BY <1>1, <1>2 DEF InFrames, Complete
  <2> QED BY <1>2, <2>1, <2>2
<1>6. sz[h + 1] \in 1 .. n
  BY <1>4, <1>5
<1> QED BY <1>3, <1>5, <1>6 DEF FirstWhole

\* The next frame is taken off.
LEMMA DropFrame ==
    ASSUME NEW u, NEW n \in Nat \ {0}, NEW F \in Nat, NEW sz \in [1 .. F -> Nat \ {0}],
           NEW h \in Nat, InFrames(u, n, F, sz, h), NEW u2,
           \A i \in 1 .. n - sz[h + 1] : u2[i] = u[i + sz[h + 1]]
    PROVE  InFrames(u2, n - sz[h + 1], F, sz, h + 1)
<1>1. FirstWhole(u, n, F, sz, h)
  BY FirstFrame, Zenon
<1> DEFINE L == sz[h + 1]
           m == n - L
<1>2. /\ L = sz[h + 1] /\ \A i \in 1 .. m : u2[i] = u[i + L]
      /\ L \in 1 .. n /\ \A k \in 1 .. L : u[k] = <<h + 1, k>>
  BY <1>1 DEF FirstWhole
<1> HIDE DEF L
<1>3. L \in Nat /\ L >= 1 /\ L <= n /\ L \in 1 .. L /\ m \in Nat /\ m + L = n
  BY <1>2
<1>4. u[L] = <<h + 1, L>> /\ u[L][1] = h + 1 /\ u[L][2] = L
  <2>1. u[L] = <<h + 1, L>>
    BY <1>2, <1>3
  <2> QED BY <2>1
<1> HIDE DEF m
<1>5. ASSUME NEW i \in 1 .. m
      PROVE  i + L \in 1 .. n /\ L < i + L /\ i \in Nat /\ u2[i] = u[i + L]
  <2>1. i \in Nat /\ i >= 1 /\ i <= m
    BY <1>3
  <2>2. i + L \in 1 .. n /\ L < i + L
    BY <1>3, <2>1
  <2> QED BY <1>2, <2>1, <2>2
<1>6. ASSUME NEW i \in 1 .. m
      PROVE  /\ u2[i] \in Byte /\ u2[i][1] \in h + 1 .. F /\ u2[i][2] \in 1 .. sz[u2[i][1]]
             /\ u2[i][1] \in Nat /\ u2[i][2] \in Nat
  <2>1. u2[i] \in Byte /\ u2[i][1] \in h + 1 .. F /\ u2[i][2] \in 1 .. sz[u2[i][1]]
    BY <1>5 DEF InFrames, Placed
  <2> QED BY <2>1 DEF Byte
<1>7. Placed(u2, m, F, sz, h + 1)
  <2> SUFFICES ASSUME NEW i \in 1 .. m
               PROVE  u2[i][1] \in (h + 1) + 1 .. F
    BY <1>6 DEF Placed
  <2> DEFINE a == u2[i][1]
             b == u2[i][2]
  <2>1. a \in h + 1 .. F /\ b \in 1 .. sz[a] /\ a \in Nat /\ b \in Nat
    BY <1>6
  <2>2. u[L][1] < a \/ (u[L][1] = a /\ b - u[L][2] = (i + L) - L)
    BY <1>2, <1>5 DEF InFrames, Ordered
  <2> HIDE DEF a, b
  <2>3. h + 1 < a \/ (h + 1 = a /\ b - L = (i + L) - L)
    BY <1>4, <2>2
  <2>4. CASE h + 1 < a
    BY <2>1, <2>4 DEF a
  <2>5. CASE h + 1 = a /\ b - L = (i + L) - L
    <3>1. b <= L
      BY <1>2, <2>1, <2>5
    <3> QED BY <1>3, <1>5, <2>1, <2>5, <3>1
  <2> QED BY <2>3, <2>4, <2>5
<1>8. Complete(u2, m, sz)
  <2> SUFFICES ASSUME NEW i \in 1 .. m, NEW k \in 1 .. sz[u2[i][1]], i + k - u2[i][2] >= 1
               PROVE  i + k - u2[i][2] <= m /\ u2[i + k - u2[i][2]] = <<u2[i][1], k>>
    BY DEF Complete
  <2> DEFINE a == u2[i][1]
             b == u2[i][2]
             j == i + k - b
  <2>1. a \in h + 1 .. F /\ a \in Nat /\ b \in Nat /\ i + L \in 1 .. n /\ i \in Nat
    BY <1>5, <1>6
  <2>2. (i + L) + k - b >= 1 => (i + L) + k - b <= n /\ u[(i + L) + k - b] = <<a, k>>
    <3>1. u2[i] = u[i + L] /\ i + L \in 1 .. n
      BY <1>5
    <3>2. \A l \in 1 .. sz[u[i + L][1]] :
              (i + L) + l - u[i + L][2] >= 1 =>
                  /\ (i + L) + l - u[i + L][2] <= n
                  /\ u[(i + L) + l - u[i + L][2]] = <<u[i + L][1], l>>
      BY <3>1, Zenon DEF InFrames, Complete
    <3> QED BY <3>1, <3>2, Zenon
  <2>3. k \in 1 .. sz[a] /\ i + k - b >= 1
    OBVIOUS
  <2> HIDE DEF a, b
  <2>4. sz[a] \in Nat /\ k \in Nat
    <3>1. a \in 1 .. F
      BY <2>1
    <3>2. sz[a] \in Nat
      BY <3>1
    <3> QED BY <2>3, <3>2
  <2>5. (i + L) + k - b = j + L /\ j \in Int /\ j >= 1 /\ j + L >= 1
    BY <1>3, <2>1, <2>3, <2>4
  <2>6. j = i + k - b
    OBVIOUS
  <2> HIDE DEF j
  <2>7. j + L <= n /\ u[j + L] = <<a, k>>
    BY <2>2, <2>5
  <2>8. j <= m /\ j \in 1 .. m
    BY <1>3, <2>5, <2>7
  <2>9. u2[j] = <<a, k>>
    BY <1>5, <2>7, <2>8
  <2> QED BY <2>6, <2>8, <2>9 DEF a, b
<1>9. Followed(u2, m, sz)
  <2> SUFFICES ASSUME NEW i \in 1 .. m, i < m, u2[i][2] = sz[u2[i][1]]
               PROVE  u2[i + 1] = <<u2[i][1] + 1, 1>>
    BY DEF Followed
  <2>1. i + L < n /\ i + 1 \in 1 .. m /\ (i + 1) + L = (i + L) + 1
    <3>1. i \in Nat /\ i >= 1
      BY <1>3
    <3> QED BY <1>3, <3>1
  <2>2. u2[i + 1] = u[(i + L) + 1]
    BY <1>5, <2>1
  <2>3. u[(i + L) + 1] = <<u[i + L][1] + 1, 1>>
    BY <1>5, <2>1 DEF InFrames, Followed
  <2> QED BY <1>5, <2>2, <2>3
<1>10. Ordered(u2, m)
  <2> SUFFICES ASSUME NEW i \in 1 .. m, NEW j \in 1 .. m, i < j
               PROVE  u2[i][1] < u2[j][1] \/ (u2[i][1] = u2[j][1] /\ u2[j][2] - u2[i][2] = j - i)
    BY DEF Ordered
  <2>1. i + L \in 1 .. n /\ j + L \in 1 .. n /\ u2[i] = u[i + L] /\ u2[j] = u[j + L]
    BY <1>5
  <2>2. i + L < j + L /\ (j + L) - (i + L) = j - i
    BY <1>3, <1>5
  <2>3. \/ u[i + L][1] < u[j + L][1]
        \/ u[i + L][1] = u[j + L][1] /\ u[j + L][2] - u[i + L][2] = (j + L) - (i + L)
    BY <2>1, <2>2 DEF InFrames, Ordered
  <2> QED BY <2>1, <2>2, <2>3
<1>11. Ends(u2, m, F, sz, h + 1)
  <2>1. u[n] = <<F, sz[F]>>
    BY DEF InFrames, Ends
  <2>2. ASSUME m > 0
        PROVE  u2[1] = <<(h + 1) + 1, 1>> /\ u2[m] = <<F, sz[F]>>
    <3>1. 1 \in 1 .. m /\ m \in 1 .. m /\ L < n /\ 1 + L = L + 1
      BY <1>3, <2>2
    <3>2. L < n /\ u[L][2] = sz[u[L][1]] => u[L + 1] = <<u[L][1] + 1, 1>>
      BY <1>2 DEF InFrames, Followed
    <3>3. u[L + 1] = <<(h + 1) + 1, 1>>
      BY <1>2, <1>4, <3>1, <3>2
    <3>4. u2[1] = u[1 + L] /\ u2[m] = u[m + L]
      BY <1>5, <3>1
    <3> QED BY <1>3, <2>1, <3>1, <3>3, <3>4
  <2>3. ASSUME m = 0
        PROVE  h + 1 = F
    <3>1. L = n
      BY <1>3, <2>3
    <3> QED BY <1>4, <2>1, <3>1
  <2> QED BY <1>3, <2>2, <2>3 DEF Ends
<1> QED BY <1>7, <1>8, <1>9, <1>10, <1>11 DEF InFrames, m, L

(* u2 is u with one more frame, of size L.                                 *)
Extended(u, n, F, sz, u2, L, sz2) ==
    /\ sz2[F + 1] = L /\ \A f \in 1 .. F : sz2[f] = sz[f]
    /\ \A i \in 1 .. n : u2[i] = u[i]
    /\ \A k \in 1 .. L : u2[n + k] = <<F + 1, k>>

\* A frame is sent behind the others.
LEMMA AddFrame ==
    ASSUME NEW u, NEW n \in Nat, NEW F \in Nat, NEW sz \in [1 .. F -> Nat \ {0}],
           NEW h \in Nat, InFrames(u, n, F, sz, h),
           NEW u2, NEW L \in Nat \ {0}, NEW sz2 \in [1 .. F + 1 -> Nat \ {0}],
           Extended(u, n, F, sz, u2, L, sz2)
    PROVE  InFrames(u2, n + L, F + 1, sz2, h)
<1> USE DEF Extended
<1>1. ASSUME NEW i \in 1 .. n
      PROVE  /\ u2[i] = u[i] /\ u[i] \in Byte /\ u[i][1] \in h + 1 .. F
             /\ u[i][1] \in Nat /\ u[i][2] \in Nat /\ u[i][1] <= F
             /\ sz2[u[i][1]] = sz[u[i][1]] /\ u[i][2] \in 1 .. sz[u[i][1]] /\ i \in Nat
  <2>1. u2[i] = u[i] /\ u[i] \in Byte /\ u[i][1] \in h + 1 .. F /\ u[i][2] \in 1 .. sz[u[i][1]]
    BY DEF InFrames, Placed
  <2>2. u[i][1] \in Nat /\ u[i][2] \in Nat
    BY <2>1 DEF Byte
  <2>3. u[i][1] \in 1 .. F /\ u[i][1] <= F
    <3> DEFINE a == u[i][1]
    <3>1. a \in h + 1 .. F /\ a \in Nat
      BY <2>1, <2>2
    <3> HIDE DEF a
    <3>2. a \in 1 .. F /\ a <= F
      BY <3>1
    <3> QED BY <3>2 DEF a
  <2>4. sz2[u[i][1]] = sz[u[i][1]]
    BY <2>3, Zenon
  <2>5. i \in Nat
    OBVIOUS
  <2> QED BY <2>1, <2>2, <2>3, <2>4, <2>5, Zenon
<1>2. h <= F
  <2>1. CASE n = 0
    BY <2>1 DEF InFrames, Ends
  <2>2. CASE n > 0
    <3>1. 1 \in 1 .. n
      BY <2>2
    <3>2. u[1][1] \in h + 1 .. F
      BY <1>1, <3>1
    <3> QED BY <3>2
  <2> QED BY <2>1, <2>2
<1>3. ASSUME NEW i \in n + 1 .. n + L
      PROVE  /\ u2[i] = <<F + 1, i - n>> /\ u2[i][1] = F + 1 /\ u2[i][2] = i - n
             /\ i - n \in 1 .. L /\ i \in Nat /\ i > n
  <2>1. i - n \in 1 .. L /\ n + (i - n) = i /\ i \in Nat /\ i > n
    OBVIOUS
  <2>2. u2[i] = <<F + 1, i - n>>
    BY <2>1
  <2> QED BY <2>1, <2>2
<1>4. ASSUME NEW i \in 1 .. n + L
      PROVE  i \in 1 .. n \/ i \in n + 1 .. n + L
  OBVIOUS
<1>5. Placed(u2, n + L, F + 1, sz2, h)
  <2> SUFFICES ASSUME NEW i \in 1 .. n + L
               PROVE  /\ u2[i] \in Byte /\ u2[i][1] \in h + 1 .. F + 1
                      /\ u2[i][2] \in 1 .. sz2[u2[i][1]]
    BY DEF Placed
  <2>1. CASE i \in 1 .. n
    <3>1. u[i][1] \in h + 1 .. F + 1
      BY <1>1, <2>1
    <3> QED BY <1>1, <2>1, <3>1
  <2>2. CASE i \in n + 1 .. n + L
    <3>1. F + 1 \in h + 1 .. F + 1 /\ F + 1 \in Nat
      BY <1>2
    <3>2. i - n \in Nat
      BY <1>3, <2>2
    <3>3. u2[i] = <<F + 1, i - n>> /\ u2[i][1] = F + 1 /\ u2[i][2] = i - n /\ i - n \in 1 .. L
      BY <1>3, <2>2
    <3>4. u2[i] \in Byte
      BY <3>1, <3>2, <3>3 DEF Byte
    <3>5. u2[i][2] \in 1 .. sz2[u2[i][1]]
      BY <3>3
    <3> QED BY <3>1, <3>3, <3>4, <3>5
  <2> QED BY <1>4, <2>1, <2>2
<1>6. Complete(u2, n + L, sz2)
  <2> SUFFICES ASSUME NEW i \in 1 .. n + L, NEW k \in 1 .. sz2[u2[i][1]],
                      i + k - u2[i][2] >= 1
               PROVE  /\ i + k - u2[i][2] <= n + L
                      /\ u2[i + k - u2[i][2]] = <<u2[i][1], k>>
    BY DEF Complete
  <2>1. CASE i \in 1 .. n
    <3> DEFINE a == u[i][1]
               b == u[i][2]
    <3>1. u2[i] = u[i] /\ a \in 1 .. F /\ b \in Nat /\ k \in 1 .. sz[a] /\ i \in Nat
      <4>1. /\ u2[i] = u[i] /\ a \in h + 1 .. F /\ a \in Nat /\ b \in Nat
            /\ sz2[a] = sz[a] /\ i \in Nat
        BY <1>1, <2>1
      <4>2. k \in 1 .. sz[a]
        BY <4>1, Zenon
      <4> HIDE DEF a
      <4> QED BY <4>1, <4>2
    <3>2. i + k - b >= 1 => i + k - b <= n /\ u[i + k - b] = <<a, k>>
      BY <2>1, <3>1 DEF InFrames, Complete
    <3>3. i + k - b >= 1
      BY <3>1
    <3>4. k \in Nat
      <4> HIDE DEF a
      <4>1. sz[a] \in Nat
        BY <3>1
      <4> QED BY <3>1, <4>1
    <3>5. i + k - b \in 1 .. n /\ i + k - b <= n + L
      <4>1. i + k - b <= n
        BY <3>2, <3>3, Zenon
      <4>2. b \in Nat /\ i \in Nat
        BY <3>1
      <4> HIDE DEF b
      <4> QED BY <3>3, <3>4, <4>1, <4>2
    <3>6. u2[i + k - b] = <<a, k>>
      BY <1>1, <3>2, <3>3, <3>5
    <3> QED BY <3>1, <3>5, <3>6
  <2>2. CASE i \in n + 1 .. n + L
    <3>1. u2[i][1] = F + 1 /\ u2[i][2] = i - n /\ i \in Nat
      BY <1>3, <2>2
    <3>2. k \in 1 .. L
      BY <3>1
    <3>3. i + k - (i - n) = n + k /\ n + k <= n + L
      BY <3>1, <3>2
    <3> QED BY <3>1, <3>2, <3>3
  <2> QED BY <1>4, <2>1, <2>2
<1>7. Followed(u2, n + L, sz2)
  <2> SUFFICES ASSUME NEW i \in 1 .. n + L, i < n + L, u2[i][2] = sz2[u2[i][1]]
               PROVE  u2[i + 1] = <<u2[i][1] + 1, 1>>
    BY DEF Followed
  <2>1. CASE i \in 1 .. n /\ i < n
    <3>1. i + 1 \in 1 .. n
      BY <2>1
    <3>2. u2[i] = u[i] /\ u2[i + 1] = u[i + 1] /\ u[i][2] = sz[u[i][1]]
      BY <1>1, <2>1, <3>1
    <3> QED BY <2>1, <3>2 DEF InFrames, Followed
  <2>2. CASE i = n /\ n \in 1 .. n
    <3>1. u[n] = <<F, sz[F]>> /\ u2[n] = u[n]
      <4>1. n > 0
        BY <2>2
      <4>2. u[n] = <<F, sz[F]>>
        BY <4>1 DEF InFrames, Ends
      <4> QED BY <1>1, <2>2, <4>2
    <3>2. 1 \in 1 .. L
      OBVIOUS
    <3>3. u2[n + 1] = <<F + 1, 1>>
      BY <3>2
    <3> QED BY <2>2, <3>1, <3>3
  <2>3. CASE i \in n + 1 .. n + L
    <3>1. i - n = L
      BY <1>3, <2>3
    <3> QED BY <1>3, <2>3, <3>1
  <2>4. i \in 1 .. n => (i < n \/ (i = n /\ n \in 1 .. n))
    OBVIOUS
  <2> QED BY <1>4, <2>1, <2>2, <2>3, <2>4
<1>8. Ordered(u2, n + L)
  <2> SUFFICES ASSUME NEW i \in 1 .. n + L, NEW j \in 1 .. n + L, i < j
               PROVE  \/ u2[i][1] < u2[j][1]
                      \/ u2[i][1] = u2[j][1] /\ u2[j][2] - u2[i][2] = j - i
    BY DEF Ordered
  <2>1. CASE i \in 1 .. n /\ j \in 1 .. n
    <3>1. u2[i] = u[i] /\ u2[j] = u[j]
      BY <1>1, <2>1
    <3> QED BY <2>1, <3>1 DEF InFrames, Ordered
  <2>2. CASE i \in 1 .. n /\ j \in n + 1 .. n + L
    <3>1. u2[i][1] \in Nat /\ u2[i][1] <= F
      BY <1>1, <2>2
    <3>2. u2[j][1] = F + 1
      BY <1>3, <2>2
    <3> QED BY <3>1, <3>2
  <2>3. CASE i \in n + 1 .. n + L /\ j \in n + 1 .. n + L
    <3>1. u2[i][1] = F + 1 /\ u2[i][2] = i - n /\ u2[j][1] = F + 1 /\ u2[j][2] = j - n
      BY <1>3, <2>3
    <3> QED BY <3>1
  <2>4. i \in 1 .. n \/ j \in n + 1 .. n + L
    BY <1>4
  <2> QED BY <1>4, <2>1, <2>2, <2>3, <2>4
<1>9. Ends(u2, n + L, F + 1, sz2, h)
  <2>1. u2[1] = <<h + 1, 1>>
    <3>1. CASE n = 0
      <4>1. h = F /\ 1 \in 1 .. L
        BY <3>1 DEF InFrames, Ends
      <4>2. u2[n + 1] = <<F + 1, 1>>
        BY <4>1
      <4> QED BY <3>1, <4>1, <4>2
    <3>2. CASE n > 0
      <4>1. 1 \in 1 .. n
        BY <3>2
      <4> QED BY <1>1, <3>2, <4>1 DEF InFrames, Ends
    <3> QED BY <3>1, <3>2
  <2>2. u2[n + L] = <<F + 1, sz2[F + 1]>>
    <3>1. L \in 1 .. L
      OBVIOUS
    <3> QED BY <3>1
  <2>3. n + L # 0
    OBVIOUS
  <2> QED BY <2>1, <2>2, <2>3 DEF Ends
<1> QED BY <1>5, <1>6, <1>7, <1>8, <1>9 DEF InFrames

-----------------------------------------------------------------------------
(* A reader with buffer b, of which o bytes are handled, and the bytes s   *)
(* under way, when h of the frames S have been handled.                    *)

Frames(S) == Len(S) \in Nat /\ \A f \in 1 .. Len(S) : S[f].len \in Nat
Sizes(H, S) == [f \in 1 .. Len(S) |-> H + S[f].len]
InStream(b, o, s, S, h, H) ==
    /\ b \in Seq(Byte) /\ s \in Seq(Byte) /\ o \in 0 .. Len(b)
    /\ InFrames(Unread(b, o, s), UnreadLen(b, o, s), Len(S), Sizes(H, S), h)

\* Every frame has a size, the header's at least.
LEMMA SizesType ==
    ASSUME NEW H \in Nat \ {0}, NEW S, Frames(S)
    PROVE  Sizes(H, S) \in [1 .. Len(S) -> Nat \ {0}]
<1>1. ASSUME NEW f \in 1 .. Len(S)
      PROVE  H + S[f].len \in Nat \ {0}
  <2>1. S[f].len \in Nat
    BY DEF Frames
  <2> QED BY <2>1
<1> QED BY <1>1 DEF Sizes

\* At first nothing was sent.
LEMMA StreamEmpty ==
    ASSUME NEW H \in Nat
    PROVE  InStream(<<>>, 0, <<>>, <<>>, 0, H)
<1>1. UnreadLen(<<>>, 0, <<>>) = 0 /\ Len(<<>>) = 0 /\ 0 \in 0 .. 0 /\ <<>> \in Seq(Byte)
  BY DEF UnreadLen
<1>2. ASSUME NEW u, NEW sz
      PROVE  InFrames(u, 0, 0, sz, 0)
  BY DEF InFrames, Placed, Complete, Followed, Ordered, Ends
<1> QED BY <1>1, <1>2 DEF InStream

\* Received bytes go from the stream to the buffer.
LEMMA StreamRecv ==
    ASSUME NEW b, NEW s, NEW S, NEW h, NEW H, InStream(b, 0, s, S, h, H),
           NEW m \in 1 .. Len(s)
    PROVE  InStream(b \o SubSeq(s, 1, m), 0, SubSeq(s, m + 1, Len(s)), S, h, H)
<1> DEFINE x == SubSeq(s, 1, m)
           y == SubSeq(s, m + 1, Len(s))
           b2 == b \o x
<1>1. b \in Seq(Byte) /\ s \in Seq(Byte) /\ Len(b) \in Nat /\ Len(s) \in Nat
  BY DEF InStream
<1>2. /\ x \in Seq(Byte) /\ Len(x) = m /\ \A i \in 1 .. m : x[i] = s[i]
      /\ y \in Seq(Byte) /\ Len(y) = Len(s) - m /\ \A i \in 1 .. Len(s) - m : y[i] = s[m + i]
  BY <1>1
<1> HIDE DEF x, y
<1>3. /\ b2 \in Seq(Byte) /\ Len(b2) = Len(b) + m
      /\ \A i \in 1 .. Len(b) : b2[i] = b[i]
      /\ \A i \in 1 .. m : b2[Len(b) + i] = x[i]
  <2>1. b2 \in Seq(Byte) /\ Len(b2) = Len(b) + m
    <3>1. x \in Seq(Byte) /\ Len(x) = m
      BY <1>2
    <3> QED BY <1>1, <3>1
  <2>2. ASSUME NEW i \in 1 .. Len(b)
        PROVE  b2[i] = b[i]
    BY <1>1, <1>2
  <2>3. ASSUME NEW i \in 1 .. m
        PROVE  b2[Len(b) + i] = x[i]
    BY <1>1, <1>2
  <2> QED BY <2>1, <2>2, <2>3
<1> HIDE DEF b2
<1>4. UnreadLen(b2, 0, y) = UnreadLen(b, 0, s) /\ UnreadLen(b, 0, s) = Len(b) + Len(s)
  BY <1>1, <1>2, <1>3 DEF UnreadLen
<1>5. ASSUME NEW i \in 1 .. Len(b) + Len(s)
      PROVE  UnreadAt(b2, 0, y, i) = UnreadAt(b, 0, s, i)
  <2>1. i \in Nat /\ i >= 1 /\ Len(b) - 0 = Len(b) /\ Len(b2) - 0 = Len(b) + m /\ 0 + i = i
    BY <1>1, <1>3
  <2>2. CASE i <= Len(b)
    <3>1. i \in 1 .. Len(b) /\ i <= Len(b) + m
      BY <1>1, <2>1, <2>2
    <3> QED BY <1>3, <2>1, <2>2, <3>1 DEF UnreadAt
  <2>3. CASE i > Len(b) /\ i <= Len(b) + m
    <3>1. i - Len(b) \in 1 .. m /\ ~(i <= Len(b)) /\ Len(b) + (i - Len(b)) = i
      BY <1>1, <2>1, <2>3
    <3>2. b2[i] = s[i - Len(b)]
      BY <1>2, <1>3, <3>1
    <3> QED BY <2>1, <2>3, <3>1, <3>2 DEF UnreadAt
  <2>4. CASE i > Len(b) + m
    <3>1. /\ i - (Len(b) + m) \in 1 .. Len(s) - m /\ ~(i <= Len(b)) /\ ~(i <= Len(b) + m)
          /\ m + (i - (Len(b) + m)) = i - Len(b)
      BY <1>1, <2>1, <2>4
    <3>2. y[i - (Len(b) + m)] = s[i - Len(b)]
      BY <1>2, <3>1
    <3> QED BY <2>1, <3>1, <3>2 DEF UnreadAt
  <2> QED BY <1>1, <2>1, <2>2, <2>3, <2>4
<1>6. Unread(b2, 0, y) = Unread(b, 0, s)
  BY <1>4, <1>5 DEF Unread
<1>7. 0 \in 0 .. Len(b2)
  BY <1>1, <1>3
<1> QED BY <1>2, <1>3, <1>4, <1>6, <1>7 DEF InStream, b2, x, y

\* What is handled is cut off the buffer.
LEMMA StreamCut ==
    ASSUME NEW b, NEW o, NEW s, NEW S, NEW h, NEW H, InStream(b, o, s, S, h, H)
    PROVE  /\ InStream(SubSeq(b, o + 1, Len(b)), 0, s, S, h, H)
           /\ Len(SubSeq(b, o + 1, Len(b))) = Len(b) - o
<1> DEFINE b2 == SubSeq(b, o + 1, Len(b))
<1>1. /\ b \in Seq(Byte) /\ s \in Seq(Byte) /\ Len(b) \in Nat /\ Len(s) \in Nat
      /\ o \in 0 .. Len(b)
  BY DEF InStream
<1>2. /\ b2 \in Seq(Byte) /\ Len(b2) = Len(b) - o /\ Len(b) - o \in Nat
      /\ \A i \in 1 .. Len(b) - o : b2[i] = b[o + i]
  BY <1>1
<1> HIDE DEF b2
<1>3. UnreadLen(b2, 0, s) = UnreadLen(b, o, s)
  BY <1>1, <1>2 DEF UnreadLen
<1>4. ASSUME NEW i \in 1 .. UnreadLen(b, o, s)
      PROVE  UnreadAt(b2, 0, s, i) = UnreadAt(b, o, s, i)
  <2>1. i \in Nat /\ i >= 1 /\ Len(b2) - 0 = Len(b) - o /\ 0 + i = i
    BY <1>1, <1>2 DEF UnreadLen
  <2>2. i <= Len(b) - o => b2[i] = b[o + i]
    BY <1>2, <2>1
  <2> QED BY <2>1, <2>2 DEF UnreadAt
<1>5. Unread(b2, 0, s) = Unread(b, o, s)
  BY <1>3, <1>4 DEF Unread
<1>6. 0 \in 0 .. Len(b2)
  BY <1>2
<1> QED BY <1>1, <1>2, <1>3, <1>5, <1>6 DEF InStream, b2

\* A frame is sent: its bytes go to the end of the stream.
LEMMA StreamSend ==
    ASSUME NEW b, NEW o, NEW s, NEW S, NEW h \in Nat, NEW H \in Nat \ {0},
           InStream(b, o, s, S, h, H), Frames(S), NEW l \in Nat, NEW w,
           w = [k \in 1 .. H + l |-> <<Len(S) + 1, k>>],
           NEW S2, Frames(S2), Len(S2) = Len(S) + 1, S2[Len(S) + 1].len = l,
           \A f \in 1 .. Len(S) : S2[f] = S[f]
    PROVE  InStream(b, o, s \o w, S2, h, H)
<1> DEFINE F == Len(S)
           L == H + l
           n == UnreadLen(b, o, s)
           u == Unread(b, o, s)
           s2 == s \o w
           u2 == Unread(b, o, s2)
           sz == Sizes(H, S)
           sz2 == Sizes(H, S2)
<1>1. /\ b \in Seq(Byte) /\ s \in Seq(Byte) /\ Len(b) \in Nat /\ Len(s) \in Nat
      /\ o \in 0 .. Len(b) /\ InFrames(u, n, F, sz, h)
  BY DEF InStream
<1>2. F \in Nat /\ L \in Nat \ {0}
  BY DEF Frames
<1>3. n \in Nat /\ n = (Len(b) - o) + Len(s) /\ Len(b) - o \in Nat
  BY <1>1 DEF UnreadLen
<1>4. sz \in [1 .. F -> Nat \ {0}] /\ sz2 \in [1 .. F + 1 -> Nat \ {0}]
  BY SizesType
<1>5. sz2[F + 1] = L /\ \A f \in 1 .. F : sz2[f] = sz[f]
  <2>1. F + 1 \in 1 .. Len(S2)
    BY <1>2
  <2>2. ASSUME NEW f \in 1 .. F
        PROVE  f \in 1 .. Len(S2)
    BY <1>2
  <2> QED BY <2>1, <2>2 DEF Sizes
<1>6. w \in Seq(Byte) /\ Len(w) = L /\ \A k \in 1 .. L : w[k] = <<F + 1, k>>
  <2>1. ASSUME NEW k \in 1 .. L
        PROVE  <<F + 1, k>> \in Byte
    BY <1>2 DEF Byte
  <2> HIDE DEF F, L
  <2>2. w = [k \in 1 .. L |-> <<F + 1, k>>]
    BY DEF F, L
  <2> QED BY <1>2, <2>1, <2>2
<1> HIDE DEF F, L
<1>7. /\ s2 \in Seq(Byte) /\ Len(s2) = Len(s) + L
      /\ \A i \in 1 .. Len(s) : s2[i] = s[i]
      /\ \A k \in 1 .. L : s2[Len(s) + k] = w[k]
  <2>1. s2 \in Seq(Byte) /\ Len(s2) = Len(s) + L
    BY <1>1, <1>6
  <2>2. ASSUME NEW i \in 1 .. Len(s)
        PROVE  s2[i] = s[i]
    BY <1>1, <1>6
  <2>3. ASSUME NEW k \in 1 .. L
        PROVE  s2[Len(s) + k] = w[k]
    BY <1>1, <1>2, <1>6
  <2> QED BY <2>1, <2>2, <2>3
<1> HIDE DEF s2
<1>8. UnreadLen(b, o, s2) = n + L
  BY <1>1, <1>2, <1>3, <1>7 DEF UnreadLen
<1>9. /\ \A i \in 1 .. n : u[i] = UnreadAt(b, o, s, i)
      /\ \A i \in 1 .. n + L : u2[i] = UnreadAt(b, o, s2, i)
  BY <1>8 DEF Unread
<1> HIDE DEF n, u, u2, sz, sz2
<1>10. ASSUME NEW i \in 1 .. n
       PROVE  u2[i] = u[i]
  <2>1. i \in 1 .. n + L
    BY <1>2, <1>3
  <2>2. ~(i <= Len(b) - o) => i - (Len(b) - o) \in 1 .. Len(s)
    BY <1>1, <1>3
  <2>3. UnreadAt(b, o, s2, i) = UnreadAt(b, o, s, i)
    BY <1>7, <2>2 DEF UnreadAt
  <2> QED BY <1>9, <2>1, <2>3
<1>11. ASSUME NEW k \in 1 .. L
       PROVE  u2[n + k] = <<F + 1, k>>
  <2>1. /\ n + k \in 1 .. n + L /\ ~(n + k <= Len(b) - o)
        /\ (n + k) - (Len(b) - o) = Len(s) + k
    <3>1. k \in Nat /\ k >= 1 /\ k <= L /\ L \in Nat /\ Len(b) \in Nat /\ Len(s) \in Nat /\ o \in Nat
      BY <1>1, <1>2
    <3> QED BY <1>3, <3>1
  <2>2. UnreadAt(b, o, s2, n + k) = s2[Len(s) + k]
    BY <2>1 DEF UnreadAt
  <2> QED BY <1>6, <1>7, <1>9, <2>1, <2>2
<1>12. InFrames(u2, n + L, F + 1, sz2, h)
  <2>1. /\ n \in Nat /\ F \in Nat /\ L \in Nat \ {0} /\ InFrames(u, n, F, sz, h)
        /\ sz \in [1 .. F -> Nat \ {0}] /\ sz2 \in [1 .. F + 1 -> Nat \ {0}]
        /\ sz2[F + 1] = L /\ \A f \in 1 .. F : sz2[f] = sz[f]
    BY <1>1, <1>2, <1>3, <1>4, <1>5
  <2>2. \A i \in 1 .. n : u2[i] = u[i]
    BY <1>10
  <2>3. \A k \in 1 .. L : u2[n + k] = <<F + 1, k>>
    BY <1>11
  <2>4. Extended(u, n, F, sz, u2, L, sz2)
    BY <2>1, <2>2, <2>3, Zenon DEF Extended
  <2> QED BY <2>1, <2>4, AddFrame, Zenon
<1> QED BY <1>1, <1>7, <1>8, <1>12 DEF InStream, u2, sz2, s2, F

\* A header in the buffer is that of the next frame, and a frame in the buffer
\* is that frame: it may be handled.
LEMMA StreamTake ==
    ASSUME NEW b, NEW o, NEW s, NEW S, NEW h \in Nat, NEW H \in Nat \ {0},
           InStream(b, o, s, S, h, H), Frames(S), Len(b) - o >= H
    PROVE  /\ h + 1 \in 1 .. Len(S)
           /\ \A k \in 1 .. H : b[o + k] = <<h + 1, k>>
           /\ H + S[h + 1].len <= Len(b) - o =>
                  InStream(b, o + (H + S[h + 1].len), s, S, h + 1, H)
<1> DEFINE F == Len(S)
           n == UnreadLen(b, o, s)
           u == Unread(b, o, s)
           sz == Sizes(H, S)
           L == H + S[h + 1].len
<1>1. /\ b \in Seq(Byte) /\ s \in Seq(Byte) /\ Len(b) \in Nat /\ Len(s) \in Nat
      /\ o \in 0 .. Len(b) /\ InFrames(u, n, F, sz, h)
  BY DEF InStream
<1>2. n \in Nat \ {0} /\ n = (Len(b) - o) + Len(s) /\ F \in Nat
  BY <1>1 DEF UnreadLen, Frames
<1>3. sz \in [1 .. F -> Nat \ {0}]
  BY SizesType
<1>4. \A i \in 1 .. n : u[i] = UnreadAt(b, o, s, i)
  BY DEF Unread
<1>5. FirstWhole(u, n, F, sz, h)
  <2> HIDE DEF u, n, F, sz
  <2> QED BY <1>1, <1>2, <1>3, FirstFrame
<1>6. h + 1 \in 1 .. F /\ L \in 1 .. n /\ \A k \in 1 .. L : u[k] = <<h + 1, k>>
  <2>1. h + 1 \in 1 .. F
    BY <1>5 DEF FirstWhole
  <2>2. sz[h + 1] = L
    BY <2>1 DEF Sizes
  <2> HIDE DEF L, sz, u, n, F
  <2> QED BY <1>5, <2>1, <2>2 DEF FirstWhole
<1>7. S[h + 1].len \in Nat /\ sz[h + 1] = L
  BY <1>6 DEF Frames, Sizes
<1>8. ASSUME NEW k \in 1 .. H
      PROVE  b[o + k] = <<h + 1, k>>
  <2>1. k \in 1 .. L /\ k \in 1 .. n /\ k <= Len(b) - o
    <3>1. k \in Nat /\ k >= 1 /\ k <= H /\ Len(b) \in Nat /\ Len(s) \in Nat /\ o \in Nat
      BY <1>1
    <3>2. H <= L /\ L \in Nat
      BY <1>7
    <3> HIDE DEF L
    <3> QED BY <1>2, <3>1, <3>2
  <2>2. u[k] = b[o + k]
    BY <1>4, <2>1 DEF UnreadAt
  <2> QED BY <1>6, <2>1, <2>2
<1>9. ASSUME L <= Len(b) - o
      PROVE  InStream(b, o + L, s, S, h + 1, H)
  <2> DEFINE u2 == Unread(b, o + L, s)
             m == UnreadLen(b, o + L, s)
  <2>1. L \in Nat /\ o \in Nat /\ o <= Len(b)
    BY <1>1, <1>7
  <2> HIDE DEF L
  <2>2. o + L \in 0 .. Len(b) /\ m = n - L /\ m \in Nat /\ Len(b) - (o + L) = (Len(b) - o) - L
    BY <1>1, <1>2, <1>9, <2>1 DEF UnreadLen
  <2>3. \A i \in 1 .. m : u2[i] = UnreadAt(b, o + L, s, i)
    BY DEF Unread
  <2> HIDE DEF u2, m, u, n
  <2>4. ASSUME NEW i \in 1 .. m
        PROVE  u2[i] = u[i + L]
    <3>1. i \in Nat /\ i + L \in 1 .. n
      BY <1>2, <2>1, <2>2
    <3>2. /\ (i <= Len(b) - (o + L)) <=> (i + L <= Len(b) - o)
          /\ (o + L) + i = o + (i + L)
          /\ i - (Len(b) - (o + L)) = (i + L) - (Len(b) - o)
      BY <1>1, <2>1, <3>1
    <3>3. UnreadAt(b, o + L, s, i) = UnreadAt(b, o, s, i + L)
      BY <3>2 DEF UnreadAt
    <3> QED BY <1>4, <2>3, <3>1, <3>3
  <2>5. InFrames(u2, n - sz[h + 1], F, sz, h + 1)
    <3>1. \A i \in 1 .. n - sz[h + 1] : u2[i] = u[i + sz[h + 1]]
      BY <1>7, <2>2, <2>4
    <3> HIDE DEF F, sz
    <3> QED BY <1>1, <1>2, <1>3, <3>1, DropFrame
  <2>6. InFrames(u2, m, F, sz, h + 1)
    BY <1>7, <2>2, <2>5
  <2> QED BY <1>1, <2>2, <2>6 DEF InStream, u2, m
<1> QED BY <1>6, <1>8, <1>9

-----------------------------------------------------------------------------
(* What is handled is a prefix of what was sent.                           *)

Prefix(s, t) == Len(s) <= Len(t) /\ \A i \in 1 .. Len(s) : s[i] = t[i]

\* A prefix, as HandledInOrder has it.
LEMMA PrefixIsSubSeq ==
    ASSUME NEW R, NEW s \in Seq(R), NEW t \in Seq(R), Prefix(s, t)
    PROVE  \E n \in 0 .. Len(t) : s = SubSeq(t, 1, n)
<1> DEFINE x == SubSeq(t, 1, Len(s))
<1>1. Len(s) \in 0 .. Len(t)
  BY DEF Prefix
<1>2. x \in Seq(R) /\ Len(x) = Len(s) /\ \A i \in 1 .. Len(s) : x[i] = t[i]
  BY <1>1
<1> HIDE DEF x
<1>3. s = x
  BY <1>2 DEF Prefix
<1> QED BY <1>1, <1>3 DEF x

\* A frame is sent.
LEMMA PrefixSend ==
    ASSUME NEW R, NEW s \in Seq(R), NEW t \in Seq(R), Prefix(s, t), NEW r \in R
    PROVE  Prefix(s, Append(t, r))
<1>1. Len(Append(t, r)) = Len(t) + 1 /\ \A i \in 1 .. Len(t) : Append(t, r)[i] = t[i]
  OBVIOUS
<1>2. Len(s) \in Nat /\ Len(t) \in Nat /\ Len(s) <= Len(t)
  BY DEF Prefix
<1>3. ASSUME NEW i \in 1 .. Len(s)
      PROVE  i \in 1 .. Len(t)
  BY <1>2
<1> QED BY <1>1, <1>2, <1>3 DEF Prefix

\* The next frame is handled.
LEMMA PrefixTake ==
    ASSUME NEW R, NEW s \in Seq(R), NEW t \in Seq(R), Prefix(s, t), Len(s) + 1 \in 1 .. Len(t)
    PROVE  Prefix(Append(s, t[Len(s) + 1]), t)
<1> DEFINE r == t[Len(s) + 1]
<1>1. Len(s) \in Nat /\ Len(t) \in Nat /\ r \in R
  OBVIOUS
<1>2. r = t[Len(s) + 1]
  OBVIOUS
<1> HIDE DEF r
<1>3. /\ Len(Append(s, r)) = Len(s) + 1 /\ \A i \in 1 .. Len(s) : Append(s, r)[i] = s[i]
      /\ Append(s, r)[Len(s) + 1] = r
  BY <1>1
<1>4. ASSUME NEW i \in 1 .. Len(s) + 1
      PROVE  Append(s, r)[i] = t[i]
  <2>1. i \in 1 .. Len(s) \/ i = Len(s) + 1
    BY <1>1
  <2> QED BY <1>2, <1>3, <2>1 DEF Prefix
<1> QED BY <1>1, <1>3, <1>4 DEF Prefix, r

\* Frames of the types that are sent have lengths.
LEMMA FramesType ==
    ASSUME NEW R, \A r \in R : r.len \in Nat, NEW t \in Seq(R)
    PROVE  Frames(t)
<1>1. ASSUME NEW f \in 1 .. Len(t)
      PROVE  t[f].len \in Nat
  <2>1. t[f] \in R
    OBVIOUS
  <2> QED BY <2>1
<1> QED BY <1>1 DEF Frames

\* A longer sequence of frames.
LEMMA FramesSend ==
    ASSUME NEW R, \A r \in R : r.len \in Nat, NEW t \in Seq(R), NEW e \in R
    PROVE  /\ Frames(t) /\ Frames(Append(t, e)) /\ Len(Append(t, e)) = Len(t) + 1
           /\ Append(t, e)[Len(t) + 1] = e /\ \A f \in 1 .. Len(t) : Append(t, e)[f] = t[f]
<1>1. Append(t, e) \in Seq(R)
  OBVIOUS
<1>2. Frames(t) /\ Frames(Append(t, e))
  BY <1>1, FramesType
<1> QED BY <1>2

-----------------------------------------------------------------------------
(* The agent.                                                              *)

Message == [len : MessageLengths, kind : Agent!Kinds]
Off == IF pc = "handle" THEN offset ELSE 0

(* Between two receives the buffer holds no frame that is whole, and has   *)
(* room for more.                                                          *)
AgentWaits ==
    /\ Len(in_buf) < IN_MSG_BUF_SIZE
    /\ Len(in_buf) >= HEADER => Len(in_buf) < HEADER + sent[Len(handled) + 1].len

AgentInv ==
    /\ Agent!TypeOK
    /\ InStream(in_buf, Off, stream, sent, Len(handled), HEADER)
    /\ Prefix(handled, sent)
    /\ pc # "handle" => AgentWaits

\* What the invariant says of lengths.
LEMMA AgentFacts ==
    ASSUME AgentInv
    PROVE  /\ sent \in Seq(Message) /\ handled \in Seq(Message) /\ Frames(sent)
           /\ Len(sent) \in Nat /\ Len(handled) \in Nat /\ Len(in_buf) \in Nat
           /\ in_buf \in Seq(Byte) /\ stream \in Seq(Byte) /\ Off \in 0 .. Len(in_buf)
           /\ HEADER \in Nat \ {0} /\ IN_MSG_BUF_SIZE \in Nat /\ HEADER < IN_MSG_BUF_SIZE
           /\ Len(in_buf) <= IN_MSG_BUF_SIZE
           /\ \A r \in Message : r.len \in Nat
<1>1. sent \in Seq(Message) /\ handled \in Seq(Message) /\ Len(in_buf) <= IN_MSG_BUF_SIZE
  BY DEF AgentInv, Agent!TypeOK, Message
<1>2. \A r \in Message : r.len \in Nat
  BY MessageSizes DEF Message
<1>3. Frames(sent)
  BY <1>1, <1>2, FramesType
<1>4. in_buf \in Seq(Byte) /\ stream \in Seq(Byte) /\ Off \in 0 .. Len(in_buf)
  BY DEF AgentInv, InStream
<1> QED BY <1>1, <1>2, <1>3, <1>4, MessageSizes

\* A header in the buffer is that of the next frame.
LEMMA AgentHeader ==
    ASSUME AgentInv, Len(in_buf) - Off >= HEADER
    PROVE  /\ Len(handled) + 1 \in 1 .. Len(sent)
           /\ sent[Len(handled) + 1] \in Message
           /\ \A k \in 1 .. HEADER : in_buf[Off + k] = <<Len(handled) + 1, k>>
           /\ in_buf[Off + 1][1] = Len(handled) + 1
           /\ HEADER + sent[Len(handled) + 1].len <= Len(in_buf) - Off =>
                  InStream(in_buf, Off + (HEADER + sent[Len(handled) + 1].len), stream, sent,
                           Len(handled) + 1, HEADER)
<1>1. InStream(in_buf, Off, stream, sent, Len(handled), HEADER)
  BY DEF AgentInv
<1>2. /\ sent \in Seq(Message) /\ Frames(sent) /\ Len(handled) \in Nat /\ HEADER \in Nat \ {0}
  BY AgentFacts
<1>3. /\ Len(handled) + 1 \in 1 .. Len(sent)
      /\ \A k \in 1 .. HEADER : in_buf[Off + k] = <<Len(handled) + 1, k>>
      /\ HEADER + sent[Len(handled) + 1].len <= Len(in_buf) - Off =>
             InStream(in_buf, Off + (HEADER + sent[Len(handled) + 1].len), stream, sent,
                      Len(handled) + 1, HEADER)
  BY <1>1, <1>2, StreamTake
<1>4. 1 \in 1 .. HEADER
  BY <1>2
<1>5. in_buf[Off + 1] = <<Len(handled) + 1, 1>>
  BY <1>3, <1>4
<1>6. sent[Len(handled) + 1] \in Message
  BY <1>2, <1>3
<1> QED BY <1>3, <1>5, <1>6

\* Nothing was sent yet, at first and on a new connection.
LEMMA AgentStart ==
    ASSUME sent = <<>>, stream = <<>>, in_buf = <<>>, offset = 0, pc = "idle", handled = <<>>,
           ready \in BOOLEAN
    PROVE  AgentInv
<1>1. Off = 0 /\ Len(<<>>) = 0
  BY DEF Off
<1>2. InStream(<<>>, 0, <<>>, <<>>, 0, HEADER)
  BY MessageSizes, StreamEmpty
<1>3. Agent!TypeOK
  <2>1. 0 <= IN_MSG_BUF_SIZE /\ 0 \in 0 .. IN_MSG_BUF_SIZE
    BY MessageSizes
  <2> QED BY <2>1 DEF Agent!TypeOK, Agent!NeverFull
<1>4. Prefix(handled, sent)
  BY DEF Prefix
<1>5. AgentWaits
  BY <1>1, MessageSizes DEF AgentWaits
<1> QED BY <1>1, <1>2, <1>3, <1>4, <1>5 DEF AgentInv

\* A new connection starts from nothing.
LEMMA AgentReset ==
    ASSUME AgentInv, Agent!Reset
    PROVE  AgentInv'
<1>1. /\ sent' = <<>> /\ stream' = <<>> /\ in_buf' = <<>> /\ offset' = 0 /\ pc' = "idle"
      /\ handled' = <<>> /\ ready' \in BOOLEAN
  BY DEF AgentInv, Agent!TypeOK, Agent!Reset
<1>2. Off' = 0 /\ Len(<<>>) = 0
  BY <1>1 DEF Off
<1>3. InStream(<<>>, 0, <<>>, <<>>, 0, HEADER)
  BY MessageSizes, StreamEmpty
<1>4. Agent!TypeOK'
  <2>1. 0 <= IN_MSG_BUF_SIZE /\ 0 \in 0 .. IN_MSG_BUF_SIZE
    BY MessageSizes
  <2> QED BY <1>1, <2>1 DEF Agent!TypeOK, Agent!NeverFull
<1>5. Prefix(handled, sent)'
  BY <1>1 DEF Prefix
<1>6. AgentWaits'
  BY <1>1, <1>2, MessageSizes DEF AgentWaits
<1> QED BY <1>1, <1>2, <1>3, <1>4, <1>5, <1>6 DEF AgentInv

\* The peer sends a frame.
LEMMA AgentPeerSends ==
    ASSUME AgentInv, NEW len \in MessageLengths, NEW kind \in Agent!Kinds,
           Agent!PeerSends(len, kind)
    PROVE  AgentInv'
<1> DEFINE e == [len |-> len, kind |-> kind]
           w == Agent!FrameBytes(Len(sent) + 1, len)
<1>1. /\ sent' = Append(sent, e) /\ stream' = stream \o w
      /\ UNCHANGED <<in_buf, offset, pc, handled, ready>>
  BY DEF Agent!PeerSends
<1>2. /\ e \in Message /\ e.len = len /\ len \in Nat
      /\ w = [k \in 1 .. HEADER + len |-> <<Len(sent) + 1, k>>]
  BY MessageSizes DEF Message, Agent!FrameBytes
<1>3. /\ sent \in Seq(Message) /\ handled \in Seq(Message) /\ Frames(sent)
      /\ Len(handled) \in Nat /\ HEADER \in Nat \ {0} /\ \A r \in Message : r.len \in Nat
  BY AgentFacts
<1> HIDE DEF e, w
<1>4. /\ Frames(sent') /\ Len(sent') = Len(sent) + 1 /\ sent'[Len(sent) + 1] = e
      /\ \A f \in 1 .. Len(sent) : sent'[f] = sent[f]
  <2>1. e \in Message /\ sent \in Seq(Message) /\ \A r \in Message : r.len \in Nat
    BY <1>2, <1>3
  <2> QED BY <1>1, <2>1, FramesSend
<1>5. Agent!TypeOK'
  <2>1. sent' \in Seq(Message)
    BY <1>1, <1>2, <1>3
  <2> QED BY <1>1, <2>1 DEF AgentInv, Agent!TypeOK, Agent!NeverFull, Message
<1>6. InStream(in_buf, Off, stream \o w, sent', Len(handled), HEADER)
  <2>1. InStream(in_buf, Off, stream, sent, Len(handled), HEADER)
    BY DEF AgentInv
  <2>2. sent'[Len(sent) + 1].len = len
    BY <1>2, <1>4
  <2> QED BY <1>2, <1>3, <1>4, <2>1, <2>2, StreamSend
<1>7. Prefix(handled, sent')
  BY <1>1, <1>2, <1>3, PrefixSend DEF AgentInv
<1>8. pc # "handle" => AgentWaits'
  <2> SUFFICES ASSUME pc # "handle"
               PROVE  AgentWaits'
    OBVIOUS
  <2>1. AgentWaits /\ Off = 0 /\ Len(in_buf) \in Nat
    BY AgentFacts DEF AgentInv, Off
  <2>2. Len(in_buf) >= HEADER => sent'[Len(handled) + 1] = sent[Len(handled) + 1]
    BY <1>4, <2>1, AgentHeader
  <2> QED BY <1>1, <2>1, <2>2 DEF AgentWaits
<1>9. Off' = Off
  BY <1>1 DEF Off
<1> QED BY <1>1, <1>5, <1>6, <1>7, <1>8, <1>9 DEF AgentInv

\* A read event changes only who is to run.
LEMMA AgentReadEvent ==
    ASSUME AgentInv, Agent!ReadEvent
    PROVE  AgentInv'
<1>1. /\ pc = "idle" /\ pc' = "recv" /\ UNCHANGED <<sent, stream, in_buf, offset, handled, ready>>
  BY DEF Agent!ReadEvent
<1>2. Off = 0 /\ Off' = 0 /\ AgentWaits /\ AgentWaits'
  BY <1>1 DEF AgentInv, Off, AgentWaits
<1>3. Agent!TypeOK'
  BY <1>1, <1>2 DEF AgentInv, AgentWaits, Agent!TypeOK, Agent!NeverFull
<1> QED BY <1>1, <1>2, <1>3 DEF AgentInv

\* Bytes are received, or there are none.
LEMMA AgentRecv ==
    ASSUME AgentInv, Agent!Recv
    PROVE  AgentInv'
<1>1. pc = "recv" /\ Off = 0 /\ AgentWaits /\ InStream(in_buf, 0, stream, sent, Len(handled), HEADER)
  BY DEF AgentInv, Off, Agent!Recv
<1>2. ASSUME NEW n \in 1 .. Len(stream), n <= IN_MSG_BUF_SIZE - Len(in_buf),
             in_buf' = in_buf \o SubSeq(stream, 1, n),
             stream' = SubSeq(stream, n + 1, Len(stream)),
             offset' = 0, pc' = "handle", UNCHANGED <<sent, handled, ready>>
      PROVE  AgentInv'
  <2>1. InStream(in_buf', 0, stream', sent, Len(handled), HEADER)
    BY <1>1, <1>2, StreamRecv
  <2>2. Len(in_buf') <= IN_MSG_BUF_SIZE
    <3>1. /\ in_buf \in Seq(Byte) /\ stream \in Seq(Byte) /\ Len(in_buf) \in Nat
          /\ IN_MSG_BUF_SIZE \in Nat
      BY AgentFacts
    <3>2. SubSeq(stream, 1, n) \in Seq(Byte) /\ Len(SubSeq(stream, 1, n)) = n
      BY <3>1
    <3>3. Len(in_buf') = Len(in_buf) + n
      BY <1>2, <3>1, <3>2
    <3> QED BY <1>2, <3>1, <3>3
  <2>3. 0 \in 0 .. IN_MSG_BUF_SIZE
    BY MessageSizes
  <2>4. Agent!TypeOK'
    BY <1>2, <2>2, <2>3 DEF AgentInv, Agent!TypeOK, Agent!NeverFull
  <2>5. Off' = 0
    BY <1>2 DEF Off
  <2> QED BY <1>2, <2>1, <2>4, <2>5 DEF AgentInv
<1>3. ASSUME pc' = "idle", UNCHANGED <<sent, stream, in_buf, offset, handled, ready>>
      PROVE  AgentInv'
  <2>1. Off' = 0 /\ AgentWaits'
    BY <1>1, <1>3 DEF Off, AgentWaits
  <2>2. Agent!TypeOK'
    BY <1>3 DEF AgentInv, Agent!TypeOK, Agent!NeverFull
  <2> QED BY <1>1, <1>3, <2>1, <2>2 DEF AgentInv
<1> QED BY <1>2, <1>3, AgentReset DEF Agent!Recv

\* HandleMsgStream reads the length of the next frame, and only that.
LEMMA AgentReadsHeader ==
    ASSUME AgentInv, pc = "handle"
    PROVE  /\ Off = offset /\ Agent!Left = Len(in_buf) - Off /\ Agent!Left \in Nat
           /\ Agent!Left >= HEADER =>
                  /\ Agent!IsHeader
                  /\ Agent!Header = sent[Len(handled) + 1]
                  /\ Agent!Header.len \in Nat
<1>1. Off = offset /\ Agent!Left = Len(in_buf) - Off
  BY DEF Off, Agent!Left
<1>2. Agent!Left \in Nat
  BY <1>1, AgentFacts
<1>3. ASSUME Agent!Left >= HEADER
      PROVE  /\ Agent!IsHeader
             /\ Agent!Header = sent[Len(handled) + 1] /\ Agent!Header.len \in Nat
  <2>1. /\ Len(handled) + 1 \in 1 .. Len(sent) /\ sent[Len(handled) + 1] \in Message
        /\ \A k \in 1 .. HEADER : in_buf[offset + k] = <<Len(handled) + 1, k>>
        /\ in_buf[offset + 1][1] = Len(handled) + 1
    BY <1>1, <1>3, AgentHeader
  <2>2. Agent!IsHeader
    BY <1>3, <2>1 DEF Agent!IsHeader
  <2>3. Agent!Header = sent[Len(handled) + 1]
    BY <2>1 DEF Agent!Header
  <2>4. \A r \in Message : r.len \in Nat
    BY AgentFacts
  <2> QED BY <2>1, <2>2, <2>3, <2>4
<1> QED BY <1>1, <1>2, <1>3

\* The bytes that are left over stay in the buffer, and leave room for the rest.
LEMMA AgentHandleStops ==
    ASSUME AgentInv, Agent!HandleStops
    PROVE  AgentInv'
<1> DEFINE l == Agent!Left
<1>1. /\ pc = "handle" /\ pc' = "recv" /\ in_buf' = SubSeq(in_buf, offset + 1, Len(in_buf))
      /\ UNCHANGED <<sent, stream, offset, handled, ready>>
      /\ \/ l < HEADER
         \/ /\ Agent!IsHeader /\ ~Agent!TooLong(Agent!Header.len)
            /\ Agent!Incomplete(Agent!Header.len)
  BY DEF Agent!HandleStops, Agent!Return
<1>2. Off = offset /\ l = Len(in_buf) - offset /\ l \in Nat /\ Off' = 0
  BY <1>1, AgentReadsHeader DEF Off
<1>3. InStream(in_buf', 0, stream, sent, Len(handled), HEADER) /\ Len(in_buf') = l
  BY <1>1, <1>2, StreamCut DEF AgentInv
<1>4. HEADER \in Nat /\ IN_MSG_BUF_SIZE \in Nat /\ HEADER < IN_MSG_BUF_SIZE
  BY MessageSizes
<1>5. CASE l < HEADER
  <2>1. AgentWaits'
    <3> HIDE DEF l
    <3>1. l < IN_MSG_BUF_SIZE /\ ~(l >= HEADER)
      BY <1>2, <1>4, <1>5
    <3> QED BY <1>1, <1>3, <3>1 DEF AgentWaits
  <2>2. Agent!TypeOK'
    <3>1. Len(in_buf') < IN_MSG_BUF_SIZE /\ Len(in_buf') <= IN_MSG_BUF_SIZE
      <4>1. l < IN_MSG_BUF_SIZE
        BY <1>3, <2>1 DEF AgentWaits
      <4> HIDE DEF l
      <4> QED BY <1>2, <1>3, <1>4, <4>1
    <3> QED BY <1>1, <3>1 DEF AgentInv, Agent!TypeOK, Agent!NeverFull
  <2> QED BY <1>1, <1>2, <1>3, <2>1, <2>2 DEF AgentInv
<1>6. CASE /\ l >= HEADER /\ Agent!IsHeader /\ ~Agent!TooLong(Agent!Header.len)
           /\ Agent!Incomplete(Agent!Header.len)
  <2>1. Agent!Header = sent[Len(handled) + 1] /\ Agent!Header.len \in Nat
    BY <1>1, <1>6, AgentReadsHeader
  <2>2. /\ l < HEADER + sent[Len(handled) + 1].len
        /\ sent[Len(handled) + 1].len <= IN_MSG_BUF_SIZE - HEADER
    BY <1>2, <1>4, <1>6, <2>1 DEF Agent!TooLong, Agent!Incomplete
  <2>3. AgentWaits'
    <3> HIDE DEF l
    <3>1. l < IN_MSG_BUF_SIZE
      BY <1>2, <1>4, <2>1, <2>2
    <3> QED BY <1>1, <1>3, <2>2, <3>1 DEF AgentWaits
  <2>4. Agent!TypeOK'
    <3>1. Len(in_buf') < IN_MSG_BUF_SIZE /\ Len(in_buf') <= IN_MSG_BUF_SIZE
      <4>1. l < IN_MSG_BUF_SIZE
        BY <1>3, <2>3 DEF AgentWaits
      <4> HIDE DEF l
      <4> QED BY <1>2, <1>3, <1>4, <4>1
    <3> QED BY <1>1, <3>1 DEF AgentInv, Agent!TypeOK, Agent!NeverFull
  <2> QED BY <1>1, <1>2, <1>3, <2>3, <2>4 DEF AgentInv
<1>7. l < HEADER \/ l >= HEADER
  BY <1>2, <1>4
<1> QED BY <1>1, <1>5, <1>6, <1>7

\* The next frame is handled.
LEMMA AgentHandleFrame ==
    ASSUME AgentInv, Agent!HandleFrame
    PROVE  AgentInv'
<1> DEFINE r == sent[Len(handled) + 1]
           L == HEADER + r.len
<1>1. /\ pc = "handle" /\ Agent!IsHeader /\ ~Agent!Incomplete(Agent!Header.len)
      /\ handled' = Append(handled, Agent!Header)
      /\ ready' = (ready \/ Agent!Header.kind = "hello")
      /\ offset' = offset + HEADER + Agent!Header.len
      /\ UNCHANGED <<sent, stream, in_buf, pc>>
  BY DEF Agent!HandleFrame
<1>2. Agent!Left >= HEADER
  BY <1>1 DEF Agent!IsHeader
<1>3. /\ Off = offset /\ Agent!Left = Len(in_buf) - Off /\ Agent!Left \in Nat
      /\ Agent!Header = r /\ r.len \in Nat
  BY <1>1, <1>2, AgentReadsHeader
<1>4. /\ Len(handled) + 1 \in 1 .. Len(sent) /\ r \in Message
      /\ L <= Len(in_buf) - Off =>
             InStream(in_buf, Off + L, stream, sent, Len(handled) + 1, HEADER)
  BY <1>2, <1>3, AgentHeader
<1>5. /\ sent \in Seq(Message) /\ handled \in Seq(Message) /\ Len(in_buf) \in Nat
      /\ Off \in 0 .. Len(in_buf) /\ HEADER \in Nat /\ IN_MSG_BUF_SIZE \in Nat
      /\ Len(in_buf) <= IN_MSG_BUF_SIZE
  BY AgentFacts
<1>6. L <= Len(in_buf) - Off /\ L \in Nat
  <2>1. ~(HEADER + r.len > Agent!Left)
    BY <1>1, <1>3 DEF Agent!Incomplete
  <2> HIDE DEF r
  <2> QED BY <1>3, <1>5, <2>1
<1>7. offset' = Off + L /\ Off' = Off + L /\ Off + L \in 0 .. IN_MSG_BUF_SIZE
  <2> HIDE DEF r
  <2>1. offset' = Off + L
    BY <1>1, <1>3, <1>5
  <2>2. Off' = offset'
    BY <1>1 DEF Off
  <2> HIDE DEF L
  <2> QED BY <1>5, <1>6, <2>1, <2>2
<1>8. Prefix(handled', sent) /\ handled' \in Seq(Message) /\ Len(handled') = Len(handled) + 1
  <2>1. Prefix(Append(handled, r), sent)
    BY <1>4, <1>5, PrefixTake DEF AgentInv
  <2> QED BY <1>1, <1>3, <1>4, <1>5, <2>1
<1>9. Agent!TypeOK'
  <2>1. ready' \in BOOLEAN
    BY <1>1 DEF AgentInv, Agent!TypeOK
  <2> QED BY <1>1, <1>7, <1>8, <2>1 DEF AgentInv, Agent!TypeOK, Agent!NeverFull, Message
<1> HIDE DEF r, L
<1> QED BY <1>1, <1>4, <1>6, <1>7, <1>8, <1>9 DEF AgentInv

\* Every step of the agent and of its peer.
LEMMA AgentNext ==
    ASSUME AgentInv, Agent!Next
    PROVE  AgentInv'
<1>1. CASE Agent!HandleFails
  BY <1>1, AgentReset DEF Agent!HandleFails
<1> QED BY <1>1, AgentPeerSends, AgentReadEvent, AgentRecv, AgentHandleStops, AgentHandleFrame
        DEF Agent!Next

\* The agent handles frames in order.
LEMMA AgentInOrder ==
    ASSUME AgentInv
    PROVE  Agent!TypeOK /\ Agent!HandledInOrder
<1>1. \E n \in 0 .. Len(sent) : handled = SubSeq(sent, 1, n)
  BY AgentFacts, PrefixIsSubSeq DEF AgentInv
<1>2. pc = "handle" /\ Agent!Left >= HEADER => Agent!IsHeader
  BY AgentReadsHeader
<1>3. pc = "idle" /\ Len(in_buf) >= HEADER =>
          Len(in_buf) < HEADER + sent[Len(handled) + 1].len
  BY DEF AgentInv, AgentWaits
<1> QED BY <1>1, <1>2, <1>3 DEF AgentInv, Agent!HandledInOrder

-----------------------------------------------------------------------------
(* The collector-agent.                                                    *)

Packet == [len : PacketLengths, type : Collector!Types]

(* Before a read the buffer holds no packet that is whole, and it is full  *)
(* only when it was compacted.                                             *)
CollectorWaits ==
    /\ ~Collector!Whole /\ ~Collector!Oversized
    /\ Collector!inOffset = RecvBufSize => packetOffset = 0

CollectorInv ==
    /\ Collector!TypeOK
    /\ InStream(unparsed, 0, stream, sent, Len(handled), CLIENT_HEADER_SIZE)
    /\ Prefix(handled, sent)
    /\ pc = "read" => CollectorWaits
    /\ Collector!HalfIsEnough

\* What the invariant says of lengths.
LEMMA CollectorFacts ==
    ASSUME CollectorInv
    PROVE  /\ sent \in Seq(Packet) /\ handled \in Seq(Packet) /\ Frames(sent)
           /\ Len(sent) \in Nat /\ Len(handled) \in Nat
           /\ unparsed \in Seq(Byte) /\ stream \in Seq(Byte) /\ Len(unparsed) \in Nat
           /\ packetOffset \in Nat /\ packetOffset + Len(unparsed) <= RecvBufSize
           /\ CLIENT_HEADER_SIZE \in Nat \ {0} /\ RecvBufSize \in Nat
           /\ CLIENT_HEADER_SIZE <= RecvBufSize \div 2 /\ RecvBufSize \div 2 < RecvBufSize
           /\ \A r \in Packet : r.len \in Nat
<1>1. /\ sent \in Seq(Packet) /\ handled \in Seq(Packet) /\ packetOffset \in 0 .. RecvBufSize
      /\ packetOffset + Len(unparsed) <= RecvBufSize
  BY DEF CollectorInv, Collector!TypeOK, Collector!inOffset, Packet
<1>2. \A r \in Packet : r.len \in Nat
  BY PacketSizes DEF Packet
<1>3. Frames(sent)
  BY <1>1, <1>2, FramesType
<1>4. unparsed \in Seq(Byte) /\ stream \in Seq(Byte)
  BY DEF CollectorInv, InStream
<1>5. CLIENT_HEADER_SIZE \in Nat \ {0} /\ RecvBufSize \in Nat /\ RecvBufSize >= 2 * CLIENT_HEADER_SIZE
  BY PacketSizes
<1>6. CLIENT_HEADER_SIZE <= RecvBufSize \div 2 /\ RecvBufSize \div 2 < RecvBufSize
  BY <1>5
<1>7. packetOffset \in Nat
  BY <1>1, <1>5
<1> QED BY <1>1, <1>2, <1>3, <1>4, <1>5, <1>6, <1>7

\* matchFullPacket reads the length of the next packet, and only that.
LEMMA CollectorHeader ==
    ASSUME CollectorInv, Collector!HasHeader
    PROVE  /\ Len(handled) + 1 \in 1 .. Len(sent)
           /\ sent[Len(handled) + 1] \in Packet
           /\ unparsed[1][1] = Len(handled) + 1
           /\ Collector!InStep
           /\ Collector!bodyLen = sent[Len(handled) + 1].len
           /\ Collector!bodyLen \in Nat
           /\ CLIENT_HEADER_SIZE + Collector!bodyLen <= Len(unparsed) =>
                  InStream(unparsed, CLIENT_HEADER_SIZE + Collector!bodyLen, stream, sent,
                           Len(handled) + 1, CLIENT_HEADER_SIZE)
<1> DEFINE H == CLIENT_HEADER_SIZE
           h == Len(handled)
<1>1. InStream(unparsed, 0, stream, sent, h, H)
  BY DEF CollectorInv
<1>2. /\ sent \in Seq(Packet) /\ Frames(sent) /\ h \in Nat /\ H \in Nat \ {0}
      /\ Len(unparsed) \in Nat /\ \A r \in Packet : r.len \in Nat
  BY CollectorFacts
<1>3. Len(unparsed) - 0 >= H
  BY <1>2 DEF Collector!HasHeader, Collector!total
<1>4. /\ h + 1 \in 1 .. Len(sent) /\ \A k \in 1 .. H : unparsed[0 + k] = <<h + 1, k>>
      /\ H + sent[h + 1].len <= Len(unparsed) - 0 =>
             InStream(unparsed, 0 + (H + sent[h + 1].len), stream, sent, h + 1, H)
  <2> DEFINE o == 0
  <2>1. /\ InStream(unparsed, o, stream, sent, h, H) /\ Len(unparsed) - o >= H
        /\ Frames(sent) /\ h \in Nat /\ H \in Nat \ {0}
    BY <1>1, <1>2, <1>3
  <2> HIDE DEF o, h, H
  <2>2. /\ h + 1 \in 1 .. Len(sent) /\ \A k \in 1 .. H : unparsed[o + k] = <<h + 1, k>>
        /\ H + sent[h + 1].len <= Len(unparsed) - o =>
               InStream(unparsed, o + (H + sent[h + 1].len), stream, sent, h + 1, H)
    BY <2>1, StreamTake
  <2> QED BY <2>2 DEF o
<1>5. sent[h + 1] \in Packet
  BY <1>2, <1>4
<1>6. sent[h + 1].len \in Nat
  BY <1>2, <1>5
<1>7. \A k \in 1 .. H : unparsed[k] = <<h + 1, k>>
  <2>1. ASSUME NEW k \in 1 .. H
        PROVE  unparsed[k] = <<h + 1, k>>
    <3>1. 0 + k = k
      BY <1>2
    <3> QED BY <1>4, <3>1
  <2> QED BY <2>1
<1>8. unparsed[1][1] = h + 1
  <2>1. 1 \in 1 .. H
    BY <1>2
  <2>2. unparsed[1] = <<h + 1, 1>>
    BY <1>7, <2>1
  <2> QED BY <2>2
<1>9. Collector!InStep
  BY <1>4, <1>7 DEF Collector!InStep
<1>10. Collector!bodyLen = sent[h + 1].len
  BY <1>8 DEF Collector!bodyLen
<1>11. 0 + (H + sent[h + 1].len) = H + sent[h + 1].len /\ Len(unparsed) - 0 = Len(unparsed)
  BY <1>2, <1>6
<1> QED BY <1>4, <1>5, <1>6, <1>8, <1>9, <1>10, <1>11

\* A connection starts with nothing sent.
LEMMA CollectorStart ==
    ASSUME Collector!Init
    PROVE  CollectorInv
<1>1. Len(<<>>) = 0 /\ ~Collector!HasHeader /\ Collector!inOffset = 0
  BY PacketSizes DEF Collector!Init, Collector!HasHeader, Collector!total, Collector!inOffset
<1>2. InStream(<<>>, 0, <<>>, <<>>, 0, CLIENT_HEADER_SIZE)
  BY PacketSizes, StreamEmpty
<1>3. Collector!TypeOK
  <2>1. 0 \in 0 .. RecvBufSize /\ 0 <= RecvBufSize
    BY PacketSizes
  <2> QED BY <1>1, <2>1 DEF Collector!Init, Collector!TypeOK
<1>4. Prefix(handled, sent)
  BY DEF Collector!Init, Prefix
<1>5. CollectorWaits
  BY <1>1 DEF Collector!Init, CollectorWaits, Collector!Whole, Collector!Oversized
<1>6. Collector!HalfIsEnough
  BY DEF Collector!Init, Collector!HalfIsEnough
<1> QED BY <1>1, <1>2, <1>3, <1>4, <1>5, <1>6 DEF CollectorInv, Collector!Init

\* What matchFullPacket finds depends on the unparsed bytes alone.
LEMMA CollectorSame ==
    ASSUME unparsed' = unparsed, Collector!HasHeader => Collector!bodyLen' = Collector!bodyLen
    PROVE  /\ Collector!HasHeader' <=> Collector!HasHeader
           /\ Collector!Oversized' <=> Collector!Oversized
           /\ Collector!Whole' <=> Collector!Whole
<1>1. Collector!total' = Collector!total
  BY DEF Collector!total
<1>2. Collector!HasHeader' <=> Collector!HasHeader
  BY <1>1 DEF Collector!HasHeader
<1>3. Collector!Oversized' <=> Collector!Oversized
  BY <1>2 DEF Collector!Oversized
<1> QED BY <1>1, <1>2, <1>3 DEF Collector!Whole

\* The client sends a packet.
LEMMA CollectorClientSends ==
    ASSUME CollectorInv, NEW len \in PacketLengths, NEW type \in Collector!Types,
           Collector!ClientSends(len, type)
    PROVE  CollectorInv'
<1> DEFINE e == [len |-> len, type |-> type]
           w == Collector!PacketBytes(Len(sent) + 1, len)
           H == CLIENT_HEADER_SIZE
<1>1. /\ sent' = Append(sent, e) /\ stream' = stream \o w
      /\ UNCHANGED <<open, packetOffset, unparsed, pc, handled>>
  BY DEF Collector!ClientSends
<1>2. /\ e \in Packet /\ e.len = len /\ len \in Nat
      /\ w = [k \in 1 .. H + len |-> <<Len(sent) + 1, k>>]
  BY PacketSizes DEF Packet, Collector!PacketBytes
<1>3. /\ sent \in Seq(Packet) /\ handled \in Seq(Packet) /\ Frames(sent)
      /\ Len(handled) \in Nat /\ H \in Nat \ {0} /\ \A r \in Packet : r.len \in Nat
  BY CollectorFacts
<1> HIDE DEF e, w, H
<1>4. /\ Frames(sent') /\ Len(sent') = Len(sent) + 1 /\ sent'[Len(sent) + 1] = e
      /\ \A f \in 1 .. Len(sent) : sent'[f] = sent[f]
  <2>1. e \in Packet /\ sent \in Seq(Packet) /\ \A r \in Packet : r.len \in Nat
    BY <1>2, <1>3
  <2> QED BY <1>1, <2>1, FramesSend
<1>5. Collector!TypeOK'
  <2>1. sent' \in Seq(Packet)
    BY <1>1, <1>2, <1>3
  <2> QED BY <1>1, <2>1 DEF CollectorInv, Collector!TypeOK, Collector!inOffset, Packet
<1>6. InStream(unparsed, 0, stream \o w, sent', Len(handled), H)
  <2>1. InStream(unparsed, 0, stream, sent, Len(handled), H)
    BY DEF CollectorInv, H
  <2>2. sent'[Len(sent) + 1].len = len
    BY <1>2, <1>4
  <2> QED BY <1>2, <1>3, <1>4, <2>1, <2>2, StreamSend
<1>7. Prefix(handled, sent')
  BY <1>1, <1>2, <1>3, PrefixSend DEF CollectorInv
<1>8. Collector!HasHeader => Collector!bodyLen' = Collector!bodyLen
  <2> SUFFICES ASSUME Collector!HasHeader
               PROVE  Collector!bodyLen' = Collector!bodyLen
    OBVIOUS
  <2>1. unparsed[1][1] \in 1 .. Len(sent)
    BY CollectorHeader
  <2>2. sent'[unparsed[1][1]] = sent[unparsed[1][1]]
    BY <1>4, <2>1, Zenon
  <2> QED BY <1>1, <2>2 DEF Collector!bodyLen
<1>9. /\ Collector!HasHeader' <=> Collector!HasHeader
      /\ Collector!Oversized' <=> Collector!Oversized
      /\ Collector!Whole' <=> Collector!Whole
  BY <1>1, <1>8, CollectorSame
<1>10. pc' = "read" => CollectorWaits'
  BY <1>1, <1>9 DEF CollectorInv, CollectorWaits, Collector!inOffset
<1>11. Collector!HalfIsEnough'
  BY <1>1, <1>8, <1>9 DEF CollectorInv, Collector!HalfIsEnough
<1> QED BY <1>1, <1>5, <1>6, <1>7, <1>10, <1>11 DEF CollectorInv, H

\* Bytes are read behind those that are there.
LEMMA CollectorRead ==
    ASSUME CollectorInv, Collector!Read
    PROVE  CollectorInv'
<1>1. PICK n \in 1 .. Len(stream) :
          /\ n <= RecvBufSize - Collector!inOffset
          /\ unparsed' = unparsed \o SubSeq(stream, 1, n)
          /\ stream' = SubSeq(stream, n + 1, Len(stream))
  BY DEF Collector!Read
<1>2. pc' = "parse" /\ UNCHANGED <<sent, open, packetOffset, handled>>
  BY DEF Collector!Read
<1>3. InStream(unparsed', 0, stream', sent, Len(handled), CLIENT_HEADER_SIZE)
  BY <1>1, StreamRecv DEF CollectorInv
<1>4. Collector!inOffset' <= RecvBufSize
  <2>1. /\ unparsed \in Seq(Byte) /\ stream \in Seq(Byte) /\ Len(unparsed) \in Nat
        /\ packetOffset \in Nat /\ RecvBufSize \in Nat
    BY CollectorFacts
  <2>2. SubSeq(stream, 1, n) \in Seq(Byte) /\ Len(SubSeq(stream, 1, n)) = n
    BY <2>1
  <2>3. Len(unparsed') = Len(unparsed) + n
    BY <1>1, <2>1, <2>2
  <2> QED BY <1>1, <1>2, <2>1, <2>3 DEF Collector!inOffset
<1>5. Collector!TypeOK'
  BY <1>2, <1>4 DEF CollectorInv, Collector!TypeOK
<1>6. Collector!HalfIsEnough'
  BY <1>2 DEF Collector!HalfIsEnough
<1> QED BY <1>2, <1>3, <1>5, <1>6 DEF CollectorInv

\* The steps that only end the connection, or close it on the client's side.
LEMMA CollectorEnds ==
    ASSUME CollectorInv,
           \/ Collector!ClientCloses \/ Collector!ReadFails \/ Collector!ReadNothing
           \/ Collector!ParseOversized
    PROVE  CollectorInv'
<1>1. UNCHANGED <<sent, stream, packetOffset, unparsed, handled>>
  BY DEF Collector!ClientCloses, Collector!ReadFails, Collector!ReadNothing,
         Collector!ParseOversized
<1>2. open' \in BOOLEAN /\ (pc' = pc \/ pc' \in {"read error", "closed by client", "oversized packet"})
  BY DEF CollectorInv, Collector!TypeOK, Collector!ClientCloses, Collector!ReadFails,
         Collector!ReadNothing, Collector!ParseOversized
<1>3. Collector!TypeOK'
  BY <1>1, <1>2 DEF CollectorInv, Collector!TypeOK, Collector!inOffset
<1>4. Collector!bodyLen' = Collector!bodyLen
  BY <1>1 DEF Collector!bodyLen
<1>5. /\ Collector!HasHeader' <=> Collector!HasHeader
      /\ Collector!Oversized' <=> Collector!Oversized
      /\ Collector!Whole' <=> Collector!Whole
  BY <1>1, <1>4, CollectorSame
<1>6. pc' = "read" => CollectorWaits'
  BY <1>1, <1>2, <1>5 DEF CollectorInv, CollectorWaits, Collector!inOffset
<1>7. Collector!HalfIsEnough'
  <2>1. CASE pc' = pc
    BY <1>4, <1>5, <2>1 DEF CollectorInv, Collector!HalfIsEnough
  <2>2. CASE Collector!ReadFails
    BY <2>2 DEF Collector!ReadFails, Collector!HalfIsEnough
  <2>3. CASE Collector!ReadNothing
    <3>1. pc = "read" /\ Collector!inOffset = RecvBufSize
      BY <2>3 DEF Collector!ReadNothing
    <3>2. packetOffset = 0 /\ ~Collector!Whole /\ ~Collector!Oversized
      BY <3>1 DEF CollectorInv, CollectorWaits
    <3>3. /\ Len(unparsed) \in Nat /\ CLIENT_HEADER_SIZE \in Nat /\ RecvBufSize \in Nat
          /\ CLIENT_HEADER_SIZE <= RecvBufSize \div 2 /\ RecvBufSize \div 2 < RecvBufSize
          /\ RecvBufSize \div 2 \in Nat
      BY CollectorFacts
    <3>4. Len(unparsed) = RecvBufSize
      BY <3>1, <3>2, <3>3 DEF Collector!inOffset
    <3>5. Collector!HasHeader
      BY <3>3, <3>4 DEF Collector!HasHeader, Collector!total
    <3>6. ~(Len(unparsed) >= Collector!bodyLen + CLIENT_HEADER_SIZE)
      BY <3>2, <3>5 DEF Collector!Whole, Collector!total
    <3>7. Collector!bodyLen \in Nat
      BY <3>5, CollectorHeader
    <3>8. CLIENT_HEADER_SIZE + Collector!bodyLen > RecvBufSize \div 2
      BY <3>3, <3>4, <3>6, <3>7
    <3> QED BY <1>4, <1>5, <3>5, <3>8 DEF Collector!HalfIsEnough
  <2>4. CASE Collector!ParseOversized
    <3>1. Collector!HasHeader /\ Collector!bodyLen > RecvBufSize
      BY <2>4 DEF Collector!ParseOversized, Collector!Oversized
    <3>2. /\ CLIENT_HEADER_SIZE \in Nat /\ RecvBufSize \in Nat /\ RecvBufSize \div 2 < RecvBufSize
          /\ RecvBufSize \div 2 \in Nat
      BY CollectorFacts
    <3>3. Collector!bodyLen \in Nat
      BY <3>1, CollectorHeader
    <3>4. CLIENT_HEADER_SIZE + Collector!bodyLen > RecvBufSize \div 2
      BY <3>1, <3>2, <3>3
    <3> QED BY <1>4, <1>5, <3>1, <3>4 DEF Collector!HalfIsEnough
  <2> QED BY <2>1, <2>2, <2>3, <2>4 DEF Collector!ClientCloses
<1> QED BY <1>1, <1>3, <1>6, <1>7 DEF CollectorInv

\* What exceeds c is not at most a b that does not, and what is at least as much
\* exceeds c too.
LEMMA Exceeds ==
    /\ \A a \in Int : \A b, c \in Nat : a > c /\ b <= c => ~(a <= b)
    /\ \A a \in Int : \A b, c, d \in Nat : a > c /\ a <= b + d => b + d > c
  OBVIOUS

\* The buffer is compacted, or has room, or the packet takes more than half of it.
LEMMA CollectorParseMore ==
    ASSUME CollectorInv, Collector!ParseMore
    PROVE  CollectorInv'
<1> DEFINE needs == Collector!needs
           N == RecvBufSize
           H == CLIENT_HEADER_SIZE
           t == Len(unparsed)
<1>1. /\ pc = "parse" /\ ~Collector!Oversized /\ ~Collector!Whole
      /\ pc' = IF Collector!NoRoom /\ Collector!TooFar THEN "packet overflow" ELSE "read"
      /\ packetOffset' = IF Collector!NoRoom /\ ~Collector!TooFar THEN 0 ELSE packetOffset
      /\ UNCHANGED <<sent, stream, open, unparsed, handled>>
  BY DEF Collector!ParseMore
<1>2. /\ t \in Nat /\ packetOffset \in Nat /\ packetOffset + t <= N /\ H \in Nat /\ N \in Nat
      /\ H <= N \div 2 /\ N \div 2 \in Nat
  BY CollectorFacts
<1>3. Collector!bodyLen' = Collector!bodyLen
  BY <1>1 DEF Collector!bodyLen
<1>4. /\ Collector!HasHeader' <=> Collector!HasHeader
      /\ Collector!Oversized' <=> Collector!Oversized
      /\ Collector!Whole' <=> Collector!Whole
  BY <1>1, <1>3, CollectorSame
<1>5. /\ needs \in Int /\ needs > 0
      /\ Collector!HasHeader => Collector!bodyLen \in Nat /\ needs <= H + Collector!bodyLen
      /\ ~Collector!HasHeader => needs <= H
  <2>1. CASE Collector!HasHeader
    <3>1. Collector!bodyLen \in Nat
      BY <2>1, CollectorHeader
    <3>2. needs = (Collector!bodyLen + H) - t
      BY <2>1 DEF Collector!needs, Collector!total
    <3>3. ~(t >= Collector!bodyLen + H)
      BY <1>1, <2>1 DEF Collector!Whole, Collector!total
    <3> HIDE DEF needs, t, N, H
    <3> QED BY <1>2, <2>1, <3>1, <3>2, <3>3
  <2>2. CASE ~Collector!HasHeader
    <3>1. needs = H - t
      BY <2>2 DEF Collector!needs, Collector!total
    <3>2. ~(t >= H)
      BY <2>2 DEF Collector!HasHeader, Collector!total
    <3> HIDE DEF needs, t, N, H
    <3> QED BY <1>2, <2>2, <3>1, <3>2
  <2> QED BY <2>1, <2>2
<1>6. /\ Collector!inOffset = packetOffset + t /\ Collector!inOffset' = packetOffset' + t
      /\ Collector!NoRoom <=> N - (packetOffset + t) < needs
      /\ Collector!TooFar <=> needs > N \div 2
  BY <1>1 DEF Collector!inOffset, Collector!NoRoom, Collector!TooFar
<1>7. packetOffset' \in 0 .. N /\ packetOffset' + t <= N
  <2>1. packetOffset' = 0 \/ packetOffset' = packetOffset
    BY <1>1
  <2>2. t \in Nat /\ packetOffset \in Nat /\ packetOffset + t <= N /\ N \in Nat
    BY <1>2
  <2> HIDE DEF t, N
  <2> QED BY <2>1, <2>2
<1>8. Collector!TypeOK'
  BY <1>1, <1>6, <1>7 DEF CollectorInv, Collector!TypeOK
<1>9. ASSUME pc' = "read"
      PROVE  CollectorWaits'
  <2>1. ~(Collector!NoRoom /\ Collector!TooFar)
    BY <1>1, <1>9
  <2>2. packetOffset' + t = N => packetOffset' = 0
    <3> SUFFICES ASSUME packetOffset' + t = N, ~Collector!NoRoom
                 PROVE  FALSE
      BY <1>1, <2>1
    <3>1. packetOffset' = packetOffset
      BY <1>1
    <3>2. ~(N - (packetOffset + t) < needs)
      BY <1>6
    <3> HIDE DEF needs, t, N
    <3> QED BY <1>2, <1>5, <3>1, <3>2
  <2> QED BY <1>1, <1>4, <1>6, <2>2 DEF CollectorWaits
<1>10. Collector!HalfIsEnough'
  <2> SUFFICES ASSUME pc' \in {"closed by client", "oversized packet", "packet overflow"}
               PROVE  Collector!HasHeader /\ H + Collector!bodyLen > N \div 2
    BY <1>3, <1>4 DEF Collector!HalfIsEnough
  <2>1. Collector!TooFar
    BY <1>1
  <2>2. needs > N \div 2
    BY <1>6, <2>1
  <2> DEFINE half == N \div 2
  <2>3. H <= half /\ half \in Nat /\ needs > half
    BY <1>2, <2>2
  <2> HIDE DEF needs, N, H, half
  <2>4. needs \in Int /\ H \in Nat
    BY <1>2, <1>5
  <2>5. Collector!HasHeader
    <3>1. ~(needs <= H)
      BY <2>3, <2>4, Exceeds, Zenon
    <3> QED BY <1>5, <3>1
  <2>6. Collector!bodyLen \in Nat /\ needs <= H + Collector!bodyLen
    BY <1>5, <2>5
  <2>7. H + Collector!bodyLen > half
    BY <2>3, <2>4, <2>6, Exceeds, Zenon
  <2> QED BY <2>5, <2>7 DEF half
<1> QED BY <1>1, <1>8, <1>9, <1>10 DEF CollectorInv

\* The next packet is handled, and the rest of the buffer stays.
LEMMA CollectorParsePacket ==
    ASSUME CollectorInv, Collector!ParsePacket
    PROVE  CollectorInv'
<1> DEFINE r == sent[Len(handled) + 1]
           l == Collector!bodyLen
           H == CLIENT_HEADER_SIZE
           t == Len(unparsed)
<1>1. Collector!HasHeader /\ Collector!Whole
  BY DEF Collector!ParsePacket, Collector!Whole
<1>2. /\ Len(handled) + 1 \in 1 .. Len(sent) /\ r \in Packet /\ unparsed[1][1] = Len(handled) + 1
      /\ l \in Nat
      /\ H + l <= t => InStream(unparsed, H + l, stream, sent, Len(handled) + 1, H)
  BY <1>1, CollectorHeader
<1>3. /\ sent \in Seq(Packet) /\ handled \in Seq(Packet) /\ t \in Nat /\ packetOffset \in Nat
      /\ packetOffset + t <= RecvBufSize /\ H \in Nat \ {0} /\ RecvBufSize \in Nat
      /\ unparsed \in Seq(Byte)
  BY CollectorFacts
<1>4. H + l <= t
  <2>1. t >= l + H
    BY <1>1 DEF Collector!Whole, Collector!total
  <2> HIDE DEF l, H, t
  <2> QED BY <1>2, <1>3, <2>1
<1>5. /\ handled' = Append(handled, r) /\ unparsed' = Collector!Rest
      /\ UNCHANGED <<sent, stream, open>>
      /\ \/ pc' = "packet error" /\ packetOffset' = packetOffset + Collector!token
         \/ /\ pc' = Collector!Again
            /\ packetOffset' = IF Collector!Rest = <<>> THEN 0 ELSE packetOffset + Collector!token
  BY <1>2 DEF Collector!ParsePacket
<1>6. Collector!token = H + l /\ Collector!Rest = SubSeq(unparsed, (H + l) + 1, t)
  <2>1. Collector!token = H + l
    BY <1>2, <1>3 DEF Collector!token
  <2> QED BY <2>1 DEF Collector!Rest, Collector!total
<1>7. /\ InStream(unparsed', 0, stream, sent, Len(handled) + 1, H)
      /\ Len(unparsed') = t - (H + l)
  <2>1. InStream(unparsed, H + l, stream, sent, Len(handled) + 1, H)
    BY <1>2, <1>4
  <2> HIDE DEF l, H
  <2> QED BY <1>5, <1>6, <2>1, StreamCut
<1>8. Prefix(handled', sent) /\ handled' \in Seq(Packet) /\ Len(handled') = Len(handled) + 1
  <2>1. Prefix(Append(handled, r), sent)
    BY <1>2, <1>3, PrefixTake DEF CollectorInv
  <2>2. r \in Packet /\ handled \in Seq(Packet) /\ handled' = Append(handled, r)
    BY <1>2, <1>3, <1>5
  <2> HIDE DEF r
  <2> QED BY <2>1, <2>2
<1>9. Collector!Rest = <<>> => Len(unparsed') = 0
  BY <1>5
<1>10. packetOffset' \in 0 .. RecvBufSize /\ packetOffset' + Len(unparsed') <= RecvBufSize
  <2>1. packetOffset' = packetOffset + (H + l) \/ (packetOffset' = 0 /\ Len(unparsed') = 0)
    BY <1>5, <1>6, <1>9
  <2> HIDE DEF l, H, t
  <2> QED BY <1>2, <1>3, <1>4, <1>7, <2>1
<1>11. pc' \in {"read", "parse", "packet error"}
  BY <1>5 DEF Collector!Again
<1>12. Collector!TypeOK'
  BY <1>5, <1>8, <1>10, <1>11 DEF CollectorInv, Collector!TypeOK, Collector!inOffset, Packet
<1>13. ASSUME pc' = "read"
       PROVE  CollectorWaits'
  <2>1. packetOffset' = 0 /\ Len(unparsed') = 0
    BY <1>5, <1>9, <1>13 DEF Collector!Again
  <2>2. ~Collector!HasHeader'
    BY <1>3, <2>1 DEF Collector!HasHeader, Collector!total
  <2> QED BY <2>1, <2>2 DEF CollectorWaits, Collector!Whole, Collector!Oversized
<1>14. Collector!HalfIsEnough'
  BY <1>11 DEF Collector!HalfIsEnough
<1> QED BY <1>5, <1>7, <1>8, <1>12, <1>13, <1>14 DEF CollectorInv

\* The collector-agent handles packets in order.
LEMMA CollectorInOrder ==
    ASSUME CollectorInv
    PROVE  Collector!TypeOK /\ Collector!HandledInOrder /\ Collector!HalfIsEnough
<1>1. \E n \in 0 .. Len(sent) : handled = SubSeq(sent, 1, n)
  BY CollectorFacts, PrefixIsSubSeq DEF CollectorInv
<1>2. pc = "parse" /\ Collector!HasHeader => Collector!InStep
  BY CollectorHeader
<1> QED BY <1>1, <1>2 DEF CollectorInv, CollectorWaits, Collector!HandledInOrder
-----------------------------------------------------------------------------
ReadersInv ==
    /\ reader \in {"agent", "collector"}
    /\ reader = "agent" => AgentInv
    /\ reader = "collector" => CollectorInv

\* Whatever the sizes of the buffers, of the headers and of the frames, and
\* however the bytes are cut on their way: HandleMsgStream and handleClient handle
\* frames in the order they were sent, each once, read a length from a header
\* and from nothing else, never overrun their buffers, wait only when nothing whole
\* is left, and a packet of up to half of RecvBufSize never costs the connection.
THEOREM HandledInOrderAlways == Spec => []HandledInOrder
<1>1. Init => ReadersInv
  <2>1. ASSUME reader = "agent", Agent!Init
        PROVE  AgentInv
    BY <2>1, AgentStart DEF Agent!Init
  <2> QED BY <2>1, CollectorStart DEF Init, ReadersInv
<1>2. ReadersInv /\ [Next]_vars => ReadersInv'
  <2> SUFFICES ASSUME ReadersInv, [Next]_vars
               PROVE  ReadersInv'
    OBVIOUS
  <2>1. CASE reader = "agent" /\ Agent!Next /\ UNCHANGED reader
    BY <2>1, AgentNext DEF ReadersInv
  <2>2. CASE reader = "collector" /\ Collector!Next /\ UNCHANGED reader
    <3>1. CollectorInv
      BY <2>2 DEF ReadersInv
    <3>2. CollectorInv'
      BY <2>2, <3>1, CollectorClientSends, CollectorRead, CollectorEnds, CollectorParseMore,
         CollectorParsePacket DEF Collector!Next
    <3> QED BY <2>2, <3>2 DEF ReadersInv
  <2>3. CASE UNCHANGED vars
    BY <2>3 DEF ReadersInv, vars, AgentInv, Off, AgentWaits, CollectorInv, CollectorWaits,
        Agent!TypeOK, Agent!NeverFull, Collector!TypeOK, Collector!inOffset,
        Collector!HalfIsEnough, Collector!HasHeader, Collector!total, Collector!bodyLen,
        Collector!Whole, Collector!Oversized
  <2> QED BY <2>1, <2>2, <2>3 DEF Next
<1>3. ReadersInv => HandledInOrder
  BY AgentInOrder, CollectorInOrder DEF ReadersInv, HandledInOrder
<1> QED BY <1>1, <1>2, <1>3, PTL DEF Spec
=============================================================================
