-------------------------- MODULE MCParts_proofs ---------------------------
(***************************************************************************)
(* What is proved of the parts, for the whole.  A step of MCParts is a     *)
(* step of one part, which leaves the others as they are; so the inductive *)
(* invariants of the parts, in ServerParts_proofs and PluginParts_proofs   *)
(* and, of the recording, here, are invariants of the whole together.  So  *)
(* are the types of the parts.                                             *)
(***************************************************************************)
EXTENDS MCParts, ServerParts_proofs, PluginParts_proofs

-----------------------------------------------------------------------------
(* The recording.                                                          *)

\* The bytes of the first frames of a sequence, for each number of them.
Running(s) ==
  CHOOSE sum : sum = [i \in 0..Len(s) |-> IF i = 0 THEN 0 ELSE sum[i - 1] + Recorder!Size(s[i].type)]

\* A running sum is one.
IsRunning(f, s, n) ==
  f \in [0..n -> Nat] /\ f[0] = 0 /\ \A i \in 1..n : f[i] = f[i - 1] + Recorder!Size(s[i].type)

\* There is a running sum of the first n frames, for each n.
LEMMA RunningExists ==
  ASSUME NEW s, NEW n \in Nat
  PROVE  \E f : IsRunning(f, s, n)
<1>. DEFINE S == {k \in Nat : \E f : IsRunning(f, s, k)}
<1>1. 0 \in S
  <2>1. IsRunning([i \in 0..0 |-> 0], s, 0)
    BY DEF IsRunning
  <2>. QED BY <2>1
<1>2. ASSUME NEW k \in S
      PROVE  k + 1 \in S
  <2>1. PICK f : IsRunning(f, s, k)
    OBVIOUS
  <2>. DEFINE g == [i \in 0..(k + 1) |-> IF i = k + 1 THEN f[k] + Recorder!Size(s[k + 1].type) ELSE f[i]]
  <2>2. k \in Nat /\ \A i \in 0..k : f[i] \in Nat
    BY <2>1 DEF IsRunning
  <2>3. g[0] = 0 /\ g \in [0..(k + 1) -> Nat]
    BY <2>1, <2>2 DEF IsRunning, Recorder!Size
  <2>4. \A i \in 1..(k + 1) : g[i] = g[i - 1] + Recorder!Size(s[i].type)
    BY <2>1, <2>2 DEF IsRunning
  <2>5. IsRunning(g, s, k + 1)
    BY <2>3, <2>4 DEF IsRunning
  <2>. HIDE DEF g
  <2>. QED BY <2>2, <2>5
<1>3. S = Nat
  BY <1>1, <1>2, Counting
<1>. QED BY <1>3

\* The running sum is picked as one.
LEMMA RunningIs ==
  ASSUME NEW S, NEW s \in Seq(S)
  PROVE  IsRunning(Running(s), s, Len(s)) /\ Recorder!BytesOf(s) = Running(s)[Len(s)]
<1>. DEFINE Sums(f) == f = [i \in 0..Len(s) |-> IF i = 0 THEN 0 ELSE f[i - 1] + Recorder!Size(s[i].type)]
<1>1. Len(s) \in Nat
  OBVIOUS
<1>2. PICK f : IsRunning(f, s, Len(s))
  BY <1>1, RunningExists
<1>3. Sums(f)
  BY <1>1, <1>2 DEF IsRunning
<1>4. Sums(Running(s))
  BY <1>3, Zenon DEF Running
<1>5. \A i \in 0..Len(s) : Running(s)[i] = IF i = 0 THEN 0 ELSE Running(s)[i - 1] + Recorder!Size(s[i].type)
  BY <1>4
<1>6. DOMAIN Running(s) = 0..Len(s) /\ Running(s) = [i \in 0..Len(s) |-> Running(s)[i]]
  BY <1>4
<1>. HIDE DEF Sums
<1>. DEFINE T == {k \in Nat : k <= Len(s) => Running(s)[k] \in Nat}
<1>7. T = Nat
  <2>1. 0 \in T
    BY <1>1, <1>5
  <2>2. ASSUME NEW k \in T
        PROVE  k + 1 \in T
    BY <1>1, <1>5 DEF Recorder!Size
  <2>. QED BY <2>1, <2>2, Counting
<1>8. \A i \in 0..Len(s) : Running(s)[i] \in Nat
  BY <1>1, <1>7
<1>9. Running(s) \in [0..Len(s) -> Nat]
  BY <1>6, <1>8
<1>10. IsRunning(Running(s), s, Len(s))
  BY <1>1, <1>5, <1>9 DEF IsRunning
<1>11. Recorder!BytesOf(s) = Running(s)[Len(s)]
  BY Zenon DEF Recorder!BytesOf, Running
<1>. QED BY <1>10, <1>11

\* Sequences that agree up to n have the same running sums up to n.
LEMMA RunningAgrees ==
  ASSUME NEW S, NEW s \in Seq(S), NEW T, NEW t \in Seq(T), NEW n \in Nat, n <= Len(s), n <= Len(t),
         \A i \in 1..n : s[i] = t[i]
  PROVE  \A i \in 0..n : Running(s)[i] = Running(t)[i]
<1>. DEFINE K == {k \in Nat : k <= n => Running(s)[k] = Running(t)[k]}
<1>1. IsRunning(Running(s), s, Len(s)) /\ IsRunning(Running(t), t, Len(t))
  BY RunningIs
<1>2. 0 \in K
  BY <1>1 DEF IsRunning
<1>3. ASSUME NEW k \in K
      PROVE  k + 1 \in K
  <2>1. SUFFICES ASSUME k + 1 <= n PROVE Running(s)[k + 1] = Running(t)[k + 1]
    OBVIOUS
  <2>2. k + 1 \in 1..n /\ k + 1 \in 1..Len(s) /\ k + 1 \in 1..Len(t) /\ (k + 1) - 1 = k
        /\ Running(s)[k] = Running(t)[k]
    BY <2>1
  <2>. QED BY <1>1, <2>2 DEF IsRunning
<1>4. K = Nat
  BY <1>2, <1>3, Counting
<1>. QED BY <1>4

\* The bytes of a part of a sequence are the difference of two running sums.
LEMMA BytesOfPart ==
  ASSUME NEW S, NEW s \in Seq(S), NEW a \in 1..(Len(s) + 1), NEW b \in (a - 1)..Len(s)
  PROVE  Recorder!BytesOf(SubSeq(s, a, b)) = Running(s)[b] - Running(s)[a - 1]
<1>. DEFINE q == SubSeq(s, a, b)
            K == {k \in Nat : k <= b - a + 1 => Running(q)[k] = Running(s)[a - 1 + k] - Running(s)[a - 1]}
<1>1. q \in Seq(S) /\ Len(q) = b - a + 1 /\ \A i \in 1..(b - a + 1) : q[i] = s[a + i - 1]
  BY SubSeqProperties
<1>. HIDE DEF q
<1>2. IsRunning(Running(s), s, Len(s)) /\ IsRunning(Running(q), q, Len(q))
      /\ Recorder!BytesOf(q) = Running(q)[Len(q)]
  BY <1>1, RunningIs
<1>3. 0 \in K
  <2>1. Running(q)[0] = 0
    BY <1>2 DEF IsRunning
  <2>2. a - 1 \in 0..Len(s) /\ a - 1 + 0 = a - 1
    OBVIOUS
  <2>3. Running(s) \in [0..Len(s) -> Nat]
    BY <1>2, Zenon DEF IsRunning
  <2>4. Running(s)[a - 1] \in Nat
    BY <2>2, <2>3
  <2>. QED BY <2>1, <2>2, <2>4
<1>4. ASSUME NEW k \in K
      PROVE  k + 1 \in K
  <2>1. SUFFICES ASSUME k + 1 <= b - a + 1
                 PROVE  Running(q)[k + 1] = Running(s)[a + k] - Running(s)[a - 1]
    BY Z3
  <2>2. Running(q)[k] = Running(s)[a - 1 + k] - Running(s)[a - 1] /\ k \in Nat
    BY <2>1
  <2>3. Running(q)[k + 1] = Running(q)[k] + Recorder!Size(q[k + 1].type) /\ q[k + 1] = s[a + k]
    <3>1. k + 1 \in 1..Len(q) /\ (k + 1) - 1 = k /\ k + 1 \in 1..(b - a + 1) /\ a + (k + 1) - 1 = a + k
      BY <1>1, <2>1, <2>2
    <3>. QED BY <1>1, <1>2, <3>1 DEF IsRunning
  <2>4. Running(s)[a + k] = Running(s)[a - 1 + k] + Recorder!Size(s[a + k].type)
    <3>1. a + k \in 1..Len(s) /\ (a + k) - 1 = a - 1 + k
      BY <1>1, <2>1, <2>2
    <3>. QED BY <1>2, <3>1 DEF IsRunning
  <2>5. Running(s)[a - 1 + k] \in Nat /\ Running(s)[a - 1] \in Nat
    <3>1. a - 1 + k \in 0..Len(s) /\ a - 1 \in 0..Len(s)
      BY <1>1, <2>1, <2>2
    <3>. QED BY <1>2, <3>1 DEF IsRunning
  <2>. QED BY <2>2, <2>3, <2>4, <2>5 DEF Recorder!Size
<1>5. K = Nat
  BY <1>3, <1>4, Counting
<1>6. b - a + 1 \in K
  BY <1>5, SMTT(25)
<1>. QED BY <1>1, <1>2, <1>6 DEF q

\* The segments are parts of a sequence, one after another, that begin at the places of c.
Tiles(segs, s, c) ==
  /\ c \in [1..(Len(segs) + 1) -> 1..(Len(s) + 1)]
  /\ \A i \in 1..Len(segs) : c[i] < c[i + 1] /\ segs[i] = SubSeq(s, c[i], c[i + 1] - 1)

\* What tiles a sequence is, put together, the part it tiles.
LEMMA TilesFlatten ==
  ASSUME NEW S, NEW s \in Seq(S), NEW Q, NEW segs \in Seq(Q), NEW c, Tiles(segs, s, c)
  PROVE  Recorder!FramesOf(segs) = SubSeq(s, c[1], c[Len(segs) + 1] - 1)
<1>. DEFINE n == Len(segs)
            Joins(f) == f = [i \in 0..n |-> IF i = 0 THEN <<>> ELSE f[i - 1] \o segs[i]]
            w == [i \in 0..n |-> SubSeq(s, c[1], c[i + 1] - 1)]
            picked == CHOOSE f : Joins(f)
<1>1. n \in Nat /\ Len(s) \in Nat /\ \A i \in 1..(n + 1) : c[i] \in 1..(Len(s) + 1)
  BY DEF Tiles
<1>2. \A i \in 0..n : c[1] <= c[i + 1]
  <2>. DEFINE J == {k \in Nat : k <= n => c[1] <= c[k + 1]}
  <2>1. 0 \in J
    BY <1>1
  <2>2. ASSUME NEW k \in J
        PROVE  k + 1 \in J
    <3>1. SUFFICES ASSUME k + 1 <= n PROVE c[1] <= c[k + 2]
      BY Z3
    <3>2. k + 1 \in 1..n /\ c[1] <= c[k + 1] /\ (k + 1) + 1 = k + 2
      BY <1>1, <3>1
    <3>3. c[k + 1] < c[k + 2] /\ {c[1], c[k + 1], c[k + 2]} \subseteq Nat
      BY <1>1, <3>2 DEF Tiles
    <3>. QED BY <3>2, <3>3
  <2>3. J = Nat
    BY <2>1, <2>2, Counting
  <2>. QED BY <1>1, <2>3, SMTT(25)
<1>3. \A i \in 1..n : SubSeq(s, c[1], c[i] - 1) \o segs[i] = SubSeq(s, c[1], c[i + 1] - 1)
  <2>1. SUFFICES ASSUME NEW i \in 1..n
                 PROVE  SubSeq(s, c[1], c[i] - 1) \o segs[i] = SubSeq(s, c[1], c[i + 1] - 1)
    OBVIOUS
  <2>2. i - 1 \in 0..n /\ (i - 1) + 1 = i
    BY <1>1
  <2>3. c[1] <= c[i] /\ c[i] < c[i + 1] /\ segs[i] = SubSeq(s, c[i], c[i + 1] - 1)
    BY <1>2, <2>2 DEF Tiles
  <2>4. c[1] \in 1..(Len(s) + 1) /\ c[i] \in 1..(Len(s) + 1) /\ c[i + 1] \in 1..(Len(s) + 1)
    BY <1>1
  <2>5. /\ c[i] - 1 \in (c[1] - 1)..Len(s) /\ c[i + 1] - 1 \in (c[i] - 1)..Len(s)
        /\ (c[i] - 1) + 1 = c[i]
    <3>1. \A x, y, z \in 1..(Len(s) + 1) :
            x <= y /\ y < z => y - 1 \in (x - 1)..Len(s) /\ z - 1 \in (y - 1)..Len(s) /\ (y - 1) + 1 = y
      BY <1>1
    <3>. QED BY <2>3, <2>4, <3>1
  <2>6. SubSeq(s, c[1], c[i] - 1) \o SubSeq(s, (c[i] - 1) + 1, c[i + 1] - 1)
          = SubSeq(s, c[1], c[i + 1] - 1)
    BY <2>4, <2>5, ConcatAdjacentSubSeq, Zenon
  <2>. QED BY <2>3, <2>5, <2>6
<1>4. Joins(w)
  <2>1. SubSeq(s, c[1], c[1] - 1) = <<>>
    BY <1>1, SubSeqEmpty
  <2>2. \A i \in 0..n : w[i] = IF i = 0 THEN <<>> ELSE w[i - 1] \o segs[i]
    <3>1. TAKE i \in 0..n
    <3>2. CASE i = 0
      BY <1>1, <2>1, <3>2
    <3>3. CASE i # 0
      <4>1. i \in 1..n /\ i - 1 \in 0..n /\ (i - 1) + 1 = i
        BY <1>1, <3>3
      <4>2. w[i - 1] = SubSeq(s, c[1], c[i] - 1)
        BY <4>1
      <4>. QED BY <1>3, <3>3, <4>1, <4>2
    <3>. QED BY <3>2, <3>3
  <2>. QED BY <2>2
<1>. HIDE DEF Joins, w
<1>5. Joins(picked)
  BY <1>4, Zenon
<1>6. \A i \in 0..n : picked[i] = IF i = 0 THEN <<>> ELSE picked[i - 1] \o segs[i]
  BY <1>5, Zenon DEF Joins
<1>. HIDE DEF picked
<1>. DEFINE P == {k \in Nat : k <= n => picked[k] = SubSeq(s, c[1], c[k + 1] - 1)}
<1>7. 0 \in P
  <2>1. picked[0] = <<>> /\ SubSeq(s, c[1], c[1] - 1) = <<>>
    BY <1>1, <1>6, SubSeqEmpty
  <2>2. 0 + 1 = 1
    OBVIOUS
  <2>3. picked[0] = SubSeq(s, c[1], c[0 + 1] - 1)
    BY <2>1, <2>2, Zenon
  <2>. QED BY <2>3
<1>8. ASSUME NEW k \in P
      PROVE  k + 1 \in P
  <2>1. SUFFICES ASSUME k + 1 <= n PROVE picked[k + 1] = SubSeq(s, c[1], c[k + 2] - 1)
    BY Z3
  <2>2. /\ k + 1 \in 1..n /\ k + 1 \in 0..n /\ k + 1 # 0 /\ (k + 1) - 1 = k
        /\ (k + 1) + 1 = k + 2 /\ picked[k] = SubSeq(s, c[1], c[k + 1] - 1)
    BY <1>1, <2>1
  <2>3. picked[k + 1] = picked[(k + 1) - 1] \o segs[k + 1]
    BY <1>6, <2>2
  <2>4. SubSeq(s, c[1], c[k + 1] - 1) \o segs[k + 1] = SubSeq(s, c[1], c[(k + 1) + 1] - 1)
    BY <1>3, <2>2
  <2>. QED BY <2>2, <2>3, <2>4
<1>9. P = Nat
  BY <1>7, <1>8, Counting
<1>10. n \in P
  BY <1>1, <1>9
<1>11. Recorder!FramesOf(segs) = picked[n]
  BY Zenon DEF Recorder!FramesOf, picked, Joins
<1>. QED BY <1>1, <1>10, <1>11

\* The places of tiles are in order.
LEMMA TilesGrow ==
  ASSUME NEW S, NEW s \in Seq(S), NEW Q, NEW segs \in Seq(Q), NEW c, Tiles(segs, s, c),
         NEW i \in 1..(Len(segs) + 1), NEW k \in i..(Len(segs) + 1)
  PROVE  c[i] <= c[k]
<1>. DEFINE n == Len(segs)
            J == {j \in Nat : i + j <= n + 1 => c[i] <= c[i + j]}
<1>1. n \in Nat /\ Len(s) \in Nat /\ \A j \in 1..(n + 1) : c[j] \in 1..(Len(s) + 1)
  <2>1. c \in [1..(n + 1) -> 1..(Len(s) + 1)]
    BY DEF Tiles
  <2>2. n \in Nat /\ Len(s) \in Nat
    OBVIOUS
  <2>. QED BY <2>1, <2>2
<1>2. 0 \in J
  BY <1>1
<1>3. ASSUME NEW j \in J
      PROVE  j + 1 \in J
  <2>1. SUFFICES ASSUME i + (j + 1) <= n + 1 PROVE c[i] <= c[i + (j + 1)]
    BY Z3
  <2>2. i + j \in 1..n /\ i + (j + 1) = (i + j) + 1 /\ c[i] <= c[i + j] /\ i + j + 1 \in 1..(n + 1)
    BY <1>1, <2>1
  <2>3. c[i + j] < c[(i + j) + 1]
    BY <2>2 DEF Tiles
  <2>. QED BY <1>1, <2>2, <2>3, SMTT(25)
<1>4. J = Nat
  BY <1>2, <1>3, Counting
<1>5. k - i \in Nat /\ i + (k - i) = k /\ i + (k - i) <= n + 1
  BY <1>1
<1>6. k - i \in J
  BY <1>4, <1>5
<1>. QED BY <1>5, <1>6

\* A clip that begins at the k-th frame of what was said is within the limits at time t.
FitsIn(s, k, t) ==
  /\ s[k].type = "graph" /\ s[k].time + Window >= t
  /\ Recorder!BytesOf(SubSeq(s, k, Len(s))) <= MaxBytes /\ Len(SubSeq(s, k, Len(s))) <= MaxFrames

\* A recorder keeps the end of what was said from c[1], in segments that begin at the graphs
\* in it; its counters are right; and no clip from before it is within the limits at time t.
Holds(r, s, t, c) ==
  /\ r.segments \in Seq(Seq(Recorder!Frame)) /\ Tiles(r.segments, s, c)
  /\ c[Len(r.segments) + 1] = Len(s) + 1
  /\ \A i \in 1..Len(r.segments) : s[c[i]].type = "graph"
  /\ \A j \in c[1]..Len(s) : s[j].type = "graph" => \E i \in 1..Len(r.segments) : c[i] = j
  /\ r.bytes = Running(s)[Len(s)] - Running(s)[c[1] - 1]
  /\ r.frames = Len(s) - c[1] + 1
  /\ \A j \in 1..(c[1] - 1) : ~FitsIn(s, j, t)

\* The first of its segments, if there is one, begins a clip within the limits.
BeginsClip(r, s, t, c) == Len(r.segments) # 0 => FitsIn(s, c[1], t)

\* What prune takes away is no more than it has to.
LEMMA PruneHolds ==
  ASSUME NEW s \in Seq(Recorder!Frame), NEW t \in Nat, NEW u \in Nat, t <= u, NEW r, NEW c,
         Holds(r, s, t, c)
  PROVE  \E d : Holds(Recorder!Prune(r, u), s, u, d) /\ BeginsClip(Recorder!Prune(r, u), s, u, d)
<1>. USE RecorderAssumption
<1>. DEFINE n == Len(r.segments)
            L == Len(s)
            W == Running(s)
            Bytes(k) == r.bytes - Recorder!BytesOf(Recorder!FramesOf(SubSeq(r.segments, 1, k)))
            Count(k) == r.frames - Len(Recorder!FramesOf(SubSeq(r.segments, 1, k)))
            Stops(k) == \/ k = Len(r.segments)
                        \/ /\ r.segments[k + 1][1].time + Window >= u
                           /\ Bytes(k) <= MaxBytes /\ Count(k) <= MaxFrames
            m == Recorder!Least({k \in 0..Len(r.segments) : Stops(k)})
            d == [i \in 1..(n - m + 1) |-> c[i + m]]
            p == Recorder!Recorder(SubSeq(r.segments, m + 1, Len(r.segments)), Bytes(m), Count(m))
<1>1. Recorder!Prune(r, u) = p
  BY Zenon DEF Recorder!Prune
<1>2. n \in Nat /\ L \in Nat /\ \A i \in 1..(n + 1) : c[i] \in 1..(L + 1)
  <2>1. c \in [1..(n + 1) -> 1..(L + 1)] /\ r.segments \in Seq(Seq(Recorder!Frame))
    BY Zenon DEF Holds, Tiles
  <2>2. n \in Nat /\ L \in Nat
    BY <2>1
  <2>. QED BY <2>1, <2>2
<1>3. \A i \in 0..L : W[i] \in Nat
  BY RunningIs DEF IsRunning
<1>4. \A i \in 1..(n + 1) : \A k \in i..(n + 1) : c[i] <= c[k]
  BY TilesGrow DEF Holds
<1>5. \A i \in 1..n : c[i] < c[i + 1] /\ r.segments[i] = SubSeq(s, c[i], c[i + 1] - 1)
  BY DEF Holds, Tiles
<1>6. ASSUME NEW k \in 0..n
      PROVE  /\ Bytes(k) = W[L] - W[c[k + 1] - 1] /\ Count(k) = L - c[k + 1] + 1
             /\ c[k + 1] \in 1..(L + 1)
  <2>. DEFINE q == SubSeq(r.segments, 1, k)
              e == [i \in 1..(k + 1) |-> c[i]]
  <2>1. /\ q \in Seq(Seq(Recorder!Frame)) /\ Len(q) = k /\ \A i \in 1..k : q[i] = r.segments[i]
    BY <1>2, SubSeqProperties, SMTT(25) DEF Holds
  <2>. HIDE DEF q
  <2>2. Tiles(q, s, e)
    <3>1. e \in [1..(k + 1) -> 1..(L + 1)]
      BY <1>2
    <3>2. ASSUME NEW i \in 1..k
          PROVE  e[i] < e[i + 1] /\ q[i] = SubSeq(s, e[i], e[i + 1] - 1)
      <4>1. i \in 1..n /\ i \in 1..(k + 1) /\ i + 1 \in 1..(k + 1)
        BY <1>2
      <4>2. e[i] = c[i] /\ e[i + 1] = c[i + 1]
        BY <4>1
      <4>. QED BY <1>5, <2>1, <4>1, <4>2
    <3>. QED BY <2>1, <3>1, <3>2 DEF Tiles
  <2>3. Recorder!FramesOf(q) = SubSeq(s, e[1], e[Len(q) + 1] - 1)
    <3>. HIDE DEF e
    <3>. QED BY <2>1, <2>2, TilesFlatten, Zenon
  <2>4. Recorder!FramesOf(q) = SubSeq(s, c[1], c[k + 1] - 1)
    <3>1. 1 \in 1..(k + 1) /\ k + 1 \in 1..(k + 1)
      OBVIOUS
    <3>2. e[1] = c[1] /\ e[k + 1] = c[k + 1]
      BY <3>1
    <3>. QED BY <2>1, <2>3, <3>2
  <2>5. c[1] \in 1..(L + 1) /\ c[k + 1] \in 1..(L + 1) /\ c[1] <= c[k + 1]
    BY <1>2, <1>4
  <2>6. c[k + 1] - 1 \in (c[1] - 1)..L /\ c[1] - 1 \in 0..L /\ c[k + 1] - 1 \in 0..L
    <3>1. \A x, y \in 1..(L + 1) : x <= y => y - 1 \in (x - 1)..L /\ x - 1 \in 0..L /\ y - 1 \in 0..L
      OBVIOUS
    <3>. QED BY <2>5, <3>1, Zenon
  <2>7. Recorder!BytesOf(Recorder!FramesOf(q)) = W[c[k + 1] - 1] - W[c[1] - 1]
    BY <2>4, <2>5, <2>6, BytesOfPart
  <2>8. Len(Recorder!FramesOf(q)) = c[k + 1] - c[1]
    <3>1. \A i \in c[1]..(c[k + 1] - 1) : s[i] \in Recorder!Frame
      BY <1>2, <2>5, SMTT(25)
    <3>2. c[1] \in Int /\ c[k + 1] - 1 \in Int
      BY <1>2, <2>5
    <3>3. Len(SubSeq(s, c[1], c[k + 1] - 1))
            = IF c[1] <= c[k + 1] - 1 THEN (c[k + 1] - 1) - c[1] + 1 ELSE 0
      BY <3>1, <3>2, SubSeqProperties
    <3>. QED BY <1>2, <2>4, <2>5, <3>3, SMTT(25)
  <2>9. W[L] \in Nat /\ W[c[1] - 1] \in Nat /\ W[c[k + 1] - 1] \in Nat
    BY <1>2, <1>3, <2>6
  <2>10. r.bytes = W[L] - W[c[1] - 1] /\ r.frames = L - c[1] + 1
    BY DEF Holds
  <2>11. Bytes(k) = W[L] - W[c[k + 1] - 1]
    BY <2>7, <2>9, <2>10, SMTT(25) DEF q
  <2>12. Count(k) = L - c[k + 1] + 1
    <3>1. Count(k) = (L - c[1] + 1) - (c[k + 1] - c[1])
      BY <2>8, <2>10 DEF q
    <3>2. \A a, b \in 1..(L + 1) : (L - a + 1) - (b - a) = L - b + 1
      BY <1>2
    <3>3. (L - c[1] + 1) - (c[k + 1] - c[1]) = L - c[k + 1] + 1
      BY <2>5, <3>2
    <3>. QED BY <3>1, <3>3, Zenon
  <2>. QED BY <2>5, <2>11, <2>12
<1>. HIDE DEF Bytes, Count
<1>7. ASSUME NEW k \in 0..(n - 1)
      PROVE  Stops(k) <=> FitsIn(s, c[k + 1], u)
  <2>1. k \in 0..n /\ k + 1 \in 1..n /\ k # n /\ c[k + 1] \in 1..L /\ c[k + 1] - 1 \in 0..L
    <3>1. k + 1 \in 1..n /\ k \in 0..n /\ k # n /\ (k + 1) + 1 \in 1..(n + 1)
      BY <1>2
    <3>2. c[k + 1] \in 1..(L + 1) /\ c[(k + 1) + 1] \in 1..(L + 1) /\ c[k + 1] < c[(k + 1) + 1]
      BY <1>2, <1>5, <3>1, SMTT(25)
    <3>3. \A a, b \in 1..(L + 1) : a < b => a \in 1..L /\ a - 1 \in 0..L
      BY <1>2
    <3>. QED BY <3>1, <3>2, <3>3
  <2>2. Recorder!BytesOf(SubSeq(s, c[k + 1], L)) = W[L] - W[c[k + 1] - 1]
    <3>1. c[k + 1] \in 1..(L + 1) /\ L \in (c[k + 1] - 1)..L
      BY <1>2, <2>1
    <3>. QED BY <3>1, BytesOfPart
  <2>3. Len(SubSeq(s, c[k + 1], L)) = L - c[k + 1] + 1
    BY <1>2, <2>1, SubSeqProperties
  <2>4. r.segments[k + 1][1] = s[c[k + 1]]
    <3>1. c[k + 1] < c[(k + 1) + 1] /\ r.segments[k + 1] = SubSeq(s, c[k + 1], c[(k + 1) + 1] - 1)
          /\ c[(k + 1) + 1] \in 1..(L + 1)
      BY <1>2, <1>5, <2>1, SMTT(25)
    <3>2. \A a \in 1..L : \A b \in 1..(L + 1) : a < b => SubSeq(s, a, b - 1)[1] = s[a]
      BY <1>2, SubSeqProperties
    <3>. QED BY <2>1, <3>1, <3>2
  <2>5. s[c[k + 1]].type = "graph"
    BY <2>1 DEF Holds
  <2>6. Bytes(k) = W[L] - W[c[k + 1] - 1] /\ Count(k) = L - c[k + 1] + 1
    BY <1>6, <2>1
  <2>. QED BY <2>1, <2>2, <2>3, <2>4, <2>5, <2>6 DEF FitsIn
<1>8. m \in 0..n /\ Stops(m) /\ \A k \in 0..(m - 1) : ~Stops(k)
  <2>. DEFINE All == {k \in 0..n : Stops(k)}
  <2>1. n \in All /\ All \in SUBSET Nat
    BY <1>2
  <2>2. \E k \in All : \A j \in All : k <= j
    BY <2>1, LeastNumber
  <2>3. m \in All /\ \A j \in All : m <= j
    BY <2>2, Zenon DEF Recorder!Least
  <2>. HIDE DEF m, Stops
  <2>. QED BY <1>2, <2>3
<1>. HIDE DEF m, Stops
<1>9. p.segments \in Seq(Seq(Recorder!Frame)) /\ Len(p.segments) = n - m
      /\ \A i \in 1..(n - m) : p.segments[i] = r.segments[i + m]
  <2>1. p.segments = SubSeq(r.segments, m + 1, n)
    BY DEF Recorder!Recorder
  <2>2. \A i \in (m + 1)..n : r.segments[i] \in Seq(Recorder!Frame)
    BY <1>2, <1>8 DEF Holds
  <2>3. m + 1 \in Int /\ n \in Int
    BY <1>2, <1>8
  <2>4. /\ SubSeq(r.segments, m + 1, n) \in Seq(Seq(Recorder!Frame))
        /\ Len(SubSeq(r.segments, m + 1, n)) = IF m + 1 <= n THEN n - (m + 1) + 1 ELSE 0
        /\ \A i \in 1..(n - (m + 1) + 1) : SubSeq(r.segments, m + 1, n)[i] = r.segments[(m + 1) + i - 1]
    <3>1. \A q : \A a, b \in Int : (\A i \in a..b : q[i] \in Seq(Recorder!Frame)) =>
            /\ SubSeq(q, a, b) \in Seq(Seq(Recorder!Frame))
            /\ Len(SubSeq(q, a, b)) = IF a <= b THEN b - a + 1 ELSE 0
            /\ \A i \in 1..(b - a + 1) : SubSeq(q, a, b)[i] = q[a + i - 1]
      BY SubSeqProperties, Zenon
    <3>. QED BY <2>2, <2>3, <3>1, Zenon
  <2>5. n - (m + 1) + 1 = n - m /\ \A i \in 1..(n - m) : (m + 1) + i - 1 = i + m
    BY <1>2, <1>8
  <2>6. Len(p.segments) = n - m
    <3>1. (IF m + 1 <= n THEN n - (m + 1) + 1 ELSE 0) = n - m
      BY <1>2, <1>8
    <3>. QED BY <2>1, <2>4, <3>1
  <2>7. \A i \in 1..(n - m) : SubSeq(r.segments, m + 1, n)[i] = r.segments[i + m]
    BY <2>4, <2>5
  <2>. QED BY <2>1, <2>4, <2>6, <2>7
<1>10. p.bytes = W[L] - W[c[m + 1] - 1] /\ p.frames = L - c[m + 1] + 1
  BY <1>6, <1>8 DEF Recorder!Recorder
<1>11. d[1] = c[m + 1] /\ d[n - m + 1] = L + 1 /\ d \in [1..(n - m + 1) -> 1..(L + 1)]
  <2>1. \A i \in 1..(n - m + 1) : i + m \in 1..(n + 1)
    BY <1>2, <1>8
  <2>2. 1 \in 1..(n - m + 1) /\ n - m + 1 \in 1..(n - m + 1) /\ (n - m + 1) + m = n + 1 /\ 1 + m = m + 1
    BY <1>2, <1>8
  <2>3. c[n + 1] = L + 1
    BY DEF Holds
  <2>. QED BY <1>2, <2>1, <2>2, <2>3
<1>12. Tiles(p.segments, s, d)
  <2>1. ASSUME NEW i \in 1..(n - m)
        PROVE  d[i] < d[i + 1] /\ p.segments[i] = SubSeq(s, d[i], d[i + 1] - 1)
    <3>1. i + m \in 1..n /\ i \in 1..(n - m + 1) /\ i + 1 \in 1..(n - m + 1) /\ (i + 1) + m = (i + m) + 1
      BY <1>2, <1>8
    <3>2. d[i] = c[i + m] /\ d[i + 1] = c[(i + m) + 1]
      BY <3>1
    <3>. QED BY <1>5, <1>9, <3>1, <3>2
  <2>. QED BY <1>9, <1>11, <2>1 DEF Tiles
<1>13. \A i \in 1..(n - m) : s[d[i]].type = "graph"
  <2>1. \A i \in 1..(n - m) : i + m \in 1..n /\ d[i] = c[i + m]
    BY <1>2, <1>8
  <2>. QED BY <2>1, ZenonT(40) DEF Holds
<1>14. ASSUME NEW j \in c[1]..L, s[j].type = "graph"
       PROVE  \E i \in 1..n : c[i] = j
  BY <1>14 DEF Holds
<1>15. c[1] \in 1..(L + 1) /\ c[m + 1] \in 1..(L + 1) /\ c[1] <= c[m + 1]
  BY <1>2, <1>4, <1>8
<1>16. ASSUME NEW j \in d[1]..L, s[j].type = "graph"
       PROVE  \E i \in 1..(n - m) : d[i] = j
  <2>1. j \in c[1]..L /\ c[m + 1] <= j
    BY <1>2, <1>11, <1>15, <1>16
  <2>2. PICK i \in 1..n : c[i] = j
    BY <1>14, <1>16, <2>1
  <2>3. i >= m + 1
    <3>1. SUFFICES ASSUME i <= m PROVE FALSE
      BY <1>2, <1>8
    <3>2. i \in 1..n /\ i + 1 \in 1..(n + 1) /\ m + 1 \in (i + 1)..(n + 1)
      BY <1>2, <1>8, <3>1, SMTT(25)
    <3>3. c[i] < c[i + 1] /\ c[i + 1] <= c[m + 1]
      BY <1>4, <1>5, <3>2
    <3>4. c[i] \in 1..(L + 1) /\ c[i + 1] \in 1..(L + 1) /\ c[m + 1] \in 1..(L + 1)
      <4>1. i \in 1..(n + 1)
        BY <1>2
      <4>. QED BY <1>2, <1>15, <3>2, <4>1
    <3>. QED BY <2>1, <2>2, <3>3, <3>4
  <2>4. i - m \in 1..(n - m) /\ i - m \in 1..(n - m + 1) /\ (i - m) + m = i
    BY <1>2, <1>8, <2>3
  <2>5. d[i - m] = j
    BY <2>2, <2>4
  <2>. QED BY <2>4, <2>5
<1>17. ASSUME NEW j \in 1..(d[1] - 1)
       PROVE  ~FitsIn(s, j, u)
  <2>1. SUFFICES ASSUME FitsIn(s, j, u) PROVE FALSE
    OBVIOUS
  <2>2. j \in 1..L /\ j < c[m + 1]
    BY <1>2, <1>11, <1>15, SMTT(25)
  <2>3. s[j].type = "graph" /\ s[j].time \in Nat
    <3>1. s[j] \in Recorder!Frame
      BY <2>2
    <3>. QED BY <2>1, <3>1 DEF FitsIn, Recorder!Frame
  <2>4. CASE j < c[1]
    <3>1. FitsIn(s, j, t)
      BY <2>1, <2>3 DEF FitsIn
    <3>2. j \in 1..(c[1] - 1)
      BY <1>2, <1>15, <2>2, <2>4
    <3>. QED BY <3>1, <3>2 DEF Holds
  <2>5. CASE j >= c[1]
    <3>1. j \in c[1]..L
      BY <1>2, <1>15, <2>2, <2>5
    <3>2. PICK i \in 1..n : c[i] = j
      BY <1>14, <2>3, <3>1
    <3>3. i <= m
      <4>1. SUFFICES ASSUME i > m PROVE FALSE
        BY <1>2, <1>8
      <4>2. m + 1 \in 1..(n + 1) /\ i \in (m + 1)..(n + 1)
        BY <1>2, <1>8, <4>1, SMTT(25)
      <4>3. c[m + 1] <= c[i]
        BY <1>4, <4>2
      <4>. QED BY <1>15, <2>2, <3>2, <4>3
    <3>4. i - 1 \in 0..(m - 1) /\ i - 1 \in 0..(n - 1) /\ (i - 1) + 1 = i
      BY <1>2, <1>8, <3>3
    <3>. QED BY <1>7, <1>8, <2>1, <3>2, <3>4
  <2>. QED BY <1>15, <2>2, <2>4, <2>5
<1>18. BeginsClip(p, s, u, d)
  <2>1. SUFFICES ASSUME n - m # 0 PROVE FitsIn(s, d[1], u)
    BY <1>9 DEF BeginsClip
  <2>2. m \in 0..(n - 1)
    BY <1>2, <1>8, <2>1, SMTT(25)
  <2>. QED BY <1>7, <1>8, <1>11, <2>2
<1>. HIDE DEF p, d
<1>19. Holds(p, s, u, d)
  BY <1>9, <1>10, <1>11, <1>12, <1>13, <1>16, <1>17 DEF Holds
<1>. QED BY <1>1, <1>18, <1>19

\* With one more frame, no clip is within the limits that was not before.
LEMMA FitsBefore ==
  ASSUME NEW s \in Seq(Recorder!Frame), NEW f \in Recorder!Frame, NEW t \in Nat, NEW j \in 1..Len(s),
         FitsIn(Append(s, f), j, t)
  PROVE  FitsIn(s, j, t)
<1>. USE RecorderAssumption
<1>. DEFINE S == Append(s, f)
            L == Len(s)
<1>1. L \in Nat /\ S \in Seq(Recorder!Frame) /\ Len(S) = L + 1 /\ (\A i \in 1..L : S[i] = s[i]) /\ S[L + 1] = f
  BY AppendProperties
<1>. HIDE DEF S
<1>2. IsRunning(Running(s), s, L) /\ IsRunning(Running(S), S, L + 1)
  BY <1>1, RunningIs
<1>3. \A i \in 0..L : Running(s)[i] = Running(S)[i]
  <2>1. L <= Len(s) /\ L <= Len(S) /\ \A i \in 1..L : s[i] = S[i]
    BY <1>1
  <2>. QED BY <1>1, <2>1, RunningAgrees, ZenonT(40)
<1>4. Running(S)[L + 1] >= Running(S)[L]
  <2>1. L + 1 \in 1..(L + 1) /\ (L + 1) - 1 = L /\ L \in 0..(L + 1)
    BY <1>1
  <2>2. Running(S)[L + 1] = Running(S)[L] + Recorder!Size(f.type) /\ Running(S)[L] \in Nat
    BY <1>1, <1>2, <2>1 DEF IsRunning
  <2>. QED BY <2>2 DEF Recorder!Size
<1>5. Recorder!BytesOf(SubSeq(S, j, L + 1)) = Running(S)[L + 1] - Running(S)[j - 1]
  <2>1. j \in 1..(Len(S) + 1) /\ L + 1 \in (j - 1)..Len(S)
    BY <1>1
  <2>. QED BY <1>1, <2>1, BytesOfPart
<1>6. Recorder!BytesOf(SubSeq(s, j, L)) = Running(s)[L] - Running(s)[j - 1]
  <2>1. j \in 1..(Len(s) + 1) /\ L \in (j - 1)..Len(s)
    BY <1>1
  <2>. QED BY <2>1, BytesOfPart
<1>7. j - 1 \in 0..L /\ L \in 0..L /\ j - 1 \in 0..(L + 1) /\ L + 1 \in 0..(L + 1) /\ L \in 0..(L + 1)
  BY <1>1
<1>8. /\ Running(S)[L] \in Nat /\ Running(S)[L + 1] \in Nat /\ Running(S)[j - 1] \in Nat
  BY <1>2, <1>7 DEF IsRunning
<1>9. Running(s)[L] = Running(S)[L] /\ Running(s)[j - 1] = Running(S)[j - 1]
  BY <1>3, <1>7
<1>10. Len(SubSeq(S, j, L + 1)) = (L + 1) - j + 1
  <2>1. \A i \in j..(L + 1) : S[i] \in Recorder!Frame
    BY <1>1
  <2>. QED BY <1>1, <2>1, SubSeqProperties
<1>11. Len(SubSeq(s, j, L)) = L - j + 1
  <2>1. \A i \in j..L : s[i] \in Recorder!Frame
    BY <1>1
  <2>. QED BY <1>1, <2>1, SubSeqProperties
<1>12. /\ S[j].type = "graph" /\ S[j].time + Window >= t /\ Recorder!BytesOf(SubSeq(S, j, L + 1)) <= MaxBytes
       /\ Len(SubSeq(S, j, L + 1)) <= MaxFrames /\ S[j] = s[j]
  BY <1>1 DEF FitsIn, S
<1>13. Recorder!BytesOf(SubSeq(s, j, L)) <= MaxBytes
  BY <1>4, <1>5, <1>6, <1>8, <1>9, <1>12, SMTT(25)
<1>14. Len(SubSeq(s, j, L)) <= MaxFrames
  BY <1>1, <1>10, <1>11, <1>12
<1>. QED BY <1>12, <1>13, <1>14 DEF FitsIn

\* A frame that is taken in is at the end of what is kept, or nothing is kept.
LEMMA AppendHolds ==
  ASSUME NEW s \in Seq(Recorder!Frame), NEW f \in Recorder!Frame, NEW t \in Nat, NEW r, NEW c,
         Holds(r, s, t, c)
  PROVE  \E d : Holds(Recorder!Append1(r, f), Append(s, f), t, d)
<1>. USE RecorderAssumption
<1>. DEFINE S == Append(s, f)
            L == Len(s)
            n == Len(r.segments)
            W == Running(s)
            V == Running(S)
<1>1. L \in Nat /\ S \in Seq(Recorder!Frame) /\ Len(S) = L + 1 /\ (\A i \in 1..L : S[i] = s[i]) /\ S[L + 1] = f
  BY AppendProperties
<1>. HIDE DEF S
<1>0. n \in Nat /\ L \in Nat
  <2>1. r.segments \in Seq(Seq(Recorder!Frame))
    BY DEF Holds
  <2>. QED BY <1>1, <2>1
<1>2. n \in Nat /\ r.segments \in Seq(Seq(Recorder!Frame)) /\ c \in [1..(n + 1) -> 1..(L + 1)] /\ c[n + 1] = L + 1
      /\ \A i \in 1..(n + 1) : c[i] \in 1..(L + 1)
  <2>1. r.segments \in Seq(Seq(Recorder!Frame)) /\ c \in [1..(n + 1) -> 1..(L + 1)] /\ c[n + 1] = L + 1
    BY DEF Holds, Tiles
  <2>2. \A i \in 1..(n + 1) : c[i] \in 1..(L + 1)
    BY <2>1
  <2>. QED BY <1>0, <2>1, <2>2, Zenon
<1>3. IsRunning(V, S, L + 1)
  BY <1>1, RunningIs
<1>4. \A i \in 0..L : W[i] = V[i] /\ V[i] \in Nat
  <2>1. L <= Len(s) /\ L <= Len(S) /\ \A i \in 1..L : s[i] = S[i]
    BY <1>1
  <2>2. \A i \in 0..L : W[i] = V[i]
    BY <1>1, <2>1, RunningAgrees, ZenonT(40)
  <2>3. \A i \in 0..L : V[i] \in Nat
    <3>1. V \in [0..(L + 1) -> Nat] /\ \A i \in 0..L : i \in 0..(L + 1)
      BY <1>0, <1>3 DEF IsRunning
    <3>. QED BY <3>1
  <2>. QED BY <2>2, <2>3
<1>5. V[L + 1] = W[L] + Recorder!Size(f.type) /\ V[L + 1] \in Nat
  <2>1. L + 1 \in 1..(L + 1) /\ (L + 1) - 1 = L /\ L \in 0..L /\ L + 1 \in 0..(L + 1)
    BY <1>1
  <2>. QED BY <1>1, <1>3, <1>4, <2>1 DEF IsRunning
<1>6. \A i \in 1..n : c[i] < c[i + 1] /\ r.segments[i] = SubSeq(s, c[i], c[i + 1] - 1)
  BY DEF Holds, Tiles
<1>7. \A i \in 1..(n + 1) : \A k \in i..(n + 1) : c[i] <= c[k]
  BY TilesGrow DEF Holds
<1>8. \A i \in 1..n : c[i] \in 1..L /\ c[i] < L + 1
  <2>1. TAKE i \in 1..n
  <2>2. i + 1 \in 1..(n + 1) /\ n + 1 \in (i + 1)..(n + 1) /\ i \in 1..(n + 1)
    BY <1>2
  <2>3. c[i] < c[i + 1] /\ c[i + 1] <= L + 1 /\ c[i] \in 1..(L + 1) /\ c[i + 1] \in 1..(L + 1)
    BY <1>2, <1>6, <2>2
  <2>4. \A a, b \in 1..(L + 1) : a < b => a \in 1..L /\ a < L + 1
    BY <1>1
  <2>. QED BY <2>3, <2>4
\* A part of s is that part of S.
<1>9. \A a \in 1..(L + 1) : \A b \in (a - 1)..L : SubSeq(S, a, b) = SubSeq(s, a, b)
  <2>1. TAKE a \in 1..(L + 1)
  <2>. TAKE b \in (a - 1)..L
  <2>2. \A i \in a..b : s[i] \in Recorder!Frame /\ S[i] \in Recorder!Frame /\ S[i] = s[i]
    <3>1. \A i \in a..b : i \in 1..L /\ i \in 1..(L + 1)
      BY <1>0
    <3>2. \A i \in 1..L : s[i] \in Recorder!Frame
      OBVIOUS
    <3>3. \A i \in 1..(L + 1) : S[i] \in Recorder!Frame
      BY <1>1
    <3>. QED BY <1>1, <3>1, <3>2, <3>3
  <2>3. /\ SubSeq(s, a, b) \in Seq(Recorder!Frame) /\ Len(SubSeq(s, a, b)) = IF a <= b THEN b - a + 1 ELSE 0
        /\ \A i \in 1..(b - a + 1) : SubSeq(s, a, b)[i] = s[a + i - 1]
    BY <1>1, <2>2, SubSeqProperties
  <2>4. /\ SubSeq(S, a, b) \in Seq(Recorder!Frame) /\ Len(SubSeq(S, a, b)) = IF a <= b THEN b - a + 1 ELSE 0
        /\ \A i \in 1..(b - a + 1) : SubSeq(S, a, b)[i] = S[a + i - 1]
    BY <1>1, <2>2, SubSeqProperties
  <2>5. (IF a <= b THEN b - a + 1 ELSE 0) = b - a + 1 /\ \A i \in 1..(b - a + 1) : a + i - 1 \in a..b
    BY <1>1
  <2>. QED BY <2>2, <2>3, <2>4, <2>5, SeqEqual
<1>10. \A j \in 1..(c[1] - 1) : j \in 1..L /\ ~FitsIn(S, j, t)
  <2>1. TAKE j \in 1..(c[1] - 1)
  <2>2. j \in 1..L
    BY <1>1, <1>2
  <2>3. ~FitsIn(s, j, t)
    BY DEF Holds
  <2>. QED BY <2>2, <2>3, FitsBefore DEF S
<1>11. c[1] \in 1..(L + 1) /\ c[1] - 1 \in 0..L
  BY <1>1, <1>2
<1>12. r.bytes = V[L] - V[c[1] - 1] /\ r.frames = L - c[1] + 1 /\ V[L] = W[L] /\ V[L] \in Nat
       /\ V[c[1] - 1] \in Nat
  <2>1. L \in 0..L
    BY <1>1
  <2>. QED BY <1>4, <1>11, <2>1 DEF Holds
<1>13. ASSUME NEW i \in 1..n
       PROVE  S[c[i]].type = "graph"
  BY <1>1, <1>8 DEF Holds
<1>14. ASSUME NEW j \in c[1]..L, S[j].type = "graph"
       PROVE  \E i \in 1..n : c[i] = j
  <2>1. s[j].type = "graph"
    BY <1>1, <1>11, <1>14
  <2>. QED BY <2>1 DEF Holds
<1>15. f.type \in {"graph", "stats"}
  BY DEF Recorder!Frame, Recorder!Recordable
<1>16. CASE f.type = "graph"
  <2>. DEFINE q == Append(r.segments, <<f>>)
              d == [i \in 1..(n + 2) |-> IF i = n + 2 THEN L + 2 ELSE c[i]]
              p == Recorder!Recorder(q, r.bytes + Recorder!Size(f.type), r.frames + 1)
  <2>1. q \in Seq(Seq(Recorder!Frame)) /\ Len(q) = n + 1 /\ (\A i \in 1..n : q[i] = r.segments[i]) /\ q[n + 1] = <<f>>
    <3>1. <<f>> \in Seq(Recorder!Frame)
      OBVIOUS
    <3>. QED BY <1>2, <3>1, AppendProperties
  <2>2. Recorder!Append1(r, f) = p
    <3>. DEFINE opened == Append(r.segments, <<>>)
    <3>1. opened \in Seq(Seq(Recorder!Frame)) /\ Len(opened) = n + 1 /\ opened # <<>>
          /\ (\A i \in 1..n : opened[i] = r.segments[i]) /\ opened[n + 1] = <<>>
      <4>1. <<>> \in Seq(Recorder!Frame)
        OBVIOUS
      <4>2. /\ opened \in Seq(Seq(Recorder!Frame)) /\ opened # <<>> /\ Len(opened) = n + 1
            /\ (\A i \in 1..n : opened[i] = r.segments[i]) /\ opened[n + 1] = <<>>
        <5>1. r.segments \in Seq(Seq(Recorder!Frame))
          BY <1>2
        <5>. QED BY <4>1, <5>1, AppendProperties
      <4>. QED BY <4>2
    <3>. HIDE DEF opened
    <3>2. Append(<<>>, f) = <<f>>
      OBVIOUS
    <3>3. [opened EXCEPT ![n + 1] = Append(@, f)] = q
      <4>1. n + 1 \in 1..Len(opened) /\ <<f>> \in Seq(Recorder!Frame)
        BY <1>2, <3>1
      <4>2. /\ [opened EXCEPT ![n + 1] = <<f>>] \in Seq(Seq(Recorder!Frame))
            /\ Len([opened EXCEPT ![n + 1] = <<f>>]) = n + 1
            /\ \A i \in 1..(n + 1) : [opened EXCEPT ![n + 1] = <<f>>][i] = IF i = n + 1 THEN <<f>> ELSE opened[i]
        BY <3>1, <4>1, ExceptSeq, SMTT(25)
      <4>3. \A i \in 1..(n + 1) : (IF i = n + 1 THEN <<f>> ELSE opened[i]) = q[i]
        <5>1. TAKE i \in 1..(n + 1)
        <5>2. i # n + 1 => i \in 1..n
          BY <1>0
        <5>. QED BY <2>1, <3>1, <5>2, SMTT(25)
      <4>4. [opened EXCEPT ![n + 1] = <<f>>] = q
        <5>. HIDE DEF q
        <5>. DEFINE e == [opened EXCEPT ![n + 1] = <<f>>]
        <5>1. e \in Seq(Seq(Recorder!Frame)) /\ Len(e) = n + 1 /\ \A i \in 1..(n + 1) : e[i] = q[i]
          BY <4>2, <4>3
        <5>. HIDE DEF e
        <5>2. q \in Seq(Seq(Recorder!Frame)) /\ Len(q) = n + 1
          BY <2>1
        <5>3. e = q
          BY <5>1, <5>2, SeqEqual
        <5>. QED BY <5>3 DEF e
      <4>. QED BY <3>1, <3>2, <4>4
    <3>4. Recorder!Append1(r, f) = Recorder!Recorder([opened EXCEPT ![Len(opened)] = Append(@, f)],
                                   r.bytes + Recorder!Size(f.type), r.frames + 1)
      BY <1>16, <3>1, Zenon DEF Recorder!Append1, opened
    <3>. QED BY <3>1, <3>3, <3>4
  <2>. HIDE DEF q
  <2>3. p.segments = q /\ p.bytes = r.bytes + Recorder!Size(f.type) /\ p.frames = r.frames + 1
    BY DEF Recorder!Recorder
  <2>. HIDE DEF p
  <2>4. /\ d[n + 2] = L + 2 /\ d[n + 1] = L + 1 /\ \A i \in 1..(n + 1) : d[i] = c[i]
    <3>1. \A i \in 1..(n + 1) : i \in 1..(n + 2) /\ i # n + 2
      BY <1>2, SMTT(25)
    <3>2. n + 2 \in 1..(n + 2) /\ n + 1 \in 1..(n + 1)
      BY <1>2
    <3>. QED BY <1>2, <3>1, <3>2
  <2>5. d \in [1..(n + 2) -> 1..(L + 2)]
    <3>1. \A i \in 1..(n + 2) : i # n + 2 => i \in 1..(n + 1)
      BY <1>2, SMTT(25)
    <3>2. L + 2 \in 1..(L + 2) /\ \A x \in 1..(L + 1) : x \in 1..(L + 2)
      BY <1>1
    <3>. QED BY <1>2, <3>1, <3>2
  <2>. HIDE DEF d
  <2>6. d[1] = c[1]
    BY <1>2, <2>4
  <2>7. Tiles(q, S, d)
    <3>1. ASSUME NEW i \in 1..(n + 1)
          PROVE  d[i] < d[i + 1] /\ q[i] = SubSeq(S, d[i], d[i + 1] - 1)
      <4>1. CASE i = n + 1
        <5>1. d[i] = L + 1 /\ d[i + 1] = L + 2
          BY <1>2, <2>4, <4>1
        <5>2. SubSeq(S, L + 1, L + 1) = <<f>>
          <6>1. \A k \in (L + 1)..(L + 1) : S[k] \in Recorder!Frame
            BY <1>1
          <6>2. /\ SubSeq(S, L + 1, L + 1) \in Seq(Recorder!Frame) /\ Len(SubSeq(S, L + 1, L + 1)) = 1
                /\ SubSeq(S, L + 1, L + 1)[1] = f
            <7>1. /\ SubSeq(S, L + 1, L + 1) \in Seq(Recorder!Frame)
                  /\ Len(SubSeq(S, L + 1, L + 1)) = IF L + 1 <= L + 1 THEN (L + 1) - (L + 1) + 1 ELSE 0
                  /\ \A k \in 1..((L + 1) - (L + 1) + 1) : SubSeq(S, L + 1, L + 1)[k] = S[(L + 1) + k - 1]
              BY <1>1, <6>1, SubSeqProperties
            <7>2. (L + 1) - (L + 1) + 1 = 1 /\ (L + 1) + 1 - 1 = L + 1 /\ 1 \in 1..1
              BY <1>1
            <7>. QED BY <1>1, <7>1, <7>2
          <6>3. <<f>> \in Seq(Recorder!Frame) /\ Len(<<f>>) = 1 /\ <<f>>[1] = f
            OBVIOUS
          <6>4. \A k \in 1..1 : SubSeq(S, L + 1, L + 1)[k] = <<f>>[k]
            BY <6>2, <6>3
          <6>. DEFINE e == SubSeq(S, L + 1, L + 1)
                      o == <<f>>
          <6>5. e \in Seq(Recorder!Frame) /\ Len(e) = 1 /\ o \in Seq(Recorder!Frame) /\ Len(o) = 1 /\ \A k \in 1..1 : e[k] = o[k]
            BY <6>2, <6>3, <6>4
          <6>. HIDE DEF e, o
          <6>6. e = o
            BY <6>5, SeqEqual
          <6>. QED BY <6>6 DEF e, o
        <5>3. L + 1 < L + 2 /\ (L + 2) - 1 = L + 1
          BY <1>1
        <5>. QED BY <2>1, <4>1, <5>1, <5>2, <5>3
      <4>2. CASE i # n + 1
        <5>1. i \in 1..n /\ i \in 1..(n + 1) /\ i + 1 \in 1..(n + 1)
          BY <1>0, <4>2
        <5>2. d[i] = c[i] /\ d[i + 1] = c[i + 1] /\ c[i] \in 1..(L + 1) /\ c[i + 1] \in 1..(L + 1)
              /\ c[i] < c[i + 1] /\ q[i] = SubSeq(s, c[i], c[i + 1] - 1)
          BY <1>2, <1>6, <2>1, <2>4, <5>1
        <5>3. \A a, b \in 1..(L + 1) : a < b => b - 1 \in (a - 1)..L
          BY <1>1
        <5>4. c[i + 1] - 1 \in (c[i] - 1)..L
          BY <5>2, <5>3
        <5>. QED BY <1>9, <5>2, <5>4
      <4>. QED BY <4>1, <4>2
    <3>2. Len(q) + 1 = n + 2 /\ Len(S) + 1 = L + 2
      BY <1>1, <1>2, <2>1
    <3>. QED BY <2>1, <2>5, <3>1, <3>2 DEF Tiles
  <2>8. \A i \in 1..(n + 1) : S[d[i]].type = "graph"
    <3>1. TAKE i \in 1..(n + 1)
    <3>2. CASE i = n + 1
      BY <1>1, <1>16, <2>4, <3>2
    <3>3. CASE i # n + 1
      <4>1. i \in 1..n
        BY <1>0, <3>3
      <4>. QED BY <1>13, <2>4, <4>1
    <3>. QED BY <3>2, <3>3
  <2>9. ASSUME NEW j \in d[1]..(L + 1), S[j].type = "graph"
        PROVE  \E i \in 1..(n + 1) : d[i] = j
    <3>1. CASE j = L + 1
      <4>1. n + 1 \in 1..(n + 1)
        BY <1>2
      <4>. QED BY <2>4, <3>1, <4>1
    <3>2. CASE j # L + 1
      <4>1. j \in c[1]..L
        BY <1>1, <1>11, <2>6, <3>2
      <4>2. PICK i \in 1..n : c[i] = j
        BY <1>14, <2>9, <4>1
      <4>3. i \in 1..(n + 1)
        BY <1>2
      <4>. QED BY <2>4, <4>2, <4>3
    <3>. QED BY <3>1, <3>2
  <2>10. p.bytes = V[L + 1] - V[d[1] - 1]
    <3>1. Recorder!Size(f.type) \in Nat
      BY DEF Recorder!Size
    <3>. QED BY <1>5, <1>12, <2>3, <2>6, <3>1
  <2>11. p.frames = (L + 1) - d[1] + 1
    <3>1. \A a \in 1..(L + 1) : (L - a + 1) + 1 = (L + 1) - a + 1
      BY <1>0
    <3>2. p.frames = (L - c[1] + 1) + 1
      BY <1>12, <2>3
    <3>. QED BY <1>11, <2>6, <3>1, <3>2
  <2>12. d[Len(q) + 1] = Len(S) + 1
    <3>1. Len(q) + 1 = n + 2 /\ Len(S) + 1 = L + 2
      BY <1>1, <1>2, <2>1
    <3>. QED BY <2>4, <3>1
  <2>13. Holds(p, S, t, d)
    BY <1>1, <1>10, <2>1, <2>3, <2>6, <2>7, <2>8, <2>9, <2>10, <2>11, <2>12 DEF Holds
  <2>. QED BY <2>2, <2>13 DEF S
<1>17. CASE f.type # "graph" /\ r.segments = <<>>
  <2>. DEFINE d == [i \in 1..1 |-> L + 2]
  <2>1. Recorder!Append1(r, f) = r
    BY <1>17, Zenon DEF Recorder!Append1
  <2>2. n = 0 /\ c[1] = L + 1
    BY <1>2, <1>17
  <2>3. d[1] = L + 2 /\ Len(r.segments) + 1 = 1 /\ Len(S) + 1 = L + 2 /\ L + 2 \in 1..(L + 2)
    BY <1>1, <1>2, <2>2
  <2>4. d \in [1..1 -> 1..(L + 2)]
    BY <2>3
  <2>. HIDE DEF d
  <2>5. Tiles(r.segments, S, d)
    BY <2>2, <2>3, <2>4 DEF Tiles
  <2>6. ASSUME NEW j \in 1..(d[1] - 1)
        PROVE  ~FitsIn(S, j, t)
    <3>1. CASE j = L + 1
      BY <1>1, <1>17, <3>1 DEF FitsIn
    <3>2. CASE j # L + 1
      <4>1. j \in 1..(c[1] - 1)
        BY <1>1, <2>2, <2>3, <3>2
      <4>. QED BY <1>10, <4>1
    <3>. QED BY <3>1, <3>2
  <2>7. r.bytes = V[L + 1] - V[d[1] - 1] /\ r.frames = (L + 1) - d[1] + 1
    <3>1. r.bytes = 0 /\ r.frames = 0
      <4>1. c[1] - 1 = L
        BY <1>1, <2>2
      <4>. QED BY <1>1, <1>12, <2>2, <4>1
    <3>2. d[1] - 1 = L + 1 /\ (L + 1) - d[1] + 1 = 0
      BY <1>1, <2>3
    <3>. QED BY <1>5, <3>1, <3>2
  <2>8. d[1]..Len(S) = {}
    BY <1>1, <2>3
  <2>9. Holds(r, S, t, d)
    BY <1>1, <1>2, <2>2, <2>3, <2>5, <2>6, <2>7, <2>8 DEF Holds
  <2>. QED BY <2>1, <2>9 DEF S
<1>18. CASE f.type # "graph" /\ r.segments # <<>>
  <2>. DEFINE last == Append(r.segments[n], f)
              q == [r.segments EXCEPT ![n] = last]
              d == [i \in 1..(n + 1) |-> IF i = n + 1 THEN L + 2 ELSE c[i]]
              p == Recorder!Recorder(q, r.bytes + Recorder!Size(f.type), r.frames + 1)
  <2>1. Recorder!Append1(r, f) = p
    BY <1>18, Zenon DEF Recorder!Append1
  <2>2. n \in 1..n
    BY <1>2, <1>18
  <2>3. r.segments[n] = SubSeq(s, c[n], L) /\ c[n] \in 1..L
    <3>1. r.segments[n] = SubSeq(s, c[n], c[n + 1] - 1) /\ (L + 1) - 1 = L
      BY <1>1, <1>6, <2>2, SMTT(25)
    <3>. QED BY <1>2, <1>8, <2>2, <3>1
  <2>4. last = SubSeq(S, c[n], L + 1) /\ last \in Seq(Recorder!Frame)
    <3>. DEFINE a == c[n]
    <3>1. a \in 1..L
      BY <2>3
    <3>. HIDE DEF a
    <3>2. /\ SubSeq(s, a, L) \in Seq(Recorder!Frame) /\ Len(SubSeq(s, a, L)) = L - a + 1
          /\ \A i \in 1..(L - a + 1) : SubSeq(s, a, L)[i] = s[a + i - 1]
      <4>1. \A i \in a..L : s[i] \in Recorder!Frame
        BY <1>1, <3>1
      <4>. QED BY <1>1, <3>1, <4>1, SubSeqProperties
    <3>3. /\ SubSeq(S, a, L + 1) \in Seq(Recorder!Frame) /\ Len(SubSeq(S, a, L + 1)) = L - a + 2
          /\ \A i \in 1..(L - a + 2) : SubSeq(S, a, L + 1)[i] = S[a + i - 1]
      <4>1. \A i \in a..(L + 1) : S[i] \in Recorder!Frame
        BY <1>1, <3>1
      <4>2. /\ SubSeq(S, a, L + 1) \in Seq(Recorder!Frame)
            /\ Len(SubSeq(S, a, L + 1)) = IF a <= L + 1 THEN (L + 1) - a + 1 ELSE 0
            /\ \A i \in 1..((L + 1) - a + 1) : SubSeq(S, a, L + 1)[i] = S[a + i - 1]
        BY <1>1, <3>1, <4>1, SubSeqProperties
      <4>3. (L + 1) - a + 1 = L - a + 2 /\ a <= L + 1
        BY <1>1, <3>1
      <4>. QED BY <4>2, <4>3
    <3>4. /\ Append(SubSeq(s, a, L), f) \in Seq(Recorder!Frame)
          /\ Len(Append(SubSeq(s, a, L), f)) = L - a + 2
          /\ \A i \in 1..(L - a + 1) : Append(SubSeq(s, a, L), f)[i] = SubSeq(s, a, L)[i]
          /\ Append(SubSeq(s, a, L), f)[L - a + 2] = f
      <4>1. L - a + 1 + 1 = L - a + 2
        BY <1>1, <3>1
      <4>. QED BY <3>2, <4>1, AppendProperties
    <3>5. ASSUME NEW i \in 1..(L - a + 2)
          PROVE  SubSeq(S, a, L + 1)[i] = Append(SubSeq(s, a, L), f)[i]
      <4>1. CASE i = L - a + 2
        <5>1. a + i - 1 = L + 1
          BY <1>1, <3>1, <4>1
        <5>. QED BY <1>1, <3>3, <3>4, <4>1, <5>1
      <4>2. CASE i # L - a + 2
        <5>1. i \in 1..(L - a + 1) /\ a + i - 1 \in 1..L
          BY <1>0, <3>1, <4>2
        <5>. QED BY <1>1, <3>2, <3>3, <3>4, <5>1
      <4>. QED BY <4>1, <4>2
    <3>6. SubSeq(S, a, L + 1) = Append(SubSeq(s, a, L), f)
      BY <3>3, <3>4, <3>5, SeqEqual
    <3>. QED BY <2>3, <3>4, <3>6 DEF a
  <2>. HIDE DEF last
  <2>5. q \in Seq(Seq(Recorder!Frame)) /\ Len(q) = n /\ \A i \in 1..n : q[i] = IF i = n THEN last ELSE r.segments[i]
    <3>. DEFINE g == r.segments
    <3>1. g \in Seq(Seq(Recorder!Frame)) /\ n \in 1..Len(g) /\ n = Len(g)
      BY <1>2, <2>2
    <3>. HIDE DEF g
    <3>2. /\ [g EXCEPT ![n] = last] \in Seq(Seq(Recorder!Frame)) /\ Len([g EXCEPT ![n] = last]) = Len(g)
          /\ \A i \in 1..Len(g) : [g EXCEPT ![n] = last][i] = IF i = n THEN last ELSE g[i]
      BY <2>4, <3>1, ExceptSeq, SMTT(25)
    <3>. QED BY <3>1, <3>2 DEF g
  <2>. HIDE DEF q
  <2>6. p.segments = q /\ p.bytes = r.bytes + Recorder!Size(f.type) /\ p.frames = r.frames + 1
    BY DEF Recorder!Recorder
  <2>. HIDE DEF p
  <2>7. d[n + 1] = L + 2 /\ \A i \in 1..n : d[i] = c[i]
    <3>1. \A i \in 1..n : i \in 1..(n + 1) /\ i # n + 1
      BY <1>2, SMTT(25)
    <3>2. n + 1 \in 1..(n + 1)
      BY <1>2
    <3>. QED BY <1>2, <3>1, <3>2
  <2>8. d \in [1..(n + 1) -> 1..(L + 2)]
    <3>1. L + 2 \in 1..(L + 2) /\ \A x \in 1..(L + 1) : x \in 1..(L + 2)
      BY <1>1
    <3>. QED BY <1>2, <3>1
  <2>. HIDE DEF d
  <2>9. d[1] = c[1]
    BY <1>2, <2>2, <2>7
  <2>10. Tiles(q, S, d)
    <3>1. ASSUME NEW i \in 1..n
          PROVE  d[i] < d[i + 1] /\ q[i] = SubSeq(S, d[i], d[i + 1] - 1)
      <4>1. CASE i = n
        <5>1. d[i] = c[n] /\ d[i + 1] = L + 2 /\ q[i] = last /\ (L + 2) - 1 = L + 1 /\ c[n] < L + 2
          <6>1. d[i] = c[n] /\ d[i + 1] = L + 2 /\ q[i] = last
            BY <2>2, <2>5, <2>7, <4>1
          <6>2. \A a \in 1..L : a < L + 2 /\ (L + 2) - 1 = L + 1
            BY <1>0
          <6>. QED BY <2>3, <6>1, <6>2
        <5>. QED BY <2>4, <5>1
      <4>2. CASE i # n
        <5>1. i \in 1..n /\ i + 1 \in 1..n /\ i \in 1..(n + 1) /\ i + 1 \in 1..(n + 1)
          BY <1>0, <4>2
        <5>2. d[i] = c[i] /\ d[i + 1] = c[i + 1] /\ c[i] \in 1..(L + 1) /\ c[i + 1] \in 1..(L + 1)
              /\ c[i] < c[i + 1] /\ q[i] = SubSeq(s, c[i], c[i + 1] - 1)
          BY <1>2, <1>6, <2>5, <2>7, <4>2, <5>1
        <5>3. \A a, b \in 1..(L + 1) : a < b => b - 1 \in (a - 1)..L
          BY <1>1
        <5>4. c[i + 1] - 1 \in (c[i] - 1)..L
          BY <5>2, <5>3
        <5>. QED BY <1>9, <5>2, <5>4
      <4>. QED BY <4>1, <4>2
    <3>2. Len(S) + 1 = L + 2
      BY <1>1
    <3>. QED BY <2>5, <2>8, <3>1, <3>2 DEF Tiles
  <2>11. \A i \in 1..n : S[d[i]].type = "graph"
    BY <1>13, <2>7
  <2>12. ASSUME NEW j \in d[1]..(L + 1), S[j].type = "graph"
         PROVE  \E i \in 1..n : d[i] = j
    <3>1. j # L + 1
      BY <1>1, <1>18, <2>12
    <3>2. j \in c[1]..L
      BY <1>1, <1>11, <2>9, <3>1
    <3>3. PICK i \in 1..n : c[i] = j
      BY <1>14, <2>12, <3>2
    <3>. QED BY <2>7, <3>3
  <2>13. p.bytes = V[L + 1] - V[d[1] - 1]
    <3>1. Recorder!Size(f.type) \in Nat
      BY DEF Recorder!Size
    <3>. QED BY <1>5, <1>12, <2>6, <2>9, <3>1
  <2>14. p.frames = (L + 1) - d[1] + 1
    <3>1. \A a \in 1..(L + 1) : (L - a + 1) + 1 = (L + 1) - a + 1
      BY <1>0
    <3>2. p.frames = (L - c[1] + 1) + 1
      BY <1>12, <2>6
    <3>. QED BY <1>11, <2>9, <3>1, <3>2
  <2>15. d[Len(q) + 1] = Len(S) + 1
    <3>1. Len(S) + 1 = L + 2
      BY <1>1
    <3>. QED BY <2>5, <2>7, <3>1
  <2>16. Holds(p, S, t, d)
    BY <1>1, <1>10, <2>5, <2>6, <2>9, <2>10, <2>11, <2>12, <2>13, <2>14, <2>15 DEF Holds
  <2>. QED BY <2>1, <2>16 DEF S
<1>. QED BY <1>16, <1>17, <1>18

\* RecorderInv: what the recorder keeps tiles the end of what was said, from the first clip
\* that is within the limits.
RecorderInv ==
  /\ recorded \in Seq(Recorder!Frame) /\ now \in 0..MaxSaid
  /\ \E c : LET r == Recorder!Recorder(segments, bytes, frames)
            IN Holds(r, recorded, now, c) /\ BeginsClip(r, recorded, now, c)

LEMMA RecorderBegins ==
  ASSUME Recorder!Init
  PROVE  RecorderInv
<1>. USE RecorderAssumption
<1>. DEFINE c == [i \in 1..1 |-> 1]
            r == Recorder!Recorder(<<>>, 0, 0)
<1>1. recorded = <<>> /\ recorded \in Seq(Recorder!Frame) /\ Len(recorded) = 0 /\ now \in 0..MaxSaid /\ now = 0
      /\ segments = <<>> /\ bytes = 0 /\ frames = 0
  BY DEF Recorder!Init
<1>2. c \in [1..1 -> 1..1] /\ c[1] = 1
  OBVIOUS
<1>. HIDE DEF c
<1>3. r.segments = <<>> /\ r.bytes = 0 /\ r.frames = 0 /\ <<>> \in Seq(Seq(Recorder!Frame)) /\ Len(<<>>) = 0
  BY DEF Recorder!Recorder
<1>4. Running(recorded)[0] = 0
  BY <1>1, RunningIs DEF IsRunning
<1>5. Tiles(<<>>, recorded, c)
  BY <1>1, <1>2, <1>3 DEF Tiles
<1>. HIDE DEF r
<1>6. Holds(r, recorded, now, c)
  BY <1>1, <1>2, <1>3, <1>4, <1>5 DEF Holds
<1>7. BeginsClip(r, recorded, now, c)
  BY <1>3 DEF BeginsClip
<1>. QED BY <1>1, <1>6, <1>7 DEF RecorderInv, r

LEMMA RecorderGoesOn ==
  ASSUME RecorderInv, Recorder!Next \/ UNCHANGED Recorder!vars
  PROVE  RecorderInv'
<1>. USE RecorderAssumption
<1>1. CASE UNCHANGED Recorder!vars
  BY <1>1 DEF Recorder!vars, RecorderInv
<1>2. CASE Recorder!Next
  <2>. DEFINE r == Recorder!Recorder(segments, bytes, frames)
  <2>1. PICK t \in now..(now + 1) : t <= MaxSaid /\ (Recorder!Export(t) \/ \E type \in Recorder!Types : Recorder!Capture(type, t))
    BY <1>2 DEF Recorder!Next
  <2>2. recorded \in Seq(Recorder!Frame) /\ now \in 0..MaxSaid /\ now \in Nat /\ t \in Nat /\ now <= t /\ t \in 0..MaxSaid
    BY <2>1 DEF RecorderInv
  <2>3. PICK c : Holds(r, recorded, now, c)
    BY DEF RecorderInv
  <2>4. PICK d : Holds(Recorder!Prune(r, t), recorded, t, d) /\ BeginsClip(Recorder!Prune(r, t), recorded, t, d)
    BY <2>2, <2>3, PruneHolds
  <2>5. ASSUME Recorder!Becomes(Recorder!Prune(r, t))
        PROVE  Recorder!Recorder(segments, bytes, frames)' = Recorder!Prune(r, t)
    BY <2>5, SMTT(25) DEF Recorder!Becomes, Recorder!Prune, Recorder!Recorder
  <2>6. ASSUME NEW q, Recorder!Becomes(Recorder!Prune(q, t))
        PROVE  Recorder!Recorder(segments, bytes, frames)' = Recorder!Prune(q, t)
    BY <2>6 DEF Recorder!Becomes, Recorder!Prune, Recorder!Recorder
  <2>. HIDE DEF r
  <2>7. CASE Recorder!Export(t)
    <3>1. now' = t /\ recorded' = recorded /\ Recorder!Becomes(Recorder!Prune(r, t))
      BY <2>7 DEF Recorder!Export, r
    <3>. QED BY <2>2, <2>4, <2>5, <3>1 DEF RecorderInv
  <2>8. ASSUME NEW type \in Recorder!Types, Recorder!Capture(type, t)
        PROVE  RecorderInv'
    <3>. DEFINE f == [type |-> type, time |-> t]
    <3>1. CASE type \notin Recorder!Recordable
      <4>1. now' = t /\ recorded' = recorded /\ Recorder!Becomes(Recorder!Prune(r, t))
        BY <2>8, <3>1 DEF Recorder!Capture, r
      <4>. QED BY <2>2, <2>4, <2>5, <4>1 DEF RecorderInv
    <3>2. CASE type \in Recorder!Recordable
      <4>1. /\ now' = t /\ recorded' = Append(recorded, f)
            /\ Recorder!Becomes(Recorder!Prune(Recorder!Append1(Recorder!Prune(r, t), f), t))
        BY <2>8, <3>2 DEF Recorder!Capture, r
      <4>2. f \in Recorder!Frame
        BY <2>2, <3>2 DEF Recorder!Frame
      <4>. HIDE DEF f
      <4>3. recorded' \in Seq(Recorder!Frame)
        BY <2>2, <4>1, <4>2
      <4>4. PICK e : Holds(Recorder!Append1(Recorder!Prune(r, t), f), recorded', t, e)
        BY <2>2, <2>4, <4>1, <4>2, AppendHolds
      <4>5. PICK g : /\ Holds(Recorder!Prune(Recorder!Append1(Recorder!Prune(r, t), f), t), recorded', t, g)
                     /\ BeginsClip(Recorder!Prune(Recorder!Append1(Recorder!Prune(r, t), f), t), recorded', t, g)
        BY <2>2, <4>3, <4>4, PruneHolds
      <4>6. Recorder!Recorder(segments, bytes, frames)' = Recorder!Prune(Recorder!Append1(Recorder!Prune(r, t), f), t)
        BY <2>6, <4>1
      <4>. QED BY <2>2, <4>1, <4>3, <4>5, <4>6 DEF RecorderInv
    <3>. QED BY <3>1, <3>2
  <2>. QED BY <2>1, <2>7, <2>8
<1>. QED BY <1>1, <1>2

\* Thus the clip is the longest.
LEMMA ClipFollows ==
  ASSUME RecorderInv
  PROVE  Recorder!ClipIsLongest
<1>. USE RecorderAssumption
<1>. DEFINE r == Recorder!Recorder(segments, bytes, frames)
            L == Len(recorded)
            starts == {k \in 1..L : FitsIn(recorded, k, now)}
<1>1. PICK c : Holds(r, recorded, now, c) /\ BeginsClip(r, recorded, now, c)
  BY DEF RecorderInv
<1>2. r.segments = segments /\ recorded \in Seq(Recorder!Frame) /\ L \in Nat
  BY DEF Recorder!Recorder, RecorderInv
<1>. HIDE DEF r
<1>3. segments \in Seq(Seq(Recorder!Frame)) /\ Tiles(segments, recorded, c) /\ c[Len(segments) + 1] = L + 1
  BY <1>1, <1>2 DEF Holds
<1>4. c \in [1..(Len(segments) + 1) -> 1..(L + 1)] /\ Len(segments) \in Nat
  BY <1>3 DEF Tiles
<1>5. Recorder!FramesOf(segments) = SubSeq(recorded, c[1], L)
  <2>1. Recorder!FramesOf(segments) = SubSeq(recorded, c[1], c[Len(segments) + 1] - 1)
    BY <1>2, <1>3, TilesFlatten
  <2>2. (L + 1) - 1 = L
    BY <1>2
  <2>. QED BY <1>3, <2>1, <2>2
<1>6. c[1] \in 1..(L + 1) /\ \A j \in 1..(c[1] - 1) : ~FitsIn(recorded, j, now)
  BY <1>1, <1>4, SMTT(25) DEF Holds
<1>7. Recorder!ClipIsLongest
        <=> Recorder!FramesOf(segments) = IF starts = {} THEN <<>> ELSE SubSeq(recorded, Recorder!Least(starts), L)
  BY Zenon DEF Recorder!ClipIsLongest, FitsIn
<1>8. CASE Len(segments) = 0
  <2>1. c[1] = L + 1
    BY <1>3, <1>8
  <2>2. starts = {}
    BY <1>2, <1>6, <2>1
  <2>3. SubSeq(recorded, c[1], L) = <<>>
    BY <1>2, <1>6, <2>1, SubSeqEmpty
  <2>. QED BY <1>5, <1>7, <2>2, <2>3
<1>9. CASE Len(segments) # 0
  <2>1. FitsIn(recorded, c[1], now)
    BY <1>1, <1>2, <1>9 DEF BeginsClip
  <2>2. c[1] \in 1..L
    <3>1. 1 \in 1..Len(segments) /\ 1 + 1 \in 1..(Len(segments) + 1)
      BY <1>4, <1>9
    <3>2. c[1] < c[1 + 1] /\ c[1 + 1] \in 1..(L + 1)
      BY <1>3, <1>4, <3>1 DEF Tiles
    <3>. QED BY <1>2, <1>6, <3>2
  <2>3. c[1] \in starts /\ \A k \in starts : c[1] <= k
    BY <1>2, <1>6, <2>1, <2>2
  <2>4. \A x \in starts : (\A k \in starts : x <= k) => x = c[1]
    BY <1>2, <2>2, <2>3
  <2>. HIDE DEF starts
  <2>5. Recorder!Least(starts) = c[1]
    BY <2>3, <2>4, Zenon DEF Recorder!Least
  <2>. QED BY <1>5, <1>7, <2>3, <2>5
<1>. QED BY <1>4, <1>8, <1>9

-----------------------------------------------------------------------------
(* A step of the whole is a step of the part, or leaves it alone.          *)

\* A stop of the monitor is one of the alerts and of the exits.
LEMMA AlertsMove ==
  ASSUME [Next]_vars
  PROVE  \/ Alerts!Next
         \/ UNCHANGED alertVars /\ (stopped' = stopped \/ stopped' = TRUE)
<1>1. CASE Exits!Next /\ UNCHANGED alertVars
  BY <1>1 DEF Exits!Next, Exits!Stop, Exits!Begins, Exits!Terminates, Exits!Expires, Exits!Diagnosed
<1>. QED BY <1>1 DEF Next, ServerNext, MonitorNext, LifeNext, KeptNext, TimedNext, PluginNext,
  ClientNext, ShownNext, PanelsNext, OfficialNext, vars, serverVars, monitorVars, alertVars

LEMMA ExitsMove ==
  ASSUME [Next]_vars
  PROVE  \/ Exits!Next
         \/ UNCHANGED exitVars /\ (stopped' = stopped \/ stopped' = TRUE)
<1>1. CASE Alerts!Next /\ UNCHANGED exitVars
  BY <1>1 DEF Alerts!Next, Alerts!Present, Alerts!Absent, Alerts!Outage, Alerts!SourceRemoved,
    Alerts!AnalysisReturns, Alerts!RefreshStats, Alerts!StatsReturn, Alerts!StatsFail, Alerts!Stop
<1>. QED BY <1>1, Zenon DEF Next, ServerNext, MonitorNext, LifeNext, KeptNext, TimedNext, PluginNext,
  ClientNext, ShownNext, PanelsNext, OfficialNext, vars, serverVars, monitorVars, exitVars

LEMMA AccessMoves ==
  ASSUME [Next]_vars PROVE Access!Next \/ UNCHANGED accessVars
BY DEF Next, ServerNext, MonitorNext, LifeNext, KeptNext, TimedNext, PluginNext,
  ClientNext, ShownNext, PanelsNext, OfficialNext, vars, serverVars, keptVars

LEMMA MarketMoves ==
  ASSUME [Next]_vars PROVE Market!Next \/ UNCHANGED marketVars
BY DEF Next, ServerNext, MonitorNext, LifeNext, KeptNext, TimedNext, PluginNext,
  ClientNext, ShownNext, PanelsNext, OfficialNext, vars, serverVars, keptVars

LEMMA CatalogsMove ==
  ASSUME [Next]_vars PROVE Catalogs!Next \/ UNCHANGED catalogVars
BY DEF Next, ServerNext, MonitorNext, LifeNext, KeptNext, TimedNext, PluginNext,
  ClientNext, ShownNext, PanelsNext, OfficialNext, vars, serverVars, pluginVars

LEMMA LoaderMoves ==
  ASSUME [Next]_vars PROVE Loader!Next \/ UNCHANGED loaderVars
BY DEF Next, ServerNext, MonitorNext, LifeNext, KeptNext, TimedNext, PluginNext,
  ClientNext, ShownNext, PanelsNext, OfficialNext, vars, serverVars, pluginVars

LEMMA EntitiesMove ==
  ASSUME [Next]_vars PROVE Entities!Next \/ UNCHANGED entityVars
BY DEF Next, ServerNext, MonitorNext, LifeNext, KeptNext, TimedNext, PluginNext,
  ClientNext, ShownNext, PanelsNext, OfficialNext, vars, serverVars, pluginVars

LEMMA ConnectionsMove ==
  ASSUME [Next]_vars PROVE Connections!Next \/ UNCHANGED connectionVars
BY DEF Next, ServerNext, MonitorNext, LifeNext, KeptNext, TimedNext, PluginNext,
  ClientNext, ShownNext, PanelsNext, OfficialNext, vars, panelsVars

LEMMA ProjectsMove ==
  ASSUME [Next]_vars PROVE Projects!Next \/ UNCHANGED projectVars
BY DEF Next, ServerNext, MonitorNext, LifeNext, KeptNext, TimedNext, PluginNext,
  ClientNext, ShownNext, PanelsNext, OfficialNext, vars, panelsVars

LEMMA StorageMoves ==
  ASSUME [Next]_vars PROVE Storage!Next \/ UNCHANGED storageVars
BY DEF Next, ServerNext, MonitorNext, LifeNext, KeptNext, TimedNext, PluginNext,
  ClientNext, ShownNext, PanelsNext, OfficialNext, vars, serverVars, keptVars

LEMMA StoresMove ==
  ASSUME [Next]_vars PROVE Stores!Next \/ UNCHANGED storesVars
BY DEF Next, ServerNext, MonitorNext, LifeNext, KeptNext, TimedNext, PluginNext,
  ClientNext, ShownNext, PanelsNext, OfficialNext, vars, serverVars, keptVars

LEMMA ChecksMove ==
  ASSUME [Next]_vars PROVE Checks!Next \/ UNCHANGED endpointVars
BY DEF Next, ServerNext, MonitorNext, LifeNext, KeptNext, TimedNext, PluginNext,
  ClientNext, ShownNext, PanelsNext, OfficialNext, vars, officialVars

LEMMA SessionsMove ==
  ASSUME [Next]_vars PROVE Sessions!Next \/ UNCHANGED sessionVars
BY DEF Next, ServerNext, MonitorNext, LifeNext, KeptNext, TimedNext, PluginNext,
  ClientNext, ShownNext, PanelsNext, OfficialNext, vars, serverVars, lifeVars

LEMMA ProcessMoves ==
  ASSUME [Next]_vars PROVE Process!Next \/ UNCHANGED processVars
BY DEF Next, ServerNext, MonitorNext, LifeNext, KeptNext, TimedNext, PluginNext,
  ClientNext, ShownNext, PanelsNext, OfficialNext, vars, serverVars, lifeVars

LEMMA TabMoves ==
  ASSUME [Next]_vars PROVE Tab!Next \/ UNCHANGED tabVars
BY DEF Next, ServerNext, MonitorNext, LifeNext, KeptNext, TimedNext, PluginNext,
  ClientNext, ShownNext, PanelsNext, OfficialNext, vars, clientVars

LEMMA ReplayMoves ==
  ASSUME [Next]_vars PROVE Replay!Next \/ UNCHANGED replayVars
BY DEF Next, ServerNext, MonitorNext, LifeNext, KeptNext, TimedNext, PluginNext,
  ClientNext, ShownNext, PanelsNext, OfficialNext, vars, clientVars

LEMMA GateMoves ==
  ASSUME [Next]_vars PROVE Gate!Next \/ UNCHANGED gateVars
BY DEF Next, ServerNext, MonitorNext, LifeNext, KeptNext, TimedNext, PluginNext,
  ClientNext, ShownNext, PanelsNext, OfficialNext, vars, clientVars

LEMMA ManagerMoves ==
  ASSUME [Next]_vars PROVE Manager!Next \/ UNCHANGED managerVars
BY DEF Next, ServerNext, MonitorNext, LifeNext, KeptNext, TimedNext, PluginNext,
  ClientNext, ShownNext, PanelsNext, OfficialNext, vars, panelsVars

LEMMA WebhooksMove ==
  ASSUME [Next]_vars PROVE Webhooks!Next \/ UNCHANGED webhookVars
BY DEF Next, ServerNext, MonitorNext, LifeNext, KeptNext, TimedNext, PluginNext,
  ClientNext, ShownNext, PanelsNext, OfficialNext, vars, panelsVars

LEMMA FlatMoves ==
  ASSUME [Next]_vars PROVE Flat!Next \/ UNCHANGED flatVars
BY DEF Next, ServerNext, MonitorNext, LifeNext, KeptNext, TimedNext, PluginNext,
  ClientNext, ShownNext, PanelsNext, OfficialNext, vars, shownVars

LEMMA RecorderMoves ==
  ASSUME [Next]_vars PROVE Recorder!Next \/ UNCHANGED recorderVars
BY DEF Next, ServerNext, MonitorNext, LifeNext, KeptNext, TimedNext, PluginNext,
  ClientNext, ShownNext, PanelsNext, OfficialNext, vars, serverVars, timedVars

LEMMA HistoryMoves ==
  ASSUME [Next]_vars PROVE History!Next \/ UNCHANGED historyVars
BY DEF Next, ServerNext, MonitorNext, LifeNext, KeptNext, TimedNext, PluginNext,
  ClientNext, ShownNext, PanelsNext, OfficialNext, vars, serverVars, timedVars

LEMMA MetricsMove ==
  ASSUME [Next]_vars PROVE Metrics!Next \/ UNCHANGED podVars
BY DEF Next, ServerNext, MonitorNext, LifeNext, KeptNext, TimedNext, PluginNext,
  ClientNext, ShownNext, PanelsNext, OfficialNext, vars, officialVars

LEMMA ClusterMoves ==
  ASSUME [Next]_vars PROVE Cluster!Next \/ UNCHANGED clusterVars
BY DEF Next, ServerNext, MonitorNext, LifeNext, KeptNext, TimedNext, PluginNext,
  ClientNext, ShownNext, PanelsNext, OfficialNext, vars, officialVars

LEMMA CompareMoves ==
  ASSUME [Next]_vars PROVE Compare!Next \/ UNCHANGED compareVars
BY DEF Next, ServerNext, MonitorNext, LifeNext, KeptNext, TimedNext, PluginNext,
  ClientNext, ShownNext, PanelsNext, OfficialNext, vars, panelsVars

LEMMA ViewMoves ==
  ASSUME [Next]_vars PROVE View!Next \/ UNCHANGED viewVars
BY DEF Next, ServerNext, MonitorNext, LifeNext, KeptNext, TimedNext, PluginNext,
  ClientNext, ShownNext, PanelsNext, OfficialNext, vars, shownVars

LEMMA PanelMoves ==
  ASSUME [Next]_vars PROVE Panel!Next \/ UNCHANGED panelVars
BY DEF Next, ServerNext, MonitorNext, LifeNext, KeptNext, TimedNext, PluginNext,
  ClientNext, ShownNext, PanelsNext, OfficialNext, vars, shownVars

LEMMA FramesMove ==
  ASSUME [Next]_vars PROVE Frames!Next \/ UNCHANGED frameVars
BY DEF Next, ServerNext, MonitorNext, LifeNext, KeptNext, TimedNext, PluginNext,
  ClientNext, ShownNext, PanelsNext, OfficialNext, vars, shownVars

-----------------------------------------------------------------------------
(* The camera of the 2D view.                                              *)

\* The effects move the camera for the first graph, and for other filters or another network;
\* only a state of the host is another snapshot.
LEMMA CameraStands ==
  ASSUME Flat!Next \/ UNCHANGED Flat!vars, fitted, flatSnapshot # flatSnapshot',
         flatSnapshot'.filter = flatSnapshot.filter, network' = network
  PROVE  camera' = camera
<1>1. ASSUME NEW g \in FlatGraphs, NEW filter \in FlatFilters, NEW n, Flat!Subscribed(g, n, filter)
      PROVE  camera' = camera
  <2>. DEFINE s == [graph |-> g, selected |-> n, filter |-> filter]
  <2>1. Flat!Effects(s, network, impact)
    BY <1>1, SMTT(25) DEF Flat!Subscribed
  <2>. HIDE DEF s
  <2>2. flatSnapshot' = s /\ network' = Flat!NetworkAfter(s, network)
    BY <2>1 DEF Flat!Effects
  <2>3. ~Flat!AsksForFit(s, Flat!NetworkAfter(s, network))
    BY <2>2 DEF Flat!AsksForFit
  <2>. QED BY <2>1, <2>3 DEF Flat!Effects
<1>2. ASSUME NEW w, NEW mode, Flat!Effects(flatSnapshot, w, mode) PROVE FALSE
  BY <1>2 DEF Flat!Effects
<1>. QED BY <1>1, <1>2 DEF Flat!Next, Flat!ChooseNode, Flat!ChooseNetwork, Flat!Chip, Flat!Resize,
  Flat!ResetNetwork,
  Flat!ToggleImpactMode, Flat!ResetCamera, Flat!ZoomToFit, Flat!MoveCamera, Flat!CenterOnNode, Flat!vars

-----------------------------------------------------------------------------
(* The types of the history.                                               *)

\* What is taken of the first elements of a sequence, for each number of them.
Firsts(all, places) ==
  CHOOSE first : first = [n \in 0..Len(all) |->
    IF n = 0 THEN <<>>
    ELSE IF n \in places THEN Append(first[n - 1], all[n]) ELSE first[n - 1]]

\* It is picked as a function that is one, and what is taken is its last value.
LEMMA FirstsAre ==
  ASSUME NEW S, NEW all \in Seq(S), NEW places
  PROVE  /\ History!Only(all, places) = Firsts(all, places)[Len(all)]
         /\ Firsts(all, places) \in [0..Len(all) -> Seq(S)] /\ Firsts(all, places)[0] = <<>>
         /\ \A n \in 1..Len(all) :
              Firsts(all, places)[n] = IF n \in places THEN Append(Firsts(all, places)[n - 1], all[n])
                                       ELSE Firsts(all, places)[n - 1]
<1>. DEFINE step == [p \in (1..Len(all)) \X Seq(S) |-> IF p[1] \in places THEN Append(p[2], all[p[1]]) ELSE p[2]]
            Are(first) == first = [n \in 0..Len(all) |->
              IF n = 0 THEN <<>>
              ELSE IF n \in places THEN Append(first[n - 1], all[n]) ELSE first[n - 1]]
<1>1. Len(all) \in Nat /\ <<>> \in Seq(S) /\ \A n \in 1..Len(all) : all[n] \in S
  BY LenProperties
<1>2. step \in [(1..Len(all)) \X Seq(S) -> Seq(S)]
  <2>1. \A s \in Seq(S), e \in S : Append(s, e) \in Seq(S)
    BY AppendProperties
  <2>. QED BY <1>1, <2>1
<1>3. PICK f : Follows(f, Len(all), Seq(S), <<>>, step)
  <2>. HIDE DEF step
  <2>. QED BY <1>1, <1>2, Recursion
<1>4. f \in [0..Len(all) -> Seq(S)] /\ f[0] = <<>>
      /\ \A n \in 1..Len(all) : f[n] = step[<<n, f[n - 1]>>]
  BY <1>3 DEF Follows
<1>5. \A n \in 1..Len(all) : n # 0 /\ n - 1 \in 0..Len(all) /\ f[n - 1] \in Seq(S)
  BY <1>1, <1>4
<1>6. \A n \in 1..Len(all) : f[n] = IF n \in places THEN Append(f[n - 1], all[n]) ELSE f[n - 1]
  BY <1>4, <1>5
<1>7. Are(f)
  <2>1. \A n \in 0..Len(all) : n = 0 \/ n \in 1..Len(all)
    BY <1>1
  <2>. QED BY <1>4, <1>5, <1>6, <2>1
<1>8. Are(Firsts(all, places))
  BY <1>7, Zenon DEF Firsts
<1>9. History!Only(all, places) = Firsts(all, places)[Len(all)]
  BY Zenon DEF History!Only, Firsts
<1>. DEFINE g == Firsts(all, places)
<1>10. DOMAIN g = 0..Len(all) /\ \A n \in 0..Len(all) : g[n] =
         IF n = 0 THEN <<>> ELSE IF n \in places THEN Append(g[n - 1], all[n]) ELSE g[n - 1]
  BY <1>8
<1>11. g = [n \in 0..Len(all) |-> g[n]]
  BY <1>8
<1>. HIDE DEF g, Are, step
<1>12. \A n \in 0..Len(all) : g[n] = f[n]
  <2>. DEFINE K == {n \in Nat : n <= Len(all) => g[n] = f[n]}
  <2>1. 0 \in K
    BY <1>1, <1>4, <1>10
  <2>2. ASSUME NEW n \in K PROVE n + 1 \in K
    <3>1. ASSUME n + 1 <= Len(all) PROVE g[n + 1] = f[n + 1]
      <4>1. n + 1 \in 1..Len(all) /\ (n + 1) - 1 = n /\ n + 1 \in 0..Len(all) /\ g[n] = f[n] /\ n + 1 # 0
        BY <1>1, <3>1
      <4>2. f[n + 1] = IF n + 1 \in places THEN Append(f[n], all[n + 1]) ELSE f[n]
        BY <1>6, <4>1
      <4>3. g[n + 1] = IF n + 1 \in places THEN Append(g[n], all[n + 1]) ELSE g[n]
        BY <1>10, <4>1
      <4>. QED BY <4>1, <4>2, <4>3
    <3>. QED BY <3>1
  <2>3. K = Nat
    BY <2>1, <2>2, Counting
  <2>. QED BY <1>1, <2>3
<1>13. g = f
  BY <1>4, <1>11, <1>12
<1>. QED BY <1>4, <1>6, <1>9, <1>13 DEF g

\* What is taken is in the sequence at one of the places, is no more than it, and
\* names nothing twice that it does not.
LEMMA OnlySome ==
  ASSUME NEW S, NEW all \in Seq(S), NEW places,
         \A i, j \in DOMAIN all : all[i].id = all[j].id => i = j
  PROVE  LET some == History!Only(all, places)
         IN /\ some \in Seq(S) /\ Len(some) <= Len(all)
            /\ \A k \in DOMAIN some : \E i \in DOMAIN all : i \in places /\ some[k] = all[i]
            /\ \A k, l \in DOMAIN some : some[k].id = some[l].id => k = l
<1>. DEFINE f == Firsts(all, places)
            Taken(n) == /\ Len(f[n]) <= n
                        /\ \A k \in 1..Len(f[n]) : \E i \in 1..n : i \in places /\ f[n][k] = all[i]
                        /\ \A k, l \in 1..Len(f[n]) : f[n][k].id = f[n][l].id => k = l
            K == {n \in Nat : n <= Len(all) => Taken(n)}
<1>1. /\ f \in [0..Len(all) -> Seq(S)] /\ f[0] = <<>> /\ History!Only(all, places) = f[Len(all)]
      /\ \A n \in 1..Len(all) : f[n] = IF n \in places THEN Append(f[n - 1], all[n]) ELSE f[n - 1]
  BY FirstsAre
<1>2. Len(all) \in Nat /\ DOMAIN all = 1..Len(all) /\ \A i \in 1..Len(all) : all[i] \in S
  BY LenProperties
<1>. HIDE DEF f
<1>3. 0 \in K
  BY <1>1
<1>4. ASSUME NEW n \in K PROVE n + 1 \in K
  <2>1. SUFFICES ASSUME n + 1 <= Len(all) PROVE Taken(n + 1)
    <3>. HIDE DEF Taken
    <3>. QED OBVIOUS
  <2>2. n \in Nat /\ n + 1 \in 1..Len(all) /\ (n + 1) - 1 = n /\ n \in 0..Len(all) /\ Taken(n)
    BY <1>2, <2>1
  <2>3. f[n] \in Seq(S) /\ all[n + 1] \in S
    BY <1>1, <1>2, <2>2
  <2>4. CASE n + 1 \notin places
    <3>1. f[n + 1] = f[n]
      BY <1>1, <2>2, <2>4
    <3>. QED BY <2>2, <2>3, <3>1
  <2>5. CASE n + 1 \in places
    <3>1. f[n + 1] = Append(f[n], all[n + 1])
      BY <1>1, <2>2, <2>5
    <3>2. /\ Len(f[n + 1]) = Len(f[n]) + 1 /\ f[n + 1][Len(f[n]) + 1] = all[n + 1]
          /\ \A k \in 1..Len(f[n]) : f[n + 1][k] = f[n][k]
          /\ Len(f[n]) \in Nat
      BY <2>3, <3>1, AppendProperties, LenProperties
    <3>3. \A k \in 1..Len(f[n]) : \E i \in 1..n : i \in places /\ f[n + 1][k] = all[i]
      BY <2>2, <3>2
    <3>4. \A k \in 1..Len(f[n]) : f[n + 1][k].id # all[n + 1].id
      <4>1. TAKE k \in 1..Len(f[n])
      <4>2. PICK i \in 1..n : f[n + 1][k] = all[i]
        BY <3>3
      <4>3. i \in DOMAIN all /\ n + 1 \in DOMAIN all /\ i # n + 1
        BY <1>2, <2>2
      <4>. QED BY <4>2, <4>3
    <3>5. \A k \in 1..(Len(f[n]) + 1) : k \in 1..Len(f[n]) \/ k = Len(f[n]) + 1
      BY <3>2
    <3>6. Len(f[n + 1]) <= n + 1
      BY <2>2, <3>2
    <3>7. \A k \in 1..Len(f[n + 1]) : \E i \in 1..(n + 1) : i \in places /\ f[n + 1][k] = all[i]
      <4>1. TAKE k \in 1..Len(f[n + 1])
      <4>2. CASE k \in 1..Len(f[n])
        <5>1. PICK i \in 1..n : i \in places /\ f[n + 1][k] = all[i]
          BY <3>3, <4>2
        <5>. QED BY <2>2, <5>1
      <4>3. CASE k = Len(f[n]) + 1
        BY <2>2, <2>5, <3>2, <4>3
      <4>. QED BY <3>2, <3>5, <4>2, <4>3
    <3>8. \A k, l \in 1..Len(f[n + 1]) : f[n + 1][k].id = f[n + 1][l].id => k = l
      <4>1. SUFFICES ASSUME NEW k \in 1..Len(f[n + 1]), NEW l \in 1..Len(f[n + 1]),
                            f[n + 1][k].id = f[n + 1][l].id
                     PROVE  k = l
        OBVIOUS
      <4>2. CASE k \in 1..Len(f[n]) /\ l \in 1..Len(f[n])
        BY <2>2, <3>2, <4>1, <4>2
      <4>3. CASE k \in 1..Len(f[n]) /\ l = Len(f[n]) + 1
        BY <3>2, <3>4, <4>1, <4>3
      <4>4. CASE l \in 1..Len(f[n]) /\ k = Len(f[n]) + 1
        BY <3>2, <3>4, <4>1, <4>4
      <4>. QED BY <3>2, <3>5, <4>2, <4>3, <4>4
    <3>. QED BY <3>6, <3>7, <3>8
  <2>. QED BY <2>4, <2>5
<1>5. K = Nat
  BY <1>3, <1>4, Counting
<1>6. Taken(Len(all))
  BY <1>2, <1>5
<1>7. f[Len(all)] \in Seq(S) /\ DOMAIN f[Len(all)] = 1..Len(f[Len(all)])
  BY <1>1, <1>2
<1>. DEFINE some == f[Len(all)]
<1>8. /\ some \in Seq(S) /\ Len(some) <= Len(all)
      /\ \A k \in DOMAIN some : \E i \in DOMAIN all : i \in places /\ some[k] = all[i]
      /\ \A k, l \in DOMAIN some : some[k].id = some[l].id => k = l
  BY <1>2, <1>6, <1>7
<1>. HIDE DEF Taken, K
<1>. QED BY <1>1, <1>8

\* What is kept, and what is written, are sequences of samples of workloads.
Samples == Seq([id : Workloads \cup {"nothing"}, times : SUBSET History!Times])
IsKept(all) == all \in Samples /\ History!IsHistory(all)
HistoryTypes ==
  /\ historyNow \in History!Times /\ clean \in BOOLEAN
  /\ phase \in {"up", "closing", "flushing", "down"}
  /\ IsKept(series) /\ IsKept(historyFile) /\ (writing = History!Nothing \/ IsKept(writing))

\* These are all the types of the history.
LEMMA HistoryIsTyped ==
  ASSUME HistoryTypes PROVE History!TypeOK
BY DEF HistoryTypes, IsKept, History!TypeOK

\* What is pruned is a history again, with no sample out of the window.
LEMMA PrunedIsKept ==
  ASSUME NEW all, IsKept(all) PROVE IsKept(History!Pruned(all))
<1>. DEFINE E == [id : Workloads \cup {"nothing"}, times : SUBSET History!Times]
            kept == [i \in DOMAIN all |-> [all[i] EXCEPT !.times =
                       {t \in @ : t + Retention >= historyNow /\ t <= historyNow}]]
            places == {i \in DOMAIN all : kept[i].times # {}}
            some == History!Only(kept, places)
<1>1. all \in Seq(E) /\ Len(all) \in Nat /\ DOMAIN all = 1..Len(all) /\ History!IsHistory(all)
  BY DEF IsKept, Samples
<1>2. \A i \in DOMAIN all : all[i] \in E
  <2>. HIDE DEF E
  <2>. QED BY <1>1
<1>3. \A i \in DOMAIN all : kept[i] \in E /\ kept[i].id = all[i].id
  BY <1>2
<1>4. kept \in Seq(E) /\ Len(kept) = Len(all) /\ DOMAIN kept = DOMAIN all
  <2>. HIDE DEF E
  <2>1. kept \in [1..Len(all) -> E]
    BY <1>1, <1>3
  <2>2. kept \in Seq(E)
    BY <1>1, <2>1
  <2>. QED BY <1>1, <2>1, <2>2, LenProperties
<1>. HIDE DEF E, kept
<1>5. \A i, j \in DOMAIN kept : kept[i].id = kept[j].id => i = j
  BY <1>1, <1>3, <1>4 DEF History!IsHistory
<1>6. /\ some \in Seq(E) /\ Len(some) <= Len(kept)
      /\ \A k \in DOMAIN some : \E i \in DOMAIN kept : i \in places /\ some[k] = kept[i]
      /\ \A k, l \in DOMAIN some : some[k].id = some[l].id => k = l
  BY <1>4, <1>5, OnlySome
<1>7. History!Pruned(all) = some
  BY DEF History!Pruned, kept
<1>. HIDE DEF some
<1>8. \A k \in DOMAIN some : some[k].times # {} /\ some[k].times \subseteq History!Times
  <2>1. TAKE k \in DOMAIN some
  <2>2. PICK i \in DOMAIN kept : i \in places /\ some[k] = kept[i]
    BY <1>6
  <2>3. kept[i] \in E
    BY <1>3, <1>4
  <2>. QED BY <2>2, <2>3 DEF E
<1>9. Len(some) \in Nat /\ Len(some) <= MaxSeries
  BY <1>1, <1>4, <1>6, BoundsAssumption DEF History!IsHistory
<1>. QED BY <1>6, <1>7, <1>8, <1>9 DEF IsKept, Samples, E, History!IsHistory

\* A new sample ends a history, which has the most recent workloads only.
LEMMA RecordedIsKept ==
  ASSUME HistoryTypes, NEW w \in Workloads, History!Record(w) PROVE IsKept(series')
<1>. DEFINE E == [id : Workloads \cup {"nothing"}, times : SUBSET History!Times]
            own == {i \in DOMAIN series : series[i].id = w}
            others == History!Only(series, DOMAIN series \ own)
            old == UNION {series[i].times : i \in own}
            times == {t \in old \cup {historyNow} : t + Retention >= historyNow}
            e == [id |-> w, times |-> times]
            all == Append(others, e)
<1>1. series \in Seq(E) /\ Len(series) \in Nat /\ DOMAIN series = 1..Len(series)
      /\ \A i \in DOMAIN series : series[i] \in E
  <2>1. series \in Seq(E)
    BY DEF HistoryTypes, IsKept, Samples
  <2>. HIDE DEF E
  <2>. QED BY <2>1
<1>2. History!IsHistory(series)
  BY DEF HistoryTypes, IsKept
<1>3. /\ others \in Seq(E) /\ Len(others) <= Len(series)
      /\ \A k \in DOMAIN others : \E i \in DOMAIN series : i \in DOMAIN series \ own /\ others[k] = series[i]
      /\ \A k, l \in DOMAIN others : others[k].id = others[l].id => k = l
  <2>. HIDE DEF E, own
  <2>1. \A i, j \in DOMAIN series : series[i].id = series[j].id => i = j
    BY <1>2 DEF History!IsHistory
  <2>. QED BY <1>1, <2>1, OnlySome
<1>4. historyNow \in times /\ times \subseteq History!Times
  <2>1. historyNow \in Nat /\ historyNow \in History!Times
    BY BoundsAssumption DEF HistoryTypes, History!Times
  <2>2. historyNow + Retention >= historyNow
    BY <2>1, BoundsAssumption
  <2>3. old \subseteq History!Times
    BY <1>2 DEF History!IsHistory
  <2>. QED BY <2>1, <2>2, <2>3
<1>5. e \in E
  BY <1>4
<1>6. series' = History!Evicted(all)
  BY Zenon DEF History!Record
<1>7. \A k \in DOMAIN others : others[k].id # w /\ others[k].times # {} /\ others[k].times \subseteq History!Times
  <2>1. TAKE k \in DOMAIN others
  <2>2. PICK i \in DOMAIN series : i \in DOMAIN series \ own /\ others[k] = series[i]
    <3>. HIDE DEF others
    <3>. QED BY <1>3
  <2>3. series[i].id # w
    BY <2>2
  <2>. HIDE DEF others, own
  <2>. QED BY <1>2, <2>2, <2>3 DEF History!IsHistory
<1>8. e.id = w /\ e.times = times
  OBVIOUS
<1>. HIDE DEF E, own, others, old, times, e
<1>9. Len(others) \in Nat /\ DOMAIN others = 1..Len(others) /\ Len(others) <= MaxSeries
  BY <1>1, <1>2, <1>3, BoundsAssumption DEF History!IsHistory
<1>10. /\ all \in Seq(E) /\ Len(all) = Len(others) + 1 /\ DOMAIN all = 1..(Len(others) + 1)
       /\ all[Len(others) + 1] = e /\ \A k \in 1..Len(others) : all[k] = others[k]
  BY <1>3, <1>5, <1>9, AppendProperties, LenProperties
<1>. HIDE DEF all
<1>11. \A k \in DOMAIN all : k \in DOMAIN others \/ k = Len(others) + 1
  BY <1>9, <1>10
<1>12. \A k \in DOMAIN all : all[k].times # {} /\ all[k].times \subseteq History!Times
  BY <1>4, <1>7, <1>8, <1>9, <1>10, <1>11
<1>13. \A k, l \in DOMAIN all : all[k].id = all[l].id => k = l
  BY <1>3, <1>7, <1>8, <1>9, <1>10, <1>11
<1>14. CASE Len(all) > MaxSeries
  <2>1. all # <<>> /\ series' = Tail(all)
    BY <1>6, <1>9, <1>10, <1>14 DEF History!Evicted
  <2>2. /\ Tail(all) \in Seq(E) /\ Len(Tail(all)) = Len(all) - 1
        /\ \A k \in 1..Len(Tail(all)) : Tail(all)[k] = all[k + 1]
        /\ DOMAIN Tail(all) = 1..Len(Tail(all))
    BY <1>10, <2>1, HeadTailProperties, LenProperties
  <2>3. \A k \in DOMAIN Tail(all) : k \in Nat /\ k + 1 \in DOMAIN all /\ Tail(all)[k] = all[k + 1]
    BY <1>9, <1>10, <2>2
  <2>4. \A k, l \in DOMAIN Tail(all) : Tail(all)[k].id = Tail(all)[l].id => k = l
    BY <1>13, <2>3
  <2>5. \A k \in DOMAIN Tail(all) : Tail(all)[k].times # {} /\ Tail(all)[k].times \subseteq History!Times
    BY <1>12, <2>3
  <2>6. Len(Tail(all)) <= MaxSeries
    BY <1>9, <1>10, <2>2
  <2>. QED BY <2>1, <2>2, <2>4, <2>5, <2>6 DEF IsKept, Samples, E, History!IsHistory
<1>15. CASE ~(Len(all) > MaxSeries)
  <2>1. series' = all /\ Len(all) <= MaxSeries
    BY <1>6, <1>9, <1>10, <1>15, BoundsAssumption DEF History!Evicted
  <2>. QED BY <1>10, <1>12, <1>13, <2>1 DEF IsKept, Samples, E, History!IsHistory
<1>. QED BY <1>14, <1>15

\* No samples are a history.
LEMMA HistoryBeginsTyped ==
  ASSUME History!Init PROVE HistoryTypes
<1>1. <<>> \in Samples /\ DOMAIN <<>> = {} /\ Len(<<>>) = 0
  BY DEF Samples
<1>2. IsKept(<<>>)
  BY <1>1, BoundsAssumption DEF IsKept, History!IsHistory
<1>3. 0 \in History!Times
  BY BoundsAssumption DEF History!Times
<1>. QED BY <1>2, <1>3 DEF History!Init, HistoryTypes, IsKept, History!IsHistory

\* Each step of the history keeps them.
LEMMA HistoryStaysTyped ==
  ASSUME HistoryTypes, History!Next \/ UNCHANGED History!vars PROVE HistoryTypes'
<1>. USE DEF HistoryTypes
<1>1. IsKept(History!Pruned(series)) /\ IsKept(History!Pruned(historyFile))
  BY PrunedIsKept
<1>2. ASSUME NEW w \in Workloads, History!Record(w) PROVE HistoryTypes'
  <2>1. IsKept(series')
    BY <1>2, RecordedIsKept
  <2>. QED BY <1>2, <2>1 DEF History!Record, IsKept, History!IsHistory
<1>3. CASE History!Flush \/ History!LastFlush
  BY <1>1, <1>3 DEF History!Flush, History!LastFlush, IsKept, History!IsHistory
<1>4. CASE History!Close \/ History!Crash
  BY <1>4 DEF History!Close, History!Crash, IsKept, History!IsHistory
<1>5. CASE History!Load
  BY <1>1, <1>5 DEF History!Load, IsKept, History!IsHistory
<1>6. ASSUME NEW ok \in BOOLEAN, History!WriteEnds(ok) PROVE HistoryTypes'
  BY <1>6 DEF History!WriteEnds, IsKept, History!IsHistory
<1>7. ASSUME NEW t \in History!Times, History!Clock(t) PROVE HistoryTypes'
  BY <1>7 DEF History!Clock, IsKept, History!IsHistory
<1>8. CASE UNCHANGED History!vars
  BY <1>8 DEF History!vars, IsKept, History!IsHistory
<1>. QED BY <1>2, <1>3, <1>4, <1>5, <1>6, <1>7, <1>8 DEF History!Next

-----------------------------------------------------------------------------
(* The types of the recording.                                             *)

\* The invariant has the types: segments, bytes and frames are of what was said.
LEMMA RecorderIsTyped ==
  ASSUME RecorderInv PROVE Recorder!TypeOK
<1>. USE RecorderAssumption
<1>. DEFINE r == Recorder!Recorder(segments, bytes, frames)
            L == Len(recorded)
<1>1. PICK c : Holds(r, recorded, now, c)
  BY DEF RecorderInv
<1>2. r.segments = segments /\ r.bytes = bytes /\ r.frames = frames /\ recorded \in Seq(Recorder!Frame) /\ L \in Nat
  BY DEF Recorder!Recorder, RecorderInv
<1>. HIDE DEF r
<1>3. /\ segments \in Seq(Seq(Recorder!Frame)) /\ Tiles(segments, recorded, c)
      /\ bytes = Running(recorded)[L] - Running(recorded)[c[1] - 1] /\ frames = L - c[1] + 1
  BY <1>1, <1>2 DEF Holds
<1>4. c[1] \in 1..(L + 1)
  <2>1. Len(segments) \in Nat /\ 1 \in 1..(Len(segments) + 1)
    BY <1>3
  <2>. QED BY <1>3, <2>1 DEF Tiles
<1>5. PICK a \in 1..(L + 1) : a = c[1]
  BY <1>4
<1>6. bytes = Running(recorded)[L] - Running(recorded)[a - 1] /\ frames = L - a + 1
  BY <1>3, <1>5
<1>. DEFINE sum == Running(recorded)
<1>7. IsRunning(sum, recorded, L)
  BY <1>2, RunningIs
<1>. HIDE DEF L, sum
<1>8. frames \in Nat
  BY <1>2, <1>6
<1>9. bytes \in Nat
  <2>1. a - 1 \in 0..L /\ L \in (a - 1)..L /\ L \in 0..L
    BY <1>2
  <2>2. \A i \in 0..L : sum[i] \in Nat
    BY <1>7 DEF IsRunning
  <2>. DEFINE K == {k \in Nat : k \in (a - 1)..L => sum[a - 1] <= sum[k]}
  <2>3. 0 \in K
    BY <2>1, <2>2
  <2>4. ASSUME NEW k \in K PROVE k + 1 \in K
    <3>1. ASSUME k + 1 \in (a - 1)..L, k + 1 # a - 1 PROVE sum[a - 1] <= sum[k + 1]
      <4>1. k \in (a - 1)..L /\ k + 1 \in 1..L /\ (k + 1) - 1 = k /\ k \in 0..L /\ k + 1 \in 0..L
        BY <1>2, <2>1, <3>1
      <4>2. sum[k + 1] = sum[k] + Recorder!Size(recorded[k + 1].type)
        BY <1>7, <4>1 DEF IsRunning
      <4>3. Recorder!Size(recorded[k + 1].type) \in Nat
        BY DEF Recorder!Size
      <4>4. sum[a - 1] <= sum[k]
        BY <4>1
      <4>5. sum[a - 1] \in Nat /\ sum[k] \in Nat
        BY <2>1, <2>2, <4>1
      <4>. QED BY <4>2, <4>3, <4>4, <4>5
    <3>2. k + 1 = a - 1 => sum[a - 1] <= sum[k + 1]
      BY <2>1, <2>2
    <3>3. k + 1 \in Nat
      OBVIOUS
    <3>. QED BY <3>1, <3>2, <3>3
  <2>5. K = Nat
    <3>1. K \subseteq Nat
      OBVIOUS
    <3>. HIDE DEF K
    <3>. QED BY <2>3, <2>4, <3>1, Counting
  <2>6. sum[a - 1] <= sum[L]
    BY <1>2, <2>1, <2>5
  <2>7. sum[a - 1] \in Nat /\ sum[L] \in Nat
    BY <2>1, <2>2
  <2>8. bytes = sum[L] - sum[a - 1]
    BY <1>6 DEF sum
  <2>. QED BY <2>6, <2>7, <2>8
<1>. QED BY <1>2, <1>3, <1>8, <1>9 DEF RecorderInv, Recorder!TypeOK

-----------------------------------------------------------------------------
(* The types of the actions on nodes.                                      *)

\* The plugins that may be asked for an action.
Providers == {"p1", "p2", "docker", "compose"}

\* They are the external ones, in the order of their registration, and two others.
LEMMA PluginsAre ==
  /\ Entities!External = {"p1", "p2"} /\ Entities!External \cup {"docker", "compose"} = Providers
  /\ <<"p1", "p2">> \in Seq(Providers)
<1>1. Len(<<"p1", "p2">>) = 2 /\ <<"p1", "p2">>[1] = "p1" /\ <<"p1", "p2">>[2] = "p2"
  OBVIOUS
<1>2. \A i : i \in 1..2 <=> i = 1 \/ i = 2
  OBVIOUS
<1>3. Entities!External = {"p1", "p2"}
  BY <1>1, <1>2 DEF Entities!External
<1>4. <<"p1", "p2">> \in Seq(Providers)
  BY DEF Providers
<1>. QED BY <1>3, <1>4 DEF Providers

\* Of plugins, only plugins are taken.
LEMMA OnlyProviders ==
  ASSUME NEW all \in Seq(Providers), NEW places
  PROVE  Entities!Only(all, places) \in Seq(Providers)
<1>1. Entities!Only(all, places) = Firsts(all, places)[Len(all)]
  BY Zenon DEF Entities!Only, Firsts
<1>2. Firsts(all, places) \in [0..Len(all) -> Seq(Providers)] /\ Len(all) \in Nat
  BY FirstsAre
<1>3. Len(all) \in 0..Len(all)
  BY <1>2
<1>. QED BY <1>1, <1>2, <1>3

\* The hosts, the plugins that are enabled, and whom an operation still asks.
EntitiesTypes ==
  /\ {"local"} \subseteq DOMAIN hosts /\ DOMAIN hosts \subseteq HostNames \cup {"local"}
  /\ \A n \in DOMAIN hosts : hosts[n] \in Daemons \cup {Entities!Default}
  /\ addedHosts \subseteq HostNames \X Daemons /\ enabled \subseteq {"p1", "p2"}
  /\ operation.at \in {"idle", "asking", "listing"}
  /\ operation.said \subseteq Providers /\ operation.left \in Seq(Providers)
  /\ operation.at = "listing" => operation.left # <<>>

\* With the invariant, these are all the types of the actions on nodes.
LEMMA EntitiesAreTyped ==
  ASSUME EntitiesInv, EntitiesTypes PROVE Entities!TypeOK
BY PluginsAre DEF EntitiesInv, EntitiesTypes, Entities!TypeOK

\* No operation asks nobody.
LEMMA NoRequestTyped ==
  /\ Entities!NoRequest.at = "idle" /\ Entities!NoRequest.said = {} /\ Entities!NoRequest.left \in Seq(Providers)
<1>1. <<>> \in Seq(Providers)
  OBVIOUS
<1>. QED BY <1>1, Zenon DEF Entities!NoRequest

\* There is the local host, and no operation.
LEMMA EntitiesBeginTyped ==
  ASSUME Entities!Init PROVE EntitiesTypes
<1>1. hosts = [n \in {"local"} |-> Entities!Default] /\ addedHosts = {} /\ enabled = {} /\ operation = Entities!NoRequest
  BY DEF Entities!Init
<1>2. DOMAIN hosts = {"local"} /\ \A n \in DOMAIN hosts : hosts[n] = Entities!Default
  BY <1>1
<1>. QED BY <1>1, <1>2, NoRequestTyped DEF EntitiesTypes

\* An operation asks plugins.
OperationTyped(r) ==
  /\ r.at \in {"idle", "asking", "listing"} /\ r.said \subseteq Providers /\ r.left \in Seq(Providers)
  /\ r.at = "listing" => r.left # <<>>

\* Each step of the hosts, the plugins and the operations keeps them.
LEMMA EntitiesStayTyped ==
  ASSUME EntitiesInv, EntitiesTypes, Entities!Next \/ UNCHANGED Entities!vars PROVE EntitiesTypes'
<1>1. /\ OperationTyped(operation) /\ DOMAIN operation = {"kind", "source", "left", "said", "at"}
  BY DEF EntitiesTypes, EntitiesInv, OperationTyped
<1>2. ASSUME OperationTyped(operation'), UNCHANGED <<hosts, addedHosts, enabled>> PROVE EntitiesTypes'
  BY <1>2 DEF EntitiesTypes, OperationTyped
<1>3. OperationTyped(Entities!NoRequest)
  BY NoRequestTyped DEF OperationTyped
<1>4. ASSUME NEW n \in HostNames, NEW d \in Daemons, Entities!AddHost(n, d) PROVE EntitiesTypes'
  BY <1>4 DEF Entities!AddHost, EntitiesTypes
<1>5. ASSUME NEW a \in addedHosts, NEW ok \in BOOLEAN, Entities!HostAnswers(a, ok) PROVE EntitiesTypes'
  <2>1. a[1] \in HostNames /\ a[2] \in Daemons
    BY DEF EntitiesTypes
  <2>2. addedHosts' \subseteq addedHosts /\ UNCHANGED <<enabled, operation>>
    BY <1>5 DEF Entities!HostAnswers
  <2>3. \/ hosts' = hosts
        \/ hosts' = [n \in DOMAIN hosts \cup {a[1]} |-> IF n = a[1] THEN a[2] ELSE hosts[n]]
    BY <1>5 DEF Entities!HostAnswers
  <2>4. /\ {"local"} \subseteq DOMAIN hosts' /\ DOMAIN hosts' \subseteq HostNames \cup {"local"}
        /\ \A n \in DOMAIN hosts' : hosts'[n] \in Daemons \cup {Entities!Default}
    BY <2>1, <2>3 DEF EntitiesTypes
  <2>. QED BY <2>2, <2>4 DEF EntitiesTypes
<1>6. ASSUME NEW n \in HostNames, Entities!RemoveHost(n) PROVE EntitiesTypes'
  <2>1. n # "local" /\ hosts' = [m \in DOMAIN hosts \ {n} |-> hosts[m]] /\ UNCHANGED <<addedHosts, enabled, operation>>
    BY <1>6 DEF Entities!RemoveHost
  <2>2. /\ {"local"} \subseteq DOMAIN hosts' /\ DOMAIN hosts' \subseteq HostNames \cup {"local"}
        /\ \A m \in DOMAIN hosts' : hosts'[m] \in Daemons \cup {Entities!Default}
    BY <2>1 DEF EntitiesTypes
  <2>. QED BY <2>1, <2>2 DEF EntitiesTypes
<1>7. ASSUME NEW p \in Entities!External, Entities!Toggle(p) PROVE EntitiesTypes'
  BY <1>7, PluginsAre DEF Entities!Toggle, EntitiesTypes
<1>8. ASSUME NEW k, NEW s, NEW ps \in Seq(Providers), Entities!Start(k, s, ps) PROVE EntitiesTypes'
  <2>1. operation' = [kind |-> k, source |-> s, left |-> ps, said |-> {}, at |-> "asking"]
        /\ UNCHANGED <<hosts, addedHosts, enabled>>
    BY <1>8 DEF Entities!Start
  <2>2. operation'.at = "asking" /\ operation'.said = {} /\ operation'.left = ps
    BY <2>1
  <2>. QED BY <1>2, <2>1, <2>2 DEF OperationTyped
<1>9. Entities!Active \in Seq(Providers)
  BY PluginsAre, OnlyProviders DEF Entities!Active
<1>10. <<"docker">> \o Entities!Active \in Seq(Providers) /\ <<"compose">> \o Entities!Active \in Seq(Providers)
  <2>1. <<"docker">> \in Seq(Providers) /\ <<"compose">> \in Seq(Providers)
    BY DEF Providers
  <2>. QED BY <1>9, <2>1, ConcatProperties
<1>11. ASSUME NEW s, Entities!AskEntity(s) \/ Entities!AskAll(s) \/ Entities!AskResource PROVE EntitiesTypes'
  BY <1>8, <1>9, <1>10, <1>11 DEF Entities!AskEntity, Entities!AskAll, Entities!AskResource
<1>12. ASSUME NEW s, NEW p \in Entities!External \cup {"docker"}, Entities!AskPlugin(s, p) PROVE EntitiesTypes'
  <2>1. <<p>> \in Seq(Providers)
    BY PluginsAre DEF Providers
  <2>. QED BY <1>8, <1>12, <2>1 DEF Entities!AskPlugin
<1>13. ASSUME NEW owner, Entities!AskProject(owner) PROVE EntitiesTypes'
  <2>. DEFINE entries == <<"compose">> \o Entities!Active
              owners == {i \in DOMAIN entries : entries[i] = owner}
  <2>1. entries \in Seq(Providers)
    BY <1>10
  <2>2. Entities!Start("project", None, IF owner = None THEN entries ELSE Entities!Only(entries, owners))
    BY <1>13 DEF Entities!AskProject
  <2>. HIDE DEF entries, owners
  <2>3. Entities!Only(entries, owners) \in Seq(Providers)
    BY <2>1, OnlyProviders
  <2>. QED BY <1>8, <2>1, <2>2, <2>3
<1>14. operation.left # <<>> => Tail(operation.left) \in Seq(Providers) /\ Entities!Asked \in Providers
  BY <1>1, HeadTailProperties DEF OperationTyped, Entities!Asked
<1>. DEFINE unasked == [operation EXCEPT !.left = Tail(@)]
<1>15. ASSUME operation.left # <<>>, operation.at = "asking"
       PROVE  /\ OperationTyped(unasked)
              /\ \A p \in Providers : OperationTyped([unasked EXCEPT !.said = @ \cup {p}])
              /\ OperationTyped([operation EXCEPT !.at = "listing"])
  BY <1>1, <1>14, <1>15 DEF OperationTyped
<1>16. ASSUME operation.at = "listing" PROVE OperationTyped([unasked EXCEPT !.at = "asking"])
  BY <1>1, <1>14, <1>16 DEF OperationTyped
<1>17. Entities!Unasked = unasked /\ "docker" \in Providers
  BY DEF Entities!Unasked, Providers
<1>. HIDE DEF unasked
<1>18. CASE Entities!DockerAnswers
  <2>1. operation.left # <<>> /\ operation.at = "asking" /\ UNCHANGED <<hosts, addedHosts, enabled>>
    BY <1>18 DEF Entities!DockerAnswers, Entities!Asking
  <2>2. operation' \in {unasked, [unasked EXCEPT !.said = @ \cup {"docker"}], Entities!NoRequest}
    BY <1>17, <1>18, Zenon DEF Entities!DockerAnswers
  <2>. QED BY <1>2, <1>3, <1>15, <1>17, <2>1, <2>2
<1>19. CASE Entities!AnswersNo
  BY <1>2, <1>15, <1>17, <1>19 DEF Entities!AnswersNo, Entities!Asking
<1>20. CASE Entities!AnswersYes
  <2>1. operation.left # <<>> /\ operation.at = "asking" /\ UNCHANGED <<hosts, addedHosts, enabled>>
    BY <1>20 DEF Entities!AnswersYes, Entities!Asking
  <2>2. operation' \in {[operation EXCEPT !.at = "listing"], [unasked EXCEPT !.said = @ \cup {Entities!Asked}],
                        Entities!NoRequest}
    BY <1>17, <1>20 DEF Entities!AnswersYes
  <2>. QED BY <1>2, <1>3, <1>14, <1>15, <2>1, <2>2
<1>21. CASE Entities!ProviderFails \/ Entities!End
  BY <1>2, <1>3, <1>21 DEF Entities!ProviderFails, Entities!End
<1>22. ASSUME NEW listed \in BOOLEAN, Entities!ActionListed(listed) PROVE EntitiesTypes'
  <2>1. operation.at = "listing" /\ UNCHANGED <<hosts, addedHosts, enabled>>
    BY <1>22 DEF Entities!ActionListed
  <2>2. operation' \in {[unasked EXCEPT !.at = "asking"], Entities!NoRequest}
    BY <1>17, <1>22 DEF Entities!ActionListed
  <2>. QED BY <1>2, <1>3, <1>16, <2>1, <2>2
<1>23. CASE UNCHANGED Entities!vars
  BY <1>1, <1>2, <1>23 DEF Entities!vars
<1>. QED BY <1>4, <1>5, <1>6, <1>7, <1>11, <1>12, <1>13, <1>18, <1>19, <1>20, <1>21, <1>22, <1>23 DEF Entities!Next

-----------------------------------------------------------------------------
\* Whenever analyses return, sources go and come back and the monitor stops, the alert
\* that was sent last is what holds, and each exit of a workload is reported once, unless
\* its diagnosis is still under way (server/monitor.ts, server/webhookEvents.ts).
THEOREM AlertsHold == Spec => []AlertsAreTrue
<1>1. Init => AlertsInv /\ ExitsInv
  BY AlertsBegin, ExitsBegin DEF Init
<1>2. AlertsInv /\ ExitsInv /\ [Next]_vars => AlertsInv' /\ ExitsInv'
  BY AlertsGoOn, ExitsGoOn, AlertsMove, ExitsMove DEF alertVars, exitVars
<1>3. AlertsInv /\ ExitsInv => AlertsAreTrue
  BY DEF AlertsAreTrue, AlertsInv, ExitsInv
<1>. QED BY <1>1, <1>2, <1>3, PTL DEF Spec

\* Whatever the order of the requests that change it, a replaced token, and a session
\* that was issued under one, give no access as operator (server/auth.ts, authRoutes.ts).
THEOREM TokenEndsAccess == Spec => []AccessEndsWithToken
<1>1. Init => AccessInv
  BY AccessBegins DEF Init
<1>2. AccessInv /\ [Next]_vars => AccessInv'
  BY AccessGoesOn, AccessMoves DEF accessVars
<1>3. AccessInv => AccessEndsWithToken
  BY AccessFollows DEF AccessEndsWithToken
<1>. QED BY <1>1, <1>2, <1>3, PTL DEF Spec

\* Wherever a transaction or its rollback fails or is cut off by a crash, the last copy of
\* an installed plugin is somewhere, and an action that fails without a second failure leaves
\* everything as it was (plugins/marketplace.ts, plugins/install.ts).
THEOREM PluginsAreKept == Spec => []PluginsSurvive
<1>1. Init => MarketInv
  BY MarketBegins DEF Init
<1>2. MarketInv /\ [Next]_vars => MarketInv'
  BY MarketGoesOn, MarketMoves DEF marketVars, Market!vars
<1>3. MarketInv => PluginsSurvive
  BY MarketKeeps DEF PluginsSurvive
<1>. QED BY <1>1, <1>2, <1>3, PTL DEF Spec

\* Whatever a catalog serves and whoever serves it, a version is installed from it only
\* when it was signed with a key its entry was pinned to (plugins/catalog.ts).
THEOREM OnlyTrustedInstalled == Spec => []InstalledIsTrusted
<1>1. Init => CatalogsInv
  BY CatalogsBegin DEF Init
<1>2. CatalogsInv /\ [Next]_vars => CatalogsInv'
  BY CatalogsGoOn, CatalogsMove DEF catalogVars, Catalogs!vars
<1>3. CatalogsInv => InstalledIsTrusted
  BY DEF InstalledIsTrusted, CatalogsInv
<1>. QED BY <1>1, <1>2, <1>3, PTL DEF Spec

\* However edits, installs and reloads fall between the steps of a pass, a plugin uses only
\* permissions that the environment of the server gives to all plugins, whichever those are,
\* or that were consented to for it, and is asked for no capability that it does not declare
\* (plugins/loader.ts, plugins/marketplace.ts).
THEOREM AgreedIsDone == Spec => []ActsAsAgreed
<1>1. Init => LoaderInv
  BY LoaderBegins DEF Init
<1>2. LoaderInv /\ [Next]_vars => LoaderInv'
  BY LoaderGoesOn, LoaderMoves DEF loaderVars, Loader!vars
<1>3. LoaderInv => ActsAsAgreed
  BY DEF ActsAsAgreed, LoaderInv
<1>. QED BY <1>1, <1>2, <1>3, PTL DEF Spec

\* Whatever hosts, providers, connections and projects become while a request is under way,
\* an operation reaches the provider and the daemon it is meant for, the panel of connections
\* shows and drafts what belongs together, and an action on a compose project that reports
\* success has done it (docker/, registryProviders.ts, HostManager.svelte).
THEOREM OwnerIsReached == Spec => []ReachesItsOwner
<1>1. Init => EntitiesInv /\ ConnectionsInv /\ ProjectsInv
  BY EntitiesBegin, ConnectionsBegin, ProjectsBegin DEF Init
<1>2. EntitiesInv /\ [Next]_vars => EntitiesInv'
  BY EntitiesGoOn, EntitiesMove DEF entityVars, Entities!vars
<1>3. ConnectionsInv /\ [Next]_vars => ConnectionsInv'
  BY ConnectionsGoOn, ConnectionsMove DEF connectionVars, Connections!vars, Connections!serverVars
<1>4. ProjectsInv /\ [Next]_vars => ProjectsInv'
  BY ProjectsGoOn, ProjectsMove DEF projectVars, Projects!vars
<1>5. EntitiesInv /\ ConnectionsInv /\ ProjectsInv => ReachesItsOwner
  BY ConnectionsFollow, ProjectsFollow DEF ReachesItsOwner, EntitiesInv, Entities!ReachesItsOwner
<1>. QED BY <1>1, <1>2, <1>3, <1>4, <1>5, PTL DEF Spec

\* Wherever the server or the endpoints plugin is stopped or killed, a value that was
\* written is read again, a plugin's configuration, secrets and approval are those of its
\* files as far as these can be read, and the endpoints that are watched are those that were
\* saved (plugins/pluginStorage.ts, configStore.ts, secretStore.ts, official/endpoints).
THEOREM StoredIsKept == Spec => []StorageSurvives
<1>1. Init => StorageInv /\ StoresInv /\ ChecksInv
  BY StorageBegins, StoresBegin, ChecksBegin DEF Init
<1>2. StorageInv /\ [Next]_vars => StorageInv'
  BY StorageGoesOn, StorageMoves DEF storageVars, Storage!vars
<1>3. StoresInv /\ [Next]_vars => StoresInv'
  BY StoresGoOn, StoresMove DEF storesVars, Stores!vars, Stores!stores
<1>4. ChecksInv /\ [Next]_vars => ChecksInv'
  BY ChecksGo, ChecksMove DEF endpointVars, Checks!vars, Checks!listVars, Checks!checkVars
<1>5. StorageInv /\ StoresInv /\ ChecksInv => StorageSurvives
  BY StoresFollow, ChecksFollow DEF StorageSurvives, StorageInv
<1>. QED BY <1>1, <1>2, <1>3, <1>4, <1>5, PTL DEF Spec

\* Whatever stops, closes, answers, crashes and signals meet, no stream is held that no
\* entry of the client leads to, the stop of a stream arrives, exit code 0 means that all is
\* closed, and an endpoints plugin that has stopped checks nothing (server/websocket.ts,
\* plugins/processSandboxWorker.ts, server/index.ts, official/endpoints/plugin.mjs).
THEOREM EndIsClean == Spec => []EndsCleanly
<1>1. Init => SessionsInv /\ ProcessInv /\ ChecksInv
  BY SessionsBegin, ProcessBegins, ChecksBegin DEF Init
<1>2. SessionsInv /\ [Next]_vars => SessionsInv'
  BY SessionsGoOn, SessionsMove DEF sessionVars, Sessions!vars
<1>3. ProcessInv /\ [Next]_vars => ProcessInv'
  BY ProcessGoesOn, ProcessMoves DEF processVars, Process!vars
<1>4. ChecksInv /\ [Next]_vars => ChecksInv'
  BY ChecksGo, ChecksMove DEF endpointVars, Checks!vars, Checks!listVars, Checks!checkVars
<1>5. SessionsInv /\ ProcessInv /\ ChecksInv => EndsCleanly
  BY SessionsFollow, ChecksFollow DEF EndsCleanly, ProcessInv
<1>. QED BY <1>1, <1>2, <1>3, <1>4, <1>5, PTL DEF Spec

\* Whatever answers, closes, crashes and news of the server meet what is typed and clicked: a
\* locked tab has no session, a replay shows the nodes, events and stats that the recording
\* tells at the scrubber's position, the gate and the security panel show what the server said
\* last, and no answer takes what is typed (web/App.svelte, stores/, components/plugins/,
\* AccessGate.svelte, SecurityPanel.svelte, WebhookPanel.svelte).
THEOREM TabHolds == Spec => []TabIsConsistent
<1>1. Init => TabInv /\ ReplayInv /\ GateInv /\ WebhooksInv /\ ManagerInv
  BY TabBegins, ReplayBegins, GateBegins, WebhooksBegin, ManagerBegins DEF Init
<1>2. TabInv /\ [Next]_vars => TabInv'
  BY TabGoesOn, TabMoves DEF tabVars, Tab!vars
<1>3. ReplayInv /\ [Next]_vars => ReplayInv'
  BY ReplayGoesOn, ReplayMoves DEF replayVars, Replay!vars
<1>4. GateInv /\ [Next]_vars => GateInv'
  BY GateGoesOn, GateMoves DEF gateVars, Gate!vars
<1>5. WebhooksInv /\ [Next]_vars => WebhooksInv'
  BY WebhooksGoOn, WebhooksMove DEF webhookVars, Webhooks!vars
<1>6. ManagerInv /\ [Next]_vars => ManagerInv'
  BY ManagerGoesOn, ManagerMoves DEF managerVars, Manager!vars, Manager!formVars
<1>7. TabInv /\ ReplayInv /\ GateInv /\ WebhooksInv /\ ManagerInv => TabIsConsistent
  BY ReplayFollows, GateFollows, WebhooksFollow, ManagerFollows DEF TabIsConsistent, TabInv
<1>. QED BY <1>1, <1>2, <1>3, <1>4, <1>5, <1>6, <1>7, PTL DEF Spec

\* A step of the server never brings a client data of a stream that was stopped, whatever was
\* on its way; and a new state of the host moves no camera that has shown the graph, as long
\* as filters and network stay (server/websocket.ts, graph-view-2d/GraphView.svelte).
THEOREM UnaskedIsNothing == Spec => NothingUnasked
<1>1. Init => SessionsInv /\ SilenceInv
  BY SessionsBegin, SilenceBegins DEF Init
<1>2. SessionsInv /\ SilenceInv /\ [Next]_vars => SessionsInv' /\ SilenceInv'
  BY SessionsGoOn, SilenceGoesOn, SessionsMove DEF sessionVars, Sessions!vars
<1>3. SessionsInv /\ SilenceInv /\ [Next]_vars =>
        [\A s \in stoppedStreams : heard'[s] = heard[s]]_heard
  BY SilenceGoesOn, SessionsMove DEF sessionVars, Sessions!vars
<1>4. [Next]_vars =>
        [fitted /\ fitted' /\ flatSnapshot # flatSnapshot'
           /\ flatSnapshot'.filter = flatSnapshot.filter /\ network' = network
         => camera' = camera]_(Flat!vars)
  BY CameraStands, FlatMoves DEF flatVars, Flat!vars
<1>. QED BY <1>1, <1>2, <1>3, <1>4, PTL DEF Spec, NothingUnasked, Sessions!StoppedIsSilent,
  Flat!CameraIsKept

\* However selections, roles, polls and the replay fall between requests, messages and their
\* answers, the sidebar, its actions and its terminal, and the panel and the frame of a plugin
\* show and change what is of the selected node (Sidebar.svelte, SidebarExec.svelte,
\* PluginExtension.svelte, PluginFrame.svelte).
THEOREM NodeIsShown == Spec => []ShowsItsNode
<1>1. Init => PanelInv /\ FramesInv
  BY PanelBegins, FramesBegin DEF Init
<1>2. PanelInv /\ [Next]_vars => PanelInv'
  BY PanelGoesOn, PanelMoves DEF panelVars, Panel!vars, Panel!panelVars, Panel!logVars,
    Panel!execVars
<1>3. FramesInv /\ [Next]_vars => FramesInv'
  BY FramesGoOn, FramesMove DEF frameVars, Frames!vars, Frames!pageVars, Frames!frameVars
<1>4. PanelInv /\ FramesInv => ShowsItsNode
  BY PanelFollows, FramesFollow DEF ShowsItsNode
<1>. QED BY <1>1, <1>2, <1>3, <1>4, PTL DEF Spec

\* Whatever is said and whenever it is exported, the clip is the longest end of what was said
\* that begins with a graph and fits the limits; a clean shutdown leaves the samples in the
\* file, whatever writer was at work; and a pod is answered with metrics that were fresh when
\* they were asked for (server/flightRecorder.ts, metricHistory.ts, kubernetes/src/resources/).
THEOREM RecordsAreKept == Spec => []HistoryIsKept
<1>1. Init => RecorderInv /\ HistoryInv /\ MetricsInv
  BY RecorderBegins, HistoryBegins, MetricsBegin DEF Init
<1>2. RecorderInv /\ [Next]_vars => RecorderInv'
  BY RecorderGoesOn, RecorderMoves DEF recorderVars, Recorder!vars
<1>3. HistoryInv /\ [Next]_vars => HistoryInv'
  BY HistoryGoesOn, HistoryMoves DEF historyVars, History!vars
<1>4. MetricsInv /\ [Next]_vars => MetricsInv'
  BY MetricsGoOn, MetricsMove DEF podVars, Metrics!vars
<1>5. RecorderInv /\ HistoryInv /\ MetricsInv => HistoryIsKept
  BY ClipFollows, MetricsAreOfOneFetch DEF HistoryIsKept, HistoryInv
<1>. QED BY <1>1, <1>2, <1>3, <1>4, <1>5, PTL DEF Spec

\* However graphs, selections, filters and objects change between the lists of a cluster, the
\* calls of a view and its frames: what either view draws is the graph it was given, with ranks
\* that respect its dependencies and cards that do not overlap; a drawn cluster links what
\* belongs together; and two environments compare equal only where they are
\* (GraphView.svelte, graph-view-2d/, kubernetes/src/graph/, server/compare.ts).
THEOREM ViewShowsData == Spec => []ViewIsOfData
<1>1. Init => ViewInv /\ FlatInv /\ CompareInv /\ ClusterInv
  BY ViewBegins, FlatBegins, CompareBegins, ClusterBegins DEF Init
<1>2. ViewInv /\ [Next]_vars => ViewInv'
  BY ViewGoesOn, ViewMoves DEF viewVars, View!vars
<1>3. FlatInv /\ [Next]_vars => FlatInv'
  BY FlatGoesOn, FlatStays, FlatMoves DEF flatVars, Flat!vars
<1>4. CompareInv /\ [Next]_vars => CompareInv'
  BY CompareGoesOn, CompareMoves DEF compareVars, Compare!vars
<1>5. ClusterInv /\ [Next]_vars => ClusterInv'
  BY ClusterGoesOn, ClusterMoves DEF clusterVars, Cluster!vars
<1>6. ViewInv /\ FlatInv /\ CompareInv /\ ClusterInv => ViewIsOfData
  BY FlatFollows, CompareFollows, ClusterFollows DEF ViewIsOfData, ViewInv
<1>. QED BY <1>1, <1>2, <1>3, <1>4, <1>5, <1>6, PTL DEF Spec

\* Whatever happens, each variable of each part holds a value of its type: what is counted
\* stays within its bound, no more requests are under way than were made, a client hears no
\* more than was said, and what is listed, asked for and remembered names what there is
\* (all of server/, plugins/, core/monitor/ and web/ that the parts model).
THEOREM TypesHold == Spec => []TypesOK
<1>1. Spec => []Sessions!TypeOK
  <2>1. Init => SessionsInv /\ SessionsTypes
    BY SessionsBegin, SessionsBeginTyped DEF Init
  <2>2. SessionsInv /\ SessionsTypes /\ [Next]_vars => (SessionsInv /\ SessionsTypes)'
    <3>1. SessionsInv /\ [Next]_vars => SessionsInv'
      BY SessionsGoOn, SessionsMove DEF sessionVars, Sessions!vars
    <3>2. SessionsInv /\ SessionsTypes /\ [Next]_vars => SessionsTypes'
      BY <3>1, SessionsStayTyped, SessionsMove DEF sessionVars, Sessions!vars
    <3>. QED BY <3>1, <3>2
  <2>3. SessionsInv /\ SessionsTypes => Sessions!TypeOK
    BY DEF SessionsTypes
  <2>. QED BY <2>1, <2>2, <2>3, PTL DEF Spec
<1>2. Spec => []Process!TypeOK
  <2>1. Init => ProcessInv /\ Process!TypeOK
    BY ProcessBegins, ProcessBeginsTyped DEF Init
  <2>2. ProcessInv /\ Process!TypeOK /\ [Next]_vars => (ProcessInv /\ Process!TypeOK)'
    <3>1. ProcessInv /\ [Next]_vars => ProcessInv'
      BY ProcessGoesOn, ProcessMoves DEF processVars, Process!vars
    <3>2. ProcessInv /\ Process!TypeOK /\ [Next]_vars => Process!TypeOK'
      BY <3>1, ProcessStaysTyped, ProcessMoves DEF processVars, Process!vars
    <3>. QED BY <3>1, <3>2
  <2>. QED BY <2>1, <2>2, PTL DEF Spec
<1>3. Spec => []Alerts!TypeOK
  <2>1. Init => AlertsInv
    BY AlertsBegin DEF Init
  <2>2. AlertsInv /\ [Next]_vars => AlertsInv'
    BY AlertsGoOn, AlertsMove DEF alertVars
  <2>3. AlertsInv => Alerts!TypeOK
    BY DEF AlertsInv
  <2>. QED BY <2>1, <2>2, <2>3, PTL DEF Spec
<1>4. Spec => []Exits!TypeOK
  <2>1. Init => ExitsInv
    BY ExitsBegin DEF Init
  <2>2. ExitsInv /\ [Next]_vars => ExitsInv'
    BY ExitsGoOn, ExitsMove DEF exitVars
  <2>3. ExitsInv => Exits!TypeOK
    BY DEF ExitsInv
  <2>. QED BY <2>1, <2>2, <2>3, PTL DEF Spec
<1>5. Spec => []Access!TypeOK
  <2>1. Init => AccessInv /\ AccessTypes
    BY AccessBegins, AccessBeginsTyped DEF Init
  <2>2. AccessInv /\ AccessTypes /\ [Next]_vars => (AccessInv /\ AccessTypes)'
    <3>1. AccessInv /\ [Next]_vars => AccessInv'
      BY AccessGoesOn, AccessMoves DEF accessVars, Access!vars
    <3>2. AccessInv /\ AccessTypes /\ [Next]_vars => AccessTypes'
      BY <3>1, AccessStaysTyped, AccessMoves DEF accessVars, Access!vars
    <3>. QED BY <3>1, <3>2
  <2>3. AccessInv /\ AccessTypes => Access!TypeOK
    BY DEF AccessTypes
  <2>. QED BY <2>1, <2>2, <2>3, PTL DEF Spec
<1>6. Spec => []Market!TypeOK
  <2>1. Init => MarketInv
    BY MarketBegins DEF Init
  <2>2. MarketInv /\ [Next]_vars => MarketInv'
    BY MarketGoesOn, MarketMoves DEF marketVars, Market!vars
  <2>3. MarketInv => Market!TypeOK
    BY DEF MarketInv, MarketTyped
  <2>. QED BY <2>1, <2>2, <2>3, PTL DEF Spec
<1>7. Spec => []Storage!TypeOK
  <2>1. Init => StorageInv
    BY StorageBegins DEF Init
  <2>2. StorageInv /\ [Next]_vars => StorageInv'
    BY StorageGoesOn, StorageMoves DEF storageVars, Storage!vars
  <2>3. StorageInv => Storage!TypeOK
    BY DEF StorageInv
  <2>. QED BY <2>1, <2>2, <2>3, PTL DEF Spec
<1>8. Spec => []Stores!TypeOK
  <2>1. Init => StoresInv
    BY StoresBegin DEF Init
  <2>2. StoresInv /\ [Next]_vars => StoresInv'
    BY StoresGoOn, StoresMove DEF storesVars, Stores!vars, Stores!stores
  <2>3. StoresInv => Stores!TypeOK
    BY DEF StoresInv, StoresTyped
  <2>. QED BY <2>1, <2>2, <2>3, PTL DEF Spec
<1>9. Spec => []Recorder!TypeOK
  <2>1. Init => RecorderInv
    BY RecorderBegins DEF Init
  <2>2. RecorderInv /\ [Next]_vars => RecorderInv'
    BY RecorderGoesOn, RecorderMoves DEF recorderVars, Recorder!vars
  <2>3. RecorderInv => Recorder!TypeOK
    BY RecorderIsTyped
  <2>. QED BY <2>1, <2>2, <2>3, PTL DEF Spec
<1>10. Spec => []History!TypeOK
  <2>1. Init => HistoryTypes
    BY HistoryBeginsTyped DEF Init
  <2>2. HistoryTypes /\ [Next]_vars => HistoryTypes'
    BY HistoryStaysTyped, HistoryMoves DEF historyVars, History!vars
  <2>3. HistoryTypes => History!TypeOK
    BY HistoryIsTyped
  <2>. QED BY <2>1, <2>2, <2>3, PTL DEF Spec
<1>11. Spec => []Catalogs!TypeOK
  <2>1. Init => CatalogsInv
    BY CatalogsBegin DEF Init
  <2>2. CatalogsInv /\ [Next]_vars => CatalogsInv'
    BY CatalogsGoOn, CatalogsMove DEF catalogVars, Catalogs!vars
  <2>3. CatalogsInv => Catalogs!TypeOK
    BY DEF CatalogsInv
  <2>. QED BY <2>1, <2>2, <2>3, PTL DEF Spec
<1>12. Spec => []Loader!TypeOK
  <2>1. Init => LoaderInv /\ LoaderTypes
    BY LoaderBegins, LoaderBeginsTyped DEF Init
  <2>2. LoaderInv /\ LoaderTypes /\ [Next]_vars => (LoaderInv /\ LoaderTypes)'
    <3>1. LoaderInv /\ [Next]_vars => LoaderInv'
      BY LoaderGoesOn, LoaderMoves DEF loaderVars, Loader!vars
    <3>2. LoaderInv /\ LoaderTypes /\ [Next]_vars => LoaderTypes'
      BY <3>1, LoaderStaysTyped, LoaderMoves DEF loaderVars, Loader!vars
    <3>. QED BY <3>1, <3>2
  <2>3. LoaderInv /\ LoaderTypes => Loader!TypeOK
    BY LoaderIsTyped
  <2>. QED BY <2>1, <2>2, <2>3, PTL DEF Spec
<1>13. Spec => []Entities!TypeOK
  <2>1. Init => EntitiesInv /\ EntitiesTypes
    BY EntitiesBegin, EntitiesBeginTyped DEF Init
  <2>2. EntitiesInv /\ EntitiesTypes /\ [Next]_vars => (EntitiesInv /\ EntitiesTypes)'
    <3>1. EntitiesInv /\ [Next]_vars => EntitiesInv'
      BY EntitiesGoOn, EntitiesMove DEF entityVars, Entities!vars
    <3>2. EntitiesInv /\ EntitiesTypes /\ [Next]_vars => EntitiesTypes'
      BY <3>1, EntitiesStayTyped, EntitiesMove DEF entityVars, Entities!vars
    <3>. QED BY <3>1, <3>2
  <2>3. EntitiesInv /\ EntitiesTypes => Entities!TypeOK
    BY EntitiesAreTyped
  <2>. QED BY <2>1, <2>2, <2>3, PTL DEF Spec
<1>14. Spec => []Tab!TypeOK
  <2>1. Init => TabInv /\ TabTypes
    BY TabBegins, TabBeginsTyped DEF Init
  <2>2. TabInv /\ TabTypes /\ [Next]_vars => (TabInv /\ TabTypes)'
    <3>1. TabInv /\ [Next]_vars => TabInv'
      BY TabGoesOn, TabMoves DEF tabVars, Tab!vars
    <3>2. TabInv /\ TabTypes /\ [Next]_vars => TabTypes'
      BY <3>1, TabStaysTyped, TabMoves DEF tabVars, Tab!vars
    <3>. QED BY <3>1, <3>2
  <2>3. TabInv /\ TabTypes => Tab!TypeOK
    BY TabIsTyped
  <2>. QED BY <2>1, <2>2, <2>3, PTL DEF Spec
<1>15. Spec => []Replay!TypeOK
  <2>1. Init => ReplayInv /\ ReplayTypes
    BY ReplayBegins, ReplayBeginsTyped DEF Init
  <2>2. ReplayInv /\ ReplayTypes /\ [Next]_vars => (ReplayInv /\ ReplayTypes)'
    <3>1. ReplayInv /\ [Next]_vars => ReplayInv'
      BY ReplayGoesOn, ReplayMoves DEF replayVars, Replay!vars
    <3>2. ReplayInv /\ ReplayTypes /\ [Next]_vars => ReplayTypes'
      BY <3>1, ReplayStaysTyped, ReplayMoves DEF replayVars, Replay!vars
    <3>. QED BY <3>1, <3>2
  <2>3. ReplayInv /\ ReplayTypes => Replay!TypeOK
    BY ReplayIsTyped
  <2>. QED BY <2>1, <2>2, <2>3, PTL DEF Spec
<1>16. Spec => []Panel!TypeOK
  <2>1. Init => PanelInv /\ PanelTypes
    BY PanelBegins, PanelBeginsTyped DEF Init
  <2>2. PanelInv /\ PanelTypes /\ [Next]_vars => (PanelInv /\ PanelTypes)'
    <3>1. PanelInv /\ [Next]_vars => PanelInv'
      BY PanelGoesOn, PanelMoves DEF panelVars, Panel!vars, Panel!panelVars, Panel!logVars,
        Panel!execVars
    <3>2. PanelInv /\ PanelTypes /\ [Next]_vars => PanelTypes'
      BY <3>1, PanelStaysTyped, PanelMoves DEF panelVars, Panel!vars, Panel!panelVars, Panel!logVars,
        Panel!execVars
    <3>. QED BY <3>1, <3>2
  <2>3. PanelInv /\ PanelTypes => Panel!TypeOK
    BY PanelIsTyped
  <2>. QED BY <2>1, <2>2, <2>3, PTL DEF Spec
<1>17. Spec => []Frames!TypeOK
  <2>1. Init => FramesInv /\ FramesTypes
    BY FramesBegin, FramesBeginTyped DEF Init
  <2>2. FramesInv /\ FramesTypes /\ [Next]_vars => (FramesInv /\ FramesTypes)'
    <3>1. FramesInv /\ [Next]_vars => FramesInv'
      BY FramesGoOn, FramesMove DEF frameVars, Frames!vars, Frames!pageVars, Frames!frameVars
    <3>2. FramesInv /\ FramesTypes /\ [Next]_vars => FramesTypes'
      BY <3>1, FramesStayTyped, FramesMove DEF frameVars, Frames!vars, Frames!pageVars, Frames!frameVars
    <3>. QED BY <3>1, <3>2
  <2>3. FramesInv /\ FramesTypes => Frames!TypeOK
    BY FramesAreTyped
  <2>. QED BY <2>1, <2>2, <2>3, PTL DEF Spec
<1>18. Spec => []View!TypeOK
  <2>1. Init => ViewInv /\ ViewTypes
    BY ViewBegins, ViewBeginsTyped DEF Init
  <2>2. ViewInv /\ ViewTypes /\ [Next]_vars => (ViewInv /\ ViewTypes)'
    <3>1. ViewInv /\ [Next]_vars => ViewInv'
      BY ViewGoesOn, ViewMoves DEF viewVars, View!vars
    <3>2. ViewInv /\ ViewTypes /\ [Next]_vars => ViewTypes'
      BY <3>1, ViewStaysTyped, ViewMoves DEF viewVars, View!vars
    <3>. QED BY <3>1, <3>2
  <2>3. ViewInv /\ ViewTypes => View!TypeOK
    BY ViewIsTyped
  <2>. QED BY <2>1, <2>2, <2>3, PTL DEF Spec
<1>19. Spec => []Flat!TypeOK
  <2>1. Init => FlatInv /\ FlatTypes
    BY FlatBegins, FlatBeginsTyped DEF Init
  <2>2. FlatInv /\ FlatTypes /\ [Next]_vars => (FlatInv /\ FlatTypes)'
    <3>1. FlatInv /\ [Next]_vars => FlatInv'
      BY FlatGoesOn, FlatStays, FlatMoves DEF flatVars, Flat!vars
    <3>2. FlatInv /\ FlatTypes /\ [Next]_vars => FlatTypes'
      BY <3>1, FlatStaysTyped, FlatMoves DEF flatVars, Flat!vars
    <3>. QED BY <3>1, <3>2
  <2>3. FlatInv /\ FlatTypes => Flat!TypeOK
    BY FlatIsTyped
  <2>. QED BY <2>1, <2>2, <2>3, PTL DEF Spec
<1>20. Spec => []Manager!TypeOK
  <2>1. Init => ManagerInv /\ ManagerTypes
    BY ManagerBegins, ManagerBeginsTyped DEF Init
  <2>2. ManagerInv /\ ManagerTypes /\ [Next]_vars => (ManagerInv /\ ManagerTypes)'
    <3>1. ManagerInv /\ [Next]_vars => ManagerInv'
      BY ManagerGoesOn, ManagerMoves DEF managerVars, Manager!vars, Manager!formVars
    <3>2. ManagerInv /\ ManagerTypes /\ [Next]_vars => ManagerTypes'
      BY <3>1, ManagerStaysTyped, ManagerMoves DEF managerVars, Manager!vars, Manager!formVars
    <3>. QED BY <3>1, <3>2
  <2>3. ManagerInv /\ ManagerTypes => Manager!TypeOK
    BY ManagerIsTyped
  <2>. QED BY <2>1, <2>2, <2>3, PTL DEF Spec
<1>21. Spec => []Connections!TypeOK
  <2>1. Init => ConnectionsInv /\ ConnectionsTypes
    BY ConnectionsBegin, ConnectionsBeginTyped DEF Init
  <2>2. ConnectionsInv /\ ConnectionsTypes /\ [Next]_vars => (ConnectionsInv /\ ConnectionsTypes)'
    <3>1. ConnectionsInv /\ [Next]_vars => ConnectionsInv'
      BY ConnectionsGoOn, ConnectionsMove DEF connectionVars, Connections!vars,
        Connections!serverVars
    <3>2. ConnectionsInv /\ ConnectionsTypes /\ [Next]_vars => ConnectionsTypes'
      BY <3>1, ConnectionsStayTyped, ConnectionsMove DEF connectionVars, Connections!vars,
        Connections!serverVars
    <3>. QED BY <3>1, <3>2
  <2>3. ConnectionsInv /\ ConnectionsTypes => Connections!TypeOK
    BY ConnectionsAreTyped
  <2>. QED BY <2>1, <2>2, <2>3, PTL DEF Spec
<1>22. Spec => []Compare!TypeOK
  <2>1. Init => CompareTypes
    BY CompareBeginsTyped DEF Init
  <2>2. CompareTypes /\ [Next]_vars => CompareTypes'
    BY CompareStaysTyped, CompareMoves DEF compareVars, Compare!vars
  <2>3. CompareTypes => Compare!TypeOK
    BY CompareIsTyped
  <2>. QED BY <2>1, <2>2, <2>3, PTL DEF Spec
<1>23. Spec => []Projects!TypeOK
  <2>1. Init => ProjectsInv /\ ProjectsTypes
    BY ProjectsBegin, ProjectsBeginTyped DEF Init
  <2>2. ProjectsInv /\ ProjectsTypes /\ [Next]_vars => (ProjectsInv /\ ProjectsTypes)'
    <3>1. ProjectsInv /\ [Next]_vars => ProjectsInv'
      BY ProjectsGoOn, ProjectsMove DEF projectVars, Projects!vars
    <3>2. ProjectsInv /\ ProjectsTypes /\ [Next]_vars => ProjectsTypes'
      BY <3>1, ProjectsStayTyped, ProjectsMove DEF projectVars, Projects!vars
    <3>. QED BY <3>1, <3>2
  <2>3. ProjectsInv /\ ProjectsTypes => Projects!TypeOK
    BY ProjectsAreTyped
  <2>. QED BY <2>1, <2>2, <2>3, PTL DEF Spec
<1>24. Spec => []Webhooks!TypeOK
  <2>1. Init => WebhooksInv /\ WebhooksTypes
    BY WebhooksBegin, WebhooksBeginTyped DEF Init
  <2>2. WebhooksInv /\ WebhooksTypes /\ [Next]_vars => (WebhooksInv /\ WebhooksTypes)'
    <3>1. WebhooksInv /\ [Next]_vars => WebhooksInv'
      BY WebhooksGoOn, WebhooksMove DEF webhookVars, Webhooks!vars
    <3>2. WebhooksInv /\ WebhooksTypes /\ [Next]_vars => WebhooksTypes'
      BY <3>1, WebhooksStayTyped, WebhooksMove DEF webhookVars, Webhooks!vars
    <3>. QED BY <3>1, <3>2
  <2>3. WebhooksInv /\ WebhooksTypes => Webhooks!TypeOK
    BY WebhooksAreTyped
  <2>. QED BY <2>1, <2>2, <2>3, PTL DEF Spec
<1>25. Spec => []Gate!TypeOK
  <2>1. Init => GateInv /\ gateEvents \in 0..MaxGateEvents
    BY GateBegins, GateBeginsTyped DEF Init
  <2>2. GateInv /\ gateEvents \in 0..MaxGateEvents /\ [Next]_vars => (GateInv /\ gateEvents \in 0..MaxGateEvents)'
    <3>1. GateInv /\ [Next]_vars => GateInv'
      BY GateGoesOn, GateMoves DEF gateVars, Gate!vars
    <3>2. GateInv /\ gateEvents \in 0..MaxGateEvents /\ [Next]_vars => (gateEvents \in 0..MaxGateEvents)'
      BY <3>1, GateStaysTyped, GateMoves DEF gateVars, Gate!vars
    <3>. QED BY <3>1, <3>2
  <2>3. GateInv /\ gateEvents \in 0..MaxGateEvents => Gate!TypeOK
    BY GateIsTyped
  <2>. QED BY <2>1, <2>2, <2>3, PTL DEF Spec
<1>26. Spec => []Checks!TypeOK
  <2>1. Init => ChecksInv
    BY ChecksBegin DEF Init
  <2>2. ChecksInv /\ [Next]_vars => ChecksInv'
    BY ChecksGo, ChecksMove DEF endpointVars, Checks!vars, Checks!listVars, Checks!checkVars
  <2>3. ChecksInv => Checks!TypeOK
    BY ChecksAreTyped
  <2>. QED BY <2>1, <2>2, <2>3, PTL DEF Spec
<1>27. Spec => []Cluster!TypeOK
  <2>1. Init => ClusterInv /\ ClusterTypes
    BY ClusterBegins, ClusterBeginsTyped DEF Init
  <2>2. ClusterInv /\ ClusterTypes /\ [Next]_vars => (ClusterInv /\ ClusterTypes)'
    <3>1. ClusterInv /\ [Next]_vars => ClusterInv'
      BY ClusterGoesOn, ClusterMoves DEF clusterVars, Cluster!vars
    <3>2. ClusterInv /\ ClusterTypes /\ [Next]_vars => ClusterTypes'
      BY <3>1, ClusterStaysTyped, ClusterMoves DEF clusterVars, Cluster!vars
    <3>. QED BY <3>1, <3>2
  <2>3. ClusterInv /\ ClusterTypes => Cluster!TypeOK
    BY ClusterIsTyped
  <2>. QED BY <2>1, <2>2, <2>3, PTL DEF Spec
<1>28. Spec => []Metrics!TypeOK
  <2>1. Init => MetricsInv /\ MetricsTypes
    BY MetricsBegin, MetricsBeginTyped DEF Init
  <2>2. MetricsInv /\ MetricsTypes /\ [Next]_vars => (MetricsInv /\ MetricsTypes)'
    <3>1. MetricsInv /\ [Next]_vars => MetricsInv'
      BY MetricsGoOn, MetricsMove DEF podVars, Metrics!vars
    <3>2. MetricsInv /\ MetricsTypes /\ [Next]_vars => MetricsTypes'
      BY <3>1, MetricsStayTyped, MetricsMove DEF podVars, Metrics!vars
    <3>. QED BY <3>1, <3>2
  <2>3. MetricsInv /\ MetricsTypes => Metrics!TypeOK
    BY MetricsAreTyped
  <2>. QED BY <2>1, <2>2, <2>3, PTL DEF Spec
<1>29. /\ Sessions!TypeOK /\ Process!TypeOK /\ Alerts!TypeOK /\ Exits!TypeOK
       /\ Access!TypeOK /\ Market!TypeOK /\ Storage!TypeOK /\ Stores!TypeOK
       /\ Recorder!TypeOK /\ History!TypeOK /\ Catalogs!TypeOK /\ Loader!TypeOK
       /\ Entities!TypeOK /\ Tab!TypeOK /\ Replay!TypeOK /\ Panel!TypeOK
       /\ Frames!TypeOK /\ View!TypeOK /\ Flat!TypeOK /\ Manager!TypeOK
       /\ Connections!TypeOK /\ Compare!TypeOK /\ Projects!TypeOK /\ Webhooks!TypeOK
       /\ Gate!TypeOK /\ Checks!TypeOK /\ Cluster!TypeOK /\ Metrics!TypeOK
       => TypesOK
  BY DEF TypesOK
<1>. QED BY <1>1, <1>2, <1>3, <1>4, <1>5, <1>6, <1>7, <1>8, <1>9, <1>10, <1>11, <1>12, <1>13, <1>14, <1>15,
  <1>16, <1>17, <1>18, <1>19, <1>20, <1>21, <1>22, <1>23, <1>24, <1>25, <1>26, <1>27, <1>28, <1>29, PTL

=============================================================================
