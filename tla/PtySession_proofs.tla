--------------------------- MODULE PtySession_proofs ---------------------------
(***************************************************************************)
(* Theorems about one session of the PTY daemon, for every number of       *)
(* connections and subscribers, every ring, watermark and read size.       *)
(*                                                                         *)
(* The safety invariants of PtySession are not inductive.  What has to be   *)
(* added is what the threads know without looking: where the reader stands  *)
(* (ReaderSync), what a pause means for it (PauseStopsReader), and how the   *)
(* state of a connection limits the state of the session (LinkSync).        *)
(***************************************************************************)
EXTENDS PtySession, RawRing_proofs

------------------------------------------------------------------------------
(* What the tee buffer's operators preserve: the frames a subscriber has coming  *)
(* cover every coordinate once, and the buffer stays small.                      *)

LEMMA PushDataType ==
  ASSUME NEW b \in TeeBufs, NEW at \in Nat, NEW n \in Nat
  PROVE  PushData(b, at, n) \in TeeBufs
<1>1. /\ b.frames \in Seq(TeeFrames) /\ b.bytes \in Nat
      /\ Len(b.frames) \in Nat
  BY LenProperties DEF TeeBufs
<1>2. DataFrame(at, n) \in TeeFrames /\ GapFrame(at, n) \in TeeFrames
  BY DEF DataFrame, GapFrame, TeeFrames
<1>3. /\ Append(b.frames, DataFrame(at, n)) \in Seq(TeeFrames)
      /\ Append(b.frames, GapFrame(at, n)) \in Seq(TeeFrames)
  BY <1>1, <1>2, AppendProperties
<1>4. ASSUME TrailingGap(b)
      PROVE  [b.frames EXCEPT ![Len(b.frames)].to = at + n] \in Seq(TeeFrames)
  <2>1. Len(b.frames) \in 1 .. Len(b.frames)
    BY <1>1, <1>4, EmptySeq DEF TrailingGap
  <2>2. b.frames[Len(b.frames)] \in TeeFrames
    BY <1>1, <2>1, ElementOfSeq
  <2>3. [b.frames[Len(b.frames)] EXCEPT !.to = at + n] \in TeeFrames
    BY <2>2 DEF TeeFrames
  <2> QED BY <1>1, <2>1, <2>3, ExceptSeq
<1>5. CASE b.bytes + n <= TeeCap
  BY <1>1, <1>3, <1>5 DEF PushData, TeeBufs
<1>6. CASE ~(b.bytes + n <= TeeCap) /\ TrailingGap(b)
  BY <1>1, <1>4, <1>6 DEF PushData, TeeBufs
<1>7. CASE ~(b.bytes + n <= TeeCap) /\ ~TrailingGap(b)
  BY <1>1, <1>3, <1>7 DEF PushData, TeeBufs
<1> QED BY <1>5, <1>6, <1>7

\* A frame that starts where the others end extends what they cover.
LEMMA CoversAppend ==
  ASSUME NEW fs \in Seq(TeeFrames), NEW f \in TeeFrames, NEW a \in Nat, NEW b \in Nat,
         Covers(fs, a, b), f.from = b, f.from < f.to
  PROVE  Covers(Append(fs, f), a, f.to)
<1> DEFINE gs == Append(fs, f)
<1>1. Len(fs) \in Nat /\ (fs # <<>> => Len(fs) \in Nat \ {0})
  BY LenProperties, EmptySeq
<1>2. /\ gs \in Seq(TeeFrames) /\ gs # <<>> /\ Len(gs) = Len(fs) + 1
      /\ \A i \in 1 .. Len(fs) : gs[i] = fs[i]
      /\ gs[Len(fs) + 1] = f
  BY AppendProperties
<1> HIDE DEF gs
<1>3. ASSUME NEW i \in 1 .. Len(gs)
      PROVE  /\ gs[i].from < gs[i].to
             /\ gs[i].from = IF i = 1 THEN a ELSE gs[i - 1].to
  <2>1. CASE i <= Len(fs)
    <3>1. i \in 1 .. Len(fs) /\ (i # 1 => i - 1 \in 1 .. Len(fs))
      BY <1>1, <2>1
    <3>2. gs[i] = fs[i] /\ (i # 1 => gs[i - 1] = fs[i - 1])
      BY <1>2, <3>1
    <3> QED BY <3>1, <3>2 DEF Covers
  <2>2. CASE i = Len(fs) + 1
    <3>1. CASE fs = <<>>
      <4>1. Len(fs) = 0 /\ a = b
        BY <3>1, EmptySeq DEF Covers
      <4> QED BY <1>2, <2>2, <4>1
    <3>2. CASE fs # <<>>
      <4>1. Len(fs) \in 1 .. Len(fs) /\ i # 1 /\ i - 1 = Len(fs)
        BY <1>1, <2>2, <3>2
      <4>2. fs[Len(fs)].to = b
        BY <3>2 DEF Covers
      <4> QED BY <1>2, <2>2, <4>1, <4>2
    <3> QED BY <3>1, <3>2
  <2> QED BY <1>1, <1>2, <2>1, <2>2
<1>4. gs[Len(gs)].to = f.to
  BY <1>2
<1> QED BY <1>2, <1>3, <1>4 DEF Covers, gs

\* Moving the last frame's end moves the end of what is covered.
LEMMA CoversExtend ==
  ASSUME NEW fs \in Seq(TeeFrames), NEW gs \in Seq(TeeFrames),
         NEW a \in Nat, NEW b \in Nat, NEW e \in Nat,
         fs # <<>>, Covers(fs, a, b), b < e, Len(gs) = Len(fs),
         \A i \in 1 .. Len(fs) :
           gs[i] = IF i = Len(fs) THEN [fs[i] EXCEPT !.to = e] ELSE fs[i]
  PROVE  Covers(gs, a, e)
<1>1. Len(fs) \in Nat \ {0} /\ Len(fs) \in 1 .. Len(fs) /\ gs # <<>>
  BY EmptySeq
<1>2. fs[Len(fs)] \in TeeFrames /\ fs[Len(fs)].to = b
  BY <1>1, ElementOfSeq DEF Covers
<1>3. /\ gs[Len(fs)].to = e /\ gs[Len(fs)].from = fs[Len(fs)].from
  BY <1>1, <1>2 DEF TeeFrames
<1>4. ASSUME NEW i \in 1 .. Len(gs)
      PROVE  /\ gs[i].from < gs[i].to
             /\ gs[i].from = IF i = 1 THEN a ELSE gs[i - 1].to
  <2>1. i \in 1 .. Len(fs) /\ (i # 1 => i - 1 \in 1 .. Len(fs) /\ i - 1 # Len(fs))
    BY <1>1
  <2>2. i # 1 => gs[i - 1] = fs[i - 1]
    BY <2>1
  <2>3. /\ fs[i].from < fs[i].to
        /\ fs[i].from = IF i = 1 THEN a ELSE fs[i - 1].to
    BY <2>1 DEF Covers
  <2>4. CASE i = Len(fs)
    <3>1. fs[i].from \in Nat
      BY <1>2, <2>4 DEF TeeFrames
    <3> QED BY <1>2, <1>3, <2>2, <2>3, <2>4, <3>1
  <2>5. CASE i # Len(fs)
    BY <2>1, <2>2, <2>3, <2>5
  <2> QED BY <2>4, <2>5
<1> QED BY <1>1, <1>3, <1>4 DEF Covers

\* Whatever push_data does with the bytes, they are covered afterwards.
LEMMA PushDataCovers ==
  ASSUME NEW w \in Seq(TeeFrames), NEW b \in TeeBufs,
         NEW a \in Nat, NEW at \in Nat, NEW n \in Nat \ {0},
         Covers(w \o b.frames, a, at)
  PROVE  Covers(w \o PushData(b, at, n).frames, a, at + n)
<1> DEFINE x  == b.frames
           fs == w \o x
<1>1. x \in Seq(TeeFrames) /\ b.bytes \in Nat /\ Len(x) \in Nat /\ Len(w) \in Nat
  BY LenProperties DEF TeeBufs
<1>2. /\ fs \in Seq(TeeFrames) /\ Len(fs) = Len(w) + Len(x)
      /\ \A i \in 1 .. Len(w) + Len(x) :
           fs[i] = IF i <= Len(w) THEN w[i] ELSE x[i - Len(w)]
  BY <1>1, ConcatProperties
<1> HIDE DEF x, fs
<1>3. DataFrame(at, n) \in TeeFrames /\ GapFrame(at, n) \in TeeFrames
  BY DEF DataFrame, GapFrame, TeeFrames
<1>4. ASSUME NEW f \in TeeFrames, f.from = at, f.to = at + n
      PROVE  Covers(w \o Append(x, f), a, at + n)
  <2>1. <<f>> \in Seq(TeeFrames)
    OBVIOUS
  <2>2. w \o Append(x, f) = Append(fs, f)
    <3>1. Append(x, f) = x \o <<f>> /\ Append(fs, f) = fs \o <<f>>
      BY <1>1, <1>2, AppendIsConcat
    <3>2. w \o (x \o <<f>>) = (w \o x) \o <<f>>
      BY <1>1, <2>1, ConcatAssociative
    <3> QED BY <3>1, <3>2 DEF fs
  <2>3. Covers(fs, a, at)
    BY DEF fs, x
  <2>4. Covers(Append(fs, f), a, f.to)
    BY <1>2, <1>4, <2>3, CoversAppend
  <2> QED BY <1>4, <2>2, <2>4
<1>5. CASE b.bytes + n <= TeeCap
  BY <1>3, <1>4, <1>5 DEF PushData, DataFrame, x
<1>6. CASE ~(b.bytes + n <= TeeCap) /\ ~TrailingGap(b)
  BY <1>3, <1>4, <1>6 DEF PushData, GapFrame, TeeBufs, x
<1>7. CASE ~(b.bytes + n <= TeeCap) /\ TrailingGap(b)
  <2> DEFINE y  == [x EXCEPT ![Len(x)].to = at + n]
             gs == w \o y
  <2>1. x # <<>> /\ Len(x) \in Nat \ {0} /\ Len(x) \in 1 .. Len(x)
    BY <1>1, <1>7, EmptySeq DEF TrailingGap, x
  <2>2. PushData(b, at, n).frames = y
    BY <1>7 DEF PushData, TeeBufs, x
  <2>3. /\ y \in Seq(TeeFrames) /\ Len(y) = Len(x)
        /\ \A i \in 1 .. Len(x) :
             y[i] = IF i = Len(x) THEN [x[i] EXCEPT !.to = at + n] ELSE x[i]
    <3>1. x[Len(x)] \in TeeFrames
      BY <1>1, <2>1, ElementOfSeq
    <3>2. [x[Len(x)] EXCEPT !.to = at + n] \in TeeFrames
      <4>1. at + n \in Nat
        OBVIOUS
      <4> QED BY <3>1, <4>1 DEF TeeFrames
    <3> DEFINE e == [x[Len(x)] EXCEPT !.to = at + n]
    <3>3. y = [x EXCEPT ![Len(x)] = e]
      OBVIOUS
    <3> HIDE DEF e, y
    <3>4. e \in TeeFrames
      BY <3>2 DEF e
    <3>5. /\ y \in Seq(TeeFrames) /\ Len(y) = Len(x)
          /\ \A i \in 1 .. Len(x) : y[i] = IF i = Len(x) THEN e ELSE x[i]
      BY <1>1, <2>1, <3>3, <3>4, ExceptSeq
    <3> QED BY <3>5 DEF e
  <2> HIDE DEF y, gs
  <2>4. /\ gs \in Seq(TeeFrames) /\ Len(gs) = Len(w) + Len(x)
        /\ \A i \in 1 .. Len(w) + Len(x) :
             gs[i] = IF i <= Len(w) THEN w[i] ELSE y[i - Len(w)]
    <3>1. y \in Seq(TeeFrames) /\ Len(y) = Len(x)
      BY <2>3
    <3>2. /\ w \o y \in Seq(TeeFrames) /\ Len(w \o y) = Len(w) + Len(y)
          /\ \A i \in 1 .. Len(w) + Len(y) :
               (w \o y)[i] = IF i <= Len(w) THEN w[i] ELSE y[i - Len(w)]
      BY <3>1, ConcatProperties
    <3> QED BY <3>1, <3>2 DEF gs
  <2>5. ASSUME NEW i \in 1 .. Len(fs)
        PROVE  gs[i] = IF i = Len(fs) THEN [fs[i] EXCEPT !.to = at + n] ELSE fs[i]
    <3>1. CASE i <= Len(w)
      BY <1>1, <1>2, <2>1, <2>4, <3>1
    <3>2. CASE i > Len(w)
      <4>1. i - Len(w) \in 1 .. Len(x) /\ (i = Len(fs) <=> i - Len(w) = Len(x))
        BY <1>1, <1>2, <3>2
      <4>2. gs[i] = y[i - Len(w)] /\ fs[i] = x[i - Len(w)]
        BY <1>1, <1>2, <2>4, <3>2
      <4> QED BY <2>3, <4>1, <4>2
    <3> QED BY <1>1, <1>2, <3>1, <3>2
  <2>6. fs # <<>>
    BY <1>1, <1>2, <2>1, EmptySeq
  <2>7. Covers(fs, a, at)
    BY DEF fs, x
  <2>8. at < at + n /\ at + n \in Nat /\ Len(gs) = Len(fs)
    BY <1>2, <2>4
  <2>9. Covers(gs, a, at + n)
    BY <1>2, <2>4, <2>5, <2>6, <2>7, <2>8, CoversExtend
  <2> QED BY <2>2, <2>9 DEF gs
<1> QED BY <1>5, <1>6, <1>7

\* Taking the first frame leaves the rest covering what is left.
LEMMA CoversTail ==
  ASSUME NEW w \in Seq(TeeFrames), NEW x \in Seq(TeeFrames),
         NEW a \in Nat, NEW b \in Nat, w # <<>>, Covers(w \o x, a, b)
  PROVE  Covers(Tail(w) \o x, Head(w).to, b)
<1> DEFINE fs == w \o x
           gs == Tail(w) \o x
<1>1. Len(w) \in Nat \ {0} /\ Len(x) \in Nat
  BY EmptySeq, LenProperties
<1>2. /\ Head(w) = w[1] /\ Tail(w) \in Seq(TeeFrames) /\ Len(Tail(w)) = Len(w) - 1
      /\ \A i \in 1 .. Len(Tail(w)) : Tail(w)[i] = w[i + 1]
  BY HeadTailProperties
<1>3. /\ Len(fs) = Len(w) + Len(x)
      /\ \A i \in 1 .. Len(w) + Len(x) :
           fs[i] = IF i <= Len(w) THEN w[i] ELSE x[i - Len(w)]
  BY ConcatProperties
<1>4. /\ gs \in Seq(TeeFrames) /\ Len(gs) = Len(Tail(w)) + Len(x)
      /\ \A i \in 1 .. Len(Tail(w)) + Len(x) :
           gs[i] = IF i <= Len(Tail(w)) THEN Tail(w)[i] ELSE x[i - Len(Tail(w))]
  BY <1>2, ConcatProperties
<1>5. Covers(fs, a, b)
  OBVIOUS
<1> HIDE DEF fs, gs
<1>6. Len(gs) = Len(fs) - 1 /\ \A i \in 1 .. Len(gs) : gs[i] = fs[i + 1]
  <2>1. Len(gs) = Len(fs) - 1
    BY <1>1, <1>2, <1>3, <1>4
  <2>2. ASSUME NEW i \in 1 .. Len(gs)
        PROVE  gs[i] = fs[i + 1]
    <3>1. CASE i <= Len(Tail(w))
      BY <1>1, <1>2, <1>3, <1>4, <3>1
    <3>2. CASE i > Len(Tail(w))
      <4>1. i - Len(Tail(w)) = (i + 1) - Len(w)
        BY <1>1, <1>2
      <4> QED BY <1>1, <1>2, <1>3, <1>4, <3>2, <4>1
    <3> QED BY <1>1, <1>2, <3>1, <3>2
  <2> QED BY <2>1, <2>2
<1>7. fs[1] = Head(w) /\ Len(fs) \in Nat \ {0} /\ fs # <<>>
  BY <1>1, <1>2, <1>3, EmptySeq
<1>8. ASSUME NEW i \in 1 .. Len(gs)
      PROVE  /\ gs[i].from < gs[i].to
             /\ gs[i].from = IF i = 1 THEN Head(w).to ELSE gs[i - 1].to
  <2>1. i + 1 \in 1 .. Len(fs) /\ i + 1 # 1 /\ (i + 1) - 1 = i
    BY <1>6, <1>7
  <2>2. fs[i + 1].from < fs[i + 1].to /\ fs[i + 1].from = fs[i].to
    BY <1>5, <2>1 DEF Covers
  <2>3. i # 1 => gs[i - 1] = fs[i]
    <3>1. i # 1 => i - 1 \in 1 .. Len(gs) /\ (i - 1) + 1 = i
      BY <1>6, <1>7
    <3> QED BY <1>6, <3>1
  <2> QED BY <1>6, <1>7, <2>2, <2>3
<1>9. IF gs = <<>> THEN Head(w).to = b ELSE gs[Len(gs)].to = b
  <2>1. fs[Len(fs)].to = b
    BY <1>5, <1>7 DEF Covers
  <2>2. CASE gs = <<>>
    <3>1. Len(gs) = 0
      BY <2>2, EmptySeq
    <3>2. Len(fs) = 1
      BY <1>6, <1>7, <3>1
    <3> QED BY <1>7, <2>1, <2>2, <3>2
  <2>3. CASE gs # <<>>
    <3>1. Len(gs) \in 1 .. Len(gs) /\ Len(gs) + 1 = Len(fs)
      BY <1>4, <1>6, <1>7, <2>3, EmptySeq
    <3> QED BY <1>6, <2>1, <2>3, <3>1
  <2> QED BY <2>2, <2>3
<1> QED BY <1>8, <1>9 DEF Covers, gs

\* The buffer's data is capped and its gaps never follow one another.
TeeSmall(b) ==
  /\ b.bytes <= TeeCap
  /\ Len(b.frames) <= 2 * b.bytes + (IF TrailingGap(b) THEN 1 ELSE 0)

LEMMA PushDataSmall ==
  ASSUME NEW b \in TeeBufs, TeeSmall(b), NEW at \in Nat, NEW n \in Nat \ {0}
  PROVE  TeeSmall(PushData(b, at, n))
<1> DEFINE x == b.frames
           p == PushData(b, at, n)
<1>1. x \in Seq(TeeFrames) /\ b.bytes \in Nat /\ Len(x) \in Nat /\ TeeCap \in Nat
  BY LenProperties, TeeCapAssumption DEF TeeBufs
<1>2. DataFrame(at, n) \in TeeFrames /\ GapFrame(at, n) \in TeeFrames
  BY DEF DataFrame, GapFrame, TeeFrames
<1>3. CASE b.bytes + n <= TeeCap
  <2>1. p.bytes = b.bytes + n /\ Len(p.frames) = Len(x) + 1
    BY <1>1, <1>2, <1>3, AppendProperties DEF PushData
  <2>2. Len(x) <= 2 * b.bytes + 1
    BY <1>1 DEF TeeSmall
  <2>3. Len(p.frames) <= 2 * p.bytes
    BY <1>1, <2>1, <2>2
  <2>4. p.bytes \in Nat /\ Len(p.frames) \in Nat
    BY <1>1, <2>1
  <2> QED BY <1>3, <2>1, <2>3, <2>4 DEF TeeSmall
<1>4. CASE ~(b.bytes + n <= TeeCap) /\ TrailingGap(b)
  <2> DEFINE y == [x EXCEPT ![Len(x)].to = at + n]
  <2>1. p.bytes = b.bytes /\ p.frames = y
    BY <1>4 DEF PushData, TeeBufs
  <2>2. x # <<>> /\ Len(x) \in 1 .. Len(x)
    BY <1>1, <1>4, EmptySeq DEF TrailingGap
  <2>3. x[Len(x)] \in TeeFrames /\ x[Len(x)].kind = "gap"
    BY <1>1, <1>4, <2>2, ElementOfSeq DEF TrailingGap
  <2>4. [x[Len(x)] EXCEPT !.to = at + n] \in TeeFrames
    BY <2>3 DEF TeeFrames
  <2>5. y \in Seq(TeeFrames) /\ Len(y) = Len(x) /\ y[Len(x)] = [x[Len(x)] EXCEPT !.to = at + n]
    BY <1>1, <2>2, <2>4, ExceptSeq
  <2>6. y[Len(y)].kind = "gap" /\ y # <<>>
    BY <2>2, <2>3, <2>5, EmptySeq DEF TeeFrames
  <2>7. TrailingGap(p)
    BY <2>1, <2>6 DEF TrailingGap
  <2> QED BY <1>4, <2>1, <2>5, <2>7 DEF TeeSmall
<1>5. CASE ~(b.bytes + n <= TeeCap) /\ ~TrailingGap(b)
  <2> DEFINE y == Append(x, GapFrame(at, n))
  <2>1. p.bytes = b.bytes /\ p.frames = y
    BY <1>5 DEF PushData, TeeBufs
  <2>2. y # <<>> /\ Len(y) = Len(x) + 1 /\ y[Len(x) + 1] = GapFrame(at, n)
    BY <1>1, <1>2, AppendProperties
  <2>3. TrailingGap(p)
    BY <2>1, <2>2 DEF TrailingGap, GapFrame
  <2>4. Len(x) <= 2 * b.bytes
    BY <1>1, <1>5 DEF TeeSmall
  <2> HIDE DEF y
  <2> QED BY <1>1, <1>5, <2>1, <2>2, <2>3, <2>4 DEF TeeSmall
<1> QED BY <1>3, <1>4, <1>5

------------------------------------------------------------------------------
(* The session.                                                                  *)

\* The ring lags the master by exactly the chunk the reader holds.
ReaderSync ==
  /\ RingIsTail(ring)
  /\ ring.seq <= emitted /\ emitted <= ring.seq + MaxChunk
  /\ IF pc = "push" THEN ring.seq < emitted ELSE ring.seq = emitted

\* A pause is set by the push and holds the reader at the next check; while
\* it is not set, a living shell's client is below the high mark.
PauseStopsReader ==
  /\ paused => pc = "check"
  /\ attached # None /\ ~paused /\ shell = "alive" => unacked < High

\* Only a connection that was opened can be attached, only a living session
\* has one, and an unopened connection carries nothing.
LinkSync ==
  /\ closed <=> pc \in {"reap", "gone"}
  /\ closed => attached = None
  /\ attached # None => link[attached] \in {"open", "cut"}
  /\ \A c \in Conns : link[c] = "new" => mySeq[c] = 0 /\ pipe[c] = <<>>

SessionInv ==
  /\ TypeOK /\ ReaderSync /\ PauseStopsReader /\ LinkSync
  /\ NoSilentShift /\ AttachedIsCurrent /\ EofIsComplete /\ PauseIsOwed
  /\ FlowBound

\* The chunk is the master's output the ring does not have yet.
LEMMA ChunkFacts ==
  ASSUME TypeOK, ReaderSync
  PROVE  /\ Chunk \in Seq(Nat)
         /\ Len(Chunk) \in 0 .. MaxChunk
         /\ ring.seq + Len(Chunk) = emitted
         /\ Consecutive(Chunk, ring.seq)
<1> DEFINE k == emitted - ring.seq
<1>1. k \in 0 .. MaxChunk /\ ring.seq \in Nat
  BY SessionAssumption DEF TypeOK, ReaderSync, Rings
<1>2. Chunk = [i \in 1..k |-> ring.seq + i - 1]
  BY DEF Chunk
<1> HIDE DEF k
<1>3. Chunk \in Seq(Nat)
  <2>1. Chunk \in [1..k -> Nat] /\ k \in Nat
    BY <1>1, <1>2
  <2> QED BY <2>1, SeqDef
<1>4. Len(Chunk) = k
  BY <1>1, <1>2
<1>5. Consecutive(Chunk, ring.seq)
  BY <1>2, <1>4 DEF Consecutive
<1>6. ring.seq + k = emitted
  BY DEF TypeOK, Rings, k
<1> QED BY <1>1, <1>3, <1>4, <1>5, <1>6

LEMMA PushStep ==
  ASSUME SessionInv, ReaderPush
  PROVE  SessionInv'
<1>1. /\ TypeOK /\ ReaderSync /\ PauseStopsReader /\ LinkSync
      /\ NoSilentShift /\ AttachedIsCurrent /\ EofIsComplete /\ PauseIsOwed
  BY DEF SessionInv
<1>2. /\ Chunk \in Seq(Nat)
      /\ Len(Chunk) \in 0 .. MaxChunk
      /\ ring.seq + Len(Chunk) = emitted
      /\ Consecutive(Chunk, ring.seq)
  BY <1>1, ChunkFacts
<1>3. ring \in Rings(Nat) /\ ring.seq \in Nat /\ MaxChunk \in Nat
  BY <1>1, SessionAssumption DEF TypeOK, Rings
<1>4. ring' \in Rings(Nat) /\ RingIsTail(ring') /\ ring'.seq = emitted
  BY <1>1, <1>2, <1>3, PushKeepsTail DEF ReaderPush, ReaderSync
<1>5. tee' \in [Subs -> TeeBufs]
  <2>1. Len(Chunk) \in Nat /\ tee \in [Subs -> TeeBufs]
    BY <1>1, <1>2, <1>3 DEF TypeOK
  <2>2. ASSUME NEW s \in Subs
        PROVE  PushData(tee[s], ring.seq, Len(Chunk)) \in TeeBufs
    <3>1. tee[s] \in TeeBufs
      BY <2>1
    <3> QED BY <1>3, <2>1, <3>1, PushDataType
  <2> QED BY <2>1, <2>2 DEF ReaderPush
<1>6. pc = "push" /\ pc' = "check" /\ ~closed /\ ~paused
  BY <1>1 DEF ReaderPush, LinkSync, PauseStopsReader, TypeOK
<1>7. ReaderSync'
  BY <1>1, <1>3, <1>4, <1>6 DEF ReaderPush, ReaderSync, TypeOK
<1>8. CASE attached = None
  <2>1. UNCHANGED <<attached, unacked, paused, pipe>>
    BY <1>8 DEF ReaderPush
  <2>2. TypeOK'
    BY <1>1, <1>4, <1>5, <1>6, <2>1 DEF ReaderPush, TypeOK
  <2>3. NoSilentShift' /\ AttachedIsCurrent'
    BY <1>1, <1>8, <2>1, SessionAssumption
    DEF ReaderPush, NoSilentShift, AttachedIsCurrent, TypeOK
  <2>4. EofIsComplete'
    BY <1>1, <1>6, <2>1 DEF ReaderPush, EofIsComplete
  <2> QED BY <1>1, <1>6, <1>7, <1>8, <2>1, <2>2, <2>3, <2>4, SessionAssumption
          DEF ReaderPush, SessionInv, PauseStopsReader, LinkSync, PauseIsOwed, FlowBound
<1>9. CASE attached # None /\ link[attached] = "cut"
  <2>1. attached' = None /\ unacked' = 0 /\ paused' = FALSE /\ UNCHANGED pipe
    BY <1>9 DEF ReaderPush, ResetFlow
  <2>2. TypeOK'
    BY <1>1, <1>4, <1>5, <1>6, <2>1 DEF ReaderPush, TypeOK
  <2>3. NoSilentShift' /\ AttachedIsCurrent'
    BY <1>1, <2>1, SessionAssumption
    DEF ReaderPush, NoSilentShift, AttachedIsCurrent, TypeOK
  <2>4. EofIsComplete'
    BY <1>1, <1>6, <2>1 DEF ReaderPush, EofIsComplete
  <2> QED BY <1>1, <1>6, <1>7, <2>1, <2>2, <2>3, <2>4, SessionAssumption
          DEF ReaderPush, SessionInv, PauseStopsReader, LinkSync, PauseIsOwed, FlowBound
<1>10. CASE attached # None /\ link[attached] # "cut"
  <2> DEFINE a == attached
  <2>1. /\ a \in Conns /\ link[a] = "open" /\ attached' = a
        /\ pipe' = [pipe EXCEPT ![a] = @ \o Chunk]
        /\ unacked' = unacked + Len(Chunk)
        /\ paused' \in BOOLEAN /\ (paused' <=> unacked' >= High)
    BY <1>1, <1>6, <1>10 DEF ReaderPush, TypeOK, LinkSync
  <2>2. /\ pipe[a] \in Seq(Nat) /\ shown[a] \in Nat /\ lag[a] \in Nat
        /\ Len(pipe[a]) \in Nat /\ Len(Chunk) \in Nat /\ unacked \in Nat
    BY <1>1, <1>2, <2>1, LenProperties DEF TypeOK
  <2>3. shown[a] + Len(pipe[a]) = ring.seq
    BY <1>1, <2>1 DEF AttachedIsCurrent
  <2>4. /\ pipe[a] \o Chunk \in Seq(Nat)
        /\ Len(pipe[a] \o Chunk) = Len(pipe[a]) + Len(Chunk)
        /\ Consecutive(pipe[a] \o Chunk, shown[a])
    <3>1. Consecutive(pipe[a], shown[a])
      BY <1>1, <2>1 DEF NoSilentShift
    <3>2. Consecutive(Chunk, shown[a] + Len(pipe[a]))
      BY <1>2, <2>3
    <3>3. pipe[a] \in Seq(Nat) /\ Chunk \in Seq(Nat) /\ shown[a] \in Int
      BY <1>2, <2>2
    <3> HIDE DEF a
    <3> QED BY <3>1, <3>2, <3>3, ConsecutiveConcat
  <2>5. TypeOK'
    BY <1>1, <1>4, <1>5, <1>6, <2>1, <2>2, <2>4 DEF ReaderPush, TypeOK
  <2>6. NoSilentShift'
    BY <1>1, <2>1, <2>4 DEF ReaderPush, NoSilentShift, TypeOK
  <2>7. AttachedIsCurrent'
    BY <1>1, <1>2, <1>3, <1>4, <2>1, <2>2, <2>3, <2>4
    DEF ReaderPush, AttachedIsCurrent, TypeOK
  <2>8. EofIsComplete'
    BY <1>1, <1>6, <2>1 DEF ReaderPush, EofIsComplete, TypeOK
  <2>9. PauseIsOwed'
    <3>1. paused' => attached' # None /\ unacked' > Low
      <4>1. attached' # None
        BY <1>10, <2>1
      <4>2. paused' => unacked' > Low
        BY <1>2, <2>1, <2>2, SessionAssumption
      <4> QED BY <4>1, <4>2
    <3>2. unacked <= Len(pipe[a]) + lag[a]
      BY <1>1, <2>1 DEF PauseIsOwed
    <3>3. unacked' <= Len(pipe'[a]) + lag'[a]
      BY <1>1, <2>1, <2>2, <2>4, <3>2 DEF ReaderPush, TypeOK
    <3> QED BY <2>1, <3>1, <3>3 DEF PauseIsOwed
  <2>10. PauseStopsReader' /\ FlowBound'
    <3>1. shell = "alive" => unacked < High
      BY <1>1, <1>6, <1>10 DEF PauseStopsReader
    <3>2. shell' = shell
      BY DEF ReaderPush
    <3>3. PauseStopsReader'
      BY <1>6, <2>1, <2>2, SessionAssumption DEF PauseStopsReader
    <3>4. shell' = "alive" => unacked' < High + MaxChunk
      BY <1>2, <1>3, <2>1, <2>2, <3>1, <3>2, SessionAssumption
    <3> QED BY <3>3, <3>4 DEF FlowBound
  <2>11. LinkSync'
    BY <1>1, <1>6, <1>10, <2>1 DEF ReaderPush, LinkSync, TypeOK
  <2> QED BY <1>7, <2>5, <2>6, <2>7, <2>8, <2>9, <2>10, <2>11 DEF SessionInv
<1> QED BY <1>8, <1>9, <1>10

LEMMA AttachStep ==
  ASSUME SessionInv, NEW c \in Conns, NEW at \in Nat, NEW tail \in Seq(Nat),
         Consecutive(tail, at), at + Len(tail) = ring.seq,
         Attached(c, at, tail)
  PROVE  SessionInv'
<1>1. /\ TypeOK /\ ReaderSync /\ PauseStopsReader /\ LinkSync
      /\ NoSilentShift /\ AttachedIsCurrent /\ EofIsComplete /\ PauseIsOwed
      /\ FlowBound
  BY DEF SessionInv
<1>2. /\ ~closed /\ link[c] = "new" /\ attached # c /\ mySeq[c] = 0
  BY <1>1, SessionAssumption DEF Attached, LinkSync
<1>3. /\ pipe' = [pipe EXCEPT ![c] = tail] /\ shown' = [shown EXCEPT ![c] = at]
      /\ cursor' = [cursor EXCEPT ![c] = ring.seq] /\ attachSeq' = attachSeq + 1
      /\ UNCHANGED <<shell, pc, emitted, ring, closed, lag, subscribers>>
      /\ UNCHANGED <<tee, teeSt, wire, teeAt>>
  BY DEF Attached, readerVars, teeVars
<1>4. ReaderSync'
  BY <1>1, <1>3 DEF ReaderSync
<1>5. NoSilentShift'
  BY <1>1, <1>3 DEF NoSilentShift, TypeOK
<1>6. CASE /\ link' = [link EXCEPT ![c] = "open"]
           /\ mySeq' = [mySeq EXCEPT ![c] = attachSeq + 1]
           /\ handler' = [handler EXCEPT ![c] = TRUE]
           /\ attached' = c
           /\ ResetFlow
  <2>1. TypeOK'
    <3>1. ring.seq \in Nat
      BY <1>1 DEF TypeOK, Rings
    <3>2. /\ pipe' \in [Conns -> Seq(Nat)] /\ shown' \in [Conns -> Nat]
          /\ cursor' \in [Conns -> Nat] /\ attachSeq' \in Nat
      BY <1>1, <1>3, <3>1 DEF TypeOK
    <3>3. link' \in [Conns -> {"new", "open", "cut", "eof"}]
      BY <1>1, <1>6 DEF TypeOK
    <3>4. handler' \in [Conns -> BOOLEAN]
      BY <1>1, <1>6 DEF TypeOK
    <3>5. mySeq' \in [Conns -> Nat]
      BY <1>1, <1>6 DEF TypeOK
    <3>6. attached' \in Conns \cup {None} /\ unacked' \in Nat /\ paused' \in BOOLEAN
      BY <1>6 DEF ResetFlow
    <3> QED BY <1>1, <1>3, <3>2, <3>3, <3>4, <3>5, <3>6 DEF TypeOK
  <2>2. AttachedIsCurrent'
    BY <1>1, <1>3, <1>6, SessionAssumption DEF AttachedIsCurrent, TypeOK
  <2>3. EofIsComplete'
    BY <1>1, <1>2, <1>3, <1>6 DEF EofIsComplete, TypeOK
  <2>4. PauseIsOwed'
    <3>1. unacked' = 0 /\ paused' = FALSE
      BY <1>6 DEF ResetFlow
    <3>2. Len(tail) \in Nat /\ lag[c] \in Nat
      BY <1>1, LenProperties DEF TypeOK
    <3>3. 0 <= Len(pipe'[c]) + lag'[c]
      BY <1>1, <1>3, <3>2 DEF TypeOK
    <3> QED BY <1>6, <3>1, <3>3 DEF PauseIsOwed
  <2>5. PauseStopsReader' /\ FlowBound'
    BY <1>3, <1>6, SessionAssumption DEF PauseStopsReader, FlowBound, ResetFlow
  <2>6. LinkSync'
    BY <1>1, <1>2, <1>3, <1>6 DEF LinkSync, TypeOK
  <2> QED BY <1>4, <1>5, <2>1, <2>2, <2>3, <2>4, <2>5, <2>6 DEF SessionInv
<1>7. CASE /\ link' = [link EXCEPT ![c] = "eof"]
           /\ UNCHANGED <<handler, mySeq, attached, unacked, paused>>
  <2>1. TypeOK'
    <3>1. ring.seq \in Nat
      BY <1>1 DEF TypeOK, Rings
    <3>2. /\ pipe' \in [Conns -> Seq(Nat)] /\ shown' \in [Conns -> Nat]
          /\ cursor' \in [Conns -> Nat] /\ attachSeq' \in Nat
      BY <1>1, <1>3, <3>1 DEF TypeOK
    <3>3. link' \in [Conns -> {"new", "open", "cut", "eof"}]
      BY <1>1, <1>7 DEF TypeOK
    <3> QED BY <1>1, <1>3, <1>7, <3>2, <3>3 DEF TypeOK
  <2>2. AttachedIsCurrent' /\ PauseIsOwed'
    BY <1>1, <1>2, <1>3, <1>7 DEF AttachedIsCurrent, PauseIsOwed, TypeOK
  <2>3. EofIsComplete'
    BY <1>1, <1>2, <1>3, <1>7 DEF EofIsComplete, TypeOK
  <2>4. PauseStopsReader' /\ FlowBound'
    BY <1>1, <1>3, <1>7 DEF PauseStopsReader, FlowBound
  <2>5. LinkSync'
    BY <1>1, <1>2, <1>3, <1>7 DEF LinkSync, TypeOK
  <2> QED BY <1>4, <1>5, <2>1, <2>2, <2>3, <2>4, <2>5 DEF SessionInv
<1> QED BY <1>6, <1>7 DEF Attached

LEMMA ClientReadsStep ==
  ASSUME SessionInv, NEW c \in Conns, NEW n \in 1..Len(pipe[c]),
         ClientReads(c, n)
  PROVE  SessionInv'
<1>1. /\ TypeOK /\ ReaderSync /\ PauseStopsReader /\ LinkSync
      /\ NoSilentShift /\ AttachedIsCurrent /\ EofIsComplete /\ PauseIsOwed
      /\ FlowBound
  BY DEF SessionInv
<1>2. /\ UNCHANGED <<readerVars, stVars, link, handler, mySeq, teeVars>>
      /\ pipe' = [pipe EXCEPT ![c] = SubSeq(@, n + 1, Len(@))]
      /\ shown' = [shown EXCEPT ![c] = @ + n]
      /\ cursor' = [cursor EXCEPT ![c] = @ + n]
      /\ lag' = [lag EXCEPT ![c] = @ + n]
  BY DEF ClientReads
<1>3. /\ pipe[c] \in Seq(Nat) /\ Len(pipe[c]) \in Nat /\ n \in Nat
      /\ shown[c] \in Nat /\ lag[c] \in Nat
  BY <1>1, LenProperties DEF TypeOK
<1> DEFINE rest == SubSeq(pipe[c], n + 1, Len(pipe[c]))
<1>4. /\ rest \in Seq(Nat) /\ Len(rest) = Len(pipe[c]) - n
      /\ Consecutive(rest, shown[c] + n)
  <2>1. n + 1 \in 1 .. Len(pipe[c]) + 1 /\ shown[c] \in Int
    BY <1>3
  <2>2. Consecutive(pipe[c], shown[c])
    BY <1>1 DEF NoSilentShift
  <2>3. /\ Len(pipe[c]) - (n + 1) + 1 = Len(pipe[c]) - n
        /\ shown[c] + (n + 1) - 1 = shown[c] + n
    BY <1>3
  <2> QED BY <1>3, <2>1, <2>2, <2>3, ConsecutiveSuffix
<1>5. /\ pipe'[c] = rest /\ shown'[c] = shown[c] + n /\ lag'[c] = lag[c] + n
      /\ \A d \in Conns \ {c} : /\ pipe'[d] = pipe[d] /\ shown'[d] = shown[d]
                                /\ lag'[d] = lag[d]
  BY <1>1, <1>2 DEF TypeOK
<1> HIDE DEF rest
<1>6. shown'[c] + Len(pipe'[c]) = shown[c] + Len(pipe[c])
  BY <1>3, <1>4, <1>5
<1>7. TypeOK'
  <2>1. pipe' = [pipe EXCEPT ![c] = rest]
    BY <1>2 DEF rest
  <2>2. pipe' \in [Conns -> Seq(Nat)]
    BY <1>1, <1>4, <2>1 DEF TypeOK
  <2>3. \A f \in [Conns -> Nat] : [f EXCEPT ![c] = f[c] + n] \in [Conns -> Nat]
    BY <1>3
  <2>4. shown' \in [Conns -> Nat] /\ cursor' \in [Conns -> Nat] /\ lag' \in [Conns -> Nat]
    BY <1>1, <1>2, <2>3 DEF TypeOK
  <2> QED BY <1>1, <1>2, <2>2, <2>4 DEF TypeOK, readerVars, stVars, teeVars
<1>8. NoSilentShift'
  BY <1>1, <1>4, <1>5 DEF NoSilentShift
<1>9. AttachedIsCurrent'
  BY <1>1, <1>2, <1>5, <1>6 DEF AttachedIsCurrent, stVars
<1>10. EofIsComplete'
  BY <1>1, <1>2, <1>5, <1>6 DEF EofIsComplete, stVars, readerVars
<1>11. PauseIsOwed'
  <2>1. Len(pipe'[c]) + lag'[c] = Len(pipe[c]) + lag[c]
    BY <1>3, <1>4, <1>5
  <2> QED BY <1>1, <1>2, <1>5, <2>1 DEF PauseIsOwed, stVars
<1>12. LinkSync'
  <2>1. link[c] # "new"
    BY DEF ClientReads
  <2> QED BY <1>1, <1>2, <1>5, <2>1 DEF LinkSync, stVars, readerVars
<1> QED BY <1>1, <1>2, <1>7, <1>8, <1>9, <1>10, <1>11, <1>12
        DEF SessionInv, ReaderSync, PauseStopsReader, FlowBound, stVars, readerVars

LEMMA AckStep ==
  ASSUME SessionInv, NEW c \in Conns, RendererAck(c)
  PROVE  SessionInv'
<1>1. /\ TypeOK /\ ReaderSync /\ PauseStopsReader /\ LinkSync
      /\ NoSilentShift /\ AttachedIsCurrent /\ EofIsComplete /\ PauseIsOwed
      /\ FlowBound
  BY DEF SessionInv
<1> DEFINE n == lag[c]
<1>2. n \in Nat /\ unacked \in Nat
  BY <1>1 DEF TypeOK
<1>3. /\ lag' = [lag EXCEPT ![c] = 0]
      /\ unacked' = IF unacked > n THEN unacked - n ELSE 0
      /\ paused' \in BOOLEAN /\ (paused' <=> paused /\ unacked' > Low)
      /\ UNCHANGED <<readerVars, ring, attached, attachSeq, closed, subscribers,
                     link, handler, mySeq, pipe, shown, cursor, teeVars>>
  <2>1. lag' = [lag EXCEPT ![c] = lag[c] - n] /\ lag[c] - n = 0
    BY <1>2 DEF RendererAck, Ack
  <2>2. paused \in BOOLEAN
    BY <1>1 DEF TypeOK
  <2>3. paused' \in BOOLEAN /\ (paused' <=> paused /\ unacked' > Low)
    BY <2>2 DEF RendererAck, Ack
  <2> QED BY <2>1, <2>3 DEF RendererAck, Ack
<1> HIDE DEF n
<1>4. unacked' \in Nat /\ unacked' <= unacked
      /\ (unacked' = 0 \/ unacked' = unacked - n)
  BY <1>2, <1>3
<1>5. TypeOK'
  <2>1. lag' \in [Conns -> Nat]
    BY <1>1, <1>3 DEF TypeOK
  <2> QED BY <1>1, <1>3, <1>4, <2>1 DEF TypeOK, readerVars, teeVars
<1>6. PauseIsOwed'
  <2>1. paused' => attached' # None /\ unacked' > Low
    BY <1>1, <1>3 DEF PauseIsOwed
  <2>2. ASSUME NEW d \in Conns, attached' = d, link'[d] = "open"
        PROVE  unacked' <= Len(pipe'[d]) + lag'[d]
    <3>1. unacked <= Len(pipe[d]) + lag[d]
      BY <1>1, <1>3, <2>2 DEF PauseIsOwed
    <3>2. Len(pipe[d]) \in Nat /\ lag[d] \in Nat /\ pipe' = pipe
      BY <1>1, <1>3, LenProperties DEF TypeOK
    <3>3. CASE d = c
      <4>1. lag'[d] = 0 /\ lag[d] = n
        BY <1>1, <1>3, <3>3 DEF TypeOK, n
      <4> QED BY <1>2, <1>4, <3>1, <3>2, <4>1
    <3>4. CASE d # c
      <4>1. lag'[d] = lag[d]
        BY <1>1, <1>3, <3>4 DEF TypeOK
      <4> QED BY <1>2, <1>4, <3>1, <3>2, <4>1
    <3> QED BY <3>3, <3>4
  <2> QED BY <2>1, <2>2 DEF PauseIsOwed
<1>7. PauseStopsReader' /\ FlowBound'
  <2>1. /\ unacked' <= unacked /\ unacked' \in Nat /\ unacked \in Nat
        /\ High \in Nat /\ MaxChunk \in Nat
        /\ UNCHANGED <<shell, pc, attached>>
    BY <1>2, <1>3, <1>4, SessionAssumption DEF readerVars
  <2>2. paused' => pc' = "check"
    BY <1>1, <1>3, <2>1 DEF PauseStopsReader
  <2>3. ASSUME attached' # None, ~paused', shell' = "alive"
        PROVE  unacked' < High
    <3>1. CASE paused
      BY <1>3, <2>1, <2>3, <3>1, SessionAssumption
    <3>2. CASE ~paused
      <4>1. unacked < High
        BY <1>1, <2>1, <2>3, <3>2 DEF PauseStopsReader
      <4> QED BY <2>1, <4>1
    <3> QED BY <3>1, <3>2
  <2>4. FlowBound'
    <3>1. attached # None /\ shell = "alive" => unacked < High + MaxChunk
      BY <1>1 DEF FlowBound
    <3> QED BY <2>1, <3>1 DEF FlowBound
  <2> QED BY <2>2, <2>3, <2>4 DEF PauseStopsReader
<1>8. /\ ReaderSync' /\ LinkSync' /\ NoSilentShift' /\ AttachedIsCurrent'
      /\ EofIsComplete'
  BY <1>1, <1>3 DEF ReaderSync, LinkSync, NoSilentShift, AttachedIsCurrent,
                    EofIsComplete, readerVars
<1> QED BY <1>5, <1>6, <1>7, <1>8 DEF SessionInv

LEMMA HandlerEndsStep ==
  ASSUME SessionInv, NEW c \in Conns, HandlerEnds(c)
  PROVE  SessionInv'
<1>1. /\ TypeOK /\ ReaderSync /\ PauseStopsReader /\ LinkSync
      /\ NoSilentShift /\ AttachedIsCurrent /\ EofIsComplete /\ PauseIsOwed
      /\ FlowBound
  BY DEF SessionInv
<1>2. /\ handler' = [handler EXCEPT ![c] = FALSE]
      /\ UNCHANGED <<readerVars, ring, attachSeq, closed, subscribers,
                     link, mySeq, pipe, shown, cursor, lag, teeVars>>
  BY DEF HandlerEnds
<1>3. handler' \in [Conns -> BOOLEAN]
  BY <1>1, <1>2 DEF TypeOK
<1>4. /\ ReaderSync' /\ NoSilentShift' /\ EofIsComplete'
  BY <1>1, <1>2 DEF ReaderSync, NoSilentShift, EofIsComplete, readerVars
<1>5. CASE attached' = None /\ unacked' = 0 /\ paused' = FALSE
  <2>1. TypeOK'
    BY <1>1, <1>2, <1>3, <1>5 DEF TypeOK, readerVars, teeVars
  <2> QED BY <1>1, <1>2, <1>4, <1>5, <2>1, SessionAssumption
          DEF SessionInv, PauseStopsReader, LinkSync, AttachedIsCurrent,
              PauseIsOwed, FlowBound, readerVars
<1>6. CASE UNCHANGED <<attached, unacked, paused>>
  <2>1. TypeOK'
    BY <1>1, <1>2, <1>3, <1>6 DEF TypeOK, readerVars, teeVars
  <2> QED BY <1>1, <1>2, <1>4, <1>6, <2>1
          DEF SessionInv, PauseStopsReader, LinkSync, AttachedIsCurrent,
              PauseIsOwed, FlowBound, readerVars
<1> QED BY <1>5, <1>6 DEF HandlerEnds, ResetFlow

\* Whether it carries data or a gap, the frame a consumer takes moves it to the
\* frame's end.
LEMMA ReceiveMovesToEnd ==
  ASSUME TypeOK, TeeIsExact, NEW s \in Subs, TeeReceive(s)
  PROVE  /\ teeAt' = [teeAt EXCEPT ![s] = Head(wire[s]).to]
         /\ Head(wire[s]).to \in Nat
<1> DEFINE w == wire[s]
           x == tee[s].frames
<1> HIDE DEF w, x
<1>1. /\ w \in Seq(TeeFrames) /\ w # <<>> /\ x \in Seq(TeeFrames) /\ teeAt[s] \in Nat
  BY DEF TeeReceive, TypeOK, TeeBufs, w, x
<1>2. Covers(w \o x, teeAt[s], ring.seq)
  BY DEF TeeReceive, TeeIsExact, w, x
<1>3. Len(w) \in Nat \ {0} /\ Len(x) \in Nat
  BY <1>1, EmptySeq, LenProperties
<1>4. /\ Len(w \o x) = Len(w) + Len(x)
      /\ (w \o x)[1] = w[1] /\ 1 \in 1 .. Len(w) + Len(x)
  <2>1. 1 \in 1 .. Len(w) + Len(x)
    BY <1>3
  <2>2. \A i \in 1 .. Len(w) + Len(x) :
          (w \o x)[i] = IF i <= Len(w) THEN w[i] ELSE x[i - Len(w)]
    BY <1>1, ConcatProperties
  <2>3. Len(w \o x) = Len(w) + Len(x)
    BY <1>1, ConcatProperties
  <2> QED BY <1>3, <2>1, <2>2, <2>3
<1>5. (w \o x)[1].from = teeAt[s]
  BY <1>2, <1>4 DEF Covers
<1>6. Head(w) = w[1] /\ Head(w) \in TeeFrames
  BY <1>1, HeadTailProperties
<1>7. Head(w).from = teeAt[s] /\ Head(w).from \in Nat /\ Head(w).to \in Nat
  BY <1>4, <1>5, <1>6 DEF TeeFrames
<1>8. teeAt' = [teeAt EXCEPT ![s] = IF Head(w).kind = "gap" THEN Head(w).to
                                    ELSE teeAt[s] + (Head(w).to - Head(w).from)]
  BY DEF TeeReceive, w
<1>9. teeAt[s] + (Head(w).to - Head(w).from) = Head(w).to
  BY <1>7
<1> QED BY <1>7, <1>8, <1>9 DEF w

\* A tee step leaves everything but the subscriptions alone.
LEMMA TeeStep ==
  ASSUME SessionInv, TeeIsExact, NEW s \in Subs, Tee(s)
  PROVE  SessionInv'
<1>1. TypeOK
  BY DEF SessionInv
<1>2. UNCHANGED <<readerVars, ring, attached, attachSeq, unacked, paused, closed,
                  connVars>>
  BY DEF Tee, Subscribe, TeeDrain, TeeReceive, SubscriberCloses, TeeDeregisters,
         stVars
<1>3. /\ subscribers' \subseteq Subs
      /\ tee' \in [Subs -> TeeBufs]
      /\ teeSt' \in [Subs -> {"new", "live", "closing", "gone"}]
      /\ wire' \in [Subs -> Seq(TeeFrames)]
      /\ teeAt' \in [Subs -> Nat]
  <2> USE <1>1 DEF TypeOK
  <2>1. EmptyTee \in TeeBufs /\ <<>> \in Seq(TeeFrames) /\ ring.seq \in Nat
    BY DEF EmptyTee, TeeBufs, Rings
  <2>2. CASE Subscribe(s)
    BY <2>1, <2>2 DEF Subscribe
  <2>3. CASE TeeDrain(s)
    BY <2>1, <2>3 DEF TeeDrain, TeeBufs, stVars
  <2>4. CASE TeeReceive(s)
    <3>1. /\ wire[s] \in Seq(TeeFrames) /\ wire[s] # <<>> /\ teeSt[s] = "live"
          /\ tee[s].frames \in Seq(TeeFrames)
          /\ wire' = [wire EXCEPT ![s] = Tail(@)]
          /\ UNCHANGED <<subscribers, tee, teeSt>>
      BY <2>4 DEF TeeReceive, TeeBufs, stVars
    <3>2. Tail(wire[s]) \in Seq(TeeFrames)
      BY <3>1, HeadTailProperties
    <3>3. wire' \in [Subs -> Seq(TeeFrames)]
      BY <3>1, <3>2
    <3>4. teeAt' = [teeAt EXCEPT ![s] = Head(wire[s]).to] /\ Head(wire[s]).to \in Nat
      BY <2>4, ReceiveMovesToEnd
    <3> QED BY <3>1, <3>3, <3>4
  <2>5. CASE SubscriberCloses(s)
    BY <2>5 DEF SubscriberCloses, stVars
  <2>6. CASE TeeDeregisters(s)
    BY <2>1, <2>6 DEF TeeDeregisters
  <2> QED BY <2>2, <2>3, <2>4, <2>5, <2>6 DEF Tee
<1>4. TypeOK'
  BY <1>1, <1>2, <1>3 DEF TypeOK, readerVars, connVars
<1> QED BY <1>2, <1>4
        DEF SessionInv, ReaderSync, PauseStopsReader, LinkSync, NoSilentShift,
            AttachedIsCurrent, EofIsComplete, PauseIsOwed, FlowBound,
            readerVars, connVars

LEMMA ReaderStep ==
  ASSUME SessionInv,
         \/ ReaderCheck \/ (\E n \in 1..MaxChunk : ReaderRead(n))
         \/ ReaderEof \/ ReaderClose \/ ReaderReap
  PROVE  SessionInv'
<1> USE SessionAssumption DEF SessionInv, TypeOK, ReaderSync, PauseStopsReader,
    LinkSync, NoSilentShift, AttachedIsCurrent, EofIsComplete, PauseIsOwed,
    FlowBound, readerVars, stVars, connVars, teeVars
<1>1. CASE ReaderCheck
  BY <1>1 DEF ReaderCheck
<1>2. ASSUME NEW n \in 1..MaxChunk, ReaderRead(n)
      PROVE  SessionInv'
  BY <1>2 DEF ReaderRead, Rings
<1>3. CASE ReaderEof
  BY <1>3 DEF ReaderEof
<1>4. CASE ReaderClose
  BY <1>4 DEF ReaderClose
<1>5. CASE ReaderReap
  BY <1>5 DEF ReaderReap
<1> QED BY <1>1, <1>2, <1>3, <1>4, <1>5

LEMMA ControlStep ==
  ASSUME SessionInv,
         Kill \/ Detach \/ ShellExits \/ \E c \in Conns : ClientCloses(c)
  PROVE  SessionInv'
<1> USE SessionAssumption DEF SessionInv, TypeOK, ReaderSync, PauseStopsReader,
    LinkSync, NoSilentShift, AttachedIsCurrent, EofIsComplete, PauseIsOwed,
    FlowBound, readerVars, stVars, connVars, teeVars
<1>1. CASE Kill
  BY <1>1 DEF Kill
<1>2. CASE Detach
  BY <1>2 DEF Detach, ResetFlow
<1>3. CASE ShellExits
  BY <1>3 DEF ShellExits
<1>4. ASSUME NEW c \in Conns, ClientCloses(c)
      PROVE  SessionInv'
  <2>1. TypeOK'
    BY <1>4 DEF ClientCloses
  <2>2. NoSilentShift' /\ AttachedIsCurrent' /\ EofIsComplete'
    BY <1>4 DEF ClientCloses, Consecutive
  <2> QED BY <1>4, <2>1, <2>2 DEF ClientCloses
<1> QED BY <1>1, <1>2, <1>3, <1>4

------------------------------------------------------------------------------
(* The tee subscriptions. *)

\* A subscription is in the reader's list from its ack until its writer left.
TeeSync ==
  \A s \in Subs :
    /\ s \in subscribers <=> teeSt[s] \in {"live", "closing"}
    /\ teeSt[s] = "new" => tee[s] = EmptyTee /\ wire[s] = <<>>

TeeInv == TeeSync /\ TeeIsExact /\ \A s \in Subs : TeeSmall(tee[s])

LEMMA TeePush ==
  ASSUME SessionInv, TeeInv, ReaderPush
  PROVE  TeeInv'
<1>1. TypeOK /\ ReaderSync
  BY DEF SessionInv
<1>2. ring'.seq = ring.seq + Len(Chunk) /\ Len(Chunk) \in Nat \ {0} /\ ring.seq \in Nat
  <2>1. /\ Len(Chunk) \in Nat /\ ring.seq + Len(Chunk) = emitted /\ ring.seq \in Nat
    BY <1>1, SessionAssumption, ChunkFacts DEF TypeOK, Rings
  <2>2. ring.seq < emitted
    BY <1>1 DEF ReaderSync, ReaderPush
  <2> QED BY <2>1, <2>2 DEF ReaderPush, Push
<1>3. UNCHANGED <<subscribers, teeSt, wire, teeAt>>
  BY DEF ReaderPush
<1>4. \A s \in Subs : tee'[s] = IF s \in subscribers
                                THEN PushData(tee[s], ring.seq, Len(Chunk)) ELSE tee[s]
  BY DEF ReaderPush
<1>5. TeeSync'
  BY <1>3, <1>4 DEF TeeInv, TeeSync
<1>6. TeeIsExact'
  <2>1. ASSUME NEW s \in Subs, teeSt[s] = "live"
        PROVE  Covers(wire[s] \o tee'[s].frames, teeAt[s], ring'.seq)
    <3>1. /\ wire[s] \in Seq(TeeFrames) /\ tee[s] \in TeeBufs /\ teeAt[s] \in Nat
          /\ Covers(wire[s] \o tee[s].frames, teeAt[s], ring.seq)
      BY <1>1, <2>1 DEF TypeOK, TeeInv, TeeIsExact
    <3>2. tee'[s] = PushData(tee[s], ring.seq, Len(Chunk))
      BY <1>4, <2>1 DEF TeeInv, TeeSync
    <3> QED BY <1>2, <3>1, <3>2, PushDataCovers
  <2> QED BY <1>3, <2>1 DEF TeeIsExact
<1>7. \A s \in Subs : TeeSmall(tee'[s])
  <2>1. ASSUME NEW s \in Subs
        PROVE  TeeSmall(PushData(tee[s], ring.seq, Len(Chunk)))
    <3>1. tee[s] \in TeeBufs /\ TeeSmall(tee[s])
      BY <1>1 DEF TypeOK, TeeInv
    <3> QED BY <1>2, <3>1, PushDataSmall
  <2> QED BY <1>4, <2>1 DEF TeeInv
<1> QED BY <1>5, <1>6, <1>7 DEF TeeInv

LEMMA TeeInvStep ==
  ASSUME SessionInv, TeeInv, NEW s \in Subs, Tee(s)
  PROVE  TeeInv'
<1>1. TypeOK /\ TeeSync /\ TeeIsExact
  BY DEF SessionInv, TeeInv
<1>2. UNCHANGED ring
  BY DEF Tee, Subscribe, TeeDrain, TeeReceive, SubscriberCloses, TeeDeregisters,
         stVars
<1>3. /\ tee \in [Subs -> TeeBufs] /\ wire \in [Subs -> Seq(TeeFrames)]
      /\ teeAt \in [Subs -> Nat] /\ ring.seq \in Nat
      /\ teeSt \in [Subs -> {"new", "live", "closing", "gone"}]
      /\ subscribers \subseteq Subs
  BY <1>1 DEF TypeOK, Rings
<1>4. TeeSmall(EmptyTee) /\ EmptyTee.frames = <<>>
  BY TeeCapAssumption DEF TeeSmall, EmptyTee, TrailingGap
<1>5. CASE Subscribe(s)
  <2>1. wire[s] \o tee[s].frames = <<>>
    <3>1. wire[s] = <<>> /\ tee[s] = EmptyTee
      BY <1>1, <1>5 DEF Subscribe, TeeSync
    <3> QED BY <1>4, <3>1
  <2>2. Covers(wire[s] \o tee[s].frames, ring.seq, ring.seq)
    BY <2>1 DEF Covers
  <2>3. TeeIsExact'
    BY <1>1, <1>2, <1>3, <1>5, <2>2 DEF Subscribe, TeeIsExact
  <2>4. TeeSync'
    BY <1>1, <1>3, <1>5 DEF Subscribe, TeeSync
  <2> QED BY <1>5, <2>3, <2>4 DEF Subscribe, TeeInv
<1>6. CASE TeeDrain(s)
  <2>1. /\ wire' = [wire EXCEPT ![s] = tee[s].frames]
        /\ tee' = [tee EXCEPT ![s] = EmptyTee]
        /\ wire[s] = <<>> /\ UNCHANGED <<teeSt, teeAt, subscribers>>
        /\ teeSt[s] = "live"
    BY <1>6 DEF TeeDrain, stVars
  <2>2. wire'[s] \o tee'[s].frames = wire[s] \o tee[s].frames
    <3>1. tee[s].frames \in Seq(TeeFrames)
      BY <1>3 DEF TeeBufs
    <3>2. wire'[s] = tee[s].frames /\ tee'[s].frames = <<>>
      BY <1>3, <1>4, <2>1
    <3> QED BY <2>1, <3>1, <3>2, ConcatEmptySeq
  <2>3. TeeIsExact'
    BY <1>1, <1>2, <1>3, <2>1, <2>2 DEF TeeIsExact
  <2>4. TeeSync'
    BY <1>1, <1>3, <2>1 DEF TeeSync
  <2>5. \A u \in Subs : TeeSmall(tee'[u])
    BY <1>3, <1>4, <2>1 DEF TeeInv
  <2> QED BY <2>3, <2>4, <2>5 DEF TeeInv
<1>7. CASE TeeReceive(s)
  <2>1. /\ wire' = [wire EXCEPT ![s] = Tail(@)]
        /\ wire[s] # <<>> /\ UNCHANGED <<tee, teeSt, subscribers>>
        /\ teeSt[s] = "live"
    BY <1>7 DEF TeeReceive, stVars
  <2>2. teeAt' = [teeAt EXCEPT ![s] = Head(wire[s]).to]
    BY <1>1, <1>7, ReceiveMovesToEnd
  <2>3. Covers(Tail(wire[s]) \o tee[s].frames, Head(wire[s]).to, ring.seq)
    <3>1. wire[s] \in Seq(TeeFrames) /\ tee[s].frames \in Seq(TeeFrames) /\ teeAt[s] \in Nat
      BY <1>3 DEF TeeBufs
    <3>2. Covers(wire[s] \o tee[s].frames, teeAt[s], ring.seq)
      BY <1>1, <2>1 DEF TeeIsExact
    <3> QED BY <1>3, <2>1, <3>1, <3>2, CoversTail
  <2>4. TeeIsExact'
    BY <1>1, <1>2, <1>3, <2>1, <2>2, <2>3 DEF TeeIsExact
  <2>5. TeeSync'
    BY <1>1, <1>3, <2>1 DEF TeeSync
  <2> QED BY <2>1, <2>4, <2>5 DEF TeeInv
<1>8. CASE SubscriberCloses(s)
  BY <1>1, <1>2, <1>3, <1>8 DEF SubscriberCloses, stVars, TeeInv, TeeSync, TeeIsExact
<1>9. CASE TeeDeregisters(s)
  BY <1>1, <1>2, <1>3, <1>4, <1>9 DEF TeeDeregisters, TeeInv, TeeSync, TeeIsExact
<1> QED BY <1>5, <1>6, <1>7, <1>8, <1>9 DEF Tee

------------------------------------------------------------------------------
LEMMA InitInv == Init => SessionInv /\ TeeInv
<1> SUFFICES ASSUME Init
             PROVE  SessionInv /\ TeeInv
  OBVIOUS
<1>1. PICK s0 \in StartSeqs : ring = Resumed(s0) /\ emitted = s0
  BY DEF Init
<1>2. ring \in Rings(Nat) /\ ring.seq = s0 /\ ring.buf = <<>> /\ s0 \in Nat
  BY <1>1, SessionAssumption DEF Resumed, Rings
<1>3. TypeOK
  <2>1. EmptyTee \in TeeBufs /\ tee \in [Subs -> TeeBufs]
    BY DEF Init, EmptyTee, TeeBufs
  <2>2. /\ pipe \in [Conns -> Seq(Nat)] /\ wire \in [Subs -> Seq(TeeFrames)]
        /\ link \in [Conns -> {"new", "open", "cut", "eof"}]
        /\ teeSt \in [Subs -> {"new", "live", "closing", "gone"}]
    BY DEF Init
  <2>3. /\ handler \in [Conns -> BOOLEAN] /\ mySeq \in [Conns -> Nat]
        /\ shown \in [Conns -> Nat] /\ cursor \in [Conns -> Nat]
        /\ lag \in [Conns -> Nat] /\ teeAt \in [Subs -> Nat]
    BY DEF Init
  <2>4. /\ shell = "alive" /\ pc = "check" /\ emitted \in Nat /\ attached = None
        /\ attachSeq = 0 /\ unacked = 0 /\ paused = FALSE /\ closed = FALSE
        /\ subscribers = {}
    BY <1>1, <1>2 DEF Init
  <2> QED BY <1>2, <2>1, <2>2, <2>3, <2>4 DEF TypeOK
<1>4. ReaderSync
  BY <1>1, <1>2, SessionAssumption DEF Init, ReaderSync, RingIsTail, Consecutive
<1>5. NoSilentShift
  BY DEF Init, NoSilentShift, Consecutive
<1>6. /\ PauseStopsReader /\ LinkSync /\ AttachedIsCurrent /\ EofIsComplete
      /\ PauseIsOwed /\ FlowBound
  BY SessionAssumption
  DEF Init, PauseStopsReader, LinkSync, AttachedIsCurrent, EofIsComplete,
      PauseIsOwed, FlowBound
<1>7. TeeInv
  BY TeeCapAssumption
  DEF Init, TeeInv, TeeSync, TeeIsExact, TeeSmall, EmptyTee, TrailingGap
<1> QED BY <1>3, <1>4, <1>5, <1>6, <1>7 DEF SessionInv

LEMMA NextInv == SessionInv /\ TeeInv /\ [Next]_vars => (SessionInv /\ TeeInv)'
<1> SUFFICES ASSUME SessionInv, TeeInv, [Next]_vars
             PROVE  SessionInv' /\ TeeInv'
  OBVIOUS
<1>1. ASSUME UNCHANGED <<ring, subscribers, teeVars>>
      PROVE  TeeInv'
  BY <1>1 DEF TeeInv, TeeSync, TeeIsExact, teeVars
<1>2. CASE ReaderPush
  BY <1>2, PushStep, TeePush
<1>3. CASE Reader /\ ~ReaderPush
  BY <1>1, <1>3, ReaderStep
  DEF Reader, ReaderCheck, ReaderRead, ReaderEof, ReaderClose, ReaderReap, stVars
<1>4. ASSUME NEW c \in Conns, RendererAck(c)
      PROVE  SessionInv' /\ TeeInv'
  BY <1>1, <1>4, AckStep DEF RendererAck, Ack
<1>5. CASE Kill \/ Detach \/ ShellExits
  BY <1>1, <1>5, ControlStep DEF Kill, Detach, ShellExits, stVars
<1>6. ASSUME NEW c \in Conns, Stream(c)
      PROVE  SessionInv' /\ TeeInv'
  <2>1. TypeOK /\ RingIsTail(ring)
    BY DEF SessionInv, ReaderSync
  <2>2. CASE AttachLive(c)
    <3>1. /\ ring.seq \in Nat /\ <<>> \in Seq(Nat) /\ Consecutive(<<>>, ring.seq)
          /\ ring.seq + Len(<<>>) = ring.seq
      BY <2>1 DEF TypeOK, Rings, Consecutive
    <3>2. SessionInv'
      BY <2>2, <3>1, AttachStep DEF AttachLive
    <3> QED BY <1>1, <2>2, <3>2 DEF AttachLive, Attached
  <2>3. ASSUME NEW from \in 0..(ring.seq + MaxChunk), AttachFrom(c, from)
        PROVE  SessionInv' /\ TeeInv'
    <3>1. ring \in Rings(Nat) /\ from \in Nat
      BY <2>1, <2>3, SessionAssumption DEF TypeOK, Rings
    <3>2. /\ ReplayStart(ring, from) \in Nat
          /\ SinceTail(ring, from) \in Seq(Nat)
          /\ Consecutive(SinceTail(ring, from), ReplayStart(ring, from))
          /\ ReplayStart(ring, from) + Len(SinceTail(ring, from)) = ring.seq
      BY <2>1, <3>1, SinceIsExact
    <3>3. SessionInv'
      BY <2>3, <3>2, AttachStep DEF AttachFrom
    <3> QED BY <1>1, <2>3, <3>3 DEF AttachFrom, Attached
  <2>4. ASSUME NEW n \in 1..Len(pipe[c]), ClientReads(c, n)
        PROVE  SessionInv' /\ TeeInv'
    BY <1>1, <2>4, ClientReadsStep DEF ClientReads, stVars
  <2>5. CASE ClientCloses(c)
    BY <1>1, <2>5, ControlStep DEF ClientCloses, stVars
  <2>6. CASE HandlerEnds(c)
    BY <1>1, <2>6, HandlerEndsStep DEF HandlerEnds
  <2> QED BY <1>6, <2>2, <2>3, <2>4, <2>5, <2>6 DEF Stream
<1>7. ASSUME NEW s \in Subs, Tee(s)
      PROVE  SessionInv' /\ TeeInv'
  BY <1>7, TeeStep, TeeInvStep DEF TeeInv
<1>8. CASE UNCHANGED vars
  BY <1>8
  DEF vars, readerVars, stVars, connVars, teeVars, SessionInv, TypeOK,
      ReaderSync, PauseStopsReader, LinkSync, NoSilentShift, AttachedIsCurrent,
      EofIsComplete, PauseIsOwed, FlowBound, TeeInv, TeeSync, TeeIsExact
<1> QED BY <1>2, <1>3, <1>4, <1>5, <1>6, <1>7, <1>8 DEF Next, Control

\* Every reachable state satisfies the inductive invariant.
THEOREM SessionInvariant == Spec => [](SessionInv /\ TeeInv)
<1> QED BY InitInv, NextInv, PTL DEF Spec

\* The session's variables keep their types (SessState, TeeBuf, the threads).
THEOREM TypeCorrect == Spec => []TypeOK
<1>1. SessionInv => TypeOK
  BY DEF SessionInv
<1> QED BY <1>1, SessionInvariant, PTL

\* No attach stream skips, repeats or reorders a byte without a gap notice.
THEOREM StreamsAreGapless == Spec => []NoSilentShift
<1>1. SessionInv => NoSilentShift
  BY DEF SessionInv
<1> QED BY <1>1, SessionInvariant, PTL

\* Replay and live output meet exactly: the attached client is up to date.
THEOREM ReplayMeetsLive == Spec => []AttachedIsCurrent
<1>1. SessionInv => AttachedIsCurrent
  BY DEF SessionInv
<1> QED BY <1>1, SessionInvariant, PTL

\* The stream a session's end closes has carried the shell's last byte.
THEOREM EndOfFileIsComplete == Spec => []EofIsComplete
<1>1. SessionInv => EofIsComplete
  BY DEF SessionInv
<1> QED BY <1>1, SessionInvariant, PTL

\* A pause is always backed by bytes its client still has to acknowledge.
THEOREM PauseHasOwner == Spec => []PauseIsOwed
<1>1. SessionInv => PauseIsOwed
  BY DEF SessionInv
<1> QED BY <1>1, SessionInvariant, PTL

\* Back pressure bounds what a living shell's client leaves unacknowledged.
THEOREM BackPressure == Spec => []FlowBound
<1>1. SessionInv => FlowBound
  BY DEF SessionInv
<1> QED BY <1>1, SessionInvariant, PTL

\* What a subscriber has coming covers the session's output, loss included.
THEOREM TeeLossIsLoud == Spec => []TeeIsExact
<1>1. TeeInv => TeeIsExact
  BY DEF TeeInv
<1> QED BY <1>1, SessionInvariant, PTL

\* A starved subscriber costs bounded memory.
THEOREM TeeStaysSmall == Spec => []TeeIsBounded
<1>1. SessionInv /\ TeeInv => TeeIsBounded
  <2> SUFFICES ASSUME SessionInv, TeeInv, NEW s \in Subs
               PROVE  tee[s].bytes <= TeeCap /\ Len(tee[s].frames) <= 2 * TeeCap + 1
    BY DEF TeeIsBounded
  <2>1. tee[s] \in TeeBufs /\ TeeSmall(tee[s])
    BY DEF SessionInv, TypeOK, TeeInv
  <2>2. tee[s].bytes \in Nat /\ Len(tee[s].frames) \in Nat /\ TeeCap \in Nat
    BY <2>1, LenProperties, TeeCapAssumption DEF TeeBufs
  <2> QED BY <2>1, <2>2 DEF TeeSmall
<1> QED BY <1>1, SessionInvariant, PTL

\* What a client of the stream sees is exact: no silent shift, no hole between
\* replay and live output, no end of file before the last byte.
THEOREM TheStreamIsTrue == Spec => []StreamIsTrue
  BY StreamsAreGapless, ReplayMeetsLive, EndOfFileIsComplete, PTL DEF StreamIsTrue

\* Flow control pauses a reader only at the expense of a client that owes it
\* acknowledgements, and bounds what a living shell writes ahead.
THEOREM TheFlowIsSound == Spec => []FlowIsSound
  BY PauseHasOwner, BackPressure, PTL DEF FlowIsSound

\* A tee subscriber is told of every coordinate once, in bounded memory.
THEOREM TheTeeIsSound == Spec => []TeeIsSound
  BY TeeLossIsLoud, TeeStaysSmall, PTL DEF TeeIsSound
==============================================================================
