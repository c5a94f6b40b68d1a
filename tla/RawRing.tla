------------------------------- MODULE RawRing -------------------------------
(***************************************************************************)
(* The bounded raw output ring of a terminal session                       *)
(* (crates/soksak-ptyd/src/ring.rs).  A ring is a record: buf, the         *)
(* retained bytes, oldest first, and seq, the number of bytes ever pushed, *)
(* which is also the coordinate one past the last byte.  A byte is         *)
(* abstracted to whatever its user tells bytes apart by.                   *)
(***************************************************************************)
EXTENDS Naturals, Sequences

CONSTANT RingCap   \* bytes a ring retains

ASSUME RingCapAssumption == RingCap \in Nat \ {0}

NoGap == <<>>      \* "no evicted range": the None of since()

Rings(Byte) == [buf : Seq(Byte), seq : Nat]

\* A fresh ring, and one that continues a predecessor's coordinate.
Resumed(s) == [buf |-> <<>>, seq |-> s]
NewRing    == Resumed(0)

StartSeq(r) == r.seq - Len(r.buf)

\* The last n elements of s.
Suffix(s, n) == SubSeq(s, Len(s) - n + 1, Len(s))

\* Append, advance the sequence, evict the oldest bytes past the cap.
Push(r, bytes) ==
  LET all == r.buf \o bytes
  IN  [buf |-> IF Len(all) > RingCap THEN Suffix(all, RingCap) ELSE all,
       seq |-> r.seq + Len(bytes)]

\* Mutant: a caller one byte behind is taken for current.
EffectiveFromOffByOne(r, from) ==
  IF from < StartSeq(r) THEN StartSeq(r)
  ELSE IF from + 1 >= r.seq THEN r.seq
  ELSE from

\* The coordinate a replay from `from` really starts at.
EffectiveFrom(r, from) ==
  IF from < StartSeq(r) THEN StartSeq(r)
  ELSE IF from >= r.seq THEN r.seq
  ELSE from

\* since(from): the evicted range the caller must be told of, and the tail.
SinceGap(r, from) ==
  IF from < StartSeq(r) THEN <<from, StartSeq(r)>> ELSE NoGap

\* Where a caller stands before the tail: past the gap notice, if there is one;
\* else where it asked from, or at the reply's seq when it asked from beyond it.
ReplayStart(r, from) ==
  IF SinceGap(r, from) # NoGap THEN SinceGap(r, from)[2]
  ELSE IF from > r.seq THEN r.seq
  ELSE from

SinceTail(r, from) ==
  SubSeq(r.buf, EffectiveFrom(r, from) - StartSeq(r) + 1, Len(r.buf))

\* For users whose bytes are their own coordinates: s holds, without a hole,
\* the bytes from coordinate `at` on.
Consecutive(s, at) == \A i \in 1..Len(s) : s[i] = at + i - 1
==============================================================================
