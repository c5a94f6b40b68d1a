---------------------------- MODULE RawRing_proofs ----------------------------
(***************************************************************************)
(* What the operators of RawRing return, for rings whose bytes are their   *)
(* own coordinates: the lemmas the session's proofs rest on.               *)
(***************************************************************************)
EXTENDS RawRing, Integers, SequenceTheorems, TLAPS

\* The ring holds the newest bytes: what it retains ends at its coordinate.
RingIsTail(r) == Consecutive(r.buf, StartSeq(r))

LEMMA ConsecutiveConcat ==
  ASSUME NEW s \in Seq(Nat), NEW t \in Seq(Nat), NEW at \in Int,
         Consecutive(s, at), Consecutive(t, at + Len(s))
  PROVE  /\ s \o t \in Seq(Nat)
         /\ Len(s \o t) = Len(s) + Len(t)
         /\ Consecutive(s \o t, at)
<1>1. /\ s \o t \in Seq(Nat)
      /\ Len(s \o t) = Len(s) + Len(t)
      /\ \A i \in 1 .. Len(s) + Len(t) :
           (s \o t)[i] = IF i <= Len(s) THEN s[i] ELSE t[i - Len(s)]
  BY ConcatProperties
<1>2. Len(s) \in Nat /\ Len(t) \in Nat
  BY LenProperties
<1>3. ASSUME NEW i \in 1 .. Len(s) + Len(t)
      PROVE  (s \o t)[i] = at + i - 1
  <2>1. CASE i <= Len(s)
    BY <1>1, <1>2, <2>1 DEF Consecutive
  <2>2. CASE i > Len(s)
    <3>1. i - Len(s) \in 1 .. Len(t)
      BY <1>2, <2>2
    <3>2. t[i - Len(s)] = at + Len(s) + (i - Len(s)) - 1
      BY <3>1 DEF Consecutive
    <3> QED BY <1>1, <1>2, <2>2, <3>2
  <2> QED BY <1>2, <2>1, <2>2
<1> QED BY <1>1, <1>3 DEF Consecutive

LEMMA ConsecutiveSuffix ==
  ASSUME NEW s \in Seq(Nat), NEW at \in Int, Consecutive(s, at),
         NEW m \in 1 .. Len(s) + 1
  PROVE  /\ SubSeq(s, m, Len(s)) \in Seq(Nat)
         /\ Len(SubSeq(s, m, Len(s))) = Len(s) - m + 1
         /\ Consecutive(SubSeq(s, m, Len(s)), at + m - 1)
<1>1. Len(s) \in Nat /\ m \in Int
  BY LenProperties
<1>2. \A i \in m .. Len(s) : s[i] \in Nat
  BY <1>1, ElementOfSeq
<1>3. /\ SubSeq(s, m, Len(s)) \in Seq(Nat)
      /\ Len(SubSeq(s, m, Len(s))) = IF m <= Len(s) THEN Len(s) - m + 1 ELSE 0
      /\ \A i \in 1 .. Len(s) - m + 1 : SubSeq(s, m, Len(s))[i] = s[m + i - 1]
  BY <1>1, <1>2, SubSeqProperties
<1>4. Len(SubSeq(s, m, Len(s))) = Len(s) - m + 1
  BY <1>1, <1>3
<1>5. ASSUME NEW i \in 1 .. Len(s) - m + 1
      PROVE  SubSeq(s, m, Len(s))[i] = at + m - 1 + i - 1
  <2>1. m + i - 1 \in 1 .. Len(s)
    BY <1>1
  <2>2. s[m + i - 1] = at + (m + i - 1) - 1
    BY <2>1 DEF Consecutive
  <2> QED BY <1>1, <1>3, <2>2
<1> QED BY <1>3, <1>4, <1>5 DEF Consecutive

\* Push keeps the newest bytes and no more than the cap of them.
LEMMA PushKeepsTail ==
  ASSUME NEW r \in Rings(Nat), RingIsTail(r),
         NEW bytes \in Seq(Nat), Consecutive(bytes, r.seq)
  PROVE  /\ Push(r, bytes) \in Rings(Nat)
         /\ RingIsTail(Push(r, bytes))
         /\ Push(r, bytes).seq = r.seq + Len(bytes)
         /\ Len(Push(r, bytes).buf) <= RingCap
<1> DEFINE all == r.buf \o bytes
<1>1. /\ r.buf \in Seq(Nat) /\ r.seq \in Nat
      /\ Len(r.buf) \in Nat /\ Len(bytes) \in Nat
  BY LenProperties DEF Rings
<1>2. StartSeq(r) \in Int /\ r.seq = StartSeq(r) + Len(r.buf)
  BY <1>1 DEF StartSeq
<1>3. /\ all \in Seq(Nat)
      /\ Len(all) = Len(r.buf) + Len(bytes)
      /\ Consecutive(all, StartSeq(r))
  <2>1. Consecutive(r.buf, StartSeq(r)) /\ Consecutive(bytes, StartSeq(r) + Len(r.buf))
    BY <1>2 DEF RingIsTail
  <2> HIDE DEF all
  <2> QED BY <1>1, <1>2, <2>1, ConsecutiveConcat DEF all
<1> HIDE DEF all
<1>4. Push(r, bytes) = [buf |-> IF Len(all) > RingCap THEN Suffix(all, RingCap) ELSE all,
                        seq |-> r.seq + Len(bytes)]
  BY DEF Push, all
<1>5. CASE Len(all) > RingCap
  <2>1. Len(all) - RingCap + 1 \in 1 .. Len(all) + 1
    BY <1>1, <1>3, <1>5, RingCapAssumption
  <2>2. /\ Suffix(all, RingCap) \in Seq(Nat)
        /\ Len(Suffix(all, RingCap)) = RingCap
        /\ Consecutive(Suffix(all, RingCap), StartSeq(r) + Len(all) - RingCap)
    <3> DEFINE k == Len(all) - RingCap + 1
    <3>1. Suffix(all, RingCap) = SubSeq(all, k, Len(all))
      BY DEF Suffix
    <3>2. /\ Len(all) - k + 1 = RingCap
          /\ StartSeq(r) + k - 1 = StartSeq(r) + Len(all) - RingCap
      BY <1>1, <1>2, <1>3, RingCapAssumption
    <3> HIDE DEF k
    <3> QED BY <1>2, <1>3, <2>1, <3>1, <3>2, ConsecutiveSuffix DEF k
  <2>3. StartSeq(r) + Len(all) - RingCap = r.seq + Len(bytes) - RingCap
    BY <1>1, <1>2, <1>3, RingCapAssumption
  <2> QED BY <1>1, <1>4, <1>5, <2>2, <2>3, RingCapAssumption DEF Rings, RingIsTail, StartSeq
<1>6. CASE ~(Len(all) > RingCap)
  <2>1. r.seq + Len(bytes) - Len(all) = StartSeq(r)
    BY <1>1, <1>2, <1>3
  <2>2. Push(r, bytes) = [buf |-> all, seq |-> r.seq + Len(bytes)]
    BY <1>4, <1>6
  <2>3. Push(r, bytes).buf = all /\ Push(r, bytes).seq = r.seq + Len(bytes)
    BY <2>2
  <2>4. StartSeq(Push(r, bytes)) = StartSeq(r)
    <3>1. StartSeq(Push(r, bytes)) = Push(r, bytes).seq - Len(Push(r, bytes).buf)
      BY DEF StartSeq
    <3>2. StartSeq(Push(r, bytes)) = (r.seq + Len(bytes)) - Len(all)
      BY <2>3, <3>1
    <3> QED BY <1>1, <1>3, <2>1, <3>2
  <2>5. Len(all) <= RingCap
    BY <1>1, <1>3, <1>6, RingCapAssumption
  <2>6. Push(r, bytes) \in Rings(Nat)
    BY <1>1, <1>3, <2>2 DEF Rings
  <2>7. RingIsTail(Push(r, bytes))
    BY <1>3, <2>3, <2>4 DEF RingIsTail
  <2> QED BY <2>3, <2>5, <2>6, <2>7
<1> QED BY <1>5, <1>6

\* Whatever coordinate is asked for, a replay starts where its gap notice ends, or
\* where it was asked to, or - asked beyond the end - at the end, and reaches the
\* ring's end.
LEMMA SinceIsExact ==
  ASSUME NEW r \in Rings(Nat), RingIsTail(r), NEW from \in Nat
  PROVE  /\ ReplayStart(r, from) \in Nat
         /\ SinceTail(r, from) \in Seq(Nat)
         /\ Consecutive(SinceTail(r, from), ReplayStart(r, from))
         /\ ReplayStart(r, from) + Len(SinceTail(r, from)) = r.seq
<1> DEFINE m == EffectiveFrom(r, from) - StartSeq(r) + 1
<1>1. /\ r.buf \in Seq(Nat) /\ r.seq \in Nat
      /\ Len(r.buf) \in Nat /\ from \in Nat
  BY LenProperties DEF Rings
<1>2. StartSeq(r) \in Int /\ r.seq = StartSeq(r) + Len(r.buf)
  BY <1>1 DEF StartSeq
<1>3. ReplayStart(r, from) = EffectiveFrom(r, from)
  <2>1. CASE from < StartSeq(r)
    <3>1. SinceGap(r, from) = <<from, StartSeq(r)>>
      BY <2>1 DEF SinceGap
    <3>2. SinceGap(r, from) # NoGap
      BY <3>1 DEF NoGap
    <3> QED BY <2>1, <3>1, <3>2 DEF ReplayStart, EffectiveFrom
  <2>2. CASE ~(from < StartSeq(r))
    <3>1. SinceGap(r, from) = NoGap
      BY <2>2 DEF SinceGap
    <3> QED BY <1>1, <2>2, <3>1 DEF ReplayStart, EffectiveFrom
  <2> QED BY <2>1, <2>2
<1>4. EffectiveFrom(r, from) \in Nat /\ m \in 1 .. Len(r.buf) + 1
  BY <1>1, <1>2 DEF EffectiveFrom
<1>5. Consecutive(r.buf, StartSeq(r))
  BY DEF RingIsTail
<1>6. /\ SinceTail(r, from) \in Seq(Nat)
      /\ Len(SinceTail(r, from)) = Len(r.buf) - m + 1
      /\ Consecutive(SinceTail(r, from), StartSeq(r) + m - 1)
  <2> HIDE DEF m
  <2>1. SinceTail(r, from) = SubSeq(r.buf, m, Len(r.buf))
    BY DEF SinceTail, m
  <2> QED BY <1>1, <1>2, <1>4, <1>5, <2>1, ConsecutiveSuffix
<1>7. StartSeq(r) + m - 1 = EffectiveFrom(r, from)
  BY <1>2, <1>4
<1>8. EffectiveFrom(r, from) + Len(SinceTail(r, from)) = r.seq
  <2>1. m \in Int
    BY <1>4
  <2> HIDE DEF m
  <2> QED BY <1>1, <1>2, <1>6, <1>7, <2>1
<1> QED BY <1>3, <1>4, <1>6, <1>7, <1>8
==============================================================================
