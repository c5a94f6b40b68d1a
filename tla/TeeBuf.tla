-------------------------------- MODULE TeeBuf --------------------------------
(***************************************************************************)
(* The buffer between the output reader of a session and one tee           *)
(* subscriber (crates/soksak-ptyd/src/tee.rs).  A frame covers the         *)
(* coordinates from .. to-1: a data frame carries those bytes, a gap frame *)
(* says they were dropped.  The bytes themselves are not needed: every     *)
(* property is about which coordinates a subscriber is told of.            *)
(***************************************************************************)
EXTENDS Naturals, Sequences

CONSTANT TeeCap   \* data bytes one buffer holds

ASSUME TeeCapAssumption == TeeCap \in Nat \ {0}

TeeFrames == [kind : {"data", "gap"}, from : Nat, to : Nat]
TeeBufs   == [frames : Seq(TeeFrames), bytes : Nat]

EmptyTee == [frames |-> <<>>, bytes |-> 0]

DataFrame(seq0, n) == [kind |-> "data", from |-> seq0, to |-> seq0 + n]
GapFrame(seq0, n)  == [kind |-> "gap",  from |-> seq0, to |-> seq0 + n]

TrailingGap(b) ==
  /\ b.frames # <<>>
  /\ b.frames[Len(b.frames)].kind = "gap"

\* Mutant: a drop behind a trailing gap is not recorded.
PushDataForgets(b, seq0, n) ==
  IF b.bytes + n <= TeeCap
  THEN [frames |-> Append(b.frames, DataFrame(seq0, n)), bytes |-> b.bytes + n]
  ELSE IF TrailingGap(b) THEN b
  ELSE [b EXCEPT !.frames = Append(@, GapFrame(seq0, n))]

\* Queue a copy of n bytes at seq0; past the cap drop them and record the
\* loss, growing a gap that is already the last frame.
PushData(b, seq0, n) ==
  IF b.bytes + n <= TeeCap
  THEN [frames |-> Append(b.frames, DataFrame(seq0, n)), bytes |-> b.bytes + n]
  ELSE IF TrailingGap(b)
  THEN [b EXCEPT !.frames = [@ EXCEPT ![Len(b.frames)].to = seq0 + n]]
  ELSE [b EXCEPT !.frames = Append(@, GapFrame(seq0, n))]

\* Frames cover the coordinates a .. b-1 in order, without hole or overlap.
Covers(frames, a, b) ==
  /\ \A i \in 1..Len(frames) :
       /\ frames[i].from < frames[i].to
       /\ frames[i].from = IF i = 1 THEN a ELSE frames[i - 1].to
  /\ IF frames = <<>> THEN a = b ELSE frames[Len(frames)].to = b
==============================================================================
