----------------------------- MODULE MCPtySession -----------------------------
(* Instances of PtySession for TLC. *)
EXTENDS PtySession, TLC

CONSTANTS c1, c2, s1

MCConns1  == {c1}
MCConns2  == {c1, c2}
MCSubs    == {s1}
NoSubs    == {}
NoConns   == {}
FreshOnly == {0}
Adopted   == {0, 2}

\* Connections are interchangeable in the safety runs.
ConnSymmetry == Permutations({c1, c2})
==============================================================================
