---------------------------- MODULE MCWindowStore ----------------------------
(* Two windows, two roots, one failure of the registry at a time. *)
EXTENDS WindowStore, TLC

\* Windows are interchangeable, and so are roots.
WindowSymmetry == Permutations(Labels) \cup Permutations(Roots)
=============================================================================
