---------------------------- MODULE TerminalStream ----------------------------
(***************************************************************************)
(* What a terminal's user is promised, whatever daemon generation serves    *)
(* the shell: from the moment the terminal joined, it shows the shell's      *)
(* output byte by byte, in order, and passes over bytes only by telling so   *)
(* (docs/RESTORE.md; the gap notices of crates/soksak-ptyd).                 *)
(***************************************************************************)
EXTENDS Naturals

VARIABLES
  out,      \* bytes of output so far
  joined,   \* has the terminal started to show output?
  at,       \* next byte it will show
  told      \* bytes it was told it lost

vars == <<out, joined, at, told>>

Init == out = 0 /\ joined = FALSE /\ at = 0 /\ told = 0

Emit == out' > out /\ UNCHANGED <<joined, at, told>>

Join == /\ ~joined
        /\ joined' = TRUE
        /\ at' \in 0..out
        /\ UNCHANGED <<out, told>>

Show == joined /\ at < out /\ at' = at + 1 /\ UNCHANGED <<out, joined, told>>

Notice == /\ joined
          /\ \E n \in 1..(out - at) : at' = at + n /\ told' = told + n
          /\ UNCHANGED <<out, joined>>

Next == Emit \/ Join \/ Show \/ Notice

Spec == Init /\ [][Next]_vars
==============================================================================
