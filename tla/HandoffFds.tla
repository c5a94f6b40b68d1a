------------------------------ MODULE HandoffFds ------------------------------
(***************************************************************************)
(* The file descriptors of an upgrade (crates/soksak-ptyd/src/main.rs,      *)
(* plan_handoff_fds and the pre_exec closure of do_handoff): where the       *)
(* masters and the ack channel are copied to in the new process, one dup2      *)
(* after another, each of which closes its target first.                        *)
(*                                                                              *)
(* A file is named by the number it has in the old daemon.                        *)
(***************************************************************************)
EXTENDS Naturals, Sequences

CONSTANTS
  Fds,          \* descriptor numbers that may be open
  MaxPlanned   \* bound: sessions handed over

ASSUME FdsAssumption == Fds \subseteq Nat /\ MaxPlanned \in Nat

Shut == "shut"

VARIABLES
  sources,   \* the masters, in the order the registry's map lists them
  ipc,       \* the new daemon's end of the ack channel
  base,      \* the plan's running maximum, then its first target
  done,      \* sessions the loop at hand has done
  pc,        \* "scan" | "copy" | "exec"
  table      \* the new process's descriptors: number -> file

planVars == <<sources, ipc, base, done, pc, table>>

PlanInit ==
  /\ \E n \in 0..MaxPlanned : sources \in [1..n -> Fds]
  /\ \A i, j \in 1..Len(sources) : sources[i] = sources[j] => i = j
  /\ ipc \in Fds /\ \A i \in 1..Len(sources) : sources[i] # ipc
  /\ base = IF ipc > 3 THEN ipc ELSE 3
  /\ done = 0
  /\ pc = "scan"
  /\ table = [f \in Fds |-> f]

\* What a descriptor refers to.
File(f) == IF f \in DOMAIN table THEN table[f] ELSE Shut

\* base = base.max(source)
ScanOne ==
  /\ pc = "scan" /\ done < Len(sources)
  /\ done' = done + 1
  /\ base' = IF sources[done + 1] > base THEN sources[done + 1] ELSE base
  /\ UNCHANGED <<sources, ipc, pc, table>>

\* Mutant: the first target is the maximum itself.
ScanDoneAtMax ==
  /\ pc = "scan" /\ done = Len(sources)
  /\ base' = base
  /\ done' = 0 /\ pc' = "copy"
  /\ UNCHANGED <<sources, ipc, table>>

\* base += 1: targets are base, base + 1, ...
ScanDone ==
  /\ pc = "scan" /\ done = Len(sources)
  /\ base' = base + 1
  /\ done' = 0 /\ pc' = "copy"
  /\ UNCHANGED <<sources, ipc, table>>

Target(i) == base + i - 1

\* The table after dup2(from, to).
Dup2(from, to) == [f \in DOMAIN table \cup {to} |-> IF f = to THEN File(from) ELSE File(f)]

CopyOne ==
  /\ pc = "copy" /\ done < Len(sources)
  /\ done' = done + 1
  /\ table' = Dup2(sources[done + 1], Target(done + 1))
  /\ UNCHANGED <<sources, ipc, base, pc>>

\* The ack channel comes last; then exec.
CopyIpc ==
  /\ pc = "copy" /\ done = Len(sources)
  /\ table' = Dup2(ipc, 3)
  /\ pc' = "exec"
  /\ UNCHANGED <<sources, ipc, base, done>>

PlanNext == ScanOne \/ ScanDone \/ CopyOne \/ CopyIpc

PlanSpec == PlanInit /\ [][PlanNext]_planVars

------------------------------------------------------------------------------
(* Properties. *)

\* Type invariant.
PlanTypeOK ==
  /\ sources \in Seq(Fds)
  /\ ipc \in Fds
  /\ base \in Nat
  /\ done \in 0..Len(sources)
  /\ pc \in {"scan", "copy", "exec"}
  /\ DOMAIN table \subseteq Nat
  /\ \A f \in DOMAIN table : table[f] \in Fds

\* No copy destroys a value that is still needed: a master not yet copied, and
\* the ack channel, keep their descriptors (RESTORE.md, H-FD).
NothingNeededIsDestroyed ==
  pc # "exec" =>
    /\ File(ipc) = ipc
    /\ \A i \in 1..Len(sources) :
         pc = "copy" /\ i > done => File(sources[i]) = sources[i]

\* The new daemon finds every session's master where the snapshot says, and the
\* ack channel on descriptor 3.
SuccessorInherits ==
  pc = "exec" =>
    /\ File(3) = ipc
    /\ \A i \in 1..Len(sources) : File(Target(i)) = sources[i]
==============================================================================
