------------------------------ MODULE PtyHandoff ------------------------------
(***************************************************************************)
(* The live upgrade of the PTY daemon (crates/soksak-ptyd/src/main.rs,      *)
(* do_handoff and run_handoff_adopt) and the client's reattachment          *)
(* (crates/soksak-core/src/ptyd.rs, reattach_live_session).                 *)
(*                                                                         *)
(* The old daemon snapshots its sessions, spawns the new one with a dup of   *)
(* every PTY master, waits for its ack and exits.  From the adoption to that  *)
(* exit two reader threads, one per process, read the same master: a byte     *)
(* goes to whichever reads first.  A byte is its position in the shell's       *)
(* output; what a ring holds at a coordinate is such a byte.                   *)
(*                                                                           *)
(* Between the old daemon's exit and the new one's bind nobody answers, and a    *)
(* client that asks then starts a third daemon (ensure_daemon), which knows no     *)
(* session.  The new daemon may also die at any point before it serves.            *)
(*                                                                           *)
(* Flow control, replacement of attachments and tee subscribers are in          *)
(* PtySession; how the sockets change hands call by call is in PtyBoot.         *)
(***************************************************************************)
EXTENDS Integers, Sequences, RawRing

CONSTANTS
  Sessions,      \* session ids
  MaxChunk,      \* most bytes one read returns
  MaxEmit,       \* bound: bytes a shell writes
  MaxTries       \* bound: handoffs asked for

ASSUME HandoffAssumption ==
  /\ MaxChunk \in Nat \ {0}
  /\ MaxEmit \in Nat /\ MaxTries \in Nat

Daemons == {"old", "new"}
NoSeq   == [seq |-> 0, taken |-> FALSE]     \* not in the snapshot

VARIABLES
  quiet,     \* do the shells write nothing while both daemons may read?
  shellOf,   \* "none" | "alive" | "exited" | "hup" (its last master fd closed)
  emitted,   \* bytes read from its master, by either daemon
  old,       \* "serving" | "handing" (snapshot taken) | "waiting" (for the ack) | "exited"
  new,       \* "none" | "adopting" | "acked" | "taking" (it removed the old path, binds next)
             \* | "serving" | "aside" (it lost the path) | "dead" (before its ack) | "killed" (after)
  third,     \* a daemon some client started: "none" | "booting" | "serving" | "aside"
  misled,    \* history: sessions the third daemon did not list while their shell lived
  snap,      \* per session, what the snapshot says
  tries,
  masters,   \* per daemon, sessions whose master it holds open
  registered, \* per daemon, its registry
  toAdopt,   \* sessions of the snapshot the new daemon has not come to yet
  skipped,   \* sessions whose master it could not duplicate
  ring,      \* per daemon and session
  hand,      \* per daemon and session, bytes read and not yet pushed
  conn,      \* per session, its client: "none", attached to a daemon, "asking", "gone", "gaveup"
  pipe,      \* bytes in flight to the client
  shown,     \* next byte its terminal expects
  cursor,    \* the coordinate it would reattach from
  told       \* bytes it was told it lost

upgradeVars  == <<quiet, old, new, third, snap, tries, toAdopt, skipped>>
ptyVars      == <<shellOf, emitted, masters, registered, ring, hand>>
terminalVars == <<conn, pipe, shown, cursor, told, misled>>
handoffVars  == <<upgradeVars, ptyVars, terminalVars>>

HandoffInit ==
  /\ quiet \in BOOLEAN
  /\ shellOf = [s \in Sessions |-> "none"]
  /\ emitted = [s \in Sessions |-> 0]
  /\ old = "serving" /\ new = "none" /\ third = "none" /\ misled = {}
  /\ snap = [s \in Sessions |-> NoSeq]
  /\ tries = 0
  /\ masters = [d \in Daemons |-> {}]
  /\ registered = [d \in Daemons |-> {}]
  /\ toAdopt = {} /\ skipped = {}
  /\ ring = [d \in Daemons |-> [s \in Sessions |-> NewRing]]
  /\ hand = [d \in Daemons |-> [s \in Sessions |-> <<>>]]
  /\ conn   = [s \in Sessions |-> "none"]
  /\ pipe   = [s \in Sessions |-> <<>>]
  /\ shown  = [s \in Sessions |-> 0]
  /\ cursor = [s \in Sessions |-> 0]
  /\ told   = [s \in Sessions |-> 0]

\* A process of the daemon is running.
Up(d) == IF d = "old" THEN old # "exited"
         ELSE new \in {"adopting", "acked", "taking", "serving", "aside"}

\* From the snapshot to the old daemon's exit.
HandingOver == old \in {"handing", "waiting"}

\* Close the masters d holds for the sessions ss: a shell nobody else holds
\* the master of is hung up on.
CloseMasters(d, ss) ==
  /\ masters' = [masters EXCEPT ![d] = @ \ ss]
  /\ shellOf' = [s \in Sessions |->
                 IF /\ s \in ss /\ shellOf[s] = "alive"
                    /\ \A e \in Daemons \ {d} : s \notin masters[e]
                 THEN "hup" ELSE shellOf[s]]

\* The process of the new daemon ends, with its masters and what its readers hold.
NewEnds ==
  /\ toAdopt' = {}
  /\ CloseMasters("new", masters["new"])
  /\ registered' = [registered EXCEPT !["new"] = {}]
  /\ ring' = [ring EXCEPT !["new"] = [s \in Sessions |-> NewRing]]
  /\ hand' = [hand EXCEPT !["new"] = [s \in Sessions |-> <<>>]]

------------------------------------------------------------------------------
(* Sessions on either daemon. *)

\* CreateOrAttach of an unknown pane.  The `handoff` flag is not looked at.
CreateSession(s) ==
  /\ shellOf[s] = "none"
  /\ Up("old")
  /\ shellOf' = [shellOf EXCEPT ![s] = "alive"]
  /\ masters' = [masters EXCEPT !["old"] = @ \cup {s}]
  /\ registered' = [registered EXCEPT !["old"] = @ \cup {s}]
  /\ UNCHANGED <<emitted, ring, hand, upgradeVars, terminalVars>>

\* The client attaches live to the session it created.
AttachLive(s) ==
  /\ conn[s] = "none"
  /\ Up("old") /\ s \in registered["old"]
  /\ conn' = [conn EXCEPT ![s] = "old"]
  /\ shown' = [shown EXCEPT ![s] = ring["old"][s].seq]
  /\ cursor' = [cursor EXCEPT ![s] = ring["old"][s].seq]
  /\ UNCHANGED <<pipe, told, misled, upgradeVars, ptyVars>>

\* A daemon's reader thread reads n bytes of s ...
Read(d, s, n) ==
  /\ Up(d) /\ s \in registered[d] /\ hand[d][s] = <<>>
  /\ emitted[s] + n <= MaxEmit /\ shellOf[s] = "alive"
  /\ quiet => ~HandingOver
  /\ hand' = [hand EXCEPT ![d][s] = [i \in 1..n |-> emitted[s] + i - 1]]
  /\ emitted' = [emitted EXCEPT ![s] = @ + n]
  /\ UNCHANGED <<shellOf, masters, registered, ring, upgradeVars, terminalVars>>

\* ... and pushes them into its ring and to the client attached to it.
PushOut(d, s) ==
  /\ Up(d) /\ hand[d][s] # <<>>
  /\ ring' = [ring EXCEPT ![d][s] = Push(@, hand[d][s])]
  /\ hand' = [hand EXCEPT ![d][s] = <<>>]
  /\ pipe' = IF conn[s] = d THEN [pipe EXCEPT ![s] = @ \o hand[d][s]] ELSE pipe
  /\ UNCHANGED <<shellOf, emitted, masters, registered, upgradeVars, conn, shown,
                 cursor, told, misled>>

ShellExits(s) ==
  /\ shellOf[s] = "alive"
  /\ shellOf' = [shellOf EXCEPT ![s] = "exited"]
  /\ UNCHANGED <<emitted, masters, registered, ring, hand, upgradeVars, terminalVars>>

\* The reader meets the end of the master: the session is closed and forgotten.
EndSession(d, s) ==
  /\ Up(d) /\ s \in registered[d]
  /\ shellOf[s] = "exited" /\ hand[d][s] = <<>>
  /\ registered' = [registered EXCEPT ![d] = @ \ {s}]
  /\ masters' = [masters EXCEPT ![d] = @ \ {s}]
  /\ UNCHANGED <<shellOf, emitted, ring, hand, upgradeVars, terminalVars>>

------------------------------------------------------------------------------
(* The handoff. *)

\* PrepareUpgrade: set the flag, snapshot every open session with its ring
\* coordinate.  The readers go on reading.
Snapshot ==
  /\ old = "serving" /\ tries < MaxTries
  /\ quiet => \A s \in Sessions : hand["old"][s] = <<>>
  /\ old' = "handing"
  /\ tries' = tries + 1
  /\ snap' = [s \in Sessions |->
                IF s \in registered["old"]
                THEN [seq |-> ring["old"][s].seq, taken |-> TRUE] ELSE NoSeq]
  /\ UNCHANGED <<quiet, new, third, toAdopt, skipped, ptyVars, terminalVars>>

Snapped == {s \in Sessions : snap[s].taken}

\* The new daemon starts with a dup of every master of the snapshot; had one
\* been closed meanwhile, dup2 would fail and the spawn with it.
SpawnNew ==
  /\ old = "handing"
  /\ Snapped \subseteq masters["old"]
  /\ old' = "waiting" /\ new' = "adopting"
  /\ toAdopt' = Snapped
  /\ masters' = [masters EXCEPT !["new"] = Snapped]
  /\ UNCHANGED <<quiet, third, snap, tries, skipped, shellOf, emitted, registered, ring,
                 hand, terminalVars>>

\* Mutant: the new daemon counts from zero.
AdoptFromZero(s) ==
  /\ new = "adopting" /\ s \in toAdopt
  /\ toAdopt' = toAdopt \ {s}
  /\ registered' = [registered EXCEPT !["new"] = @ \cup {s}]
  /\ ring' = [ring EXCEPT !["new"][s] = NewRing]
  /\ UNCHANGED <<quiet, shellOf, masters, old, new, third, snap, tries, skipped, emitted,
                 hand, terminalVars>>

\* The new daemon adopts one session: a ring that continues the snapshot's
\* coordinate, and a reader that starts at once.  If the inherited fd cannot be
\* duplicated the session is skipped and the fd closed.
Adopt(s) ==
  /\ new = "adopting" /\ s \in toAdopt
  /\ toAdopt' = toAdopt \ {s}
  /\ \/ /\ registered' = [registered EXCEPT !["new"] = @ \cup {s}]
        /\ ring' = [ring EXCEPT !["new"][s] = Resumed(snap[s].seq)]
        /\ UNCHANGED <<shellOf, masters, skipped>>
     \/ /\ CloseMasters("new", {s})
        /\ skipped' = skipped \cup {s}
        /\ UNCHANGED <<registered, ring>>
  /\ UNCHANGED <<quiet, old, new, third, snap, tries, emitted, hand, terminalVars>>

\* Everything adopted: the ack.
Ack ==
  /\ new = "adopting" /\ toAdopt = {}
  /\ new' = "acked"
  /\ UNCHANGED <<quiet, old, third, snap, tries, toAdopt, skipped, ptyVars, terminalVars>>

\* The new daemon dies: before its ack, or after it and before it serves.
NewDies ==
  /\ new \in {"adopting", "acked", "taking"}
  /\ new' = IF new = "adopting" THEN "dead" ELSE "killed"
  /\ NewEnds
  /\ UNCHANGED <<quiet, old, third, snap, tries, skipped, emitted, terminalVars>>

\* Mutant: the old daemon leaves whether or not a new one was spawned and acknowledged.
CommitUnacked ==
  /\ HandingOver
  /\ old' = "exited"
  /\ CloseMasters("old", masters["old"])
  /\ registered' = [registered EXCEPT !["old"] = {}]
  /\ hand' = [hand EXCEPT !["old"] = [s \in Sessions |-> <<>>]]
  /\ UNCHANGED <<quiet, new, third, snap, tries, toAdopt, skipped, emitted, ring,
                 terminalVars>>

\* The ack came, whether or not its sender still lives: exit.  The process takes
\* its masters, its streams and what its readers hold with it.
CommitHandoff ==
  /\ old = "waiting" /\ new \in {"acked", "killed"}
  /\ old' = "exited"
  /\ CloseMasters("old", masters["old"])
  /\ registered' = [registered EXCEPT !["old"] = {}]
  /\ hand' = [hand EXCEPT !["old"] = [s \in Sessions |-> <<>>]]
  /\ UNCHANGED <<quiet, new, third, snap, tries, toAdopt, skipped, emitted, ring,
                 terminalVars>>

\* Mutant: a successor that died without an ack is waited for.
RollbackUnspawned ==
  /\ old = "handing"
  /\ old' = "serving" /\ new' = "none"
  /\ NewEnds
  /\ skipped' = {}
  /\ UNCHANGED <<quiet, third, snap, tries, emitted, terminalVars>>

\* No ack in time, or the new daemon died (or was never spawned): it is killed
\* and the old one serves on.
RollbackHandoff ==
  /\ HandingOver
  /\ old' = "serving" /\ new' = "none"
  /\ NewEnds
  /\ skipped' = {}
  /\ UNCHANGED <<quiet, third, snap, tries, emitted, terminalVars>>

\* The old daemon is gone: the new one removes the path, whoever answers there
\* after five seconds (run_handoff_adopt, serve) ...
NewUnlinks ==
  /\ new = "acked" /\ old = "exited"
  /\ new' = "taking"
  /\ third' = IF third = "serving" THEN "aside" ELSE third
  /\ UNCHANGED <<quiet, old, snap, tries, toAdopt, skipped, ptyVars, terminalVars>>

\* ... and binds it.
NewServes ==
  /\ new = "taking" /\ third # "serving"
  /\ new' = "serving"
  /\ UNCHANGED <<quiet, old, third, snap, tries, toAdopt, skipped, ptyVars, terminalVars>>

\* Another daemon bound it in between: exit(2), with every master.
NewFailsToBind ==
  /\ new = "taking" /\ third = "serving"
  /\ new' = "killed"
  /\ NewEnds
  /\ UNCHANGED <<quiet, old, third, snap, tries, skipped, emitted, terminalVars>>

\* The daemons of the handover whose socket is at the path.
Serving == {d \in Daemons : IF d = "old" THEN Up("old") ELSE new = "serving"}

PathServed == Serving # {} \/ third = "serving"

SomeoneAsks == \E s \in Sessions : conn[s] = "asking"

\* A request that wants a daemon, a new terminal's or one of a terminal whose
\* stream ended, finds none and starts one (ensure_daemon) ...
StartThird ==
  /\ ~PathServed /\ third \in {"none", "aside"}
  /\ SomeoneAsks \/ \E s \in Sessions : conn[s] = "none"
  /\ third' = "booting"
  /\ UNCHANGED <<quiet, old, new, snap, tries, toAdopt, skipped, ptyVars, terminalVars>>

\* ... which, having found nobody at the path, takes it ...
ThirdBinds ==
  /\ third = "booting"
  /\ third' = "serving"
  /\ new' = IF new = "serving" THEN "aside" ELSE new
  /\ UNCHANGED <<quiet, old, snap, tries, toAdopt, skipped, ptyVars, terminalVars>>

\* ... or finds somebody and leaves.
ThirdStepsBack ==
  /\ third = "booting" /\ Serving # {}
  /\ third' = "none"
  /\ UNCHANGED <<quiet, old, new, snap, tries, toAdopt, skipped, ptyVars, terminalVars>>

------------------------------------------------------------------------------
(* The client's stream thread. *)

\* One byte reaches the terminal.
Show(s) ==
  /\ pipe[s] # <<>>
  /\ shown' = [shown EXCEPT ![s] = Head(pipe[s]) + 1]
  /\ cursor' = [cursor EXCEPT ![s] = @ + 1]
  /\ pipe' = [pipe EXCEPT ![s] = Tail(@)]
  /\ UNCHANGED <<conn, told, misled, upgradeVars, ptyVars>>

\* The stream ends, because its daemon left or closed the session.
StreamCloses(s) ==
  /\ conn[s] \in Daemons /\ pipe[s] = <<>>
  /\ ~Up(conn[s]) \/ s \notin registered[conn[s]]
  /\ conn' = [conn EXCEPT ![s] = "asking"]
  /\ UNCHANGED <<pipe, shown, cursor, told, misled, upgradeVars, ptyVars>>

\* The daemon that answers does not list the session: the shell is gone.  The
\* third one lists none; a client whose link reached it asks it again, aside or not.
Gone(s) ==
  /\ conn[s] = "asking"
  /\ \/ /\ \E d \in Serving : s \notin registered[d]
        /\ UNCHANGED misled
     \/ /\ third \in {"serving", "aside"}
        /\ misled' = IF shellOf[s] = "alive" THEN misled \cup {s} ELSE misled
  /\ conn' = [conn EXCEPT ![s] = "gone"]
  /\ UNCHANGED <<pipe, shown, cursor, told, upgradeVars, ptyVars>>

\* No daemon answered in 20 attempts, or the one that did lost the stream's path:
\* the general path for a lost daemon.
GiveUp(s) ==
  /\ conn[s] = "asking"
  /\ Serving = {}
  /\ conn' = [conn EXCEPT ![s] = "gaveup"]
  /\ UNCHANGED <<pipe, shown, cursor, told, misled, upgradeVars, ptyVars>>

\* Bytes a gap notice of r names to a client at coordinate at.
Lost(r, at) == IF SinceGap(r, at) = NoGap THEN 0 ELSE SinceGap(r, at)[2] - at

\* It does: reattach where the cursor stands.  A gap notice moves the terminal
\* by the coordinates it names.
Reattach(s) ==
  /\ conn[s] = "asking"
  /\ \E d \in Serving :
       /\ s \in registered[d]
       /\ LET r    == ring[d][s]
              lost == Lost(r, cursor[s])
          IN  /\ pipe'   = [pipe EXCEPT ![s] = SinceTail(r, cursor[s])]
              /\ shown'  = [shown EXCEPT ![s] = @ + lost]
              /\ told'   = [told EXCEPT ![s] = @ + lost]
              /\ cursor' = [cursor EXCEPT ![s] = r.seq]
       /\ conn' = [conn EXCEPT ![s] = d]
  /\ UNCHANGED <<misled, upgradeVars, ptyVars>>

------------------------------------------------------------------------------
HandoffNext ==
  \/ \E s \in Sessions :
       \/ CreateSession(s) \/ AttachLive(s) \/ ShellExits(s) \/ Adopt(s)
       \/ Show(s) \/ StreamCloses(s) \/ Gone(s) \/ GiveUp(s) \/ Reattach(s)
       \/ \E d \in Daemons : \/ \E n \in 1..MaxChunk : Read(d, s, n)
                             \/ PushOut(d, s) \/ EndSession(d, s)
  \/ Snapshot \/ SpawnNew \/ Ack \/ NewDies \/ CommitHandoff \/ RollbackHandoff
  \/ NewUnlinks \/ NewServes \/ NewFailsToBind
  \/ StartThird \/ ThirdBinds \/ ThirdStepsBack

HandoffSpec == HandoffInit /\ [][HandoffNext]_handoffVars

(* A handoff that began ends, one way or the other; daemons that boot, readers   *)
(* and stream threads keep going.                                                *)
HandoffFairness ==
  /\ WF_handoffVars(SpawnNew \/ RollbackHandoff)
  /\ WF_handoffVars(\E s \in Sessions : Adopt(s))
  /\ WF_handoffVars(Ack)
  /\ WF_handoffVars(CommitHandoff) /\ WF_handoffVars(NewUnlinks)
  /\ WF_handoffVars(NewServes \/ NewFailsToBind)
  /\ WF_handoffVars(SomeoneAsks /\ StartThird) /\ WF_handoffVars(ThirdBinds \/ ThirdStepsBack)
  /\ \A s \in Sessions :
       /\ WF_handoffVars(Show(s)) /\ WF_handoffVars(StreamCloses(s))
       /\ WF_handoffVars(Gone(s) \/ Reattach(s))
       /\ \A d \in Daemons : /\ WF_handoffVars(PushOut(d, s))
                              /\ WF_handoffVars(EndSession(d, s))

HandoffFairSpec == HandoffSpec /\ HandoffFairness

------------------------------------------------------------------------------
(* Properties. *)

\* Type invariant.
HandoffTypeOK ==
  /\ shellOf \in [Sessions -> {"none", "alive", "exited", "hup"}]
  /\ emitted \in [Sessions -> Nat]
  /\ old \in {"serving", "handing", "waiting", "exited"}
  /\ new \in {"none", "adopting", "acked", "taking", "serving", "aside", "dead", "killed"}
  /\ third \in {"none", "booting", "serving", "aside"}
  /\ snap \in [Sessions -> [seq : Nat, taken : BOOLEAN]]
  /\ tries \in 0..MaxTries
  /\ masters \in [Daemons -> SUBSET Sessions]
  /\ registered \in [Daemons -> SUBSET Sessions]
  /\ quiet \in BOOLEAN
  /\ toAdopt \subseteq Sessions /\ skipped \subseteq Snapped
  /\ ring \in [Daemons -> [Sessions -> Rings(Nat)]]
  /\ hand \in [Daemons -> [Sessions -> Seq(Nat)]]
  /\ conn \in [Sessions -> Daemons \cup {"none", "asking", "gone", "gaveup"}]
  /\ pipe \in [Sessions -> Seq(Nat)]
  /\ shown \in [Sessions -> Nat] /\ cursor \in [Sessions -> Nat]
  /\ told \in [Sessions -> Nat] /\ misled \subseteq Sessions

\* No shell the snapshot names is hung up on by the upgrade, committed or rolled
\* back at any point, while both daemons come and go (main.rs do_handoff, HS2) -
\* unless the new daemon could not duplicate its master, skipped it, and
\* acknowledged all the same, or ended after its ack: killed, or without the path.
SnappedShellsSurvive ==
  \A s \in Snapped : shellOf[s] = "hup" => s \in skipped \/ new = "killed"

\* Not checked (README, known disagreements): no shell at all is hung up on by the upgrade: the set handed over is the set
\* there is, because requests that would change it are refused meanwhile.
NoShellIsLost == \A s \in Sessions : shellOf[s] # "hup"

\* A terminal is told its shell is gone only when it is (reattach_live_session:
\* the end of a stream is not the end of a shell), unless the third daemon, which
\* lists no session, was asked.
GoneIsGone == \A s \in Sessions \ misled : conn[s] = "gone" => shellOf[s] # "alive"

\* The daemons of the handover take no shell and declare none dead that lives.
ShellsOutliveHandover == SnappedShellsSurvive /\ GoneIsGone

\* While a shell writes nothing during the handover, its terminal sees one
\* uninterrupted stream: every step is a step of TerminalStream.
Stream(s) == INSTANCE TerminalStream
               WITH out <- emitted[s], joined <- conn[s] # "none",
                    at <- shown[s], told <- told[s]

HandoffIsInvisible ==
  /\ \A s \in Sessions : Stream(s)!Init
  /\ [][quiet => \A s \in Sessions : Stream(s)!Next \/ UNCHANGED Stream(s)!vars]_handoffVars

\* A terminal whose stream ended gets its shell back or learns it is gone.
StreamEndIsResolved ==
  \A s \in Sessions : conn[s] = "asking" ~> conn[s] \in Daemons \cup {"gone", "gaveup"}

\* A handoff does not hang: the old daemon serves again, or the new one served or
\* ended after its ack.
HandoffEnds == HandingOver ~> old = "serving" \/ new \in {"serving", "aside", "killed"}

\* Nobody waits for ever in a handover: neither the daemons for one another
\* (do_handoff, run_handoff_adopt) nor a terminal whose stream it ended
\* (reattach_live_session).
NobodyHangs == StreamEndIsResolved /\ HandoffEnds
==============================================================================
