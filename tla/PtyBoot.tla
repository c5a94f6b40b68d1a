------------------------------- MODULE PtyBoot -------------------------------
(***************************************************************************)
(* Who serves the PTY daemon's two sockets: the boot of a daemon and its     *)
(* singleton probe (crates/soksak-ptyd/src/main.rs, unix::run and serve),      *)
(* the successor of an upgrade that takes the sockets over                     *)
(* (run_handoff_adopt), and the clients that connect to a daemon or start one   *)
(* (crates/soksak-core/src/ptyd.rs, Link::request and ensure_daemon).           *)
(*                                                                             *)
(* Every system call on a socket path is an action: other processes run          *)
(* between an unlink and a bind.  A path keeps the file of a process that died.   *)
(***************************************************************************)
EXTENDS FiniteSets

CONSTANTS
  Procs,     \* daemon processes; bound on how many are ever started
  Clients,   \* client processes, one Link each
  NoOne

NotYet == "not yet"

ASSUME BootAssumption == NoOne \notin Procs /\ NotYet \notin Procs \cup {NoOne}

VARIABLES
  stage,     \* per daemon: "off", then its next step of the boot, "serving", ...
  heir,      \* per daemon, the successor it spawned
  control,   \* whose listener the control path's file belongs to, NoOne: no file
  stream,    \* the same of the stream path
  holders,   \* daemons that hold the masters of the shells
  opened,    \* was a shell ever opened?
  crashed,   \* history: was a daemon killed?
  spent,     \* history: was one killed when none was left to start?
  raced,     \* history: were two daemons ever on their way to the sockets at once?
  link,      \* per client, the daemon its control connection leads to, or NotYet:
             \* it has not asked for one
  awaits     \* per client, the daemon it started and waits for

daemonVars == <<stage, heir, control, stream, holders, crashed, spent, raced>>
linkVars   == <<link, awaits, opened>>
bootVars   == <<daemonVars, linkVars>>

BootInit ==
  /\ stage = [p \in Procs |-> "off"]
  /\ heir = [p \in Procs |-> NoOne]
  /\ control = NoOne /\ stream = NoOne
  /\ holders = {} /\ opened = FALSE /\ crashed = FALSE
  /\ spent = FALSE /\ raced = FALSE
  /\ link = [c \in Clients |-> NotYet]
  /\ awaits = [c \in Clients |-> NoOne]

Alive(p) == stage[p] \notin {"off", "exited"}

\* connect() to the control path succeeds: the file's listener is alive.
Answers == control # NoOne /\ Alive(control)

\* The daemons that will take the socket paths without asking again: past their
\* probe, or successors, which do not probe.
Coming == {p \in Procs : stage[p] \in {"unlinkControl", "unlinkStream", "bindControl",
                                   "bindStream", "adopt", "await"}}

Step(p, from, to) == stage[p] = from /\ stage' = [stage EXCEPT ![p] = to]

------------------------------------------------------------------------------
(* The boot of a daemon. *)

\* The singleton probe.
Probe(p) ==
  /\ Step(p, "probe", IF Answers THEN "exited" ELSE "unlinkControl")
  /\ raced' = (raced \/ (~Answers /\ Coming # {}))
  /\ UNCHANGED <<heir, control, stream, holders, crashed, spent, linkVars>>

\* Mutant: the file of a dead daemon stays.
UnlinkControlNot(p) ==
  /\ Step(p, "unlinkControl", "unlinkStream")
  /\ UNCHANGED <<heir, control, stream, holders, crashed, spent, raced, linkVars>>

UnlinkControl(p) ==
  /\ Step(p, "unlinkControl", "unlinkStream")
  /\ control' = NoOne
  /\ UNCHANGED <<heir, stream, holders, crashed, spent, raced, linkVars>>

UnlinkStream(p) ==
  /\ Step(p, "unlinkStream", "bindControl")
  /\ stream' = NoOne
  /\ UNCHANGED <<heir, control, holders, crashed, spent, raced, linkVars>>

\* bind() fails while the path has a file, and the process exits.
BindControl(p) ==
  /\ \/ /\ control = NoOne
        /\ Step(p, "bindControl", "bindStream")
        /\ control' = p
        /\ UNCHANGED holders
     \/ /\ control # NoOne
        /\ Step(p, "bindControl", "exited")
        /\ holders' = holders \ {p}
        /\ UNCHANGED control
  /\ UNCHANGED <<heir, stream, crashed, spent, raced, linkVars>>

BindStream(p) ==
  /\ \/ /\ stream = NoOne
        /\ Step(p, "bindStream", "serving")
        /\ stream' = p
        /\ UNCHANGED holders
     \/ /\ stream # NoOne
        /\ Step(p, "bindStream", "exited")
        /\ holders' = holders \ {p}
        /\ UNCHANGED stream
  /\ UNCHANGED <<heir, control, crashed, spent, raced, linkVars>>

\* A daemon is killed; its shells go with it unless another holds their masters.
Crash(p) ==
  /\ Alive(p)
  /\ stage' = [stage EXCEPT ![p] = "exited"]
  /\ holders' = holders \ {p}
  /\ crashed' = TRUE
  /\ spent' = (spent \/ \A q \in Procs : stage[q] # "off")
  /\ UNCHANGED <<heir, control, stream, raced, linkVars>>

------------------------------------------------------------------------------
(* The upgrade, as far as the sockets are concerned (see PtyHandoff). *)

\* PrepareUpgrade: the successor starts with a dup of every master.
SpawnHeir(p, q) ==
  /\ stage[p] = "serving" /\ stage[q] = "off"
  /\ stage' = [stage EXCEPT ![p] = "handing", ![q] = "adopt"]
  /\ heir' = [heir EXCEPT ![p] = q]
  /\ holders' = IF p \in holders THEN holders \cup {q} ELSE holders
  /\ raced' = (raced \/ Coming # {})
  /\ UNCHANGED <<control, stream, crashed, spent, linkVars>>

\* The successor acknowledges ...
AckAdopt(q) ==
  /\ Step(q, "adopt", "await")
  /\ UNCHANGED <<heir, control, stream, holders, crashed, spent, raced, linkVars>>

\* ... and the daemon that asked for it exits.
Commit(p) ==
  /\ heir[p] # NoOne /\ stage[heir[p]] = "await"
  /\ Step(p, "handing", "exited")
  /\ holders' = holders \ {p}
  /\ UNCHANGED <<heir, control, stream, crashed, spent, raced, linkVars>>

\* No ack: the successor is killed, the daemon serves on.
Rollback(p) ==
  /\ stage[p] = "handing"
  /\ stage' = [stage EXCEPT ![p] = "serving", ![heir[p]] = "exited"]
  /\ holders' = holders \ {heir[p]}
  /\ heir' = [heir EXCEPT ![p] = NoOne]
  /\ UNCHANGED <<control, stream, crashed, spent, raced, linkVars>>

Predecessor(q) == {p \in Procs : heir[p] = q}

\* Mutant: the successor does not wait for its predecessor to leave.
AwaitNot(q) ==
  /\ Step(q, "await", "unlinkControl")
  /\ UNCHANGED <<heir, control, stream, holders, crashed, spent, raced, linkVars>>

\* The successor tries to connect until that fails.  After 5 s it goes ahead
\* whoever answers: not its predecessor, which is taken to be gone by then.
Await(q) ==
  /\ ~Answers \/ \A p \in Predecessor(q) : stage[p] = "exited"
  /\ Step(q, "await", "unlinkControl")
  /\ UNCHANGED <<heir, control, stream, holders, crashed, spent, raced, linkVars>>

------------------------------------------------------------------------------
(* Clients. *)

\* The first request of a client.
Asks(c) ==
  /\ link[c] = NotYet
  /\ link' = [link EXCEPT ![c] = NoOne]
  /\ UNCHANGED <<daemonVars, awaits, opened>>

Connect(c) ==
  /\ link[c] = NoOne
  /\ Answers
  /\ link' = [link EXCEPT ![c] = control]
  /\ awaits' = [awaits EXCEPT ![c] = NoOne]
  /\ UNCHANGED <<daemonVars, opened>>

\* Nobody answers: start a daemon.
SpawnDaemon(c, p) ==
  /\ link[c] = NoOne /\ awaits[c] = NoOne
  /\ ~Answers
  /\ Step(p, "off", "probe")
  /\ awaits' = [awaits EXCEPT ![c] = p]
  /\ UNCHANGED <<heir, control, stream, holders, crashed, spent, raced, link, opened>>

\* The 2 s wait for it is over.  A boot is taken to be shorter: the wait ends
\* without a connection when the daemon died, or serves and was pushed aside.
WaitOver(c) ==
  /\ awaits[c] # NoOne
  /\ ~Answers
  /\ ~Alive(awaits[c]) \/ stage[awaits[c]] = "serving"
  /\ awaits' = [awaits EXCEPT ![c] = NoOne]
  /\ UNCHANGED <<daemonVars, link, opened>>

\* A request on the connection of a daemon that is gone fails.
LinkLost(c) ==
  /\ link[c] \in Procs /\ ~Alive(link[c])
  /\ link' = [link EXCEPT ![c] = NoOne]
  /\ UNCHANGED <<daemonVars, awaits, opened>>

\* CreateOrAttach.
Open(c) ==
  /\ link[c] \in Procs /\ stage[link[c]] = "serving"
  /\ holders' = holders \cup {link[c]}
  /\ opened' = TRUE
  /\ UNCHANGED <<stage, heir, control, stream, crashed, spent, raced, link, awaits>>

------------------------------------------------------------------------------
Boot(p) == \/ Probe(p) \/ UnlinkControl(p) \/ UnlinkStream(p)
           \/ BindControl(p) \/ BindStream(p)
           \/ AckAdopt(p) \/ Commit(p) \/ Await(p)

ClientStep(c) == Connect(c) \/ WaitOver(c) \/ LinkLost(c) \/ \E p \in Procs : SpawnDaemon(c, p)

BootNext ==
  \/ \E p \in Procs : Boot(p) \/ Crash(p) \/ Rollback(p) \/ \E q \in Procs : SpawnHeir(p, q)
  \/ \E c \in Clients : Asks(c) \/ ClientStep(c) \/ Open(c)

BootSpec == BootInit /\ [][BootNext]_bootVars

(* Processes run, and a client that needs a daemon keeps asking. *)
BootFairness ==
  /\ \A p \in Procs : WF_bootVars(Boot(p))
  /\ \A c \in Clients : WF_bootVars(ClientStep(c))

BootFairSpec == BootSpec /\ BootFairness

------------------------------------------------------------------------------
(* Properties. *)

\* Type invariant.
BootTypeOK ==
  /\ stage \in [Procs -> {"off", "probe", "unlinkControl", "unlinkStream",
                       "bindControl", "bindStream", "serving",
                       "handing", "adopt", "await", "exited"}]
  /\ heir \in [Procs -> Procs \cup {NoOne}]
  /\ control \in Procs \cup {NoOne} /\ stream \in Procs \cup {NoOne}
  /\ holders \subseteq {p \in Procs : Alive(p)}
  /\ {opened, crashed, spent, raced} \subseteq BOOLEAN
  /\ link \in [Clients -> Procs \cup {NoOne, NotYet}]
  /\ awaits \in [Clients -> Procs \cup {NoOne}]

\* While no two daemons were on their way to the sockets at once, a daemon that
\* serves is the one both paths lead to: its shells can be reached, and an attach
\* goes to the daemon the session was created on - after any upgrades, kills and
\* restarts (serve: "there is no previous daemon when this is called").
NoOrphan ==
  ~raced => \A p \in Procs : stage[p] \in {"serving", "handing"}
                               => control = p /\ stream = p

\* Short of a crash and of such a race an opened shell always has a daemon that
\* holds its master: taking the sockets over costs no shell.
SocketsCostNoShell == opened /\ ~crashed /\ ~raced => holders # {}

\* Taking the sockets over leaves neither a daemon nor a shell behind (run_serve).
SocketsAreOwned == NoOrphan /\ SocketsCostNoShell

\* Not checked (README, known disagreements): no live upgrade costs a shell, whatever clients do meanwhile (RESTORE.md: no
\* shell sees a SIGHUP; serve: the caller guarantees that no other daemon is there).
ShellsSurvive == opened /\ ~crashed => holders # {}

\* A client without a daemon gets one, whatever files dead daemons left - unless
\* one was killed that nobody may replace, the bound on processes being used up,
\* or daemons that raced for the sockets used it up.
Recovers ==
  \A c \in Clients :
    link[c] = NoOne ~> \/ link[c] \in Procs
                       \/ spent
                       \/ raced /\ \A p \in Procs : stage[p] # "off"
==============================================================================
