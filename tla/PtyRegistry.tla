----------------------------- MODULE PtyRegistry -----------------------------
(***************************************************************************)
(* The PTY daemon's session registry (crates/soksak-ptyd/src/main.rs): which *)
(* session serves which pane, the sealed screen checkpoint of each pane, and   *)
(* the clients that remember a session by its id                               *)
(* (crates/soksak-core/src/ptyd.rs, reattach_live_session).                     *)
(*                                                                             *)
(* Every control connection is a thread of its own, and a request is not one     *)
(* critical section: CreateOrAttach looks the pane up under the registry's lock    *)
(* and spawns without it; StoreBlob finds the session, then writes files.  The      *)
(* session's reader thread ends it at any point between.                            *)
(***************************************************************************)
EXTENDS Naturals, FiniteSets

CONSTANTS
  Panes,         \* keys: a pane of a window
  Windows,       \* the windows, as sets of panes
  Creators,      \* control connections that ask CreateOrAttach
  Storers,       \* control connections that ask StoreBlob (sidecars)
  None,
  MaxSessions    \* bound: sessions spawned by one daemon process

ASSUME RegistryAssumption ==
  /\ None \notin Panes /\ None \notin Nat /\ None \notin {"torn", "whole"}
  /\ Windows \subseteq SUBSET Panes
  /\ MaxSessions \in Nat

Ids == 1..MaxSessions

VARIABLES
  nextId,      \* Registry.next_id; a new process starts at zero
  listed,      \* Registry.sessions
  closed,      \* sessions whose `closed` is set
  pane,        \* per session, its key
  sealed,      \* sessions with a seal key (SessState.ckpt)
  shell,       \* per session: "none" | "alive" | "dead"
  creating,    \* per creator, the pane it found no session for, or None
  keyed,       \* does that request carry a seal key? (FALSE without a request)
  storing,     \* per storer: the session it stores for, or None ...
  step,        \* ... and its next step: "open" (also without one) | "fill" | "rename"
  tmp,         \* per session, its temporary file: None | "torn" | "whole"
  blob,        \* per pane, the canonical file: None | "torn" | "whole"
  contested,       \* history: panes two requests at once found no session for
  stale,       \* history: panes whose client remembers an id of a daemon that died
  client,      \* per pane, its client: "idle" | "on" (attached) | "asking"
  seen         \* per pane, the session id its client remembers

memVars    == <<nextId, listed, closed, pane, sealed, shell>>
createVars == <<creating, keyed>>
storeVars  == <<storing, step, tmp>>
clientVars == <<client, seen>>
vars == <<memVars, createVars, storeVars, blob, contested, stale, clientVars>>

Init ==
  /\ nextId = 0 /\ listed = {} /\ closed = {} /\ sealed = {}
  /\ pane = [i \in Ids |-> None]
  /\ shell = [i \in Ids |-> "none"]
  /\ creating = [c \in Creators |-> None]
  /\ keyed = [c \in Creators |-> FALSE]
  /\ storing = [c \in Storers |-> None]
  /\ step = [c \in Storers |-> "open"]
  /\ tmp = [i \in Ids |-> None]
  /\ blob = [p \in Panes |-> None]
  /\ contested = {} /\ stale = {}
  /\ client = [p \in Panes |-> "idle"]
  /\ seen = [p \in Panes |-> None]

\* Mutant: a session whose shell died is passed over before it is closed.
ByPaneAlive(p) == {i \in listed \ closed : pane[i] = p /\ shell[i] = "alive"}

\* Registry::by_pane may return any of these.
ByPane(p) == {i \in listed \ closed : pane[i] = p}

\* The client learns the id and attaches.
Tell(p, i) ==
  /\ client' = [client EXCEPT ![p] = "on"]
  /\ seen' = [seen EXCEPT ![p] = i]
  /\ stale' = stale \ {p}

------------------------------------------------------------------------------
(* CreateOrAttach. *)

\* The pane has a session: reattach, and adopt the seal key if it had none.
Attach(c, p, key) ==
  /\ creating[c] = None
  /\ client[p] = "idle"
  /\ \E i \in ByPane(p) :
       /\ sealed' = IF key THEN sealed \cup {i} ELSE sealed
       /\ Tell(p, i)
  /\ UNCHANGED <<nextId, listed, closed, pane, shell, createVars, storeVars,
                 blob, contested>>

\* It has none: go and spawn one.
LookUp(c, p, key) ==
  /\ creating[c] = None
  /\ client[p] = "idle"
  /\ ByPane(p) = {}
  /\ creating' = [creating EXCEPT ![c] = p]
  /\ keyed' = [keyed EXCEPT ![c] = key]
  /\ contested' = IF \E d \in Creators : creating[d] = p THEN contested \cup {p} ELSE contested
  /\ UNCHANGED <<memVars, storeVars, blob, stale, clientVars>>

\* openpty, fork and exec succeeded: into the registry, whatever is there now.
Spawn(c) ==
  /\ creating[c] # None
  /\ nextId < MaxSessions
  /\ LET i == nextId + 1
     IN  /\ nextId' = i
         /\ listed' = listed \cup {i}
         /\ pane' = [pane EXCEPT ![i] = creating[c]]
         /\ shell' = [shell EXCEPT ![i] = "alive"]
         /\ sealed' = IF keyed[c] THEN sealed \cup {i} ELSE sealed
         /\ Tell(creating[c], i)
  /\ creating' = [creating EXCEPT ![c] = None]
  /\ keyed' = [keyed EXCEPT ![c] = FALSE]
  /\ UNCHANGED <<closed, storeVars, blob, contested>>

\* They failed: the error is the reply.
SpawnFails(c) ==
  /\ creating[c] # None
  /\ creating' = [creating EXCEPT ![c] = None]
  /\ keyed' = [keyed EXCEPT ![c] = FALSE]
  /\ UNCHANGED <<memVars, storeVars, blob, contested, stale, clientVars>>

------------------------------------------------------------------------------
(* The end of sessions. *)

KillAll(ss) == shell' = [i \in Ids |-> IF i \in ss THEN "dead" ELSE shell[i]]

\* The shell exits, or Kill names its session.
ShellEnds(i) ==
  /\ i \in listed /\ shell[i] = "alive"
  /\ KillAll({i})
  /\ UNCHANGED <<nextId, listed, closed, pane, sealed, createVars, storeVars,
                 blob, contested, stale, clientVars>>

KillByWindow(w) ==
  /\ \E i \in listed : pane[i] \in w /\ shell[i] = "alive"
  /\ KillAll({i \in listed : pane[i] \in w})
  /\ UNCHANGED <<nextId, listed, closed, pane, sealed, createVars, storeVars,
                 blob, contested, stale, clientVars>>

\* The reader met the end of the master: in one critical section the session is
\* closed and its checkpoint removed.
ReaderClose(i) ==
  /\ i \in listed \ closed /\ shell[i] = "dead"
  /\ closed' = closed \cup {i}
  /\ blob' = IF i \in sealed THEN [blob EXCEPT ![pane[i]] = None] ELSE blob
  /\ UNCHANGED <<nextId, listed, pane, sealed, shell, createVars, storeVars,
                 contested, stale, clientVars>>

\* Mutant: the checkpoint is removed when the child was reaped.
ReapRemovesBlob(i) ==
  /\ i \in closed
  /\ listed' = listed \ {i}
  /\ closed' = closed \ {i}
  /\ sealed' = sealed \ {i}
  /\ blob' = IF i \in sealed THEN [blob EXCEPT ![pane[i]] = None] ELSE blob
  /\ UNCHANGED <<nextId, pane, shell, createVars, storeVars,
                 contested, stale, clientVars>>

\* child.wait() returned: out of the registry.
ReaderReap(i) ==
  /\ i \in closed
  /\ listed' = listed \ {i}
  /\ closed' = closed \ {i}
  /\ sealed' = sealed \ {i}
  /\ UNCHANGED <<nextId, pane, shell, createVars, storeVars, blob,
                 contested, stale, clientVars>>

\* Shutdown: every child is killed; the process ends 150 ms later (Die).
Shutdown ==
  /\ \E i \in listed : shell[i] = "alive"
  /\ KillAll(listed)
  /\ UNCHANGED <<nextId, listed, closed, pane, sealed, createVars, storeVars,
                 blob, contested, stale, clientVars>>

\* The process ends, by Shutdown or killed; a new one starts from nothing.
\* Every stream ends.
Die ==
  /\ nextId' = 0 /\ listed' = {} /\ closed' = {} /\ sealed' = {}
  /\ pane' = [i \in Ids |-> None]
  /\ shell' = [i \in Ids |-> "none"]
  /\ creating' = [c \in Creators |-> None]
  /\ keyed' = [c \in Creators |-> FALSE]
  /\ storing' = [c \in Storers |-> None]
  /\ step' = [c \in Storers |-> "open"]
  /\ tmp' = [i \in Ids |-> None]
  /\ contested' = {}
  /\ stale' = {p \in Panes : seen[p] # None}
  /\ client' = [p \in Panes |-> IF client[p] = "on" THEN "asking" ELSE client[p]]
  /\ UNCHANGED <<blob, seen>>

------------------------------------------------------------------------------
(* StoreBlob. *)

\* by_pane finds the session; its seal key is copied out.
StoreFind(c, p) ==
  /\ storing[c] = None
  /\ \E i \in ByPane(p) \cap sealed : storing' = [storing EXCEPT ![c] = i]
  /\ UNCHANGED <<memVars, createVars, step, tmp, blob, contested, stale, clientVars>>

\* Create or truncate the temporary file, named by process and session ...
StoreOpen(c) ==
  /\ storing[c] # None /\ step[c] = "open"
  /\ tmp' = [tmp EXCEPT ![storing[c]] = "torn"]
  /\ step' = [step EXCEPT ![c] = "fill"]
  /\ UNCHANGED <<memVars, createVars, storing, blob, contested, stale, clientVars>>

\* ... write it, wherever it was renamed to meanwhile ...
StoreFill(c) ==
  /\ storing[c] # None /\ step[c] = "fill"
  /\ LET i == storing[c]
     IN  \/ /\ tmp[i] # None
            /\ tmp' = [tmp EXCEPT ![i] = "whole"]
            /\ UNCHANGED blob
         \/ /\ tmp[i] = None
            /\ blob' = IF blob[pane[i]] = None THEN blob
                       ELSE [blob EXCEPT ![pane[i]] = "whole"]
            /\ UNCHANGED tmp
  /\ step' = [step EXCEPT ![c] = "rename"]
  /\ UNCHANGED <<memVars, createVars, storing, contested, stale, clientVars>>

\* ... and move it to the canonical path; an error if it is not there.
StoreRename(c) ==
  /\ storing[c] # None /\ step[c] = "rename"
  /\ LET i == storing[c]
     IN  /\ blob' = IF tmp[i] = None THEN blob
                    ELSE [blob EXCEPT ![pane[i]] = tmp[i]]
         /\ tmp' = [tmp EXCEPT ![i] = None]
  /\ storing' = [storing EXCEPT ![c] = None]
  /\ step' = [step EXCEPT ![c] = "open"]
  /\ UNCHANGED <<memVars, createVars, contested, stale, clientVars>>

------------------------------------------------------------------------------
(* The stream thread of a pane's client. *)

StreamEnds(p) ==
  /\ client[p] = "on"
  /\ seen[p] \in closed \/ seen[p] \notin listed
  /\ client' = [client EXCEPT ![p] = "asking"]
  /\ UNCHANGED <<memVars, createVars, storeVars, blob, contested, stale, seen>>

\* The front end is gone (its window reloads, its app exits): the daemon goes on,
\* and the pane comes back without an id.
FrontLeaves(p) ==
  /\ client[p] # "idle"
  /\ client' = [client EXCEPT ![p] = "idle"]
  /\ seen' = [seen EXCEPT ![p] = None]
  /\ stale' = stale \ {p}
  /\ UNCHANGED <<memVars, createVars, storeVars, blob, contested>>

\* The id it remembers is not listed: the shell is gone.
AskGone(p) ==
  /\ client[p] = "asking"
  /\ seen[p] \notin listed
  /\ client' = [client EXCEPT ![p] = "idle"]
  /\ seen' = [seen EXCEPT ![p] = None]
  /\ stale' = stale \ {p}
  /\ UNCHANGED <<memVars, createVars, storeVars, blob, contested>>

\* It is listed: attach to it.
AskReattach(p) ==
  /\ client[p] = "asking"
  /\ seen[p] \in listed \ closed
  /\ client' = [client EXCEPT ![p] = "on"]
  /\ UNCHANGED <<memVars, createVars, storeVars, blob, contested, stale, seen>>

------------------------------------------------------------------------------
Create(c) == \/ \E p \in Panes, key \in BOOLEAN : Attach(c, p, key) \/ LookUp(c, p, key)
             \/ Spawn(c) \/ SpawnFails(c)

Session(i) == ShellEnds(i) \/ ReaderClose(i) \/ ReaderReap(i)

Store(c) == \/ \E p \in Panes : StoreFind(c, p)
            \/ StoreOpen(c) \/ StoreFill(c) \/ StoreRename(c)

Client(p) == StreamEnds(p) \/ FrontLeaves(p) \/ AskGone(p) \/ AskReattach(p)

Next == \/ \E c \in Creators : Create(c)
        \/ \E i \in Ids : Session(i)
        \/ \E w \in Windows : KillByWindow(w)
        \/ Shutdown \/ Die
        \/ \E c \in Storers : Store(c)
        \/ \E p \in Panes : Client(p)

Spec == Init /\ [][Next]_vars

------------------------------------------------------------------------------
(* Properties. *)

\* Type invariant.
TypeOK ==
  /\ nextId \in 0..MaxSessions
  /\ listed \subseteq 1..nextId
  /\ closed \subseteq listed /\ sealed \subseteq listed
  /\ pane \in [Ids -> Panes \cup {None}]
  /\ shell \in [Ids -> {"none", "alive", "dead"}]
  /\ creating \in [Creators -> Panes \cup {None}]
  /\ keyed \in [Creators -> BOOLEAN]
  /\ storing \in [Storers -> Ids \cup {None}]
  /\ step \in [Storers -> {"open", "fill", "rename"}]
  /\ tmp \in [Ids -> {None, "torn", "whole"}]
  /\ blob \in [Panes -> {None, "torn", "whole"}]
  /\ contested \subseteq Panes /\ stale \subseteq Panes
  /\ client \in [Panes -> {"idle", "on", "asking"}]
  /\ seen \in [Panes -> Ids \cup {None}]

\* A pane has one open session at a time, whatever ends, is killed, reaped or
\* stored between the look-up and the insertion, and whatever other panes are
\* created meanwhile (CreateOrAttach) - unless two requests at once found none for
\* this very pane.
OneSessionPerPane ==
  \A i, j \in listed \ closed : pane[i] = pane[j] => i = j \/ pane[i] \in contested

\* The canonical checkpoint is never a torn file (write_sealed_doc_atomic).
BlobIsWhole == \A p \in Panes : blob[p] # "torn"

\* While a pane has a session its checkpoint is not removed: the end of the
\* session before it takes only its own.  Two sessions of one pane share the file.
BlobIsKept ==
  [][\A p \in Panes \ contested :
       blob[p] # None /\ ByPane(p)' # {} => blob'[p] # None]_vars

\* A client shows the shell of its own pane: the id it remembers is never given to
\* another session, however long its stream thread takes to ask for it again
\* (Registry.next_id, reattach_live_session), and after a daemon's death again from
\* its next request on - but not while it goes by an id of the dead daemon: the
\* new one counts from zero.
ShowsOwnPane ==
  \A p \in Panes \ stale :
    client[p] = "on" /\ seen[p] \in listed => pane[seen[p]] = p

\* A pane has one shell and its clients see that one (CreateOrAttach,
\* reattach_live_session).
PanesAreTrue == OneSessionPerPane /\ ShowsOwnPane

\* A checkpoint is never torn, and never removed while its pane has a session
\* (write_sealed_doc_atomic, spawn_reader).
CheckpointsAreSound == []BlobIsWhole /\ BlobIsKept
==============================================================================
