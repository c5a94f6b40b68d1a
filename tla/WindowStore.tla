------------------------------ MODULE WindowStore ------------------------------
(***************************************************************************)
(* What workspace windows keep (src/src/state/windowBoot.ts with           *)
(* persistGuard.ts, coreStore.ts, windowPersistence.ts, projectRegistry.ts *)
(* and main.tsx): a snapshot of its projects per window, one manifest of   *)
(* the windows to reopen, and the registry that lets a project root be     *)
(* open in one window only.  Store and registry are other processes: every *)
(* call to them is one atomic step there, it can fail where the code       *)
(* handles a failure, and other windows act between two calls.  Requests   *)
(* of one window reach them in the order they were sent.                   *)
(*                                                                         *)
(* Two fields of a window are history: `loose` are the roots it took       *)
(* without the registry's word, `dropped` the roots of its snapshot it     *)
(* gave up.                                                                *)
(***************************************************************************)
EXTENDS Integers, FiniteSets

CONSTANTS Labels,          \* windows the program creates (w-<uuid>)
          OldLabels,       \* slots of an earlier version: never reopened
          Roots,           \* project roots
          None,            \* nobody, nothing
          Absent,          \* no value under this key
          MaxOps,          \* bound: opens of projects a window has in flight
          MaxLoose,        \* bound: windows that hold roots without the registry's word
          Apart            \* bound: they come to it only while nobody edits the manifest

ASSUME StoreAssumption ==
  /\ None \notin Labels /\ Labels \cap OldLabels = {}
  /\ \A kept \in SUBSET Roots : Absent # kept

VARIABLES snap,            \* store: window/<label>, the roots of a snapshot
          cache,           \* localStorage: the same key
          slots,           \* store: the manifest, by label
          owner,           \* the registry of open roots
          win,             \* the windows
          main,            \* the control plane's respawn
          closing          \* a window.close in progress: its window, the manifest it read

vars == <<snap, cache, slots, owner, win, main, closing>>

Down == [phase |-> "down", init |-> None, read |-> "unread", left |-> {}, open |-> {},
         asked |-> {}, save |-> "idle", granted |-> {}, loose |-> {}, dropped |-> {}]
Fresh(init) == [Down EXCEPT !.phase = "directed", !.init = init]
Gone == [Down EXCEPT !.phase = "gone"]
Up(w) == win[w].phase \notin {"down", "gone"}
Quiet == [phase |-> "off", manifest |-> {}, todo |-> {}, pruned |-> FALSE]

-----------------------------------------------------------------------------
(* The registry and the stores. *)

Grants(r, w) == owner[r] \in {None, w}

claimProject(r, w) == IF Grants(r, w) THEN [owner EXCEPT ![r] = w] ELSE owner

LooseWindows == {w \in Labels : win[w].loose # {}}
MayLoosen ==
    /\ Cardinality(LooseWindows) < MaxLoose
    /\ Apart => main.phase = "off" /\ closing = None

\* A registry that does not answer stops nobody: the root counts as granted.
Claims(r, w) ==
    {[granted |-> Grants(r, w), owner |-> claimProject(r, w),
      loose |-> IF Grants(r, w) THEN win[w].loose \ {r} ELSE win[w].loose]}
    \cup {unheard \in {[granted |-> TRUE, owner |-> owner, loose |-> win[w].loose \cup {r}]} : MayLoosen}

Released(w) == [r \in Roots |-> IF owner[r] = w THEN None ELSE owner[r]]

\* A missing value falls back to the cache, and a cache with content moves into
\* the store.  The cache of a value that the store has is never read.
hydrated(w) == IF snap[w] # Absent THEN snap[w] ELSE cache[w]
hydrate(w) ==
    /\ snap' = IF hydrated(w) # {} THEN [snap EXCEPT ![w] = hydrated(w)] ELSE snap
    /\ cache' = [cache EXCEPT ![w] = {}]

-----------------------------------------------------------------------------
(* A window boots. *)

\* The root a window was created for comes before its snapshot.
claimInit(w) ==
    /\ win[w].phase = "directed"
    /\ IF win[w].init = None
       THEN /\ win' = [win EXCEPT ![w].phase = "hydrate"]
            /\ UNCHANGED owner
       ELSE \E claim \in Claims(win[w].init, w) :
            /\ owner' = claim.owner
            /\ win' = [win EXCEPT ![w].phase = "hydrate", ![w].init = None, ![w].loose = claim.loose,
                                  ![w].open = IF claim.granted /\ @ = {} THEN {win[w].init} ELSE @]
    /\ UNCHANGED <<snap, cache, slots, main, closing>>

\* The store may not answer, and what it answers may not restore: either way the
\* window goes on without.
hydrateSnapshot(w) ==
    /\ win[w].phase = "hydrate"
    /\ \/ /\ win' = [win EXCEPT ![w].phase = "live"]
          /\ UNCHANGED <<snap, cache>>
       \/ /\ hydrate(w)
          /\ \E phase \in IF hydrated(w) = {} THEN {"live"} ELSE {"live", "claim"} :
                win' = [win EXCEPT ![w].phase = phase,
                                   ![w].read = IF hydrated(w) = {} THEN "empty" ELSE "projects",
                                   ![w].left = IF phase = "claim" THEN hydrated(w) ELSE {},
                                   ![w].dropped = IF phase = "claim" THEN {} ELSE hydrated(w)]
    /\ UNCHANGED <<slots, owner, main, closing>>

\* The roots of the snapshot are claimed one after the other.
claimRoots(w, r) ==
    /\ win[w].phase = "claim" /\ r \in win[w].left
    /\ \E claim \in Claims(r, w) :
          /\ owner' = claim.owner
          /\ win' = [win EXCEPT ![w].left = @ \ {r}, ![w].loose = claim.loose,
                                ![w].granted = IF claim.granted THEN @ \cup {r} ELSE @,
                                ![w].dropped = IF claim.granted THEN @ ELSE @ \cup {r}]
    /\ UNCHANGED <<snap, cache, slots, main, closing>>

\* What was granted is restored, unless the window has a project by now or the
\* restore breaks.
restoreProjects(w) ==
    /\ win[w].phase = "claim" /\ win[w].left = {}
    /\ \/ /\ win[w].open = {}
          /\ win' = [win EXCEPT ![w].phase = "live", ![w].granted = {}, ![w].open = win[w].granted]
       \/ win' = [win EXCEPT ![w].phase = "live", ![w].granted = {},
                             ![w].dropped = @ \cup win[w].granted]
    /\ UNCHANGED <<snap, cache, slots, owner, main, closing>>

-----------------------------------------------------------------------------
(* Projects open and close. *)

\* An open asks the registry first; the owner of the root is focused instead.
askProject(w, r) ==
    /\ Up(w) /\ Cardinality(win[w].asked) < MaxOps /\ r \notin win[w].asked
    /\ \E claim \in Claims(r, w) :
          /\ owner' = claim.owner
          /\ win' = IF claim.granted THEN [win EXCEPT ![w].asked = @ \cup {r}, ![w].loose = claim.loose]
                    ELSE win
    /\ UNCHANGED <<snap, cache, slots, main, closing>>

addProject(w, r) ==
    /\ r \in win[w].asked
    /\ win' = [win EXCEPT ![w].asked = @ \ {r}, ![w].open = @ \cup {r}, ![w].dropped = @ \ {r}]
    /\ UNCHANGED <<snap, cache, slots, owner, main, closing>>

\* What a close leaves behind.  An open of the same root that was granted before
\* it, and adds its project after it, goes on without the registry's word.
Closed(w, r) ==
    [win EXCEPT ![w].open = @ \ {r}, ![w].dropped = @ \cup ({r} \cap hydrated(w)),
                ![w].loose = IF r \in win[w].asked THEN @ \cup {r} ELSE @ \ {r}]

\* Mutant: the release does not wait for the answer of the close.
ReleasesRefused(w, r) ==
    /\ r \in win[w].open
    /\ win' = IF Cardinality(win[w].open) = 1 THEN win ELSE Closed(w, r)
    /\ owner' = [owner EXCEPT ![r] = None]
    /\ UNCHANGED <<snap, cache, slots, main, closing>>

\* The last project of a window stays; the release may be lost.
closeProjectReleased(w, r) ==
    /\ r \in win[w].open /\ Cardinality(win[w].open) > 1
    /\ r \in win[w].asked => MayLoosen
    /\ win' = Closed(w, r)
    /\ owner' \in {owner, IF owner[r] = w THEN [owner EXCEPT ![r] = None] ELSE owner}
    /\ UNCHANGED <<snap, cache, slots, main, closing>>

-----------------------------------------------------------------------------
(* A window saves itself. *)

\* Mutant: a snapshot that could not be read counts as an empty one.
MayPersistBlind(w) == win[w].read \in {"unread", "empty"} \/ win[w].open # {}

\* A window that restored a project has one for good: its last one stays open.
mayPersist(w) ==
    /\ win[w].read # "unread"
    /\ win[w].read = "empty" \/ win[w].open # {}

\* A snapshot that could not be read is read again before the first write, and
\* believed only when it is empty.
settleUnread(w) ==
    /\ win[w].phase = "live" /\ win[w].save = "idle" /\ win[w].read = "unread"
    /\ hydrate(w)
    /\ win' = IF hydrated(w) = {} THEN [win EXCEPT ![w].read = "empty"] ELSE win
    /\ UNCHANGED <<slots, owner, main, closing>>

\* Mutant: the slot is written before the snapshot.
SlotFirst(w) ==
    /\ win[w].phase = "live" /\ win[w].save = "idle"
    /\ mayPersist(w)
    /\ slots' = IF win[w].open = {} THEN slots \ {w} ELSE slots \cup {w}
    /\ UNCHANGED <<snap, cache, owner, win, main, closing>>

\* The debounced save, or the one of a page that goes: the cache is written at
\* once, the store may not take it.
persistOnce(w) ==
    /\ win[w].phase = "live" /\ win[w].save = "idle"
    /\ mayPersist(w)
    /\ \/ /\ snap' = [snap EXCEPT ![w] = win[w].open]
          /\ cache' = [cache EXCEPT ![w] = {}]
          /\ win' = [win EXCEPT ![w].save = "slot", ![w].dropped = {}]
       \/ /\ cache' = IF snap[w] = Absent THEN [cache EXCEPT ![w] = win[w].open] ELSE cache
          /\ UNCHANGED <<snap, win>>
    /\ UNCHANGED <<slots, owner, main, closing>>

\* The slot names the roots just saved; the store merges it into the manifest in
\* one transaction.
upsertSlot(w) ==
    /\ win[w].save = "slot"
    /\ slots' \in {slots, IF snap[w] = {} THEN slots \ {w} ELSE slots \cup {w}}
    /\ win' = [win EXCEPT ![w].save = "idle"]
    /\ UNCHANGED <<snap, cache, owner, main, closing>>

-----------------------------------------------------------------------------
(* Windows come and go. *)

\* A label nobody has used.
New(w) == win[w].phase = "down" /\ snap[w] = Absent /\ cache[w] = {}

\* window.open, and an open from the control plane, for a root that nobody owns.
openWindow(w, r) ==
    /\ New(w) /\ owner[r] = None
    /\ win' = [win EXCEPT ![w] = Fresh(r)]
    /\ UNCHANGED <<snap, cache, slots, owner, main, closing>>

\* The renderer starts over; the window, and what it owns, stays.
reload(w) ==
    /\ Up(w)
    /\ win' = [win EXCEPT ![w] = Fresh(None)]
    /\ UNCHANGED <<snap, cache, slots, owner, main, closing>>

\* window.close edits the manifest by itself (bound: one editor at a time): it
\* reads it ...
forgetRead(w) ==
    /\ Up(w) /\ closing = None /\ main.phase = "off"
    /\ Apart => LooseWindows = {}
    /\ closing' = [label |-> w, manifest |-> slots]
    /\ UNCHANGED <<snap, cache, slots, owner, win, main>>

\* ... and writes it without the slot, if it had one.
forgetWrite(w) ==
    /\ closing # None /\ closing.label = w
    /\ slots' = IF w \in closing.manifest THEN closing.manifest \ {w} ELSE slots
    /\ closing' = None
    /\ UNCHANGED <<snap, cache, owner, win, main>>

\* A window that is closed, by window.close or by hand, takes its traces with it.
destroy(w) ==
    /\ Up(w)
    /\ win' = [win EXCEPT ![w] = Gone]
    /\ owner' = Released(w)
    /\ snap' = [snap EXCEPT ![w] = Absent]
    /\ cache' = [cache EXCEPT ![w] = {}]
    /\ slots' = slots \ {w}
    /\ UNCHANGED <<main, closing>>

\* The application ends, in whatever step its windows are, and starts again.
restart ==
    /\ win' = [w \in Labels |-> IF win[w] = Gone THEN Gone ELSE Down]
    /\ owner' = [r \in Roots |-> None]
    /\ closing' = None
    /\ main' = [Quiet EXCEPT !.phase = "manifest"]
    /\ UNCHANGED <<snap, cache, slots>>

-----------------------------------------------------------------------------
(* The control plane reopens the windows of the manifest. *)

\* Nothing is reopened unless the manifest was read and it is known which
\* windows live.
respawnList ==
    /\ main.phase = "manifest"
    /\ main' \in {Quiet} \cup
          {[main EXCEPT !.phase = "slots", !.manifest = slots, !.todo = todo] :
               todo \in {{}, {w \in slots : w \in Labels => ~Up(w)}}}
    /\ UNCHANGED <<snap, cache, slots, owner, win, closing>>

\* Only a window its user emptied loses its slot; one without a snapshot keeps
\* it, and so does one of an earlier version.  Older slots come first.
respawnSlot(w) ==
    /\ main.phase = "slots" /\ w \in main.todo
    /\ w \in Labels => main.todo \cap OldLabels = {}
    /\ IF snap[w] = {}
       THEN /\ main' = [main EXCEPT !.todo = @ \ {w}, !.manifest = @ \ {w}, !.pruned = TRUE]
            /\ UNCHANGED win
       ELSE /\ main' = [main EXCEPT !.todo = @ \ {w}]
            /\ win' \in {win, IF snap[w] # Absent /\ w \in Labels /\ ~Up(w)
                              THEN [win EXCEPT ![w] = Fresh(None)] ELSE win}
    /\ UNCHANGED <<snap, cache, slots, owner, closing>>

\* The manifest is written as it was read, without the empty ones; the first
\* run opens a project of its own.
respawnEnd ==
    /\ main.phase = "slots" /\ main.todo = {}
    /\ slots' = IF main.pruned THEN main.manifest ELSE slots
    /\ main' = Quiet
    /\ win' \in {win} \cup {[win EXCEPT ![w] = Fresh(r)] : w \in {x \in Labels : main.manifest = {} /\ New(x)},
                                                           r \in Roots}
    /\ UNCHANGED <<snap, cache, owner, closing>>

\* A snapshot that cannot be read ends the respawn, and nothing is pruned.
respawnFails ==
    /\ main.phase = "slots" /\ main.todo # {}
    /\ main' = Quiet
    /\ UNCHANGED <<snap, cache, slots, owner, win, closing>>

-----------------------------------------------------------------------------

\* The store of an earlier run, and slots of an earlier version.
Init ==
    /\ snap \in [Labels \cup OldLabels -> {Absent, {}, Roots}]
    /\ \A w \in Labels : snap[w] # {}
    /\ \A w \in OldLabels : snap[w] # Roots
    /\ cache = [w \in Labels |-> {}]
    /\ slots = {w \in Labels : snap[w] \notin {Absent, {}}} \cup OldLabels
    /\ owner = [r \in Roots |-> None]
    /\ win = [w \in Labels |-> Down]
    /\ main = [Quiet EXCEPT !.phase = "manifest"]
    /\ closing = None

Next ==
    \/ \E w \in Labels :
        \/ claimInit(w) \/ hydrateSnapshot(w) \/ restoreProjects(w)
        \/ settleUnread(w) \/ persistOnce(w) \/ upsertSlot(w)
        \/ reload(w) \/ forgetRead(w) \/ forgetWrite(w) \/ destroy(w)
        \/ \E r \in Roots :
              \/ claimRoots(w, r) \/ askProject(w, r) \/ addProject(w, r)
              \/ closeProjectReleased(w, r) \/ openWindow(w, r)
    \/ restart \/ respawnList \/ respawnEnd \/ respawnFails
    \/ \E w \in Labels \cup OldLabels : respawnSlot(w)

Spec == Init /\ [][Next]_vars

-----------------------------------------------------------------------------
(* Properties. *)

\* A root is open in one window at most, the one the registry names, whatever
\* boots, reloads and closes beside it: an open elsewhere is sent there.  Apart
\* from roots a window took without the registry's word: its claim failed
\* (projectRegistry.ts:24), or it closed the root while it was opening it.
RootOpenOnce == \A w \in Labels : \A r \in win[w].open \ win[w].loose : owner[r] = w

\* What is known is not overwritten by what is not: a project that is stored for a
\* window is missing from what is stored next only if the renderer that writes
\* knows why.  It closed it, the registry denied it, or its own restore broke or
\* came after another project: then it is given up (README, known disagreements).
\* A snapshot that could not be read is nobody's to write.
KnownIsKept ==
    [][\A w \in Labels : win'[w] # Gone => hydrated(w) \ hydrated(w)' \subseteq win[w].dropped]_vars

\* The manifest never runs ahead: a live window that it lists has a snapshot with
\* projects to reopen, in whatever step the application ends.
SlotHasSnapshot ==
    \A w \in Labels : Up(w) /\ w \in slots => snap[w] \notin {Absent, {}}

\* The respawn takes the slot of no window that could still be reopened: one that
\* is not there loses it only when its snapshot says that it was emptied, not when
\* there is none.  (A window that is there may lose it: see SlotsAreKept.)
RespawnKeepsSlots ==
    [][main.phase = "slots" /\ main' = Quiet
          => \A w \in slots \ slots' : snap[w] = {} \/ (w \in Labels /\ Up(w))]_vars

\* No save forgets a project its renderer does not know of, and the respawn forgets
\* no window that it could have reopened.  (It writes the manifest back as it read
\* it, so a window that is up may lose the slot it wrote meanwhile.)
NothingKnownIsLost == KnownIsKept /\ RespawnKeepsSlots

\* Not checked (README, known disagreements).  The comment on
\* window_manifest_upsert (windowBoot.ts:259): the manifest is not
\* edited by reading it first, so no window's save loses the slot of another one.
SlotsAreKept ==
    [][\A w \in Labels : Up(w) /\ (closing = None \/ closing.label # w) /\ w \in slots /\ Up(w)'
          => w \in slots']_vars
=============================================================================
