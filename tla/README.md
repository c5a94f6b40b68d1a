# Verification of soksak in TLA+

soksak is a desktop terminal and workspace. Its shells outlive the window, the
application and even the daemon that holds them; its plugins run behind ports and
consents; its window is arranged by commands that programs send as well as people.
This directory holds TLA+ models of the parts where steps of several actors meet, TLC
runs that check them on small instances, and TLAPS proofs that carry the safety
results to every instance.

Paths below are relative to the repository's root (`src/` in `PROJECT.json`), and `ui/` stands
for `src/`, the TypeScript of the window. `ptyd` is `crates/soksak-ptyd/src/main.rs`, `client` is
`crates/soksak-core/src/ptyd.rs`.

## 1. The system

```
  window (TypeScript): workspace store, view focus, content views, plugin host,
        |              window snapshots, command bus
        | ipc                     | ports            | native child views
  shell: tauri | electron     plugin runtimes        |
        |   |  \
        |   |   cored (helper process)        soksak-schedule   soksak-service
        |   |
        |   Link (one per process): control socket, stream socket
        +------------------------------- ptyd ------------------------------+
                                          |  one reader thread per session
                                        shells
```

The application is a shell (Tauri, or Electron over the helper process `cored`) around
Rust crates that know no framework, and a TypeScript program that is the same
in both. Terminals live in a daemon of their own, `ptyd`, which the first client starts
and which hands its sessions to a newer build of itself without losing a shell.

### 1.1 Components, their state, operations, and what makes them correct

| component | state | operations | correct when |
|---|---|---|---|
| PTY session (`ptyd`, `ring.rs`, `tee.rs`) | ring of raw output with its end coordinate; attached stream and attach generation; unacknowledged bytes and pause; closed; tee subscribers | reader loop (wait, read, push, close, reap); attach with and without replay; Ack, Kill, Detach; end of a stream handler; subscribe, drain, deregister | no byte is lost, repeated or reordered without a gap notice; back pressure bounds what is in flight and always ends; the end of a shell is seen, and only after its last byte; every loss of a slow subscriber is told once |
| Handover (`ptyd` do_handoff, run_handoff_adopt; `client` reattach_live_session) | snapshot, descriptors, two daemons' registries, the ack channel, each client's cursor | PrepareUpgrade, spawn, adopt, ack, commit, roll back; reattach, gone, give up | no shell of the snapshot is hung up on; a terminal's stream continues; a living shell is never reported gone; the handover ends |
| Boot and sockets (`ptyd` run, serve, the adopter's wait; `client` Link, ensure_daemon) | two socket paths, the processes, each client's connection | probe, unlink, bind, serve, exit; connect, spawn, wait | one daemon owns both paths; taking them over costs no shell; a client gets a daemon whatever is left on disk |
| Registry and checkpoints (`ptyd` Registry, CreateOrAttach, StoreBlob) | sessions by id, pane keys, next id, the blob and temporary files | create or attach, kill by window, close, reap, store (find, open, write, rename), shutdown; reattach by id | one session per pane; a client never shows another pane's shell; a checkpoint is whole and is not removed from under a living pane |
| Scheduler (`crates/soksak-schedule`, `frameworks/tauri/src/schedule.rs`) | jobs with instance (epoch), next time, lease, pending poke, attempt; the thread's wait; fires under way; the store | register, cancel, cancel by owner, poke, claim, park, the two kinds of fire, complete, retry, reload | a job never runs twice at once and no lease leaks; no wake-up is missed; no job loses its next fire; what was acknowledged survives a crash |
| Workspace store (`ui/state/sessions.ts` and the commands over it) | projects, spaces, panes, tabs, split trees, sidebar, focus history, the rail's binding | every command that changes them, clicks, intents | no id dangles; answers name what exists; only closing loses tabs; focus returns where it was; the rail shows the tab in focus |
| View focus (`ui/views/viewFocus.ts`) | mounts and their leases, one focus intent with retries, deliveries, waiters | register, unregister, request, clear, deliver, retry, wait | exactly the requested view is told; no command waits for a view that is there |
| Content views (`ui/framework/tauri/contentViews.ts`) | a native child per slot: wish, applied visibility, last rectangle, lock of a transaction, drains | open, close, visible, slot and window events, layout transactions, restoring a lost child | at rest the child is where its slot is and visible as wanted |
| Window snapshots (`ui/state/windowBoot.ts`, `persistGuard.ts`, `projectRegistry.ts`) | snapshot per window, the manifest of slots, claims on roots | boot, save, open and close a project, close, respawn, reload | nothing known is overwritten or forgotten; a root is open once |
| Plugin host (`ui/state/plugins.ts`, `plugins/dependencyGraph.ts`) | what is listed, consented to, enabled, running | reload, enable, disable, consent, revoke, remove, install, development sources | what runs is listed, consented to, never orphaned; answers are true |
| Plugin wire (`packages/plugin-spec/src/pluginRuntime.ts`) | a session per end: provider, requests, subscriptions, document, resources, streams | every message, either way, validated at both ends | only messages that raced are refused; both ends tell one story |
| Command bus (`frameworks/tauri/src/ipc.rs`, `ui/commands/`) | requests waiting, the page's listeners, readiness | request, emit, resend, handle, activate, reply, time out, reload | a page executes a request once; none is lost while the page lives |
| Electron shell (`frameworks/electron/src`) | queue of resizes with proofs; the connection to cored, calls on it, the process started, the control host | resize, frames, layouts; dial, call, ensure, stand up, reap, attach | a receipt is true and each is answered; a call gets its own answer; a failed start leaves no process |
| Everything else | see `PROJECT.json` | | |

### 1.2 How they interact

* **Control socket**: a connection is a thread of `ptyd` that serves one request
  at a time. A `Link` in each client process shares one connection among its
  callers and reconnects - starting a daemon if nobody answers - once it breaks.
* **Stream socket**: a connection per attach. The handler writes the reply and
  the replay and hands the socket to the session; from then on the session's
  reader thread writes to it, under the session's lock.
* **Acknowledgements** go from renderer to shell to `ptyd` on the control socket,
  so they are ordered neither with the stream nor with a later attach.
* **Two daemons**: between adoption and exit both processes hold every master.
* **Scheduler**: one thread that claims and parks, a thread per fire, command
  threads; the host's store is written outside the scheduler's lock.
* **The window** is one thread: code between two awaits is a step, and what it read before an
  await may be old after it. Other windows share with it the manifest, the consents and the
  claims on roots.
* **Commands** come over the control socket to the host, which emits an event to the
  window's page and waits for its reply; the page may not listen yet, may be reloaded, or may
  have to start a plugin first.
* **Native views and windows** answer later, in order, and are moved by the window
  manager as well.

### 1.3 What is hard here

Replay against live output; acknowledgements that arrive late; two readers of one terminal;
unlink and bind of a path others are connecting to; look-up and insertion in two critical
sections; a fire that completes after its job was replaced; a wake-up between the decision
to sleep and the sleep; a focus delivered to a view that is being mounted again; a frame
written for a slot that has moved; a consent taken back while code loads; two ends of a port that decide
on different states; an answer that belongs to a connection that is gone. `PROJECT.json` lists every such place with
its line and the property that watches it ("hazards").

## 2. The modules

| module | models | code in |
|---|---|---|
| `RawRing` | the ring of raw output and what a replay takes from it | `ring.rs` |
| `TeeBuf` | a subscriber's bounded buffer of data and gap frames | `tee.rs` |
| `PtySession` (uses both) | one session: reader thread, control requests, attach streams, subscribers, clients | `ptyd` run_reader, handle_stream, handle_subscribe, control requests; `client` stream thread |
| `TerminalStream` | the abstract promise: a terminal shows the shell's output in order and passes over bytes only by saying so | `docs/RESTORE.md` |
| `PtyHandoff` (uses `RawRing`, implements `TerminalStream`) | two daemon generations, their readers, the clients that follow | do_handoff, run_handoff_adopt, reattach_live_session |
| `HandoffFds` | the descriptor plan of the handover, one `dup2` a step | plan_handoff_fds, the child's closure |
| `PtyBoot` | processes, socket files, probe, upgrade, clients that start daemons | run, serve, the adopter's wait; Link, ensure_daemon |
| `PtyRegistry` | registry, pane keys, ids, checkpoints, clients that remember ids | CreateOrAttach, StoreBlob, KillByWindow, Shutdown |
| `Scheduler` | jobs, thread, fires, commands, store, restart | `soksak-schedule/src/lib.rs`, `tauri/src/schedule.rs` |
| `SplitTree`, `SidebarLayout`, `RailArrangement` | the algorithms: split trees and gutters, the sidebar's groups, the rail's station and the swap of children | `ui/state/`, `ui/lib/` |
| `Workspace`, `WorkspaceCommands` | the store, and each command over it | `ui/state/sessions.ts`, `ui/commands/catalog.ts` |
| `ViewFocus` | mounts, intent, deliveries, waiters | `ui/views/viewFocus.ts` and its callers |
| `ContentView` | one native child and its slot | `ui/framework/tauri/contentViews.ts`, `useArrangementPhase` |
| `WindowStore` | snapshots, manifest, claims | `ui/state/windowBoot.ts`, `persistGuard.ts`, `projectRegistry.ts` |
| `PluginHost` | the plugins of one window | `ui/state/plugins.ts`, `plugins/`, plugin commands |
| `RuntimeSession`, `RuntimeDuplex` | one end's validator, and two of them over a port | `packages/plugin-spec/src/pluginRuntime.ts` |
| `CommandBus` | a request's way to one window's page and back | `tauri/src/ipc.rs`, `ui/commands/executor.ts`, `hostReady` |
| `ResizeSettlement` | the queue of resizes and their proofs | `electron/src/` resize ledger |
| `ElectronBridge` | dial, calls, standing cored up, the control host | `electron/src/` bridge |

`MC*` modules give TLC names and small sets, and where two models share a run they
say which of them runs (`part`, chosen at the start; the models share no variable, and fairness is
that of the part that runs). `*_proofs` hold the theorems.

### 2.1 How state and actions correspond to the code

**Grain.** One action is one critical section, one task of the event loop between two awaits,
or one system call where other processes can come between (`PtyBoot`, the writes of `StoreBlob`,
the `dup2`s). Code that runs between two locks or awaits is a state between two actions.

**Bytes.** A byte of shell output is its own position in the output. A ring is
the record `[buf, seq]`, `seq` one past the last byte, as in `RawRing`; streams carry
bytes and not lengths, so a stream that skips, repeats or reorders shows it.

**Time** is a nondeterministic choice: a timeout may come at any moment its code allows.

**`PtySession`.** `pc` is the reader thread (`check` the pause, `read`, `push`
under the lock, `close`, `reap`). `attached`, `attachSeq`, `unacked`, `paused`,
`closed`, `subscribers` are the fields of `SessState`. Each connection has
its socket's bytes in flight (`pipe`), the handler thread with the generation it
remembers (`handler`, `mySeq`), and a client that counts what it was shown, its
cursor, and what it has not acknowledged. The reply, the replay and the switch to
live are one action because `handle_stream` holds the lock throughout.

**`PtyHandoff`.** `Daemons` are the two generations, `masters` the descriptors
each holds: a shell is hung up on when the last one closes. `Read` is either
process's reader. `Adopt` chooses whether duplicating the descriptor fails.
`RollbackHandoff` is the old daemon's five seconds running out, a failed spawn or the
new daemon's death. The old daemon's memory dies with it, bytes its readers hold included. In the
run, the descriptor plan is carried out first and then forgotten.

**`PtyBoot`.** A path is the process whose listener its file belongs to, dead or
alive; a connect succeeds if that process lives. `stage` names the next system call.

**`PtyRegistry`.** `LookUp` and `Spawn` are the two critical sections of
CreateOrAttach. `StoreFind`, `StoreOpen`, `StoreFill` and `StoreRename` are
StoreBlob with write_sealed_doc_atomic; `Die` keeps files and clears the rest.

**`Scheduler`.** A fire is a record with the step its thread is at; `loop` is the
scheduler thread. A command is several actions (table, then store), as in the
host. A trigger "every" stands for interval and cron: both are the next slot of a clock
strictly after an instant. `Restart` reloads the store in any order.

**`Workspace`, `WorkspaceCommands`.** The store is one record; each command is one action that applies
the function the code applies, with its refusals, and records whether its answer was true. Sizes
are weights of the split tree. Drawing, motion and text are left out.

**`ViewFocus`.** A view's containers are numbered; each holds a lease on the mount. The intent is the record of
the code, the queue of the microtask is `queued`. The layout and the store only ask (`transferFocus`, clear).

**`ContentView`.** `sf` is SurfaceState with the coroutines over it, `nat` the native child, `inFlight` the
native calls whose answers are awaited: calls run and answer in the order they are sent. `deaf` remembers what was not
heard and not made good since: a "resize" that found the surface locked or opening, a "mutation" that found it locked or was
given up with its transaction, a child "restored" under a lock. One label. A fresh open only when there is no child; no close while an
open or an "alive" question is pending; surfaces without a slot, external participants and explicit bounds are left
out; the mutation observer runs in the task that changed the DOM.

**`WindowStore`.** A window boots (`hydrate`, `claim`), lives, saves, closes and is respawned; `main` is the main process that
reads the manifest. One editor of the manifest at a time, a save and its landing are one step, the Rust
registry of claims answers without failing (external).

**`PluginHost`.** `op[f]` is an operation under way at the step after its last await, with what it read
before (`held`, `known`, `todo`, `removed`). A manifest is its version. Deactivation is atomic; the prefetch of bundles is all
or none; removing one plugin's files and list entry is one step with a failure branch; the sync of the service
ledger belongs to the step that ends the operation. Another window updates, removes or revokes. `withdrawn`
remembers which consents another window took back.

**`RuntimeSession`, `RuntimeDuplex`.** `session[e]` is an end's validator with `accept` as the code; `wire[e]` what `e` sent and is on its way. Each
message is validated where it is sent and where it arrives; one that is refused there is dropped, and `refused` remembers it. Formats, generations and sequence numbers are left out, and so are
local `close()` and `PendingTracker`. No deployed code puts the two ends together yet (`docs/PLUGINS.md` keeps the
contract for a later isolation): the composition is external.

**`CommandBus`.** `request` at the bridge, the page's `phase` (asking, listening, announced), the emitted events on their way,
what the page has seen. One window, one reload.

**`ResizeSettlement`.** The ledger's queue, the transaction at its head with its proofs (native size, frames, layouts of guests), leases on the shared
frame subscription. A size is a number, there is one scale factor; the window manager may refuse a size.

**`ElectronBridge`.** The connection, the calls on it and those who wait for it, the runs of `ensure` that overlap, the processes started or found, what a
control host was told. Streams, `client.close()`, undelivered commands and the list of announced names are left out.

### 2.2 Abstract specification

`TerminalStream` says what a user of a terminal is promised. `PtyHandoff` maps
onto it (`Stream(s)`), and `HandoffIsInvisible` says that every step of the
handover is a step of it or a stutter, for shells that write nothing between the
snapshot and the old daemon's exit. TLC checks it and `TheHandoverIsInvisible` proves it for
every instance. For a shell that does write then it is false (section 5).

## 3. The runs

| run | question | instance |
|---|---|---|
| `session_attach` | are replay, live output, back pressure and end of file exact when two clients attach, replace one another, die and acknowledge late? | 2 connections (symmetric), ring of 2 bytes, high/low water 3/1, reads up to 2, 5 bytes from coordinate 0 or 2, `try_clone` may fail |
| `session_flow` | is every coordinate told to a slow subscriber once, in bounded memory? does every pause end, is every dead shell reaped and every dead client released? | 1 connection, 1 subscriber of cap 1, ring of 1, water 2/0, 4 bytes; fairness |
| `daemon` | does an upgrade with rollbacks and a second attempt lose a shell, a byte or a terminal? is there one session per pane, and a whole and kept checkpoint? | registry: 2 panes in 1 window, 1 creator, 1 storer, 2 ids, deaths; handover: every plan over descriptors 3 to 8 of up to 4 copies, then 1 session, ring of 2, 3 bytes, 2 attempts; fairness |
| `boot` | does the daemon that serves own both paths, and does a client always get one? | 2 clients, 3 processes, kill anywhere; fairness |
| `scheduler` | is the lease exact, no wake-up missed, no job unarmed, nothing acknowledged lost? | a named and a generated id; a retried one-shot, a recurring process job, a reconcile job; 1 command thread, 2 registrations, time 0 and 1, 1 crash; fairness |
| `workspace` | do ids resolve, does the rail show the tab in focus, do tabs survive everything but a close, does focus return where it was? | stores of up to 6 things, or a pair of projects; every command with every argument |
| `views` | is exactly the requested view told? is the native child where the slot is, and shown as wanted? | 2 views of 2 containers, 2 retries, 1 caller; a slot of 2 places, 2 changes, 2 resizes, 2 questions, 1 move, 1 detachment; fairness |
| `windows` | is nothing known forgotten and no root open twice through boot, save, close, respawn and reload? | 2 windows (symmetric), 2 roots, 1 slot of an earlier life, 1 operation per window at a time |
| `plugins` | is what runs consented to and never orphaned, and is every answer true? | a chain of 3 plugins, 2 versions, 2 requests, 1 event of another window |
| `wire` | are only messages that raced refused, and do both ends tell one story? | eight kinds of traffic, each with up to 5 ids, 2 pending, 2 revisions, 2 chunks, 2 in flight; fairness of delivery |
| `bus` | does a page run a request once, are its answers true, is every request served? | 2 requests, 2 pages (one reload), kinds core, plugin, quit, refused, missing; fairness |
| `shell` | is each receipt of a resize true, does each call get its own answer, do failed starts leave no process? | two pieces of the resize ledger (queue with 2 guests, shared frames); the bridge with 2 calls, 2 processes, 2 runs of `ensure`; fairness |

**Several models in one run.** `daemon`, `views`, `wire` and `shell` put two or more models behind
`part`: it is chosen in the initial state and never changes, the chosen model runs, the others
stay in an initial state of theirs. The models share no variable, so each is explored as if alone.

**Why the bounds are enough.** The ring is smaller than what is written, so replay meets
its three cases (whole, cut with a gap, empty); reads of two bytes against a
ring of two evict everything at once, and reads of two against a high mark of three
overshoot it. Two connections are what replacement needs: a third adds another
replaced client, and every property speaks of the attached one and of one other. The
handover needs one session, and two attempts let a rollback be followed by a
success. Three processes are an old daemon, a successor and a rival, or a
crashed one and two racing ones; `spent` records a kill that came when none was left to
start, the only thing beside a race that excuses a client without a daemon. Two panes in one window and two ids give an id
that was freed and another pane's; ids start again after a death. In the
scheduler two instances let a job be replaced while the older fire is still under
way, and a retry of one reaches both branches of `After`.

In the workspace a store of six things has a pane with two tabs beside a split one, and a pair of
projects has what a second project needs; arrangements with uneven sizes and three panes are looked
at but not continued, trees and sidebar are grown one at a time, and after the first of two projects closes the
run stops. Two containers of a view are a mount and its successor, two places and two resizes
let a slot come back to where it was. A chain of three plugins has one that depends and is depended on;
two versions are a prefetched and a current one. In the wire, two in flight let messages of both ends cross.
A single reload of a page is what the bus's `seen` and its resends are about.

**No run is vacuous.** Each property of a run has a mutant in
`PROJECT.json`: a plausible slip in the code (a dropped reset, a guard left out, a
poke forgotten, an off-by-one) under which the same run fails.

**Deadlock** checking is off everywhere: bounds end the output, the clock and the
attempts, and a session whose shell ended really stops. That
nothing waits for ever is asked by the liveness properties instead.

### 3.1 Fairness

* Reader threads, stream handlers and tee writers are threads that never stop on
  their own: weak fairness on their steps. The read of shell output is *not* fair: a
  shell may be silent.
* A client that keeps its stream open keeps reading it and acknowledges what was
  parsed (`client`'s stream thread; the renderer's parser callback). A
  client may also die or close at any time; nothing forces it to.
* Handover: the old daemon waits with a timeout, so spawn-or-roll-back and each
  step after it happen; no fairness makes the new daemon succeed. A client reattaches or learns
  that its session is gone.
* `boot`: processes run to their next system call and a client without a daemon
  tries again (`Link::request`). Crashes and upgrades are never forced.
* `scheduler`: only the scheduler's own thread is fair. That a fire ends is not
  assumed, so nothing is concluded from it.
* `views`: the microtask delivers a queued focus; native calls are answered, an animation
  ends, observers and window events report, a taken lock is granted and a transaction is
  committed or cancelled.
* `wire`: what was sent arrives.
* `bus`: a page boots (registers, listens, announces), handles what it was sent, the host emits, resends and
  gives up what it must. Nothing is assumed of timeouts, activations, the end of a command or its reply.
* `shell`: the queue is drained and its timer fires, while frames need not come; the
  bridge takes its own steps, and nothing is assumed of `cored`.

No strong fairness is used.

## 4. The proofs

`tlapm` checks every theorem without bounds on connections, ring size, watermarks,
read sizes, subscribers, descriptors, panes, processes, plugins or requests. Assumptions are
the named ASSUMEs of the modules, which TLC evaluates in the runs; where a theorem
needs more, its statement says so, and the table names it.

| module | theorem | needs | along |
|---|---|---|---|
| `RawRing_proofs` | lemmas `PushKeepsTail`, `SinceIsExact`: a ring is a suffix of the output; a replay is exactly the bytes from its start, or from the gap's end, to the ring's end | | definitions |
| `PtySession_proofs` | `TypeCorrect`, `TheStreamIsTrue`, `TheFlowIsSound`, `TheTeeIsSound` | | `SessionInv /\ TeeInv` |
| `PtyDaemon_proofs` | `RegistryTypeCorrect`, `ThePanesAreTrue`, `IdsAreNotReused` | `OneCreator` | `RegistryInv`, `OwnId` |
| | `TheCheckpointsAreSound` | `OneCreator`, `OneStorer` | `CheckpointInv` |
| | `NoCopyDestroys`, `AllIsInherited` | | `FdsInv` |
| | `TheSocketsAreOwned` | | `BootInv` |
| | `ShellsAreKept` | | `HandInv` |
| | `TheHandoverIsInvisible` (refinement of `TerminalStream`) | | `HandInv`, `Aligned` |
| `Scheduler_proofs` | `TheFiresAreExact`, `OrphansAreCancelled` | | `SchedInv` |
| | `AcknowledgedIsStored` | `OneAtATime` | `SchedInv`, `StoreIsCurrent` |
| `Window_proofs` | `TheFocusIsSound` | | `FocusInv` |
| | `TheSlotsAreStored`, `WhatIsKnownIsKept` | | `StoreInv` |
| | `RootsAreOwned` | `OneOperation` | `RootInv` |
| | `TheSurfaceIsTrue`, `TheSurfaceIsShownInPlace` | | `SurfaceInv` |
| `Plugin_proofs` | `WhatRunsIsSound` | `OneFlight`, `DependentsFirst` | `PluginInv`, `CascadeIsClosed` |
| | `TheRepliesAreTrue` | `OneFlight` | `PluginInv` |
| | `TheBusIsSound` | | `BusInv` |
| `Wire_proofs` | `DropsAreRaces`, `TheEndsAgree` | `OneOpener` | `WireInv` |
| `ElectronShell_proofs` | `TheResizeIsSound`, `TheBridgeIsSound` | | `LedgerInv`, `BridgeInv` |

**What the extra hypotheses say.** `OneCreator`, `OneStorer`: one connection creates sessions, one stores
checkpoints, as one application's `Link` and one sidecar do. `OneAtATime`: one thread runs the scheduler's
commands, which the Tauri host's synchronous commands give; `cored` serves each connection
on a thread of its own, so there the theorem does not apply (section 5). `OneFlight`: one operation on plugins at a time in a window; with two, TLC
finds a plugin running that was revoked meanwhile. `DependentsFirst`: an order by rounds of breadth-first
search puts dependents before what they depend on, which holds where all paths between two plugins are equally long
(section 5). `OneOperation`: one opening or closing at a time in a window. `OneOpener`: the streams of a session are opened by one end; if both
open, two openings that cross at the limit are each dropped at the other end, and the ends disagree from then on. In each case the run's instance satisfies
the hypothesis, and the counterexample without it is real.

**Why the invariants are what they are.** The properties are not inductive alone.

* *Session.* `ReaderSync` ties `ring.seq` to `emitted` by the reader's program counter: without it a
  chunk could be pushed at the wrong place and end of file could overtake it. `PauseStopsReader` says
  that a pause holds the reader at its check and that, while there is none, a living shell's client is below the high mark: it makes
  "one read past" a bound. `LinkSync` says which connections may be attached, `TeeSync` the same of
  subscribers: without them a write could go to a socket ended before.
* *Registry.* `StillFree`: the pane a creator found free is still free. `OwnId`: until a death the id a
  client remembers is an id that was given to its pane. `CheckpointInv` follows the storer's four
  steps: what it holds is whole, and is of a session it found open.
* *Descriptors.* The plan's base lies above every source and above 3 (`PlanIsAbove`), so a target
  is never a source (`SourcesDistinct`); the table is the old one below the base and the copies made so far above it (`TableIsRight`).
* *Boot.* `InTurn`: what a process has done to the paths is what its stage says; `PathsOf`: who owns
  them at each stage; `HeirOf`: the successor named by an upgrade is the one that waits.
* *Handover.* `Roles` (which daemon is old, new, waiting, gone) and `Held` (who holds the masters of the
  snapshot's shells) keep the shells. For the refinement, `ReadersAt` and `TerminalAt` say where each reader and each terminal stands in
  the output: the abstract stream's "shown" is what they agree on.
* *Scheduler.* `FiresAreLinked` relates each fire's step to the lease of the instance it was claimed from,
  `JobsStayArmed` and `NoMissedWakeup` are inductive beside it. `StoreIsCurrent` says by how much the store may lag: by what the one
  command under way has yet to write.
* *Focus.* `TellsOne` (one delivery is on its way, of the intent's view), `LeasesInOrder` and `MountIsOwned`
  (the newest lease owns the mount), `NoWaiterSleeps` (who waits, waits for a view that is not there).
* *Windows.* `SlotsAreStored` and `RespawnKnows`: what the respawn read is what is stored, until it writes.
  `RootInv`: who has a root open has claimed it, at each step between claim and open.
* *Content views.* The adapter's functions turn one "world" (surface, child, calls in flight) into another, and so do the lemmas.
  `Settles` says which frame the calls in flight end with. With it: `Tracked` (that frame is where the child is, unless one owed will be
  forced: `OwesForce`, `DrainForces`), `Followed` (it is where the slot is, unless the loop or the drain will look again: `LooksAgain`,
  `DrainLooks`), `LockHolds` (a lock holds off the drain, and what was committed is where the child is or will be), `WishIsServed` (the applied visibility, the
  child's and the wish agree, or the loop goes round again). `Fitting` says of each call in flight which coroutine waits for it, `Orderly` which
  calls can be in flight together and in which order: without them an answer could record a frame over a later one.
  A surface that is shown was neither owed a frame nor has one in flight, which is `TheSurfaceIsShownInPlace`.
* *Plugins.* `StoreIsSound` (what runs is listed, consented to in the version it runs, its dependencies enabled) and `FlightIsSound`, which says of the one operation under way
  what stays true over each await: its command fits its step (`CommandFits`), what it took down is down (`AllIsDown`, `TargetIsDown`, `RevokedIsDown`), what it will
  raise may be raised (`MayRise`, `ChainRises`, `RisesEnabled`). `CascadeIsClosed`: what is still to be removed contains
  all that depends on it.
* *Bus.* `SeenOnce`, `BootOrder` (what the page's phase implies), `IdleIsNowhere`, `OutcomesComeFromRuns`, `MissesAreTrue`,
  `QuitsAfterAnswer`.
* *Wire.* Each end decides on an older state of the other, and `WireInv` says how old. `Mine` is the part of a session that only one end's messages
  change; `Follows`: what the other end knows of that part, brought up to date by the messages on their way one after the other, is the part as it is, and each of them
  fits what those before it leave. `TablesAgree`, `RequestsFly`, `NewsFly`, `CancelsFly`: a request is new to the other end, an answer meets one who waits for it, and a
  cancellation its command. `UncrossedFind`: what a message names, and crossed nothing, is still there. `OneChunk`, `StreamsFly`: a chunk in flight is held,
  or it or its acknowledgement is on its way, once. With these the oldest message on its way is let in (`HeadIsTaken`), but for those that raced.
  `Accounted` follows a request until it is answered.
* *Resizes.* `SubscriptionsAreHeld`, `RequestsAreQueued`, `PendingIsTrue`: leases, queue and the transaction under way belong together.
* *Bridge.* `WireIsTrue` (what travels belongs to a connection and a call that waits for it), `WaitersJoin`, `ChildrenAreKnown`, `HostInforms`.

TLC checked each of these invariants on the run's instance before it was proved.

**Only model-checked.** All liveness (`SessionRecovers`, `NobodyHangs`, `Recovers`, `DueIsFired`, `IntentSettles`,
`ComesToRest`, `ClosesBoth`, `RequestsAreServed`, `EveryResizeSettles`, `EveryCallSettles`): fairness and ENABLED are outside the prover. The workspace's
properties (`IdsResolve`, `RailIsTrue`, `TabsSurvive`, `FocusFollowsHistory`): its modules follow trees with RECURSIVE
operators, about which nothing can be proved here. Nothing proved relies on what a recursive definition computes.

## 5. Known disagreements

The properties are stated so that they hold beside these; each is named here
so that the exception is not mistaken for a claim. They were met while modelling; TLC shows a
counterexample of those marked † when the hypothesis named is dropped or the
statement quoted is made a property. No run keeps one.

**Daemon and client**

* *Two creators* †. Two connections that both look a pane up before either inserts
  (`ptyd` 631, 648, 1110) create two sessions for it (`OneCreator`).
* *Cursor* †. `client` 325 starts its cursor at the reply's `seq`, which already includes the replay, and 334-337
  count the replay again: a later reattach would skip that much without a gap (`docs/RESTORE.md` 22). In one upgrade a
  session reattached to the successor is not reattached again, so `HandoffIsInvisible` holds.
* *Late sessions* †. `ptyd` 881 sets a flag that no handler reads (297 says otherwise); a shell created after the
  snapshot is hung up on with the old daemon.
* *A third daemon* †. `client` 400 asks with a request that starts a daemon; in the gap between the old daemon's
  exit and the successor's bind it takes the path, and the successor leaves with the shells it holds (`ptyd` 371, `docs/RESTORE.md` 18).
* *A failed `try_clone`.* `ptyd` 1245 counts the attach generation up before 1248 may
  fail and return. The client attached before is then released by its next failed write only. Modelled (`CloneMayFail`).
* *Two readers.* What the old daemon reads between its snapshot and its exit is in no
  ring of the new one (`ptyd` 1131). `HandoffIsInvisible` is claimed for shells silent meanwhile.
* *A failed duplication in the adopter* (`ptyd` 456-469) skips the session, and
  499-504 acknowledge all the same. `ShellsOutliveHandover` excepts `skipped`.
* *Two daemons booting at once* both pass the probe (`ptyd` 356); the slower unlinks the
  other's sockets (374-375), which serves on unreachable. `SocketsAreOwned` speaks of runs without such a race (`raced`).
* *A checkpoint stored after the close* (`ptyd` 722-742, found open, written after)
  is never removed and reads as a daemon's death (`docs/RESTORE.md` 13).
* *One temporary name* (`ptyd` 155) for all storers of a session: with two of them
  a torn file can be renamed into place (`OneStorer`).
* *Ids after a death* start again at one (`ptyd` 364) and the client compares the id only
  (`client` 404-407): it may attach to another pane's shell.
* *A second `PrepareUpgrade`* during a first (`ptyd` 797), descriptor numbers instead of duplicates in the
  snapshot (892), and a request sent again after its link broke (`client` 153) are hazards no property covers.

**Scheduler**

* *Generated ids* †. `lib.rs` 297, 328 restart the counter, and the next registration without an id replaces a
  reloaded job (325 and `schedule.rs` 67 say a generated id is new).
* *Concurrent commands* †. `cored` runs each connection on a thread (`main.rs` 189-192): a registration and a
  cancellation of one id can leave an acknowledged job out of the store (`OneAtATime`).
* A cancellation between the opening of a fire and `set_seq` leaves the
  fire waiting without backstop (`schedule.rs` 161); registering over a running
  one-shot loses the new time (`lib.rs` 337); a retry's idempotency key differs from the
  first try's (625); every missed slot of a recurring job is fired, not one (574); a job
  registered while the record of a finished one of its id is being deleted loses its
  own record (`raced`).

**Workspace and views**

* `splitWithNewView` makes no rail check (`sessions.ts` 697-699 say that the rail follows); `sidebar.left.move` onto itself or an
  unknown key answers ok and drops the view; `sidebar.left.resize` of a wrong length answers ok; merging an empty source leaves the target without an active tab;
  `moveViewToGroup` into an empty pane is reported as "no project"; a branch of `layout.apply` said to be unreachable
  (`catalog.ts` 1895) is reachable; `pane.list` with a project but no space answers with the caller's space; `space.switchScan`
  restores over the user's changes; `railArrangement.ts` 221-224 does not hold with uneven widths; `executeTracked` reads the registry again.
* `viewFocus.ts` 370 focuses a view that `transferFocus` would not; the retry loop can take the focus back from
  another (209-214).
* Content views: a hide asked for while `webview_open` is under way is lost † (`contentViews.ts` 546-547 promises the latest
  wish); after a commit whose slot moved meanwhile the lock is not released until the next transition (474-478); opening a living child again
  records the slot's rectangle though the child keeps its own; a close during an open leaves the claim and the observer; a forced resize is
  dropped while locked, opening or hidden; a close while a detached child is asked for revives it; a cancelled
  or failed preparation does not look at the slot again, so after a lock left behind by an earlier one the child stays off its slot; a hide,
  a resize and a show during one "showing" or "alive" call lose the forced frame; a show that follows a hide and a change of the slot while the loop
  writes its frame shows the frame of before, until the next round; a child restored during a glide has the open's answer record its own frame over the landed one.
* Two mounts of one plugin view have one `nativeHostId`: the earlier one's disposal removes the later one's entries;
  a failing `apply` in the visibility queue leaves its waiter; a sidecar that opens after disposal is leaked.

**Windows and plugins**

* `persistGuard.test.ts` 41 beside `mayPersist` after a failed restore; the respawn writes back the whole manifest
  it read (`windowBoot.ts` 290, 348, 406-408, and the comment at 259), so a slot written meanwhile is lost with more than one editor; a reload leaves roots claimed but not
  open; overlapping open and close of one root opens it twice † (`OneOperation`, `projectRegistry.ts` 5).
* `reloadOne` runs a bundle fetched before under a manifest read after (`plugins.ts` 457-460, 99); `disable` leaves dependents
  running and a later reload activates them without it; an `enable` that fails half-way leaves dependencies enabled and unsaved;
  `devLoad` does not sync the ledger; `unit_dev_remove` failing leaves the status; removing a development dependent leaves the installed copy
  listed; a reload whose scan fails leaves the old list with nothing running; another window's write between activation and save drops an id
  though the answer is ok.
* `dependencyGraph.ts` 22 ("safe order of removal") is false in a diamond † : with an application on a library and a base, and
  the library on the base, the library is removed while the application runs (`DependentsFirst`).

**Wire, bus and Electron shell**

* `pluginRuntime.ts`: a `dom.snapshot` or `dom.query` result refused at the node limit has already counted the revision up;
  a failed `provider.mount` stays "mounted"; two pending unsubscriptions and a reused id delete a new subscription; `maxPending` is
  shared by both directions, so a request of one end may be dropped because of the other's, without a word: if the other end has already
  counted on it (`Vital`: bootstrap, context, provider and plugin commands) the ends disagree from then on, and `RefusalsAreRaces` and `EndsAgree` are claimed until then
  (`NoneTooMany`); openings of streams by both ends that cross at the limit are dropped as well (`OneOpener`); `PendingTracker` never gives an unanswered request up.
* `executor.ts` 128 and `ipc.rs` 930 ("a request is run once") hold for a page, not over a reload; a command's reply counts after its caller was told TIMEOUT
  (`commandReplyTransaction.ts` 4-5), so `app_quit` runs although the caller was told it did not; a reload between reply and `app_quit` leaves the application
  running; `windowEvents.ts` resolves `ready` when `listen()` failed.
* Resizes: a `perform()` that throws synchronously leaves the queue running for ever; an old proof of a guest that did not lay out again is
  accepted; with a shared subscription a frame from before counts.
* Bridge: `ensureUp` runs `standUpControl` again, and the second host stays attached beside the first (`main.cjs` 475); a ready line during a reap
  resolves with a dying process; two overlapping runs of `ensure` can record a dead process as the owned one.

## 6. Not modelled, and why

* **Lock waiting and socket buffers.** A critical section is one step, so a write
  that blocks with the session locked, and the registry behind it, is invisible
  (`ptyd` 1144). The hazard is listed.
* **Time.** Timeouts are choices. That a give-up at three seconds comes before a
  takeover at five is a matter of numbers the models do not have.
* **Descriptor numbers' and process ids' reuse**, the token file, sealing and
  encryption, frames and serialisation, the output batcher.
* **The service manager, the project registry (Rust), the delivery batcher, the link's
  resend**: planned, below.
* **Store, vault, installer, watcher, command line, the remaining command catalogues, React components, framework
  adapters**: SQL, file formats, operating-system services, drawing or translations between
  interfaces; see the notes in `PROJECT.json`.

The models stand for about 8.5 % of the repository's 81,180 lines of implementation: the parts where steps of several actors meet, not
the whole program.

## 7. Plan

Modules still worth writing, in this order: `ServiceManager` (`crates/soksak-service/src/lib.rs`: bind, generations, hello,
dispatch with deadlines, crash and back-off, drain and restart; the code sets Ready at 808 and restarts at 572 without asking
whether it was unbound meanwhile); `PtyLink` (`client` 120-200: reconnection and resend); `PluginView` with its visibility queue;
`ProjectRegistry`; `PtyDelivery`, refining a queue; a composition of `PtySession` and `PtyHandoff`.

Proofs: every safety property and action property of the runs is now a theorem but for the workspace's, whose
modules would need trees as functions on paths instead of RECURSIVE operators; after that, the modules above.
