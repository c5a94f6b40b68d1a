------------------------------ MODULE PluginHost ------------------------------
(***************************************************************************)
(* The plugins of one window (src/src/state/plugins.ts with                *)
(* plugins/dependencyGraph.ts, plugins/loader.ts and the plugin commands): *)
(* what is listed, what is consented to and enabled, and what runs.  Every *)
(* operation is asynchronous: it reads the disk and starts code between    *)
(* two steps, while authors edit, other windows install and revoke, and    *)
(* consent is given.  A manifest is its version: permissions, code and     *)
(* declarations of one folder carry the version they were written in.      *)
(***************************************************************************)
EXTENDS Integers, FiniteSets

CONSTANTS Ids,             \* plugin ids
          Deps,            \* the dependencies an id declares
          Services,        \* ids whose manifest declares a service
          Workspaces,      \* ids with a development source
          Nil,             \* nothing
          Flights,         \* bound: operations under way at a time
          MaxVersion,      \* bound: versions of a manifest
          MaxAsks,         \* bound: operations asked for
          MaxEvents        \* bound: edits, other windows' writes and restarts

Versions == 0 .. MaxVersion
Sources == {"installed", "dev"}
Runtimes == [ver : Versions, source : Sources, status : {"disabled", "enabled", "error"}]
Instances == [ver : Versions, code : Versions, source : Sources]

ASSUME PluginAssumption ==
    /\ Deps \in [Ids -> SUBSET Ids]
    /\ MaxVersion \in Nat \ {0}
    /\ Nil \notin Ids \cup Versions /\ Nil \notin Runtimes /\ Nil \notin Instances

VARIABLES inst,            \* disk: version installed, 0 for none
          work,            \* disk: version of the workspace, 0 when it is unusable
          selected,        \* core: ids whose development source is selected
          ledger,          \* core: services bound
          saved,           \* core: consents and enabledIds as persisted
          plugins,         \* what the last scan listed
          consents,        \* version consented to, 0 for none
          enabledIds,      \* to activate again after a reload
          active,          \* instances that run
          prefetched,      \* bundles fetched by the last reload
          op,              \* operations under way
          withdrawn,       \* history: consents another window took back
          asks, events     \* counted for the bounds

disk == <<inst, work, selected>>
memory == <<plugins, consents, enabledIds, active, prefetched>>
counts == <<asks, events>>
pluginVars == <<disk, ledger, saved, memory, op, withdrawn, counts>>

Nothing == [i \in Ids |-> Nil]
Idle == [at |-> "idle", cmd |-> "none", id |-> Nil, said |-> "no", todo |-> {}, known |-> {},
         level |-> {}, removed |-> {}, held |-> Nothing]
To(f, at) == [op EXCEPT ![f].at = at]
Says(f, said) == [op EXCEPT ![f] = [Idle EXCEPT !.said = said]]

persist == saved' = [consents |-> consents', enabledIds |-> enabledIds']
Listed(ps) == {i \in Ids : ps[i] # Nil}
Running == {i \in Ids : active[i] # Nil}
setRuntime(ps, i, status) == IF ps[i] = Nil THEN ps ELSE [ps EXCEPT ![i].status = status]
syncLedger(ps) == {i \in Listed(ps) \cap Services : ps[i].status = "enabled"}

-----------------------------------------------------------------------------
(* The dependency graph. *)

\* What a listed plugin declares, and what that declares, and so on: the
\* smallest set that holds it all.
Declares(i, known) == IF i \in known THEN Deps[i] ELSE {}
Reaches(i, known) ==
    {j \in Ids : \A S \in SUBSET Ids :
        Declares(i, known) \subseteq S /\ (\A k \in S : Declares(k, known) \subseteq S) => j \in S}

activationChain(i, ps) == {j \in Listed(ps) : j = i \/ j \in Reaches(i, Listed(ps))}
\* Mutant: only the direct dependents are found.
directDependents(i, known) == {j \in known \ {i} : i \in Deps[j]}

transitiveDependents(i, known) == {j \in known \ {i} : i \in Reaches(j, known)}

\* The levels of a reload: nothing it depends on is still to start.  A cycle goes
\* up as one level.
activationLevel(ids) ==
    LET free == {i \in ids : Deps[i] \cap ids = {}} IN IF free = {} THEN ids ELSE free

\* The order of an enable: what i depends on first, i last, a cycle in any order.
chainLevel(ids, i, known) ==
    {j \in ids : /\ j = i => ids = {i}
                 /\ \A k \in Deps[j] \cap ids : j \in Reaches(k, known)}

\* The rounds of the search for what depends on i, and the order it gives: what the
\* last round found goes first, in any order.
around(i, known) ==
    LET found[n \in 0 .. Cardinality(Ids)] ==
            IF n = 0 THEN {i}
            ELSE found[n - 1] \cup {j \in known : Deps[j] \cap found[n - 1] # {}}
    IN found

cascadeLevel(ids, i, known) ==
    {j \in ids : \A n \in 0 .. Cardinality(Ids) :
                    j \in around(i, known)[n] => ids \subseteq around(i, known)[n]}

-----------------------------------------------------------------------------
(* Manifests, consent and activation. *)

parseRuntime(ver, source) ==
    IF ver = 0 THEN Nil ELSE [ver |-> ver, source |-> source, status |-> "disabled"]

consentValid(consent, runtime) == consent = runtime.ver

pendingConsentChain(i, ps, given) ==
    {j \in activationChain(i, ps) : ps[j].source # "dev" /\ ~consentValid(given[j], ps[j])}

onDisk(i, runtime) == IF runtime.source = "dev" THEN work[i] ELSE inst[i]

\* A bundle fetched by the last reload is preferred to the file.
bundle(i, runtime) == IF prefetched[i] # Nil THEN prefetched[i] ELSE onDisk(i, runtime)

activated(i, runtime) == [active EXCEPT ![i] = [ver |-> runtime.ver, code |-> bundle(i, runtime),
                                                source |-> runtime.source]]
deactivated(i) == [active EXCEPT ![i] = Nil]

-----------------------------------------------------------------------------
(* reload: everything goes down, the disk is scanned, the gate decides what  *)
(* comes up again.                                                           *)

\* An operation is asked for when a flight is free.
Ask(f, cmd, i) ==
    /\ op[f].at = "idle" /\ asks < MaxAsks
    /\ asks' = asks + 1

reload(f) ==
    /\ Ask(f, "reload", Nil)
    /\ op' = [op EXCEPT ![f] = [Idle EXCEPT !.at = "down", !.cmd = "reload", !.todo = Running]]
    /\ UNCHANGED <<disk, ledger, saved, memory, withdrawn, events>>

deactivateAll(f) ==
    /\ op[f].at = "down"
    /\ IF op[f].todo = {} THEN op' = To(f, "scan") /\ UNCHANGED active
       ELSE \E i \in op[f].todo : /\ active' = deactivated(i)
                                  /\ op' = [op EXCEPT ![f].todo = @ \ {i}]
    /\ UNCHANGED <<disk, ledger, saved, plugins, consents, enabledIds, prefetched, withdrawn, counts>>

\* The scan may fail: the operation is refused with nothing running.
scan(f) ==
    /\ op[f].at = "scan"
    /\ op' \in {Says(f, "no"),
                [op EXCEPT ![f].at = "units",
                           ![f].held = [i \in Ids |-> parseRuntime(inst[i], "installed")]]}
    /\ UNCHANGED <<disk, ledger, saved, memory, withdrawn, counts>>

\* A selected source stands for its id even when it cannot be used.
merged(held) == [i \in Ids |-> IF i \in selected THEN parseRuntime(work[i], "dev") ELSE held[i]]
ready(ps) == {i \in enabledIds \cap Listed(ps) : pendingConsentChain(i, ps, consents) = {}}

listUnits(f) ==
    /\ op[f].at = "units"
    /\ plugins' = merged(op[f].held)
    /\ op' = [op EXCEPT ![f].at = "fetch", ![f].todo = ready(plugins'), ![f].held = Nothing]
    /\ UNCHANGED <<disk, ledger, saved, consents, enabledIds, active, prefetched, withdrawn, counts>>

\* The bundles that are there, or none when the route to them is down.
prefetch(f) ==
    /\ op[f].at = "fetch"
    /\ \E got \in {{}, {i \in op[f].todo : plugins[i] # Nil /\ onDisk(i, plugins[i]) # 0}} :
          prefetched' = [i \in Ids |-> IF i \in got THEN onDisk(i, plugins[i]) ELSE Nil]
    /\ op' = To(f, "up")
    /\ UNCHANGED <<disk, ledger, saved, plugins, consents, enabledIds, active, withdrawn, counts>>

\* The next level of what is to come up: all of it at once after a reload, one
\* at a time, and only what does not run, when it is enabled.
Enabling(f) == op[f].cmd \in {"enable", "reloadOne"}

nextLevel(f) ==
    /\ op[f].at = "up" /\ op[f].level = {} /\ op[f].todo # {}
    /\ IF Enabling(f)
       THEN \E i \in chainLevel(op[f].todo, op[f].id, op[f].known) :
              LET runs == plugins[i] = Nil \/ (plugins[i].status = "enabled" /\ active[i] # Nil)
              IN op' = [op EXCEPT ![f].todo = @ \ {i}, ![f].level = IF runs THEN {} ELSE {i},
                                  ![f].held[i] = plugins[i]]
       ELSE LET up == activationLevel(op[f].todo)
            IN op' = [op EXCEPT ![f].todo = @ \ up, ![f].level = {i \in up : plugins[i] # Nil},
                                ![f].held = [i \in Ids |-> IF i \in up THEN plugins[i] ELSE Nil]]
    /\ UNCHANGED <<disk, ledger, saved, memory, withdrawn, counts>>

\* One instance has come up.
activateRuntime(f, i) ==
    /\ op[f].at = "up" /\ i \in op[f].level /\ bundle(i, op[f].held[i]) # 0
    /\ active' = activated(i, op[f].held[i])
    /\ plugins' = setRuntime(plugins, i, "enabled")
    /\ enabledIds' = IF Enabling(f) THEN enabledIds \cup {i} ELSE enabledIds
    /\ op' = [op EXCEPT ![f].level = @ \ {i}, ![f].held[i] = Nil]
    /\ UNCHANGED <<disk, ledger, saved, consents, prefetched, withdrawn, counts>>

\* Code that cannot be read, or throws, leaves no instance.  It ends an enable
\* half way, and nothing else.
activateFails(f, i) ==
    /\ op[f].at = "up" /\ i \in op[f].level
    /\ plugins' = setRuntime(plugins, i, "error")
    /\ op' = IF Enabling(f) THEN Says(f, "no")
             ELSE [op EXCEPT ![f].level = @ \ {i}, ![f].held[i] = Nil]
    /\ UNCHANGED <<disk, ledger, saved, consents, enabledIds, active, prefetched, withdrawn, counts>>

allUp(f) ==
    /\ op[f].at = "up" /\ op[f].level = {} /\ op[f].todo = {}
    /\ ledger' = IF op[f].cmd = "devLoad" THEN ledger ELSE syncLedger(plugins)
    /\ op' = Says(f, "ok")
    /\ UNCHANGED <<disk, memory, withdrawn, counts>>
    /\ IF Enabling(f) THEN persist ELSE UNCHANGED saved

-----------------------------------------------------------------------------
(* enable, disable, reloadOne *)

\* The gate of enable: already on, refused, or the chain comes up.
enabling(f, cmd, i) ==
    IF plugins[i] = Nil THEN Says(f, "no")
    ELSE IF plugins[i].status = "enabled" /\ active[i] # Nil THEN Says(f, "ok")
    ELSE IF pendingConsentChain(i, plugins, consents) # {} THEN Says(f, "no")
    ELSE [op EXCEPT ![f] = [Idle EXCEPT !.at = "up", !.cmd = cmd, !.id = i,
                                        !.todo = activationChain(i, plugins),
                                        !.known = Listed(plugins)]]

enable(f, i) ==
    /\ Ask(f, "enable", i) /\ plugins[i] # Nil
    /\ op' = enabling(f, "enable", i)
    /\ UNCHANGED <<disk, ledger, saved, memory, withdrawn, events>>

disable(f, i) ==
    /\ Ask(f, "disable", i) /\ plugins[i] # Nil
    /\ active' = deactivated(i)
    /\ op' = [op EXCEPT ![f] = [Idle EXCEPT !.at = "disabling", !.cmd = "disable", !.id = i]]
    /\ UNCHANGED <<disk, ledger, saved, plugins, consents, enabledIds, prefetched, withdrawn, events>>

disabled(f) ==
    /\ op[f].at = "disabling"
    /\ LET i == op[f].id
       IN /\ plugins' = setRuntime(plugins, i, "disabled")
          /\ enabledIds' = enabledIds \ {i}
    /\ ledger' = syncLedger(plugins')
    /\ op' = IF op[f].cmd = "disable" THEN Says(f, "ok") ELSE To(f, "enable")
    /\ UNCHANGED <<disk, consents, active, prefetched, withdrawn, counts>>
    /\ persist

reloadOne(f, i) ==
    /\ Ask(f, "reloadOne", i) /\ plugins[i] # Nil
    /\ op' = [op EXCEPT ![f] = [Idle EXCEPT !.at = "reread", !.cmd = "reloadOne", !.id = i,
                                            !.held[i] = plugins[i]]]
    /\ UNCHANGED <<disk, ledger, saved, memory, withdrawn, events>>

\* A manifest that cannot be used is refused, with the instance still up.
reread(f) ==
    /\ op[f].at = "reread"
    /\ LET i == op[f].id
           p == op[f].held[i]
           fresh == parseRuntime(onDisk(i, p), p.source)
       IN IF fresh = Nil
          THEN op' = Says(f, "no") /\ UNCHANGED <<plugins, active>>
          ELSE /\ plugins' = [plugins EXCEPT ![i] = [fresh EXCEPT !.status = p.status]]
               /\ active' = deactivated(i)
               /\ op' = [op EXCEPT ![f].at = "disabling", ![f].held[i] = Nil]
    /\ UNCHANGED <<disk, ledger, saved, consents, enabledIds, prefetched, withdrawn, counts>>

reenable(f) ==
    /\ op[f].at = "enable"
    /\ op' = enabling(f, op[f].cmd, op[f].id)
    /\ UNCHANGED <<disk, ledger, saved, memory, withdrawn, counts>>

-----------------------------------------------------------------------------
(* Consent *)

\* Given for the version that is listed at that moment; not an operation that
\* waits for anything.
grantConsent(i) ==
    /\ plugins[i] # Nil /\ consents[i] # plugins[i].ver
    /\ consents' = [consents EXCEPT ![i] = plugins[i].ver]
    /\ UNCHANGED <<disk, ledger, plugins, enabledIds, active, prefetched, op, withdrawn, counts>>
    /\ persist

\* Mutant: the rounds are not reversed.
NearestToGo(f) ==
    LET found == around(op[f].id, op[f].known)
    IN {j \in op[f].todo : \A n \in DOMAIN found :
                              op[f].todo \cap found[n] # {} => j \in found[n]}

NextToGo(f) == cascadeLevel(op[f].todo, op[f].id, op[f].known)

\* Taken back with everything that depends on it, the farthest first.
revokeConsent(f, i) ==
    /\ Ask(f, "revoke", i) /\ plugins[i] # Nil
    /\ LET affected == transitiveDependents(i, Listed(plugins)) \cup {i}
       IN op' = [op EXCEPT ![f] = [Idle EXCEPT !.at = "revoke", !.cmd = "revoke", !.id = i,
                                               !.known = Listed(plugins),
                                               !.todo = affected, !.removed = affected]]
    /\ UNCHANGED <<disk, ledger, saved, memory, withdrawn, events>>

revokeOne(f) ==
    /\ op[f].at = "revoke"
    /\ \E i \in NextToGo(f) :
          /\ active' = deactivated(i)
          /\ plugins' = setRuntime(plugins, i, "disabled")
          /\ op' = [op EXCEPT ![f].todo = @ \ {i}]
    /\ UNCHANGED <<disk, ledger, saved, consents, enabledIds, prefetched, withdrawn, counts>>

revoked(f) ==
    /\ op[f].at = "revoke" /\ op[f].todo = {}
    /\ consents' = [consents EXCEPT ![op[f].id] = 0]
    /\ enabledIds' = enabledIds \ op[f].removed
    /\ ledger' = syncLedger(plugins)
    /\ op' = Says(f, "ok")
    /\ UNCHANGED <<disk, plugins, active, prefetched, withdrawn, counts>>
    /\ persist

-----------------------------------------------------------------------------
(* What is installed, removed and developed. *)

remove(f, i, cascade) ==
    /\ Ask(f, "remove", i) /\ plugins[i] # Nil
    /\ LET dependents == transitiveDependents(i, Listed(plugins))
           order == IF cascade THEN dependents \cup {i} ELSE {i}
       IN op' = IF dependents # {} /\ ~cascade THEN Says(f, "no")
                ELSE [op EXCEPT ![f] = [Idle EXCEPT !.at = "erase", !.cmd = "remove", !.id = i,
                                                    !.known = Listed(plugins), !.todo = order]]
    /\ UNCHANGED <<disk, ledger, saved, memory, withdrawn, events>>

\* A workspace is the user's: only its selection goes.  A call that fails ends
\* the removal where it is, after the instance went down.
removeDev(f, i) ==
    /\ op[f].at = "erase" /\ i \in NextToGo(f)
    /\ plugins[i] # Nil /\ plugins[i].source = "dev"
    /\ UNCHANGED consents
    /\ active' = deactivated(i)
    /\ \/ op' = Says(f, "no") /\ UNCHANGED <<selected, plugins, enabledIds, saved>>
       \/ /\ selected' = selected \ {i}
          /\ plugins' = [plugins EXCEPT ![i] = Nil]
          /\ enabledIds' = enabledIds \ {i}
          /\ persist
          /\ op' = [op EXCEPT ![f].todo = @ \ {i}, ![f].removed = @ \cup {i}]
    /\ UNCHANGED <<inst, work, ledger, prefetched, withdrawn, counts>>

removeInstalled(f, i) ==
    /\ op[f].at = "erase" /\ i \in NextToGo(f)
    /\ plugins[i] # Nil /\ plugins[i].source = "installed"
    /\ LET was == active[i] # Nil
       IN /\ active' = deactivated(i)
          /\ plugins' = IF was THEN setRuntime(plugins, i, "disabled") ELSE plugins
          /\ ledger' = IF was THEN syncLedger(plugins') ELSE ledger
          /\ \/ /\ op' = Says(f, "no")
                /\ enabledIds' = IF was THEN enabledIds \ {i} ELSE enabledIds
                /\ UNCHANGED <<inst, consents>>
                /\ IF was THEN persist ELSE UNCHANGED saved
             \/ /\ inst' = [inst EXCEPT ![i] = 0]
                /\ consents' = [consents EXCEPT ![i] = 0]
                /\ enabledIds' = enabledIds \ {i}
                /\ persist
                /\ op' = [op EXCEPT ![f].todo = @ \ {i}, ![f].removed = @ \cup {i}]
    /\ UNCHANGED <<work, selected, prefetched, withdrawn, counts>>

removedAll(f) ==
    /\ op[f].at = "erase"
    /\ \/ /\ op[f].todo = {}
          /\ op' = [op EXCEPT ![f].at = "down", ![f].todo = Running]
       \/ /\ \E i \in NextToGo(f) : plugins[i] = Nil
          /\ op' = Says(f, "no")
    /\ UNCHANGED <<disk, ledger, saved, memory, withdrawn, counts>>

\* The installer publishes the folder, then the window scans again.
install(f, i) ==
    /\ Ask(f, "install", i) /\ inst[i] < MaxVersion
    /\ inst' = [inst EXCEPT ![i] = @ + 1]
    /\ op' = [op EXCEPT ![f] = [Idle EXCEPT !.at = "down", !.cmd = "install", !.todo = Running]]
    /\ UNCHANGED <<work, selected, ledger, saved, memory, withdrawn, events>>

unitDevRemove(f, i) ==
    /\ Ask(f, "unitDevRemove", i) /\ i \in selected
    /\ selected' = selected \ {i}
    /\ op' = [op EXCEPT ![f] = [Idle EXCEPT !.at = "down", !.cmd = "unitDevRemove", !.todo = Running]]
    /\ UNCHANGED <<inst, work, ledger, saved, memory, withdrawn, events>>

devLoad(f, i) ==
    /\ Ask(f, "devLoad", i) /\ i \in Workspaces
    /\ LET rt == parseRuntime(work[i], "dev")
       IN op' = IF rt = Nil THEN Says(f, "no")
                ELSE [op EXCEPT ![f] = [Idle EXCEPT !.at = "select", !.cmd = "devLoad", !.id = i,
                                                    !.held[i] = rt]]
    /\ UNCHANGED <<disk, ledger, saved, memory, withdrawn, events>>

\* Selected, the instance of the other source down.
devSelect(f) ==
    /\ op[f].at = "select"
    /\ LET i == op[f].id
       IN /\ selected' = selected \cup {i}
          /\ active' = deactivated(i)
          /\ op' = [op EXCEPT ![f].at = "put", ![f].todo = enabledIds \cap {i}]
    /\ UNCHANGED <<inst, work, ledger, saved, plugins, consents, enabledIds, prefetched, withdrawn, counts>>

\* Listed; up again if it was enabled.
devPut(f) ==
    /\ op[f].at = "put"
    /\ plugins' = [plugins EXCEPT ![op[f].id] = op[f].held[op[f].id]]
    /\ op' = [op EXCEPT ![f].at = "up", ![f].todo = {}, ![f].level = op[f].todo]
    /\ UNCHANGED <<disk, ledger, saved, consents, enabledIds, active, prefetched, withdrawn, counts>>

-----------------------------------------------------------------------------
(* Around the window: authors, other windows, and its own end. *)

Event == events < MaxEvents /\ events' = events + 1

edit(i) ==
    /\ Event /\ i \in Workspaces
    /\ \E ver \in 0 .. MaxVersion : ver # work[i] /\ work' = [work EXCEPT ![i] = ver]
    /\ UNCHANGED <<inst, selected, ledger, saved, memory, op, withdrawn, asks>>

\* Another window updates a plugin or removes it.
elsewhere(i) ==
    /\ Event /\ inst[i] # 0
    /\ \E ver \in {0} \cup (inst[i] + 1 .. MaxVersion) : inst' = [inst EXCEPT ![i] = ver]
    /\ UNCHANGED <<work, selected, ledger, saved, memory, op, withdrawn, asks>>

\* Another window takes a consent back: what it persists is applied here.
applyRevoke(i) ==
    /\ Event /\ saved.consents[i] # 0
    /\ LET gone == {j \in Ids : i \in Deps[j]} \cup {i}
       IN /\ consents' = [saved.consents EXCEPT ![i] = 0]
          /\ enabledIds' = saved.enabledIds \ gone
    /\ withdrawn' = withdrawn \cup {i}
    /\ UNCHANGED <<disk, ledger, plugins, active, prefetched, op, asks>>
    /\ persist

\* The window's program starts again (a reload of the web view, a crash) and
\* loads its plugins.
boot(f) == [g \in Flights |-> IF g = f THEN [Idle EXCEPT !.at = "down", !.cmd = "reload"] ELSE Idle]

restart(f) ==
    /\ Event
    /\ plugins' = [i \in Ids |-> Nil]
    /\ active' = [i \in Ids |-> Nil]
    /\ prefetched' = [i \in Ids |-> Nil]
    /\ consents' = saved.consents /\ enabledIds' = saved.enabledIds
    /\ op' = boot(f)
    /\ UNCHANGED <<disk, ledger, saved, withdrawn, asks>>

-----------------------------------------------------------------------------
\* A start with every plugin installed, consented to and enabled.
PluginInit ==
    /\ inst = [i \in Ids |-> 1]
    /\ work = [i \in Ids |-> IF i \in Workspaces THEN 1 ELSE 0]
    /\ selected = {} /\ ledger = {} /\ withdrawn = {} /\ asks = 0 /\ events = 0
    /\ saved = [consents |-> [i \in Ids |-> 1], enabledIds |-> Ids]
    /\ plugins = [i \in Ids |-> Nil] /\ active = plugins /\ prefetched = plugins
    /\ consents = saved.consents /\ enabledIds = saved.enabledIds
    /\ \E f \in Flights : op = boot(f)

Asked(f) ==
    \/ reload(f)
    \/ \E i \in Ids : \/ enable(f, i) \/ disable(f, i) \/ reloadOne(f, i) \/ revokeConsent(f, i)
                     \/ install(f, i) \/ unitDevRemove(f, i) \/ devLoad(f, i)
                     \/ \E cascade \in BOOLEAN : remove(f, i, cascade)
Underway(f) ==
    \/ deactivateAll(f) \/ scan(f) \/ listUnits(f) \/ prefetch(f) \/ nextLevel(f) \/ allUp(f)
    \/ disabled(f) \/ reread(f) \/ reenable(f) \/ revokeOne(f) \/ revoked(f) \/ removedAll(f)
    \/ devSelect(f) \/ devPut(f)
    \/ \E i \in Ids : \/ activateRuntime(f, i) \/ activateFails(f, i)
                     \/ removeDev(f, i) \/ removeInstalled(f, i)
Around ==
    \/ \E i \in Ids : grantConsent(i) \/ edit(i) \/ elsewhere(i) \/ applyRevoke(i)
    \/ \E f \in Flights : restart(f)

PluginNext == (\E f \in Flights : Asked(f) \/ Underway(f)) \/ Around
PluginSpec == PluginInit /\ [][PluginNext]_pluginVars

-----------------------------------------------------------------------------
(* Properties *)

\* What runs is listed as enabled, under the manifest it was started with: no
\* step of an operation, and none that fails, leaves an instance behind the list
\* (reload, reloadOne, devLoad, removeSingle).
NothingRunsUnseen ==
    \A i \in Running : /\ plugins[i] # Nil
                       /\ plugins[i].status = "enabled"
                       /\ plugins[i].ver = active[i].ver /\ plugins[i].source = active[i].source

\* An installed plugin runs under a consent given for exactly its version,
\* whatever was updated, granted or removed while it was coming up (plugins.ts:3);
\* what another window took back stays up until this window reloads.
RunsConsented ==
    \A i \in Running : active[i].source = "dev" \/ i \in withdrawn \/ consents[i] = active[i].ver

\* What an operation says is so when it says it: an enabled plugin runs with its
\* whole chain, and what was disabled or revoked neither runs nor comes back.
RepliesAreTrue ==
    [][\A f \in Flights :
          (op[f].at # "idle" /\ op'[f].at = "idle" /\ op'[f].said = "ok") =>
             LET i == op[f].id
                 down(j) == active'[j] = Nil /\ j \notin saved'.enabledIds
             IN CASE op[f].cmd \in {"enable", "reloadOne"} ->
                       \A j \in Listed(plugins') : (j = i \/ j \in Reaches(i, Listed(plugins'))) =>
                          active'[j] # Nil /\ (j \in saved'.enabledIds \/ withdrawn' # {})
                  [] op[f].cmd = "disable" -> down(i)
                  [] op[f].cmd = "revoke" ->
                       \A j \in Listed(plugins') : (j = i \/ i \in Reaches(j, Listed(plugins'))) => down(j)
                  [] OTHER -> TRUE]_pluginVars

\* Where every way from one plugin to another is as long, the order of the cascade
\* has the dependents first (dependencyGraph.ts:22).  Where two ways differ it has not:
\* of two plugins of one round the one the other depends on may go first.
DependentsFirst ==
    \A known \in SUBSET Ids : \A i \in known :
        \A ids \in SUBSET (transitiveDependents(i, known) \cup {i}) :
            \A j \in cascadeLevel(ids, i, known), k \in ids : j \notin Deps[k]

\* Nothing that needs a removed plugin is left running while the removal goes on
\* and when it is done (remove: the cascade), in a graph with DependentsFirst.
NoneRunsOrphaned ==
    \A f \in Flights : (op[f].cmd = "remove" /\ op[f].at \in {"erase", "down"}) =>
        \A i \in Running : Deps[i] \cap op[f].removed = {}

\* What runs: listed, consented to, never orphaned.
RunningIsSound == NothingRunsUnseen /\ RunsConsented /\ NoneRunsOrphaned

\* Not checked (README, known disagreements): plugin.reload with an id starts the
\* code that belongs to the manifest it has
\* just read (plugins.ts:99, "매니페스트를 디스크에서 다시 읽고 신선 코드로 켠다"),
\* when the disk did not change once more in between.
CodeIsFresh ==
    [][\A f \in Flights : (op[f].cmd = "reloadOne" /\ op[f].at = "up") =>
          \A i \in op[f].level :
             (active[i] = Nil /\ active'[i] # Nil /\ onDisk(i, op[f].held[i]) = active'[i].ver)
                => active'[i].code = active'[i].ver]_pluginVars
=============================================================================
