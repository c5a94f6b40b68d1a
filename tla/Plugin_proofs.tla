----------------------------- MODULE Plugin_proofs -----------------------------
(***************************************************************************)
(* Theorems about the plugins of one window (PluginHost), for any ids,      *)
(* dependencies and consents, and about the command bus that reaches the    *)
(* windows and their plugins (CommandBus), for any requests, any assignment  *)
(* of commands to them and any number of reloads.  The models share no       *)
(* variable.                                                                 *)
(***************************************************************************)
EXTENDS PluginHost, CommandBus, SequenceTheorems, TLAPS

-----------------------------------------------------------------------------
(* The plugins: what runs is listed, consented to and never orphaned, and what   *)
(* an operation says when it ends is so.  PluginInv ties every step of an        *)
(* operation to the lists it read before: what is to come up does not run and is *)
(* listed as it was read, what was taken back is down, what was cleared stays    *)
(* cleared.  CascadeIsClosed does the same for the order of a removal.           *)

\* One operation is under way at a time: nothing in the store keeps two apart
\* (README), so everything here is about windows that have one.
OneFlight == \A f, g \in Flights : f = g

Steps == {"idle", "down", "scan", "units", "fetch", "up", "disabling", "reread", "enable",
          "revoke", "erase", "select", "put"}
Rescans == {"reload", "remove", "install", "unitDevRemove"}
Commands == Rescans \cup {"none", "enable", "disable", "reloadOne", "revoke", "devLoad"}
Operations ==
  [at : Steps, cmd : Commands, id : Ids \cup {Nil}, said : {"no", "ok"}, todo : SUBSET Ids,
   known : SUBSET Ids, level : SUBSET Ids, removed : SUBSET Ids, held : [Ids -> Runtimes \cup {Nil}]]

PluginTypeOK ==
  /\ inst \in [Ids -> Versions] /\ work \in [Ids -> Versions] /\ selected \subseteq Ids
  /\ saved \in [consents : [Ids -> Versions], enabledIds : SUBSET Ids]
  /\ plugins \in [Ids -> Runtimes \cup {Nil}]
  /\ consents \in [Ids -> Versions] /\ enabledIds \subseteq Ids
  /\ active \in [Ids -> Instances \cup {Nil}]
  /\ prefetched \in [Ids -> Versions \cup {Nil}]
  /\ op \in [Flights -> Operations] /\ withdrawn \subseteq Ids

\* The store and the disk have the same consents; only enabledIds lag behind.
ConsentsAreSaved == saved.consents = consents

\* An operation is at a step of its command.
CommandFits(o) ==
  /\ o.at \in {"down", "scan", "units", "fetch"} => o.cmd \in Rescans
  /\ o.at = "up" => o.cmd \in Rescans \cup {"enable", "reloadOne", "devLoad"}
  /\ o.at = "disabling" => o.cmd \in {"disable", "reloadOne"}
  /\ o.at \in {"reread", "enable"} => o.cmd = "reloadOne"
  /\ o.at = "revoke" => o.cmd = "revoke"
  /\ o.at = "erase" => o.cmd = "remove"
  /\ o.at \in {"select", "put"} => o.cmd = "devLoad"
  /\ o.at \in {"disabling", "reread", "enable", "revoke", "erase", "select", "put"} => o.id \in Ids
  /\ o.at = "up" /\ o.cmd \in {"enable", "reloadOne"} => o.id \in Ids
  /\ o.at # "up" => o.level = {}

\* Nothing runs while the disk is scanned.
AllIsDown(o) ==
  /\ o.at = "down" => Running \subseteq o.todo
  /\ o.at \in {"scan", "units", "fetch"} => Running = {}

\* Consent is given, or was taken back by another window meanwhile.
Cleared(i) == plugins[i].source = "dev" \/ i \in withdrawn \/ consents[i] = plugins[i].ver

\* What is about to come up does not run, is listed as it was read, and may run.
MayRise(o) ==
  /\ o.at = "fetch" => \A i \in o.todo : plugins[i] # Nil /\ Cleared(i)
  /\ o.at = "up" =>
       /\ \A i \in o.todo \cup o.level : plugins[i] # Nil => Cleared(i)
       /\ \A i \in o.level : /\ active[i] = Nil /\ plugins[i] # Nil /\ o.held[i] # Nil
                             /\ o.held[i].ver = plugins[i].ver
                             /\ o.held[i].source = plugins[i].source
       /\ o.cmd \notin {"enable", "reloadOne"} =>
            o.todo \cap o.level = {} /\ \A i \in o.todo : active[i] = Nil

\* The instance an operation is about to replace is down.
TargetIsDown(o) ==
  /\ o.at \in {"disabling", "enable", "put"} => active[o.id] = Nil
  /\ o.at = "reread" => o.held[o.id] # Nil
  /\ o.at \in {"select", "put"} => o.held[o.id] # Nil /\ o.held[o.id].source = "dev"
  /\ o.at = "put" => o.todo \subseteq {o.id}

\* Of what a revocation affects, the rest is down.
RevokedIsDown(o) ==
  o.at = "revoke" =>
    /\ o.known = Listed(plugins)
    /\ o.removed = transitiveDependents(o.id, o.known) \cup {o.id}
    /\ \A i \in o.removed \ o.todo : active[i] = Nil

\* Of a chain that comes up, the rest runs.
ChainRises(o) ==
  o.at = "up" /\ o.cmd \in {"enable", "reloadOne"} =>
    /\ o.known = Listed(plugins)
    /\ \A i \in activationChain(o.id, plugins) : i \in o.todo \cup o.level \/ active[i] # Nil

\* What runs is enabled, unless another window took that back, and so is what a scan
\* brings up again.
RunningIsEnabled == withdrawn = {} => Running \subseteq enabledIds
RisesEnabled(o) ==
  withdrawn = {} =>
    /\ o.at \in {"fetch", "put"} => o.todo \subseteq enabledIds
    /\ o.at = "up" /\ o.cmd \notin {"enable", "reloadOne"} => o.todo \cup o.level \subseteq enabledIds

StoreIsSound ==
  /\ PluginTypeOK /\ ConsentsAreSaved /\ NothingRunsUnseen /\ RunsConsented /\ RunningIsEnabled
FlightIsSound(o) ==
  /\ CommandFits(o) /\ AllIsDown(o) /\ MayRise(o) /\ TargetIsDown(o)
  /\ RevokedIsDown(o) /\ ChainRises(o) /\ RisesEnabled(o)

PluginInv == StoreIsSound /\ \A f \in Flights : FlightIsSound(op[f])

\* What a removal leaves running needs nothing that it took or is to take, and what is
\* to go needs nothing that is gone.
CascadeIsClosed ==
  \A f \in Flights :
    /\ op[f].at = "erase" =>
         /\ op[f].todo \subseteq transitiveDependents(op[f].id, op[f].known) \cup {op[f].id}
         /\ op[f].id \in op[f].known /\ op[f].known \subseteq Ids
         /\ \A i \in Running : Deps[i] \cap (op[f].todo \cup op[f].removed) # {} => i \in op[f].todo
         /\ \A i \in op[f].todo : Deps[i] \cap op[f].removed = {}
    /\ op[f].at = "down" /\ op[f].cmd = "remove" =>
         \A i \in Running : Deps[i] \cap op[f].removed = {}

------------------------------------------------------------------------------
(* Types of an operation, and what one step leaves alone. *)

LEMMA IdleType ==
  /\ Idle \in Operations
  /\ Idle.level = {} /\ Idle.removed = {} /\ Idle.todo = {} /\ Idle.said = "no"
  BY PluginAssumption DEF Idle, Nothing, Operations, Steps, Commands

\* An operation that ends.
LEMMA SaysType ==
  ASSUME NEW f \in Flights, NEW said \in {"no", "ok"}, op \in [Flights -> Operations]
  PROVE  /\ Says(f, said) \in [Flights -> Operations]
         /\ Says(f, said)[f].at = "idle" /\ Says(f, said)[f].said = said
         /\ Says(f, said)[f].level = {}
<1>1. [Idle EXCEPT !.said = said] \in Operations BY IdleType DEF Operations
<1>2. [Idle EXCEPT !.said = said].at = "idle" BY IdleType DEF Idle, Operations
<1>3. [Idle EXCEPT !.said = said].said = said BY IdleType DEF Idle, Operations
<1>4. [Idle EXCEPT !.said = said].level = {} BY IdleType DEF Operations
<1> QED BY <1>1, <1>2, <1>3, <1>4 DEF Says

\* An operation that goes on.
LEMMA ToType ==
  ASSUME NEW f \in Flights, NEW at \in Steps, op \in [Flights -> Operations]
  PROVE  /\ To(f, at) \in [Flights -> Operations]
         /\ To(f, at)[f] = [op[f] EXCEPT !.at = at]
<1>1. [op[f] EXCEPT !.at = at] \in Operations BY DEF Operations
<1> QED BY <1>1 DEF To

LEMMA OpType ==
  ASSUME PluginInv, NEW f \in Flights
  PROVE  /\ op[f] \in Operations /\ op \in [Flights -> Operations]
         /\ FlightIsSound(op[f]) /\ StoreIsSound /\ PluginTypeOK
  BY DEF PluginInv, StoreIsSound, PluginTypeOK

\* With one flight the invariant speaks of that one.
LEMMA OfOne ==
  ASSUME OneFlight, NEW f \in Flights, StoreIsSound', FlightIsSound(op[f])'
  PROVE  PluginInv'
<1>1. \A g \in Flights : g = f BY DEF OneFlight
<1> QED BY <1>1 DEF PluginInv

\* An operation that is over has nothing to keep.
LEMMA IdleIsSound ==
  ASSUME NEW f \in Flights, op'[f].at \in {"idle", "erase"},
         CommandFits(op[f])'
  PROVE  FlightIsSound(op[f])'
  BY DEF FlightIsSound, CommandFits, AllIsDown, MayRise, TargetIsDown, RevokedIsDown,
     ChainRises, RisesEnabled

\* A step that changes nothing but an operation, the disk and the ledger.
LEMMA SameStore ==
  ASSUME PluginInv, UNCHANGED <<plugins, consents, enabledIds, active, withdrawn>>,
         op' \in [Flights -> Operations], saved' = saved,
         inst' \in [Ids -> Versions], work' \in [Ids -> Versions], selected' \subseteq Ids,
         prefetched' \in [Ids -> Versions \cup {Nil}]
  PROVE  StoreIsSound' /\ Running' = Running
  BY DEF PluginInv, StoreIsSound, PluginTypeOK, ConsentsAreSaved, NothingRunsUnseen,
     RunsConsented, RunningIsEnabled, Running

------------------------------------------------------------------------------
(* What a user or a command asks for. *)

\* A rescan begins: what runs is to go down.
LEMMA RescanBegins ==
  ASSUME OneFlight, PluginInv, NEW f \in Flights, NEW cmd \in Rescans,
         op' = [op EXCEPT ![f] = [Idle EXCEPT !.at = "down", !.cmd = cmd, !.todo = Running]],
         UNCHANGED <<memory, saved, withdrawn>>,
         inst' \in [Ids -> Versions], work' \in [Ids -> Versions], selected' \subseteq Ids
  PROVE  PluginInv'
<1> USE PluginAssumption
<1> DEFINE o == [Idle EXCEPT !.at = "down", !.cmd = cmd, !.todo = Running]
<1>1. o \in Operations /\ o.at = "down" /\ o.cmd = cmd /\ o.todo = Running /\ o.level = {}
  BY IdleType DEF Operations, Steps, Commands, Running
<1> HIDE DEF o
<1>2. op' = [op EXCEPT ![f] = o] BY DEF o
<1>3. op' \in [Flights -> Operations] /\ op'[f] = o BY <1>1, <1>2, OpType
<1>4. prefetched' \in [Ids -> Versions \cup {Nil}]
  BY OpType DEF memory, PluginTypeOK
<1>5. StoreIsSound' /\ Running' = Running BY <1>3, <1>4, SameStore DEF memory
<1>6. FlightIsSound(op[f])'
  BY <1>1, <1>3, <1>5 DEF FlightIsSound, CommandFits, AllIsDown, MayRise, TargetIsDown, RevokedIsDown,
     ChainRises, RisesEnabled, Rescans
<1> QED BY <1>5, <1>6, OfOne

LEMMA ReloadKeeps ==
  ASSUME OneFlight, PluginInv, NEW f \in Flights, reload(f) PROVE PluginInv'
  BY RescanBegins, OpType DEF reload, Ask, disk, Rescans, PluginTypeOK

LEMMA InstallKeeps ==
  ASSUME OneFlight, PluginInv, NEW f \in Flights, NEW i \in Ids, install(f, i) PROVE PluginInv'
<1>1. inst' \in [Ids -> Versions] BY PluginAssumption, OpType DEF install, PluginTypeOK, Versions
<1> QED BY <1>1, RescanBegins, OpType DEF install, Rescans, PluginTypeOK

LEMMA UnitDevRemoveKeeps ==
  ASSUME OneFlight, PluginInv, NEW f \in Flights, NEW i \in Ids, unitDevRemove(f, i)
  PROVE  PluginInv'
  BY RescanBegins, OpType DEF unitDevRemove, Rescans, PluginTypeOK

\* The chain of a plugin may come up when nothing of it waits for consent.
LEMMA EnablingIsSound ==
  ASSUME OneFlight, PluginInv, NEW f \in Flights, NEW cmd \in {"enable", "reloadOne"}, NEW i \in Ids,
         op' = enabling(f, cmd, i),
         cmd = "enable" \/ (plugins[i] # Nil => active[i] = Nil),
         UNCHANGED <<disk, memory, saved, withdrawn>>
  PROVE  PluginInv'
<1> USE PluginAssumption
<1>1. ASSUME NEW said \in {"no", "ok"}, op' = Says(f, said) PROVE PluginInv'
  <2>1. op' \in [Flights -> Operations] /\ op'[f].at = "idle" /\ op'[f].level = {}
    BY <1>1, SaysType, OpType
  <2>2. StoreIsSound' BY <2>1, SameStore, OpType DEF disk, memory, PluginTypeOK
  <2>3. CommandFits(op[f])' BY <2>1 DEF CommandFits
  <2> QED BY <2>1, <2>2, <2>3, IdleIsSound, OfOne
<1>2. CASE /\ plugins[i] # Nil
           /\ pendingConsentChain(i, plugins, consents) = {}
           /\ op' = [op EXCEPT ![f] = [Idle EXCEPT !.at = "up", !.cmd = cmd, !.id = i,
                                                   !.todo = activationChain(i, plugins),
                                                   !.known = Listed(plugins)]]
  <2> DEFINE o == [Idle EXCEPT !.at = "up", !.cmd = cmd, !.id = i,
                               !.todo = activationChain(i, plugins), !.known = Listed(plugins)]
  <2>1. activationChain(i, plugins) \in SUBSET Ids /\ Listed(plugins) \in SUBSET Ids
    BY DEF activationChain, Listed
  <2>2. /\ o \in Operations /\ o.at = "up" /\ o.cmd = cmd /\ o.id = i /\ o.level = {}
        /\ o.todo = activationChain(i, plugins) /\ o.known = Listed(plugins)
    BY <2>1, IdleType DEF Operations, Steps, Commands
  <2>3. op' = [op EXCEPT ![f] = o] BY <1>2
  <2> HIDE DEF o
  <2>4. op' \in [Flights -> Operations] /\ op'[f] = o BY <2>2, <2>3, OpType
  <2>5. StoreIsSound' /\ Running' = Running BY <2>4, SameStore, OpType DEF disk, memory, PluginTypeOK
  <2>6. \A j \in activationChain(i, plugins) : plugins[j] # Nil /\ Cleared(j)
    BY <1>2 DEF pendingConsentChain, consentValid, Cleared, activationChain, Listed
  <2>7. MayRise(op[f])' BY <2>2, <2>4, <2>6 DEF MayRise, memory, Cleared
  <2>8. ChainRises(op[f])' BY <2>2, <2>4 DEF ChainRises, memory, activationChain, Listed
  <2>9. CommandFits(op[f])' /\ AllIsDown(op[f])' /\ TargetIsDown(op[f])' /\ RevokedIsDown(op[f])'
        /\ RisesEnabled(op[f])'
    BY <2>2, <2>4 DEF CommandFits, AllIsDown, TargetIsDown, RevokedIsDown, RisesEnabled
  <2> QED BY <2>5, <2>7, <2>8, <2>9, OfOne DEF FlightIsSound
<1> QED BY <1>1, <1>2 DEF enabling

LEMMA EnableKeeps ==
  ASSUME OneFlight, PluginInv, NEW f \in Flights, NEW i \in Ids, enable(f, i) PROVE PluginInv'
  BY EnablingIsSound DEF enable

LEMMA ReenableKeeps ==
  ASSUME OneFlight, PluginInv, NEW f \in Flights, reenable(f) PROVE PluginInv'
<1>1. op[f].cmd = "reloadOne" /\ op[f].id \in Ids /\ active[op[f].id] = Nil
  BY OpType DEF reenable, FlightIsSound, CommandFits, TargetIsDown
<1> QED BY <1>1, EnablingIsSound DEF reenable

\* A request that only begins an operation: the rest of what the user asks for.
LEMMA OperationBegins ==
  ASSUME OneFlight, PluginInv, NEW f \in Flights, NEW o \in Operations,
         op' = [op EXCEPT ![f] = o], UNCHANGED <<disk, memory, saved, withdrawn>>,
         FlightIsSound(o)
  PROVE  PluginInv'
<1>1. op' \in [Flights -> Operations] /\ op'[f] = o BY OpType
<1>2. StoreIsSound' /\ Running' = Running
  BY <1>1, SameStore, OpType DEF disk, memory, PluginTypeOK
<1>3. FlightIsSound(op[f])'
  BY <1>1, <1>2 DEF FlightIsSound, CommandFits, AllIsDown, MayRise, TargetIsDown, RevokedIsDown,
     ChainRises, RisesEnabled, memory, Cleared, activationChain, Listed
<1> QED BY <1>2, <1>3, OfOne

\* An operation that is refused at once.
LEMMA Refused ==
  ASSUME OneFlight, PluginInv, NEW f \in Flights, NEW said \in {"no", "ok"}, op' = Says(f, said),
         UNCHANGED <<disk, memory, withdrawn>>, saved' = saved
  PROVE  PluginInv'
<1>1. op' \in [Flights -> Operations] /\ op'[f].at = "idle" /\ op'[f].level = {} BY SaysType, OpType
<1>2. StoreIsSound' BY <1>1, SameStore, OpType DEF disk, memory, PluginTypeOK
<1>3. CommandFits(op[f])' BY <1>1 DEF CommandFits
<1> QED BY <1>1, <1>2, <1>3, IdleIsSound, OfOne

LEMMA ReloadOneKeeps ==
  ASSUME OneFlight, PluginInv, NEW f \in Flights, NEW i \in Ids, reloadOne(f, i) PROVE PluginInv'
<1> DEFINE o == [Idle EXCEPT !.at = "reread", !.cmd = "reloadOne", !.id = i, !.held[i] = plugins[i]]
<1>1. /\ o \in Operations /\ o.at = "reread" /\ o.cmd = "reloadOne" /\ o.id = i /\ o.level = {}
      /\ o.held[i] = plugins[i]
  BY IdleType, OpType DEF Operations, Steps, Commands, PluginTypeOK
<1>2. op' = [op EXCEPT ![f] = o] BY DEF reloadOne
<1> HIDE DEF o
<1>3. FlightIsSound(o)
  BY <1>1 DEF FlightIsSound, CommandFits, AllIsDown, MayRise, TargetIsDown, RevokedIsDown,
     ChainRises, RisesEnabled, reloadOne
<1> QED BY <1>1, <1>2, <1>3, OperationBegins DEF reloadOne

LEMMA RevokeKeeps ==
  ASSUME OneFlight, PluginInv, NEW f \in Flights, NEW i \in Ids, revokeConsent(f, i) PROVE PluginInv'
<1> DEFINE affected == transitiveDependents(i, Listed(plugins)) \cup {i}
           o == [Idle EXCEPT !.at = "revoke", !.cmd = "revoke", !.id = i, !.known = Listed(plugins),
                             !.todo = affected, !.removed = affected]
<1>1. affected \in SUBSET Ids /\ Listed(plugins) \in SUBSET Ids BY DEF transitiveDependents, Listed
<1>2. op' = [op EXCEPT ![f] = o] BY DEF revokeConsent
<1>3. affected = transitiveDependents(i, Listed(plugins)) \cup {i} OBVIOUS
<1> HIDE DEF affected
<1>4. /\ o \in Operations /\ o.at = "revoke" /\ o.cmd = "revoke" /\ o.id = i /\ o.level = {}
      /\ o.known = Listed(plugins) /\ o.todo = affected /\ o.removed = affected
  BY <1>1, IdleType DEF Operations, Steps, Commands
<1> HIDE DEF o
<1>5. FlightIsSound(o)
  BY <1>3, <1>4 DEF FlightIsSound, CommandFits, AllIsDown, MayRise, TargetIsDown, RevokedIsDown,
     ChainRises, RisesEnabled
<1> QED BY <1>2, <1>4, <1>5, OperationBegins DEF revokeConsent

LEMMA DevLoadKeeps ==
  ASSUME OneFlight, PluginInv, NEW f \in Flights, NEW i \in Ids, devLoad(f, i) PROVE PluginInv'
<1> DEFINE rt == parseRuntime(work[i], "dev")
           o == [Idle EXCEPT !.at = "select", !.cmd = "devLoad", !.id = i, !.held[i] = rt]
<1>1. CASE op' = Says(f, "no") BY <1>1, Refused DEF devLoad
<1>2. CASE rt # Nil /\ op' = [op EXCEPT ![f] = o]
  <2>1. rt \in Runtimes /\ rt.source = "dev"
    BY <1>2, OpType DEF PluginTypeOK, parseRuntime, Runtimes, Sources
  <2> HIDE DEF rt
  <2>2. /\ o \in Operations /\ o.at = "select" /\ o.cmd = "devLoad" /\ o.id = i
        /\ o.held[i] = rt /\ o.level = {}
    BY <2>1, IdleType DEF Operations, Steps, Commands
  <2> HIDE DEF o
  <2>3. FlightIsSound(o)
    BY <1>2, <2>1, <2>2 DEF FlightIsSound, CommandFits, AllIsDown, MayRise, TargetIsDown,
       RevokedIsDown, ChainRises, RisesEnabled
  <2> QED BY <1>2, <2>2, <2>3, OperationBegins DEF devLoad
<1> QED BY <1>1, <1>2 DEF devLoad

LEMMA RemoveKeeps ==
  ASSUME OneFlight, PluginInv, NEW f \in Flights, NEW i \in Ids, NEW cascade \in BOOLEAN,
         remove(f, i, cascade)
  PROVE  PluginInv'
<1>1. CASE op' = Says(f, "no") BY <1>1, Refused DEF remove
<1>2. ASSUME NEW order \in SUBSET Ids,
             op' = [op EXCEPT ![f] = [Idle EXCEPT !.at = "erase", !.cmd = "remove", !.id = i,
                                                  !.known = Listed(plugins), !.todo = order]]
      PROVE  PluginInv'
  <2> DEFINE o == [Idle EXCEPT !.at = "erase", !.cmd = "remove", !.id = i,
                               !.known = Listed(plugins), !.todo = order]
  <2>1. Listed(plugins) \in SUBSET Ids BY DEF Listed
  <2>2. /\ o \in Operations /\ o.at = "erase" /\ o.cmd = "remove" /\ o.id = i /\ o.level = {}
    BY <2>1, IdleType DEF Operations, Steps, Commands, Rescans
  <2>3. op' = [op EXCEPT ![f] = o] BY <1>2
  <2> HIDE DEF o
  <2>4. FlightIsSound(o)
    BY <2>2 DEF FlightIsSound, CommandFits, AllIsDown, MayRise, TargetIsDown,
       RevokedIsDown, ChainRises, RisesEnabled
  <2> QED BY <2>2, <2>3, <2>4, OperationBegins DEF remove
<1>3. transitiveDependents(i, Listed(plugins)) \cup {i} \in SUBSET Ids
  BY DEF transitiveDependents, Listed
<1> QED BY <1>1, <1>2, <1>3 DEF remove

\* A step that takes instances down: the others stay as they were listed.
LEMMA GoesDown ==
  ASSUME PluginInv, NEW i \in Ids, active' = deactivated(i)
  PROVE  /\ active' \in [Ids -> Instances \cup {Nil}]
         /\ active'[i] = Nil
         /\ Running' = Running \ {i}
         /\ \A j \in Running' : active'[j] = active[j]
         /\ \A j \in Ids : active[j] = Nil => active'[j] = Nil
  BY OpType DEF deactivated, Running, PluginInv, StoreIsSound, PluginTypeOK

LEMMA DisableKeeps ==
  ASSUME OneFlight, PluginInv, NEW f \in Flights, NEW i \in Ids, disable(f, i) PROVE PluginInv'
<1> DEFINE o == [Idle EXCEPT !.at = "disabling", !.cmd = "disable", !.id = i]
<1>1. o \in Operations /\ o.at = "disabling" /\ o.cmd = "disable" /\ o.id = i /\ o.level = {}
  BY IdleType DEF Operations, Steps, Commands
<1>2. op' = [op EXCEPT ![f] = o] BY DEF disable
<1> HIDE DEF o
<1>3. op' \in [Flights -> Operations] /\ op'[f] = o BY <1>1, <1>2, OpType
<1>4. /\ active' \in [Ids -> Instances \cup {Nil}] /\ active'[i] = Nil
      /\ Running' = Running \ {i} /\ \A j \in Running' : active'[j] = active[j]
  BY GoesDown DEF disable
<1>5. StoreIsSound'
  BY <1>3, <1>4, OpType DEF disable, disk, StoreIsSound, PluginTypeOK, ConsentsAreSaved,
     NothingRunsUnseen, RunsConsented, RunningIsEnabled
<1>6. FlightIsSound(op[f])'
  BY <1>1, <1>3, <1>4 DEF FlightIsSound, CommandFits, AllIsDown, MayRise, TargetIsDown,
     RevokedIsDown, ChainRises, RisesEnabled
<1> QED BY <1>5, <1>6, OfOne

------------------------------------------------------------------------------
(* A rescan goes on. *)

LEMMA DeactivateAllKeeps ==
  ASSUME OneFlight, PluginInv, NEW f \in Flights, deactivateAll(f) PROVE PluginInv'
<1>0. /\ op[f].at = "down" /\ op[f].cmd \in Rescans /\ Running \subseteq op[f].todo
      /\ op[f] \in Operations /\ op[f].level = {}
  BY OpType DEF deactivateAll, FlightIsSound, CommandFits, AllIsDown
<1>1. CASE op[f].todo = {} /\ op' = To(f, "scan") /\ active' = active
  <2>1. op' \in [Flights -> Operations] /\ op'[f] = [op[f] EXCEPT !.at = "scan"]
    BY <1>1, ToType, OpType DEF Steps
  <2>2. op'[f].at = "scan" /\ op'[f].cmd = op[f].cmd /\ op'[f].level = {}
    BY <1>0, <2>1 DEF Operations
  <2>3. StoreIsSound' /\ Running' = Running
    BY <1>1, <2>1, SameStore, OpType DEF deactivateAll, disk, PluginTypeOK
  <2>4. FlightIsSound(op[f])'
    BY <1>0, <1>1, <2>2, <2>3 DEF FlightIsSound, CommandFits, AllIsDown, MayRise, TargetIsDown,
       RevokedIsDown, ChainRises, RisesEnabled
  <2> QED BY <2>3, <2>4, OfOne
<1>2. ASSUME NEW i \in op[f].todo, active' = deactivated(i),
             op' = [op EXCEPT ![f].todo = @ \ {i}]
      PROVE  PluginInv'
  <2>0. i \in Ids BY <1>0 DEF Operations
  <2>1. [op[f] EXCEPT !.todo = @ \ {i}] \in Operations BY <1>0 DEF Operations
  <2>2. op' \in [Flights -> Operations] /\ op'[f] = [op[f] EXCEPT !.todo = @ \ {i}]
    BY <1>2, <2>1, OpType
  <2>3. op'[f].at = "down" /\ op'[f].cmd = op[f].cmd /\ op'[f].todo = op[f].todo \ {i}
        /\ op'[f].level = {}
    BY <1>0, <2>2 DEF Operations
  <2>4. /\ active' \in [Ids -> Instances \cup {Nil}]
        /\ Running' = Running \ {i} /\ \A j \in Running' : active'[j] = active[j]
    BY <1>2, <2>0, GoesDown
  <2>5. StoreIsSound'
    BY <2>2, <2>4, OpType DEF deactivateAll, disk, counts, StoreIsSound, PluginTypeOK,
       ConsentsAreSaved, NothingRunsUnseen, RunsConsented, RunningIsEnabled
  <2>6. FlightIsSound(op[f])'
    BY <1>0, <2>3, <2>4 DEF FlightIsSound, CommandFits, AllIsDown, MayRise, TargetIsDown,
       RevokedIsDown, ChainRises, RisesEnabled
  <2> QED BY <2>5, <2>6, OfOne
<1> QED BY <1>1, <1>2 DEF deactivateAll

LEMMA ScanKeeps ==
  ASSUME OneFlight, PluginInv, NEW f \in Flights, scan(f) PROVE PluginInv'
<1> DEFINE held == [i \in Ids |-> parseRuntime(inst[i], "installed")]
           o == [op[f] EXCEPT !.at = "units", !.held = held]
<1>0. /\ op[f].at = "scan" /\ op[f].cmd \in Rescans /\ Running = {} /\ op[f] \in Operations /\ op[f].level = {}
  BY OpType DEF scan, FlightIsSound, CommandFits, AllIsDown
<1>1. CASE op' = Says(f, "no")
  BY <1>1, Refused DEF scan
<1>2. CASE op' = [op EXCEPT ![f] = o]
  <2>1. held \in [Ids -> Runtimes \cup {Nil}]
    BY OpType DEF PluginTypeOK, parseRuntime, Runtimes, Sources
  <2> HIDE DEF held
  <2>2. o \in Operations /\ o.at = "units" /\ o.cmd = op[f].cmd /\ o.level = {}
    BY <1>0, <2>1 DEF Operations, Steps
  <2> HIDE DEF o
  <2>3. FlightIsSound(o)
    BY <1>0, <2>2 DEF FlightIsSound, CommandFits, AllIsDown, MayRise, TargetIsDown,
       RevokedIsDown, ChainRises, RisesEnabled
  <2> QED BY <1>2, <2>2, <2>3, OperationBegins DEF scan
<1>3. op' \in {Says(f, "no"), [op EXCEPT ![f] = o]} BY OpType DEF scan
<1> QED BY <1>1, <1>2, <1>3

LEMMA ListUnitsKeeps ==
  ASSUME OneFlight, PluginInv, NEW f \in Flights, listUnits(f) PROVE PluginInv'
<1>0. /\ op[f].at = "units" /\ op[f].cmd \in Rescans /\ Running = {} /\ op[f] \in Operations /\ op[f].level = {}
  BY OpType DEF listUnits, FlightIsSound, CommandFits, AllIsDown
<1>1. plugins' \in [Ids -> Runtimes \cup {Nil}]
  BY <1>0, OpType DEF listUnits, merged, PluginTypeOK, parseRuntime, Runtimes, Sources, Operations
<1> DEFINE up == {i \in enabledIds \cap Listed(plugins') : pendingConsentChain(i, plugins', consents) = {}}
           o == [op[f] EXCEPT !.at = "fetch", !.todo = up, !.held = Nothing]
<1>2. up \in SUBSET Ids BY DEF Listed
<1>3. op' = [op EXCEPT ![f] = o] BY OpType DEF listUnits, ready
<1>4. \A i \in up : i \in enabledIds /\ plugins'[i] # Nil
                    /\ (plugins'[i].source = "dev" \/ consents[i] = plugins'[i].ver)
  BY DEF Listed, pendingConsentChain, activationChain, consentValid
<1> HIDE DEF up
<1>5. o \in Operations /\ o.at = "fetch" /\ o.cmd = op[f].cmd /\ o.todo = up
      /\ o.level = {}
  BY <1>0, <1>2 DEF Operations, Steps, Nothing
<1> HIDE DEF o
<1>6. op' \in [Flights -> Operations] /\ op'[f] = o BY <1>3, <1>5, OpType
<1>7. UNCHANGED <<inst, work, selected, saved, consents, enabledIds, active, prefetched, withdrawn>>
  BY DEF listUnits, disk
<1>8. Running' = {} BY <1>0, <1>7 DEF Running
<1>9. StoreIsSound'
  BY <1>1, <1>6, <1>7, <1>8, OpType DEF StoreIsSound, PluginTypeOK,
     ConsentsAreSaved, NothingRunsUnseen, RunsConsented, RunningIsEnabled
<1>10. FlightIsSound(op[f])'
  BY <1>0, <1>4, <1>5, <1>6, <1>7, <1>8 DEF FlightIsSound, CommandFits, AllIsDown, MayRise, TargetIsDown,
     RevokedIsDown, ChainRises, RisesEnabled, Cleared
<1> QED BY <1>9, <1>10, OfOne

LEMMA PrefetchKeeps ==
  ASSUME OneFlight, PluginInv, NEW f \in Flights, prefetch(f) PROVE PluginInv'
<1>0. /\ op[f].at = "fetch" /\ op[f].cmd \in Rescans /\ Running = {} /\ op[f] \in Operations
      /\ op[f].level = {}
  BY OpType DEF prefetch, FlightIsSound, CommandFits, AllIsDown
<1>1. PICK got \in SUBSET Ids :
        prefetched' = [i \in Ids |-> IF i \in got THEN onDisk(i, plugins[i]) ELSE Nil]
  <2>1. {i \in op[f].todo : plugins[i] # Nil /\ onDisk(i, plugins[i]) # 0} \in SUBSET Ids
    BY <1>0 DEF Operations
  <2> QED BY <2>1 DEF prefetch
<1>2. prefetched' \in [Ids -> Versions \cup {Nil}]
  BY <1>1, OpType DEF onDisk, PluginTypeOK
<1>3. op' \in [Flights -> Operations] /\ op'[f] = [op[f] EXCEPT !.at = "up"]
  BY ToType, OpType DEF prefetch, Steps
<1>4. /\ op'[f].at = "up" /\ op'[f].cmd = op[f].cmd /\ op'[f].level = {}
      /\ op'[f].todo = op[f].todo
  BY <1>0, <1>3 DEF Operations
<1>5. StoreIsSound' /\ Running' = Running
  BY <1>2, <1>3, SameStore, OpType DEF prefetch, disk, PluginTypeOK
<1>6. \A i \in op[f].todo : active[i] = Nil
  BY <1>0 DEF Running, Operations
<1>7. FlightIsSound(op[f])'
  BY <1>0, <1>4, <1>6, OpType DEF prefetch, FlightIsSound, CommandFits, AllIsDown, MayRise, TargetIsDown,
     RevokedIsDown, ChainRises, RisesEnabled, Cleared, Rescans
<1> QED BY <1>5, <1>7, OfOne

\* What is read of the list is what comes up.
LEMMA NextLevelKeeps ==
  ASSUME OneFlight, PluginInv, NEW f \in Flights, nextLevel(f) PROVE PluginInv'
<1>0. /\ op[f].at = "up" /\ op[f] \in Operations /\ op[f].level = {} /\ FlightIsSound(op[f])
      /\ plugins \in [Ids -> Runtimes \cup {Nil}]
  BY OpType DEF nextLevel, PluginTypeOK
<1>1. CASE Enabling(f)
  <2>0. op[f].cmd \in {"enable", "reloadOne"} BY <1>1 DEF Enabling
  <2>1. PICK i \in op[f].todo :
          op' = [op EXCEPT ![f].todo = @ \ {i},
                           ![f].level = IF plugins[i] = Nil \/ (plugins[i].status = "enabled" /\ active[i] # Nil)
                                        THEN {} ELSE {i},
                           ![f].held[i] = plugins[i]]
    BY <1>1 DEF nextLevel, chainLevel
  <2> DEFINE isUp == plugins[i] = Nil \/ (plugins[i].status = "enabled" /\ active[i] # Nil)
             up == IF isUp THEN {} ELSE {i}
             o == [op[f] EXCEPT !.todo = @ \ {i}, !.level = up, !.held[i] = plugins[i]]
  <2>2. i \in Ids /\ up \in SUBSET Ids /\ plugins[i] \in Runtimes \cup {Nil}
    BY <1>0 DEF Operations
  <2>3. (i \in up => ~isUp) /\ (isUp => up = {}) /\ (~isUp => up = {i}) /\ up \subseteq {i} OBVIOUS
  <2>4. op' = [op EXCEPT ![f] = o] BY <2>1, OpType
  <2> HIDE DEF up
  <2>5. /\ o \in Operations /\ o.at = "up" /\ o.cmd = op[f].cmd /\ o.id = op[f].id
        /\ o.known = op[f].known /\ o.todo = op[f].todo \ {i} /\ o.level = up
        /\ o.held[i] = plugins[i]
    BY <1>0, <2>2 DEF Operations
  <2> HIDE DEF o
  <2>6. ~isUp => active[i] = Nil /\ plugins[i] # Nil
    BY <2>2, OpType DEF StoreIsSound, NothingRunsUnseen, Running
  <2>7. MayRise(o)
    <3>1. \A j \in o.todo \cup o.level : j \in op[f].todo BY <2>3, <2>5
    <3> QED BY <1>0, <2>0, <2>3, <2>5, <2>6, <3>1 DEF FlightIsSound, MayRise
  <2>8. ChainRises(o)
    BY <1>0, <2>0, <2>3, <2>5, <2>6 DEF FlightIsSound, ChainRises, activationChain, Listed
  <2>9. CommandFits(o) /\ AllIsDown(o) /\ TargetIsDown(o) /\ RevokedIsDown(o) /\ RisesEnabled(o)
    BY <1>0, <2>0, <2>5 DEF FlightIsSound, CommandFits, AllIsDown, TargetIsDown, RevokedIsDown, RisesEnabled
  <2> QED BY <2>4, <2>5, <2>7, <2>8, <2>9, OperationBegins DEF nextLevel, FlightIsSound
<1>2. CASE ~Enabling(f)
  <2>0. op[f].cmd \notin {"enable", "reloadOne"} BY <1>2 DEF Enabling
  <2> DEFINE up == activationLevel(op[f].todo)
             rising == {i \in up : plugins[i] # Nil}
             held == [i \in Ids |-> IF i \in up THEN plugins[i] ELSE Nil]
             o == [op[f] EXCEPT !.todo = @ \ up, !.level = rising, !.held = held]
  <2>1. op' = [op EXCEPT ![f] = o] BY <1>2, OpType DEF nextLevel
  <2>2. up \subseteq op[f].todo BY DEF activationLevel
  <2>3. op[f].todo \in SUBSET Ids BY <1>0 DEF Operations
  <2> HIDE DEF up
  <2>4. /\ rising \subseteq up /\ \A i \in rising : plugins[i] # Nil
        /\ held \in [Ids -> Runtimes \cup {Nil}] /\ \A i \in rising : held[i] = plugins[i]
    BY <1>0, <2>2, <2>3
  <2> HIDE DEF rising, held
  <2>5. /\ o \in Operations /\ o.at = "up" /\ o.cmd = op[f].cmd
        /\ o.todo = op[f].todo \ up /\ o.level = rising /\ o.held = held
    BY <1>0, <2>2, <2>3, <2>4 DEF Operations
  <2> HIDE DEF o
  <2>6. MayRise(o)
    BY <1>0, <2>0, <2>2, <2>4, <2>5 DEF FlightIsSound, MayRise
  <2>7. RisesEnabled(o)
    BY <1>0, <2>0, <2>2, <2>4, <2>5 DEF FlightIsSound, RisesEnabled
  <2>8. CommandFits(o) /\ AllIsDown(o) /\ TargetIsDown(o) /\ RevokedIsDown(o) /\ ChainRises(o)
    BY <1>0, <2>0, <2>5 DEF FlightIsSound, CommandFits, AllIsDown, TargetIsDown, RevokedIsDown, ChainRises
  <2> QED BY <2>1, <2>5, <2>6, <2>7, <2>8, OperationBegins DEF nextLevel, FlightIsSound
<1> QED BY <1>1, <1>2

LEMMA AllUpKeeps ==
  ASSUME OneFlight, PluginInv, NEW f \in Flights, allUp(f) PROVE PluginInv'
<1>1. op' \in [Flights -> Operations] /\ op'[f].at = "idle" /\ op'[f].level = {}
  BY SaysType, OpType DEF allUp
<1>2. saved' \in [consents : [Ids -> Versions], enabledIds : SUBSET Ids] /\ saved'.consents = consents
  BY OpType DEF allUp, persist, memory, PluginTypeOK, StoreIsSound, ConsentsAreSaved
<1>3. StoreIsSound'
  BY <1>1, <1>2, OpType DEF allUp, disk, memory, StoreIsSound, PluginTypeOK, ConsentsAreSaved,
     NothingRunsUnseen, RunsConsented, RunningIsEnabled, Running
<1>4. CommandFits(op[f])' BY <1>1 DEF CommandFits
<1> QED BY <1>1, <1>3, <1>4, IdleIsSound, OfOne

------------------------------------------------------------------------------
(* Instances come up and go down, one at a time. *)

\* A new status says nothing of what is listed, and of which version.
LEMMA StatusOnly ==
  ASSUME PluginTypeOK, NEW i \in Ids, NEW status \in {"disabled", "enabled", "error"},
         plugins' = setRuntime(plugins, i, status)
  PROVE  /\ plugins' \in [Ids -> Runtimes \cup {Nil}]
         /\ Listed(plugins') = Listed(plugins)
         /\ \A j \in Ids : /\ plugins'[j] = Nil <=> plugins[j] = Nil
                           /\ plugins[j] # Nil => /\ plugins'[j].ver = plugins[j].ver
                                                   /\ plugins'[j].source = plugins[j].source
                           /\ j # i => plugins'[j] = plugins[j]
         /\ plugins[i] # Nil => plugins'[i].status = status
<1> USE PluginAssumption DEF PluginTypeOK
<1>1. CASE plugins[i] = Nil BY <1>1 DEF setRuntime, Listed
<1>2. CASE plugins[i] # Nil
  <2>1. plugins[i] \in Runtimes BY <1>2
  <2>2. plugins' = [plugins EXCEPT ![i] = [plugins[i] EXCEPT !.status = status]]
    BY <1>2 DEF setRuntime
  <2> DEFINE p == [plugins[i] EXCEPT !.status = status]
  <2>3. p \in Runtimes /\ p.ver = plugins[i].ver /\ p.source = plugins[i].source /\ p.status = status
    BY <2>1 DEF Runtimes
  <2> HIDE DEF p
  <2>4. plugins' = [plugins EXCEPT ![i] = p] BY <2>2 DEF p
  <2>5. p # Nil BY <2>3
  <2> QED BY <1>2, <2>3, <2>4, <2>5 DEF Listed
<1> QED BY <1>1, <1>2

LEMMA ActivateKeeps ==
  ASSUME OneFlight, PluginInv, NEW f \in Flights, NEW i \in Ids, activateRuntime(f, i)
  PROVE  PluginInv'
<1> USE PluginAssumption
<1> DEFINE o == [op[f] EXCEPT !.level = @ \ {i}, !.held[i] = Nil]
           a == [ver |-> op[f].held[i].ver, code |-> bundle(i, op[f].held[i]),
                 source |-> op[f].held[i].source]
<1>0. /\ op[f].at = "up" /\ op[f] \in Operations /\ i \in op[f].level /\ FlightIsSound(op[f])
      /\ StoreIsSound /\ PluginTypeOK
  BY OpType DEF activateRuntime
<1>1. /\ op[f].held[i] \in Runtimes /\ plugins[i] # Nil /\ active[i] = Nil /\ Cleared(i)
      /\ op[f].held[i].ver = plugins[i].ver /\ op[f].held[i].source = plugins[i].source
  BY <1>0 DEF FlightIsSound, MayRise, Operations
<1>2. a \in Instances /\ a.ver = plugins[i].ver /\ a.source = plugins[i].source
  <2>1. bundle(i, op[f].held[i]) \in Versions
    BY <1>0, <1>1 DEF bundle, onDisk, PluginTypeOK
  <2> QED BY <1>1, <2>1 DEF Instances, Runtimes
<1>3. op' = [op EXCEPT ![f] = o]
  <2>1. op' = [op EXCEPT ![f].level = @ \ {i}, ![f].held[i] = Nil] BY DEF activateRuntime
  <2> QED BY <2>1, OpType
<1>3a. active' = [active EXCEPT ![i] = a]
  BY DEF activateRuntime, activated
<1> HIDE DEF a
<1>4. /\ o \in Operations /\ o.at = "up" /\ o.cmd = op[f].cmd /\ o.id = op[f].id
      /\ o.known = op[f].known /\ o.todo = op[f].todo /\ o.level = op[f].level \ {i}
      /\ \A j \in Ids \ {i} : o.held[j] = op[f].held[j]
  BY <1>0 DEF Operations
<1> HIDE DEF o
<1>5. op' \in [Flights -> Operations] /\ op'[f] = o BY <1>3, <1>4, OpType
<1>6. /\ active' \in [Ids -> Instances \cup {Nil}] /\ active'[i] = a /\ a # Nil
      /\ \A j \in Ids \ {i} : active'[j] = active[j]
  BY <1>0, <1>2, <1>3a DEF PluginTypeOK
<1>7. Running' = Running \cup {i} BY <1>6 DEF Running
<1>8. /\ plugins' \in [Ids -> Runtimes \cup {Nil}] /\ Listed(plugins') = Listed(plugins)
      /\ \A j \in Ids : /\ plugins'[j] = Nil <=> plugins[j] = Nil
                        /\ plugins[j] # Nil => /\ plugins'[j].ver = plugins[j].ver
                                                /\ plugins'[j].source = plugins[j].source
                        /\ j # i => plugins'[j] = plugins[j]
      /\ plugins'[i].status = "enabled"
  BY <1>0, <1>1, StatusOnly DEF activateRuntime
<1>9. /\ UNCHANGED <<inst, work, selected, saved, consents, prefetched, withdrawn>>
      /\ enabledIds \subseteq enabledIds' /\ enabledIds' \subseteq enabledIds \cup {i}
      /\ op[f].cmd \in {"enable", "reloadOne"} => i \in enabledIds'
  BY DEF activateRuntime, disk, Enabling
<1>10. PluginTypeOK' /\ ConsentsAreSaved'
  BY <1>0, <1>5, <1>6, <1>8, <1>9 DEF PluginTypeOK, StoreIsSound, ConsentsAreSaved
<1>11. NothingRunsUnseen' /\ RunsConsented'
  <2>1. ASSUME NEW j \in Running, j # i
        PROVE  /\ plugins'[j] # Nil /\ plugins'[j].status = "enabled"
               /\ plugins'[j].ver = active'[j].ver /\ plugins'[j].source = active'[j].source
               /\ active'[j].source = "dev" \/ j \in withdrawn' \/ consents'[j] = active'[j].ver
    BY <1>0, <1>6, <1>8, <1>9, <2>1 DEF StoreIsSound, NothingRunsUnseen, RunsConsented, Running
  <2>2. /\ plugins'[i] # Nil /\ plugins'[i].status = "enabled"
        /\ plugins'[i].ver = active'[i].ver /\ plugins'[i].source = active'[i].source
        /\ active'[i].source = "dev" \/ i \in withdrawn' \/ consents'[i] = active'[i].ver
    BY <1>1, <1>2, <1>6, <1>8, <1>9 DEF Cleared
  <2> QED BY <1>7, <2>1, <2>2 DEF NothingRunsUnseen, RunsConsented
<1>12. RunningIsEnabled'
  BY <1>0, <1>7, <1>9 DEF StoreIsSound, RunningIsEnabled, FlightIsSound, RisesEnabled
<1>13. MayRise(op[f])'
  <2>1. \A j \in op[f].todo \cup op[f].level : j \in Ids BY <1>0 DEF Operations
  <2> QED BY <1>0, <1>4, <1>5, <1>6, <1>8, <1>9, <2>1 DEF FlightIsSound, MayRise, Cleared
<1>14. ChainRises(op[f])'
  <2>1. activationChain(op[f].id, plugins') = activationChain(op[f].id, plugins)
    BY <1>8 DEF activationChain
  <2>2. activationChain(op[f].id, plugins) \subseteq Ids BY DEF activationChain, Listed
  <2> QED BY <1>0, <1>4, <1>5, <1>6, <1>8, <2>1, <2>2 DEF FlightIsSound, ChainRises
<1>15. CommandFits(op[f])' /\ AllIsDown(op[f])' /\ TargetIsDown(op[f])' /\ RevokedIsDown(op[f])'
       /\ RisesEnabled(op[f])'
  BY <1>0, <1>4, <1>5, <1>9 DEF FlightIsSound, CommandFits, AllIsDown, TargetIsDown,
     RevokedIsDown, RisesEnabled
<1> QED BY <1>10, <1>11, <1>12, <1>13, <1>14, <1>15, OfOne DEF StoreIsSound, FlightIsSound

LEMMA ActivateFailsKeeps ==
  ASSUME OneFlight, PluginInv, NEW f \in Flights, NEW i \in Ids, activateFails(f, i)
  PROVE  PluginInv'
<1> USE PluginAssumption
<1> DEFINE o == [op[f] EXCEPT !.level = @ \ {i}, !.held[i] = Nil]
<1>0. /\ op[f].at = "up" /\ op[f] \in Operations /\ i \in op[f].level /\ FlightIsSound(op[f])
      /\ StoreIsSound /\ PluginTypeOK
  BY OpType DEF activateFails
<1>1. plugins[i] # Nil /\ active[i] = Nil BY <1>0 DEF FlightIsSound, MayRise
<1>2. /\ plugins' \in [Ids -> Runtimes \cup {Nil}] /\ Listed(plugins') = Listed(plugins)
      /\ \A j \in Ids : /\ plugins'[j] = Nil <=> plugins[j] = Nil
                        /\ plugins[j] # Nil => /\ plugins'[j].ver = plugins[j].ver
                                                /\ plugins'[j].source = plugins[j].source
                        /\ j # i => plugins'[j] = plugins[j]
  BY <1>0, StatusOnly DEF activateFails
<1>3. UNCHANGED <<inst, work, selected, saved, consents, enabledIds, active, prefetched, withdrawn>>
  BY DEF activateFails, disk
<1>4. op' \in [Flights -> Operations] => StoreIsSound'
  <2>1. Running' = Running /\ i \notin Running BY <1>1, <1>3 DEF Running
  <2> QED BY <1>0, <1>2, <1>3, <2>1 DEF StoreIsSound, PluginTypeOK, ConsentsAreSaved,
     NothingRunsUnseen, RunsConsented, RunningIsEnabled, Running
<1>5. CASE op' = Says(f, "no")
  <2>1. op' \in [Flights -> Operations] /\ op'[f].at = "idle" /\ op'[f].level = {}
    BY <1>5, SaysType, OpType
  <2>2. CommandFits(op[f])' BY <2>1 DEF CommandFits
  <2> QED BY <1>4, <2>1, <2>2, IdleIsSound, OfOne
<1>6. CASE ~Enabling(f) /\ op' = [op EXCEPT ![f] = o]
  <2>1. /\ o \in Operations /\ o.at = "up" /\ o.cmd = op[f].cmd /\ o.id = op[f].id
        /\ o.known = op[f].known /\ o.todo = op[f].todo /\ o.level = op[f].level \ {i}
        /\ \A j \in Ids \ {i} : o.held[j] = op[f].held[j]
    BY <1>0 DEF Operations
  <2> HIDE DEF o
  <2>2. op' \in [Flights -> Operations] /\ op'[f] = o BY <1>6, <2>1, OpType
  <2>3. op[f].cmd \notin {"enable", "reloadOne"} BY <1>6 DEF Enabling
  <2>4. MayRise(op[f])'
    <3>1. \A j \in op[f].todo \cup op[f].level : j \in Ids BY <1>0 DEF Operations
    <3> QED BY <1>0, <1>2, <1>3, <2>1, <2>2, <3>1 DEF FlightIsSound, MayRise, Cleared
  <2>5. CommandFits(op[f])' /\ AllIsDown(op[f])' /\ TargetIsDown(op[f])' /\ RevokedIsDown(op[f])'
        /\ RisesEnabled(op[f])' /\ ChainRises(op[f])'
    BY <1>0, <1>3, <2>1, <2>2, <2>3 DEF FlightIsSound, CommandFits, AllIsDown, TargetIsDown,
       RevokedIsDown, RisesEnabled, ChainRises
  <2> QED BY <1>4, <2>2, <2>4, <2>5, OfOne DEF FlightIsSound
<1>7. CASE Enabling(f) BY <1>5, <1>7 DEF activateFails
<1>8. CASE ~Enabling(f)
  <2>1. op' = [op EXCEPT ![f].level = @ \ {i}, ![f].held[i] = Nil] BY <1>8 DEF activateFails
  <2>2. op' = [op EXCEPT ![f] = o] BY <2>1, OpType
  <2> QED BY <1>6, <1>8, <2>2
<1> QED BY <1>7, <1>8

------------------------------------------------------------------------------
(* What is switched off, taken back and removed. *)

\* An operation whose target is down and off: what else runs is as it was.
LEMMA DisabledKeeps ==
  ASSUME OneFlight, PluginInv, NEW f \in Flights, disabled(f) PROVE PluginInv'
<1> DEFINE i == op[f].id
<1>0. /\ op[f].at = "disabling" /\ op[f] \in Operations /\ i \in Ids /\ active[i] = Nil
      /\ op[f].cmd \in {"disable", "reloadOne"} /\ op[f].level = {}
      /\ StoreIsSound /\ PluginTypeOK
  BY OpType DEF disabled, FlightIsSound, CommandFits, TargetIsDown
<1>1. plugins' = setRuntime(plugins, i, "disabled") /\ enabledIds' = enabledIds \ {i}
  BY DEF disabled
<1>2. UNCHANGED <<inst, work, selected, consents, active, prefetched, withdrawn>>
  BY DEF disabled, disk
<1>3. op' = Says(f, "ok") \/ (op[f].cmd = "reloadOne" /\ op' = To(f, "enable"))
  BY <1>0 DEF disabled
<1> HIDE DEF i
<1>4. /\ plugins' \in [Ids -> Runtimes \cup {Nil}]
      /\ \A j \in Ids : j # i => plugins'[j] = plugins[j]
  BY <1>0, <1>1, StatusOnly
<1>5. Running' = Running /\ i \notin Running BY <1>0, <1>2 DEF Running
<1>6. saved' = [consents |-> consents', enabledIds |-> enabledIds'] BY DEF disabled, persist
<1>7. saved' \in [consents : [Ids -> Versions], enabledIds : SUBSET Ids] /\ saved'.consents = consents'
  BY <1>0, <1>1, <1>2, <1>6 DEF PluginTypeOK
<1>8. op' \in [Flights -> Operations] => StoreIsSound'
  BY <1>0, <1>1, <1>2, <1>4, <1>5, <1>7 DEF StoreIsSound, PluginTypeOK, ConsentsAreSaved,
     NothingRunsUnseen, RunsConsented, RunningIsEnabled, Running
<1>9. CASE op' = Says(f, "ok")
  <2>1. op' \in [Flights -> Operations] /\ op'[f].at = "idle" /\ op'[f].level = {}
    BY <1>9, SaysType, OpType
  <2>2. CommandFits(op[f])' BY <2>1 DEF CommandFits
  <2> QED BY <1>8, <2>1, <2>2, IdleIsSound, OfOne
<1>10. CASE op[f].cmd = "reloadOne" /\ op' = To(f, "enable")
  <2>1. op' \in [Flights -> Operations] /\ op'[f] = [op[f] EXCEPT !.at = "enable"]
    BY <1>10, ToType, OpType DEF Steps
  <2>2. /\ op'[f].at = "enable" /\ op'[f].cmd = "reloadOne" /\ op'[f].id = i /\ op'[f].level = {}
    BY <1>0, <1>10, <2>1 DEF Operations, i
  <2>3. FlightIsSound(op[f])'
    BY <1>0, <1>2, <2>2 DEF FlightIsSound, CommandFits, AllIsDown, MayRise, TargetIsDown,
       RevokedIsDown, ChainRises, RisesEnabled
  <2> QED BY <1>8, <2>1, <2>3, OfOne
<1> QED BY <1>3, <1>9, <1>10

\* Reading the manifest again: what ran under the old one goes down with it.
LEMMA RereadKeeps ==
  ASSUME OneFlight, PluginInv, NEW f \in Flights, reread(f) PROVE PluginInv'
<1> USE PluginAssumption
<1> DEFINE i == op[f].id
           p == op[f].held[i]
           fresh == parseRuntime(onDisk(i, p), p.source)
           o == [op[f] EXCEPT !.at = "disabling", !.held[i] = Nil]
<1>0. /\ op[f].at = "reread" /\ op[f] \in Operations /\ i \in Ids /\ op[f].cmd = "reloadOne"
      /\ op[f].level = {} /\ p \in Runtimes /\ StoreIsSound /\ PluginTypeOK
  BY OpType DEF reread, FlightIsSound, CommandFits, TargetIsDown, Operations
<1>1. CASE op' = Says(f, "no") /\ UNCHANGED <<plugins, active>>
  BY <1>1, Refused DEF reread, memory
<1>2. CASE /\ fresh # Nil
           /\ plugins' = [plugins EXCEPT ![i] = [fresh EXCEPT !.status = p.status]]
           /\ active' = deactivated(i)
           /\ op' = [op EXCEPT ![f].at = "disabling", ![f].held[i] = Nil]
  <2>1. onDisk(i, p) \in Versions BY <1>0 DEF onDisk, PluginTypeOK
  <2>2. fresh \in Runtimes BY <1>0, <1>2, <2>1 DEF parseRuntime, Runtimes
  <2> DEFINE q == [fresh EXCEPT !.status = p.status]
  <2>3. q \in Runtimes BY <1>0, <2>2 DEF Runtimes
  <2>4. plugins' = [plugins EXCEPT ![i] = q] BY <1>2
  <2> HIDE DEF fresh, q
  <2>5. plugins' \in [Ids -> Runtimes \cup {Nil}] /\ \A j \in Ids : j # i => plugins'[j] = plugins[j]
    BY <1>0, <2>3, <2>4 DEF PluginTypeOK
  <2>6. /\ active' \in [Ids -> Instances \cup {Nil}] /\ active'[i] = Nil
        /\ Running' = Running \ {i} /\ \A j \in Running' : active'[j] = active[j]
    BY <1>0, <1>2, GoesDown
  <2>7. UNCHANGED <<inst, work, selected, saved, consents, enabledIds, prefetched, withdrawn>>
    BY DEF reread, disk
  <2>8. op' = [op EXCEPT ![f] = o] BY <1>2, OpType
  <2>9. o \in Operations /\ o.at = "disabling" /\ o.cmd = "reloadOne" /\ o.id = i /\ o.level = {}
    BY <1>0 DEF Operations, Steps
  <2> HIDE DEF o, i
  <2>10. op' \in [Flights -> Operations] /\ op'[f] = o BY <2>8, <2>9, OpType
  <2>11. StoreIsSound'
    BY <1>0, <2>5, <2>6, <2>7, <2>10 DEF StoreIsSound, PluginTypeOK, ConsentsAreSaved,
       NothingRunsUnseen, RunsConsented, RunningIsEnabled, Running
  <2>12. FlightIsSound(op[f])'
    BY <1>0, <2>6, <2>9, <2>10 DEF FlightIsSound, CommandFits, AllIsDown, MayRise, TargetIsDown,
       RevokedIsDown, ChainRises, RisesEnabled
  <2> QED BY <2>11, <2>12, OfOne
<1> QED BY <1>1, <1>2 DEF reread

\* One of what a revocation affects goes down.
LEMMA RevokeOneKeeps ==
  ASSUME OneFlight, PluginInv, NEW f \in Flights, revokeOne(f) PROVE PluginInv'
<1>0. /\ op[f].at = "revoke" /\ op[f] \in Operations /\ op[f].cmd = "revoke" /\ op[f].id \in Ids
      /\ op[f].level = {} /\ RevokedIsDown(op[f]) /\ StoreIsSound /\ PluginTypeOK
  BY OpType DEF revokeOne, FlightIsSound, CommandFits
<1>1. PICK i \in op[f].todo : /\ active' = deactivated(i)
                              /\ plugins' = setRuntime(plugins, i, "disabled")
                              /\ op' = [op EXCEPT ![f].todo = @ \ {i}]
  BY DEF revokeOne, NextToGo, cascadeLevel
<1> DEFINE o == [op[f] EXCEPT !.todo = @ \ {i}]
<1>2. i \in Ids BY <1>0 DEF Operations
<1>3. op' = [op EXCEPT ![f] = o] BY <1>1, OpType
<1>4. /\ o \in Operations /\ o.at = "revoke" /\ o.cmd = "revoke" /\ o.id = op[f].id /\ o.level = {}
      /\ o.known = op[f].known /\ o.removed = op[f].removed /\ o.todo = op[f].todo \ {i}
  BY <1>0 DEF Operations
<1> HIDE DEF o
<1>5. op' \in [Flights -> Operations] /\ op'[f] = o BY <1>3, <1>4, OpType
<1>6. /\ active' \in [Ids -> Instances \cup {Nil}] /\ active'[i] = Nil
      /\ Running' = Running \ {i} /\ \A j \in Running' : active'[j] = active[j]
      /\ \A j \in Ids : active[j] = Nil => active'[j] = Nil
  BY <1>1, <1>2, GoesDown
<1>7. /\ plugins' \in [Ids -> Runtimes \cup {Nil}] /\ Listed(plugins') = Listed(plugins)
      /\ \A j \in Ids : j # i => plugins'[j] = plugins[j]
  BY <1>0, <1>1, <1>2, StatusOnly
<1>8. UNCHANGED <<inst, work, selected, saved, consents, enabledIds, prefetched, withdrawn>>
  BY DEF revokeOne, disk
<1>9. StoreIsSound'
  BY <1>0, <1>5, <1>6, <1>7, <1>8 DEF StoreIsSound, PluginTypeOK, ConsentsAreSaved,
     NothingRunsUnseen, RunsConsented, RunningIsEnabled, Running
<1>10. RevokedIsDown(op[f])'
  <2>1. op[f].removed \subseteq Ids BY <1>0 DEF Operations
  <2> QED BY <1>0, <1>4, <1>5, <1>6, <1>7, <2>1 DEF RevokedIsDown
<1>11. FlightIsSound(op[f])'
  BY <1>0, <1>4, <1>5, <1>10 DEF FlightIsSound, CommandFits, AllIsDown, MayRise, TargetIsDown,
     ChainRises, RisesEnabled
<1> QED BY <1>9, <1>11, OfOne

LEMMA RevokedKeeps ==
  ASSUME OneFlight, PluginInv, NEW f \in Flights, revoked(f) PROVE PluginInv'
<1> USE PluginAssumption
<1>0. /\ op[f].at = "revoke" /\ op[f].todo = {} /\ op[f] \in Operations /\ op[f].id \in Ids
      /\ RevokedIsDown(op[f]) /\ StoreIsSound /\ PluginTypeOK
  BY OpType DEF revoked, FlightIsSound, CommandFits
<1>1. op' \in [Flights -> Operations] /\ op'[f].at = "idle" /\ op'[f].level = {}
  BY SaysType, OpType DEF revoked
<1>2. /\ UNCHANGED <<inst, work, selected, plugins, active, prefetched, withdrawn>>
      /\ consents' = [consents EXCEPT ![op[f].id] = 0] /\ enabledIds' = enabledIds \ op[f].removed
  BY DEF revoked, disk
<1>3. \A i \in op[f].removed : active[i] = Nil BY <1>0 DEF RevokedIsDown
<1>4. Running' = Running /\ op[f].id \notin Running /\ Running \cap op[f].removed = {}
  BY <1>0, <1>2, <1>3 DEF Running, RevokedIsDown
<1>5. consents' \in [Ids -> Versions] /\ enabledIds' \subseteq Ids
      /\ \A i \in Running : consents'[i] = consents[i]
  BY <1>0, <1>2, <1>4 DEF PluginTypeOK, Versions, Running
<1>6. saved' = [consents |-> consents', enabledIds |-> enabledIds'] BY DEF revoked, persist
<1>7. saved' \in [consents : [Ids -> Versions], enabledIds : SUBSET Ids] /\ saved'.consents = consents'
  BY <1>5, <1>6
<1>8. PluginTypeOK' /\ ConsentsAreSaved'
  BY <1>0, <1>1, <1>2, <1>5, <1>7 DEF PluginTypeOK, ConsentsAreSaved
<1>9. NothingRunsUnseen' /\ RunsConsented' /\ RunningIsEnabled'
  BY <1>0, <1>2, <1>4, <1>5 DEF StoreIsSound, NothingRunsUnseen, RunsConsented, RunningIsEnabled
<1>10. CommandFits(op[f])' BY <1>1 DEF CommandFits
<1> QED BY <1>1, <1>8, <1>9, <1>10, IdleIsSound, OfOne DEF StoreIsSound

\* A removal that goes on keeps nothing but what the steps of CascadeIsClosed say.
LEMMA EraseGoesOn ==
  ASSUME NEW f \in Flights, op'[f].at = "erase", op'[f].cmd = "remove", op'[f].id \in Ids,
         op'[f].level = {}
  PROVE  FlightIsSound(op[f])'
  BY DEF FlightIsSound, CommandFits, AllIsDown, MayRise, TargetIsDown, RevokedIsDown,
     ChainRises, RisesEnabled

\* One plugin is taken off the list, or switched off, with its instance down.
LEMMA TakenOff ==
  ASSUME PluginInv, NEW i \in Ids, active' = deactivated(i),
         plugins' \in [Ids -> Runtimes \cup {Nil}], \A j \in Ids \ {i} : plugins'[j] = plugins[j],
         consents' \in [Ids -> Versions], \A j \in Ids \ {i} : consents'[j] = consents[j],
         enabledIds' \subseteq enabledIds, enabledIds \ {i} \subseteq enabledIds',
         saved' = [consents |-> consents', enabledIds |-> enabledIds']
            \/ (saved' = saved /\ consents' = consents),
         inst' \in [Ids -> Versions], work' \in [Ids -> Versions], selected' \subseteq Ids,
         prefetched' = prefetched, withdrawn' = withdrawn,
         op' \in [Flights -> Operations]
  PROVE  StoreIsSound'
<1>0. StoreIsSound /\ PluginTypeOK BY DEF PluginInv, StoreIsSound
<1>1. /\ active' \in [Ids -> Instances \cup {Nil}] /\ active'[i] = Nil
      /\ Running' = Running \ {i} /\ \A j \in Running' : active'[j] = active[j]
  BY GoesDown
<1>2. saved' \in [consents : [Ids -> Versions], enabledIds : SUBSET Ids] /\ saved'.consents = consents'
  BY <1>0 DEF PluginTypeOK, StoreIsSound, ConsentsAreSaved
<1>3. PluginTypeOK' /\ ConsentsAreSaved'
  BY <1>0, <1>1, <1>2 DEF PluginTypeOK, ConsentsAreSaved
<1>4. Running \subseteq Ids BY DEF Running
<1>5. NothingRunsUnseen' /\ RunsConsented' /\ RunningIsEnabled'
  BY <1>0, <1>1, <1>4 DEF StoreIsSound, NothingRunsUnseen, RunsConsented, RunningIsEnabled
<1> QED BY <1>3, <1>5 DEF StoreIsSound

\* The two ways an erasing step can leave its operation: refused, or one less to go.
LEMMA ErasesOne ==
  ASSUME PluginInv, NEW f \in Flights, NEW i \in Ids, op[f].at = "erase",
         op' = Says(f, "no") \/ op' = [op EXCEPT ![f].todo = @ \ {i}, ![f].removed = @ \cup {i}]
  PROVE  op' \in [Flights -> Operations] /\ FlightIsSound(op[f])'
<1>0. op[f] \in Operations /\ op[f].cmd = "remove" /\ op[f].id \in Ids /\ op[f].level = {}
  BY OpType DEF FlightIsSound, CommandFits
<1>1. CASE op' = Says(f, "no")
  <2>1. op' \in [Flights -> Operations] /\ op'[f].at = "idle" /\ op'[f].level = {}
    BY <1>1, SaysType, OpType
  <2>2. CommandFits(op[f])' BY <2>1 DEF CommandFits
  <2> QED BY <2>1, <2>2, IdleIsSound
<1>2. CASE op' = [op EXCEPT ![f].todo = @ \ {i}, ![f].removed = @ \cup {i}]
  <2> DEFINE o == [op[f] EXCEPT !.todo = @ \ {i}, !.removed = @ \cup {i}]
  <2>1. op' = [op EXCEPT ![f] = o] BY <1>2, OpType
  <2>2. o \in Operations /\ o.at = "erase" /\ o.cmd = "remove" /\ o.id = op[f].id /\ o.level = {}
    BY <1>0 DEF Operations
  <2> HIDE DEF o
  <2>3. op' \in [Flights -> Operations] /\ op'[f] = o BY <2>1, <2>2, OpType
  <2> QED BY <1>0, <2>2, <2>3, EraseGoesOn
<1> QED BY <1>1, <1>2

LEMMA RemoveDevKeeps ==
  ASSUME OneFlight, PluginInv, NEW f \in Flights, NEW i \in Ids, removeDev(f, i) PROVE PluginInv'
<1> USE PluginAssumption
<1>0. op[f].at = "erase" /\ PluginTypeOK /\ active' = deactivated(i) BY OpType DEF removeDev
<1>1. op' = Says(f, "no") \/ op' = [op EXCEPT ![f].todo = @ \ {i}, ![f].removed = @ \cup {i}]
  BY DEF removeDev
<1>2. op' \in [Flights -> Operations] /\ FlightIsSound(op[f])' BY <1>0, <1>1, ErasesOne
<1>3. plugins' = plugins \/ plugins' = [plugins EXCEPT ![i] = Nil] BY DEF removeDev
<1>4. /\ plugins' \in [Ids -> Runtimes \cup {Nil}] /\ \A j \in Ids \ {i} : plugins'[j] = plugins[j]
  BY <1>0, <1>3 DEF PluginTypeOK
<1>5. /\ UNCHANGED <<inst, work, consents, prefetched, withdrawn>>
      /\ selected' \subseteq selected /\ enabledIds' \subseteq enabledIds
      /\ enabledIds \ {i} \subseteq enabledIds'
  BY DEF removeDev
<1>6. \/ saved' = [consents |-> consents', enabledIds |-> enabledIds']
      \/ saved' = saved /\ consents' = consents
  BY DEF removeDev, persist
<1>7. StoreIsSound' BY <1>0, <1>2, <1>4, <1>5, <1>6, TakenOff DEF PluginTypeOK
<1> QED BY <1>2, <1>7, OfOne

LEMMA RemoveInstalledKeeps ==
  ASSUME OneFlight, PluginInv, NEW f \in Flights, NEW i \in Ids, removeInstalled(f, i) PROVE PluginInv'
<1> USE PluginAssumption
<1>0. op[f].at = "erase" /\ PluginTypeOK /\ active' = deactivated(i) BY OpType DEF removeInstalled
<1>1. op' = Says(f, "no") \/ op' = [op EXCEPT ![f].todo = @ \ {i}, ![f].removed = @ \cup {i}]
  BY DEF removeInstalled
<1>2. op' \in [Flights -> Operations] /\ FlightIsSound(op[f])' BY <1>0, <1>1, ErasesOne
<1>3. plugins' = plugins \/ plugins' = setRuntime(plugins, i, "disabled") BY DEF removeInstalled
<1>4. /\ plugins' \in [Ids -> Runtimes \cup {Nil}] /\ \A j \in Ids \ {i} : plugins'[j] = plugins[j]
  <2>1. CASE plugins' = plugins BY <1>0, <2>1 DEF PluginTypeOK
  <2>2. CASE plugins' = setRuntime(plugins, i, "disabled") BY <1>0, <2>2, StatusOnly
  <2> QED BY <1>3, <2>1, <2>2
<1>5. /\ UNCHANGED <<work, selected, prefetched, withdrawn>>
      /\ enabledIds' \subseteq enabledIds /\ enabledIds \ {i} \subseteq enabledIds'
  BY DEF removeInstalled
<1>6. /\ inst' = inst \/ inst' = [inst EXCEPT ![i] = 0]
      /\ consents' = consents \/ consents' = [consents EXCEPT ![i] = 0]
  BY DEF removeInstalled
<1>7. /\ inst' \in [Ids -> Versions] /\ consents' \in [Ids -> Versions]
      /\ \A j \in Ids \ {i} : consents'[j] = consents[j]
  BY <1>0, <1>6 DEF PluginTypeOK, Versions
<1>8. \/ saved' = [consents |-> consents', enabledIds |-> enabledIds']
      \/ saved' = saved /\ consents' = consents
  BY DEF removeInstalled, persist
<1>9. StoreIsSound' BY <1>0, <1>2, <1>4, <1>5, <1>7, <1>8, TakenOff DEF PluginTypeOK
<1> QED BY <1>2, <1>9, OfOne

LEMMA RemovedAllKeeps ==
  ASSUME OneFlight, PluginInv, NEW f \in Flights, removedAll(f) PROVE PluginInv'
<1>0. op[f].at = "erase" /\ op[f] \in Operations /\ op[f].cmd = "remove" /\ op[f].level = {}
  BY OpType DEF removedAll, FlightIsSound, CommandFits
<1>1. CASE op' = Says(f, "no") BY <1>1, Refused DEF removedAll
<1>2. CASE op' = [op EXCEPT ![f].at = "down", ![f].todo = Running]
  <2> DEFINE o == [op[f] EXCEPT !.at = "down", !.todo = Running]
  <2>1. op' = [op EXCEPT ![f] = o] BY <1>2, OpType
  <2>2. o \in Operations /\ o.at = "down" /\ o.cmd = "remove" /\ o.todo = Running /\ o.level = {}
    BY <1>0 DEF Operations, Steps, Running
  <2> HIDE DEF o
  <2>3. FlightIsSound(o)
    BY <2>2 DEF FlightIsSound, CommandFits, AllIsDown, MayRise, TargetIsDown, RevokedIsDown,
       ChainRises, RisesEnabled, Rescans
  <2> QED BY <2>1, <2>2, <2>3, OperationBegins DEF removedAll
<1> QED BY <1>1, <1>2 DEF removedAll

\* A development source takes the place of what is installed.
LEMMA DevSelectKeeps ==
  ASSUME OneFlight, PluginInv, NEW f \in Flights, devSelect(f) PROVE PluginInv'
<1> DEFINE i == op[f].id
           o == [op[f] EXCEPT !.at = "put", !.todo = enabledIds \cap {i}]
<1>0. /\ op[f].at = "select" /\ op[f] \in Operations /\ op[f].cmd = "devLoad" /\ i \in Ids
      /\ op[f].level = {} /\ op[f].held[i] # Nil /\ op[f].held[i].source = "dev"
      /\ StoreIsSound /\ PluginTypeOK
  BY OpType DEF devSelect, FlightIsSound, CommandFits, TargetIsDown
<1>1. op' = [op EXCEPT ![f] = o] /\ active' = deactivated(i) /\ selected' = selected \cup {i}
  BY OpType DEF devSelect
<1>2. UNCHANGED <<inst, work, saved, plugins, consents, enabledIds, prefetched, withdrawn>>
  BY DEF devSelect
<1>3. /\ o \in Operations /\ o.at = "put" /\ o.cmd = "devLoad" /\ o.id = i /\ o.level = {}
      /\ o.todo = enabledIds \cap {i} /\ o.held = op[f].held
  BY <1>0 DEF Operations, Steps
<1> HIDE DEF o, i
<1>4. op' \in [Flights -> Operations] /\ op'[f] = o BY <1>1, <1>3, OpType
<1>5. /\ active' \in [Ids -> Instances \cup {Nil}] /\ active'[i] = Nil
      /\ Running' = Running \ {i} /\ \A j \in Running' : active'[j] = active[j]
  BY <1>0, <1>1, GoesDown
<1>6. StoreIsSound'
  BY <1>0, <1>1, <1>2, <1>4, <1>5 DEF StoreIsSound, PluginTypeOK, ConsentsAreSaved,
     NothingRunsUnseen, RunsConsented, RunningIsEnabled, Running
<1>7. FlightIsSound(op[f])'
  BY <1>0, <1>2, <1>3, <1>4, <1>5 DEF FlightIsSound, CommandFits, AllIsDown, MayRise, TargetIsDown,
     RevokedIsDown, ChainRises, RisesEnabled
<1> QED BY <1>6, <1>7, OfOne

LEMMA DevPutKeeps ==
  ASSUME OneFlight, PluginInv, NEW f \in Flights, devPut(f) PROVE PluginInv'
<1> DEFINE i == op[f].id
           o == [op[f] EXCEPT !.at = "up", !.todo = {}, !.level = op[f].todo]
<1>0. /\ op[f].at = "put" /\ op[f] \in Operations /\ op[f].cmd = "devLoad" /\ i \in Ids
      /\ op[f].level = {} /\ op[f].held[i] # Nil /\ op[f].held[i].source = "dev"
      /\ active[i] = Nil /\ op[f].todo \subseteq {i} /\ RisesEnabled(op[f])
      /\ StoreIsSound /\ PluginTypeOK
  BY OpType DEF devPut, FlightIsSound, CommandFits, TargetIsDown
<1>1. plugins' = [plugins EXCEPT ![i] = op[f].held[i]] BY DEF devPut
<1>2. op' = [op EXCEPT ![f] = o]
  <2>1. op' = [op EXCEPT ![f].at = "up", ![f].todo = {}, ![f].level = op[f].todo] BY DEF devPut
  <2> QED BY <2>1, OpType
<1>3. UNCHANGED <<inst, work, selected, saved, consents, enabledIds, active, prefetched, withdrawn>>
  BY DEF devPut, disk
<1>4. /\ o \in Operations /\ o.at = "up" /\ o.cmd = "devLoad" /\ o.id = i
      /\ o.todo = {} /\ o.level = op[f].todo /\ o.held = op[f].held
  BY <1>0 DEF Operations, Steps
<1>5. op[f].held[i] \in Runtimes BY <1>0 DEF Operations
<1> HIDE DEF o, i
<1>6. op' \in [Flights -> Operations] /\ op'[f] = o BY <1>2, <1>4, OpType
<1>7. /\ plugins' \in [Ids -> Runtimes \cup {Nil}] /\ plugins'[i] = op[f].held[i]
      /\ \A j \in Ids : j # i => plugins'[j] = plugins[j]
  BY <1>0, <1>1, <1>5 DEF PluginTypeOK
<1>8. Running' = Running /\ i \notin Running BY <1>0, <1>3 DEF Running
<1>9. StoreIsSound'
  BY <1>0, <1>3, <1>6, <1>7, <1>8 DEF StoreIsSound, PluginTypeOK, ConsentsAreSaved,
     NothingRunsUnseen, RunsConsented, RunningIsEnabled, Running
<1>10. MayRise(op[f])'
  BY <1>0, <1>3, <1>4, <1>6, <1>7 DEF MayRise, Cleared
<1>11. FlightIsSound(op[f])'
  BY <1>0, <1>3, <1>4, <1>6, <1>10 DEF FlightIsSound, CommandFits, AllIsDown, TargetIsDown,
     RevokedIsDown, ChainRises, RisesEnabled
<1> QED BY <1>9, <1>11, OfOne

------------------------------------------------------------------------------
(* Around the window. *)

\* What an operation holds stays sound when only more is cleared to run.
LEMMA FlightStays ==
  ASSUME NEW f \in Flights, PluginInv, UNCHANGED <<plugins, active, op>>,
         withdrawn \subseteq withdrawn',
         withdrawn' = {} => enabledIds' = enabledIds,
         \A j \in Ids : plugins[j] # Nil /\ Cleared(j) => Cleared(j)'
  PROVE  FlightIsSound(op[f])'
<1>0. op[f] \in Operations /\ FlightIsSound(op[f]) BY OpType
<1>1. op[f].todo \subseteq Ids /\ op[f].level \subseteq Ids BY <1>0 DEF Operations
<1>2. MayRise(op[f])' BY <1>0, <1>1 DEF FlightIsSound, MayRise
<1>3. RisesEnabled(op[f])'
  <2>1. withdrawn' = {} => withdrawn = {} OBVIOUS
  <2> QED BY <1>0, <2>1 DEF FlightIsSound, RisesEnabled
<1>4. /\ CommandFits(op[f])' /\ AllIsDown(op[f])' /\ TargetIsDown(op[f])' /\ RevokedIsDown(op[f])'
      /\ ChainRises(op[f])'
  BY <1>0 DEF FlightIsSound, CommandFits, AllIsDown, Running, TargetIsDown, RevokedIsDown,
     ChainRises, transitiveDependents, activationChain, Listed
<1> QED BY <1>2, <1>3, <1>4 DEF FlightIsSound

LEMMA GrantConsentKeeps ==
  ASSUME PluginInv, NEW i \in Ids, grantConsent(i) PROVE PluginInv'
<1> USE PluginAssumption
<1>0. StoreIsSound /\ PluginTypeOK BY DEF PluginInv, StoreIsSound
<1>1. /\ plugins[i] \in Runtimes /\ plugins[i].ver \in Versions
  BY <1>0 DEF grantConsent, PluginTypeOK, Runtimes
<1>2. /\ consents' = [consents EXCEPT ![i] = plugins[i].ver]
      /\ UNCHANGED <<inst, work, selected, plugins, enabledIds, active, prefetched, op, withdrawn>>
  BY DEF grantConsent, disk
<1>3. consents' \in [Ids -> Versions] /\ consents'[i] = plugins[i].ver
      /\ \A j \in Ids \ {i} : consents'[j] = consents[j]
  BY <1>0, <1>1, <1>2 DEF PluginTypeOK
<1>4. saved' = [consents |-> consents', enabledIds |-> enabledIds'] BY DEF grantConsent, persist
<1>5. saved' \in [consents : [Ids -> Versions], enabledIds : SUBSET Ids] /\ saved'.consents = consents'
  BY <1>0, <1>2, <1>3, <1>4 DEF PluginTypeOK
<1>6. Running' = Running /\ Running \subseteq Ids BY <1>2 DEF Running
<1>7. PluginTypeOK' /\ ConsentsAreSaved'
  BY <1>0, <1>2, <1>3, <1>5 DEF PluginTypeOK, ConsentsAreSaved
<1>8. NothingRunsUnseen' /\ RunningIsEnabled'
  BY <1>0, <1>2, <1>6 DEF StoreIsSound, NothingRunsUnseen, RunningIsEnabled
<1>9. RunsConsented'
  <2>1. ASSUME NEW j \in Running
        PROVE  active'[j].source = "dev" \/ j \in withdrawn' \/ consents'[j] = active'[j].ver
    <3>1. CASE j = i BY <1>0, <1>2, <1>3, <3>1 DEF StoreIsSound, NothingRunsUnseen
    <3>2. CASE j # i BY <1>0, <1>2, <1>3, <1>6, <3>2 DEF StoreIsSound, RunsConsented
    <3> QED BY <3>1, <3>2
  <2> QED BY <1>6, <2>1 DEF RunsConsented
<1>10. \A j \in Ids : plugins[j] # Nil /\ Cleared(j) => Cleared(j)'
  BY <1>2, <1>3 DEF Cleared
<1>11. \A f \in Flights : FlightIsSound(op[f])' BY <1>2, <1>10, FlightStays
<1> QED BY <1>7, <1>8, <1>9, <1>11 DEF PluginInv, StoreIsSound

LEMMA EditKeeps ==
  ASSUME PluginInv, NEW i \in Ids, edit(i) PROVE PluginInv'
<1> USE PluginAssumption
<1>0. StoreIsSound /\ PluginTypeOK BY DEF PluginInv, StoreIsSound
<1>1. /\ work' \in [Ids -> Versions]
      /\ UNCHANGED <<inst, selected, saved, plugins, consents, enabledIds, active, prefetched, op,
                     withdrawn>>
  BY <1>0 DEF edit, PluginTypeOK, Versions, memory
<1>2. StoreIsSound' /\ Running' = Running
  BY <1>0, <1>1, SameStore DEF PluginTypeOK
<1>3. \A j \in Ids : plugins[j] # Nil /\ Cleared(j) => Cleared(j)' BY <1>1 DEF Cleared
<1>4. \A f \in Flights : FlightIsSound(op[f])' BY <1>1, <1>3, FlightStays
<1> QED BY <1>2, <1>4 DEF PluginInv

LEMMA ElsewhereKeeps ==
  ASSUME PluginInv, NEW i \in Ids, elsewhere(i) PROVE PluginInv'
<1> USE PluginAssumption
<1>0. StoreIsSound /\ PluginTypeOK BY DEF PluginInv, StoreIsSound
<1>1. PICK ver \in {0} \cup (inst[i] + 1 .. MaxVersion) : inst' = [inst EXCEPT ![i] = ver]
  BY DEF elsewhere
<1>2. inst[i] \in 0 .. MaxVersion BY <1>0 DEF PluginTypeOK, Versions
<1>3. ver \in Versions BY <1>1, <1>2 DEF Versions
<1>4. /\ inst' \in [Ids -> Versions]
      /\ UNCHANGED <<work, selected, saved, plugins, consents, enabledIds, active, prefetched, op,
                     withdrawn>>
  BY <1>0, <1>1, <1>3 DEF elsewhere, PluginTypeOK, memory
<1>5. StoreIsSound' /\ Running' = Running
  BY <1>0, <1>4, SameStore DEF PluginTypeOK
<1>6. \A j \in Ids : plugins[j] # Nil /\ Cleared(j) => Cleared(j)' BY <1>4 DEF Cleared
<1>7. \A f \in Flights : FlightIsSound(op[f])' BY <1>4, <1>6, FlightStays
<1> QED BY <1>5, <1>7 DEF PluginInv

LEMMA ApplyRevokeKeeps ==
  ASSUME PluginInv, NEW i \in Ids, applyRevoke(i) PROVE PluginInv'
<1> USE PluginAssumption
<1>0. StoreIsSound /\ PluginTypeOK BY DEF PluginInv, StoreIsSound
<1>1. /\ consents' = [saved.consents EXCEPT ![i] = 0] /\ enabledIds' \subseteq saved.enabledIds
      /\ withdrawn' = withdrawn \cup {i}
      /\ UNCHANGED <<inst, work, selected, plugins, active, prefetched, op>>
  BY DEF applyRevoke, disk
<1>2. consents' \in [Ids -> Versions] /\ enabledIds' \subseteq Ids
      /\ \A j \in Ids \ {i} : consents'[j] = consents[j]
  BY <1>0, <1>1 DEF StoreIsSound, ConsentsAreSaved, PluginTypeOK, Versions
<1>3. saved' = [consents |-> consents', enabledIds |-> enabledIds'] BY DEF applyRevoke, persist
<1>4. saved' \in [consents : [Ids -> Versions], enabledIds : SUBSET Ids] /\ saved'.consents = consents'
  BY <1>2, <1>3
<1>5. Running' = Running /\ Running \subseteq Ids BY <1>1 DEF Running
<1>6. PluginTypeOK' /\ ConsentsAreSaved'
  BY <1>0, <1>1, <1>2, <1>4 DEF PluginTypeOK, ConsentsAreSaved
<1>7. NothingRunsUnseen' /\ RunsConsented' /\ RunningIsEnabled'
  BY <1>0, <1>1, <1>2, <1>5 DEF StoreIsSound, NothingRunsUnseen, RunsConsented, RunningIsEnabled
<1>8. \A j \in Ids : plugins[j] # Nil /\ Cleared(j) => Cleared(j)' BY <1>1, <1>2 DEF Cleared
<1>9. \A f \in Flights : FlightIsSound(op[f])' BY <1>1, <1>8, FlightStays
<1> QED BY <1>6, <1>7, <1>9 DEF PluginInv, StoreIsSound

\* A window that starts: nothing runs, and the one operation is its first reload.
LEMMA BootType ==
  ASSUME NEW f \in Flights
  PROVE  /\ boot(f) \in [Flights -> Operations]
         /\ \A g \in Flights : /\ boot(f)[g].at \in {"down", "idle"} /\ boot(f)[g].level = {}
                               /\ boot(f)[g].at = "down" => boot(f)[g].cmd = "reload"
<1> DEFINE o == [Idle EXCEPT !.at = "down", !.cmd = "reload"]
<1>1. o \in Operations /\ o.at = "down" /\ o.cmd = "reload" /\ o.level = {}
  BY IdleType DEF Operations, Steps, Commands, Rescans
<1>2. Idle \in Operations /\ Idle.at = "idle" /\ Idle.level = {} BY IdleType DEF Idle
<1>3. boot(f) = [g \in Flights |-> IF g = f THEN o ELSE Idle] BY DEF boot
<1> HIDE DEF o
<1> QED BY <1>1, <1>2, <1>3

LEMMA StartIsSound ==
  ASSUME NEW f \in Flights, op' = boot(f), Running' = {}
  PROVE  op' \in [Flights -> Operations] /\ \A g \in Flights : FlightIsSound(op[g])'
  BY BootType DEF FlightIsSound, CommandFits, AllIsDown, MayRise, TargetIsDown, RevokedIsDown,
     ChainRises, RisesEnabled, Rescans

LEMMA RestartKeeps ==
  ASSUME PluginInv, NEW f \in Flights, restart(f) PROVE PluginInv'
<1> USE PluginAssumption
<1>0. StoreIsSound /\ PluginTypeOK BY DEF PluginInv, StoreIsSound
<1>1. /\ plugins' = Nothing /\ active' = Nothing /\ prefetched' = Nothing
      /\ consents' = saved.consents /\ enabledIds' = saved.enabledIds /\ op' = boot(f)
      /\ UNCHANGED <<inst, work, selected, saved, withdrawn>>
  BY DEF restart, Nothing, disk
<1>2. Running' = {} BY <1>1 DEF Running, Nothing
<1>3. op' \in [Flights -> Operations] /\ \A g \in Flights : FlightIsSound(op[g])'
  BY <1>1, <1>2, StartIsSound
<1>4. PluginTypeOK' /\ ConsentsAreSaved'
  BY <1>0, <1>1, <1>3 DEF PluginTypeOK, ConsentsAreSaved, Nothing
<1>5. NothingRunsUnseen' /\ RunsConsented' /\ RunningIsEnabled'
  BY <1>2 DEF NothingRunsUnseen, RunsConsented, RunningIsEnabled
<1> QED BY <1>3, <1>4, <1>5 DEF PluginInv, StoreIsSound

LEMMA PluginInitial == ASSUME PluginInit PROVE PluginInv
<1> USE PluginAssumption
<1>1. /\ plugins = Nothing /\ active = Nothing /\ prefetched = Nothing
      /\ saved = [consents |-> [i \in Ids |-> 1], enabledIds |-> Ids]
      /\ consents = saved.consents /\ enabledIds = saved.enabledIds
      /\ inst = [i \in Ids |-> 1] /\ work = [i \in Ids |-> IF i \in Workspaces THEN 1 ELSE 0]
      /\ selected = {} /\ withdrawn = {}
  BY DEF PluginInit, Nothing
<1>2. PICK f \in Flights : op = boot(f) BY DEF PluginInit
<1>3. 0 \in Versions /\ 1 \in Versions BY DEF Versions
<1>4. Running = {} BY <1>1 DEF Running, Nothing
<1>5. op \in [Flights -> Operations] /\ \A g \in Flights : FlightIsSound(op[g])
  BY <1>2, <1>4, BootType DEF FlightIsSound, CommandFits, AllIsDown, MayRise, TargetIsDown,
     RevokedIsDown, ChainRises, RisesEnabled, Rescans
<1>6. PluginTypeOK /\ ConsentsAreSaved
  BY <1>1, <1>3, <1>5 DEF PluginTypeOK, ConsentsAreSaved, Nothing
<1>7. NothingRunsUnseen /\ RunsConsented /\ RunningIsEnabled
  BY <1>4 DEF NothingRunsUnseen, RunsConsented, RunningIsEnabled
<1> QED BY <1>5, <1>6, <1>7 DEF PluginInv, StoreIsSound

LEMMA PluginStutters == ASSUME PluginInv, UNCHANGED pluginVars PROVE PluginInv'
<1>0. StoreIsSound /\ PluginTypeOK BY DEF PluginInv, StoreIsSound
<1>1. UNCHANGED <<inst, work, selected, saved, plugins, consents, enabledIds, active, prefetched, op,
                  withdrawn>>
  BY DEF pluginVars, disk, memory
<1>2. StoreIsSound' BY <1>0, <1>1, SameStore DEF PluginTypeOK
<1>3. \A j \in Ids : plugins[j] # Nil /\ Cleared(j) => Cleared(j)' BY <1>1 DEF Cleared
<1>4. \A f \in Flights : FlightIsSound(op[f])' BY <1>1, <1>3, FlightStays
<1> QED BY <1>2, <1>4 DEF PluginInv

LEMMA PluginStep ==
  ASSUME OneFlight, PluginInv, [PluginNext]_pluginVars PROVE PluginInv'
<1>1. CASE UNCHANGED pluginVars BY <1>1, PluginStutters
<1>2. ASSUME NEW f \in Flights, Asked(f) PROVE PluginInv'
  BY <1>2, ReloadKeeps, EnableKeeps, DisableKeeps, ReloadOneKeeps, RevokeKeeps, InstallKeeps,
     UnitDevRemoveKeeps, DevLoadKeeps, RemoveKeeps DEF Asked
<1>3. ASSUME NEW f \in Flights, Underway(f) PROVE PluginInv'
  BY <1>3, DeactivateAllKeeps, ScanKeeps, ListUnitsKeeps, PrefetchKeeps, NextLevelKeeps, AllUpKeeps,
     DisabledKeeps, RereadKeeps, ReenableKeeps, RevokeOneKeeps, RevokedKeeps, RemovedAllKeeps,
     DevSelectKeeps, DevPutKeeps, ActivateKeeps, ActivateFailsKeeps, RemoveDevKeeps,
     RemoveInstalledKeeps DEF Underway
<1>4. CASE Around
  BY <1>4, GrantConsentKeeps, EditKeeps, ElsewhereKeeps, ApplyRevokeKeeps, RestartKeeps DEF Around
<1> QED BY <1>1, <1>2, <1>3, <1>4 DEF PluginNext

------------------------------------------------------------------------------
(* The cascade of a removal. *)

\* What a listed plugin declares it reaches.
LEMMA ReachesDirect ==
  ASSUME NEW known \in SUBSET Ids, NEW j \in known, NEW x \in Deps[j]
  PROVE  x \in Reaches(j, known)
<1>1. x \in Ids BY PluginAssumption
<1> QED BY <1>1 DEF Reaches, Declares

\* And what that reaches.
LEMMA ReachesOn ==
  ASSUME NEW known \in SUBSET Ids, NEW j \in known, NEW x \in Deps[j], NEW y \in Reaches(x, known)
  PROVE  y \in Reaches(j, known)
<1>1. y \in Ids BY DEF Reaches
<1>2. ASSUME NEW S \in SUBSET Ids, Declares(j, known) \subseteq S,
             \A k \in S : Declares(k, known) \subseteq S
      PROVE  y \in S
  <2>1. x \in S BY <1>2 DEF Declares
  <2>2. Declares(x, known) \subseteq S BY <1>2, <2>1
  <2> QED BY <1>2, <2>2 DEF Reaches
<1> QED BY <1>1, <1>2 DEF Reaches

\* Whatever needs a plugin that depends on i, or i itself, depends on i.
LEMMA DependentsAreClosed ==
  ASSUME NEW known \in SUBSET Ids, NEW i \in known, NEW r \in known,
         Deps[r] \cap (transitiveDependents(i, known) \cup {i}) # {}
  PROVE  r \in transitiveDependents(i, known) \cup {i}
<1>1. PICK x \in Deps[r] : x \in transitiveDependents(i, known) \cup {i} OBVIOUS
<1>2. CASE x = i BY <1>2, ReachesDirect DEF transitiveDependents
<1>3. CASE x # i
  <2>1. i \in Reaches(x, known) BY <1>1, <1>3 DEF transitiveDependents
  <2>2. i \in Reaches(r, known) BY <2>1, ReachesOn
  <2> QED BY <2>2 DEF transitiveDependents
<1> QED BY <1>2, <1>3

\* The part of CascadeIsClosed that speaks of one flight.
ClosedFor(f) ==
  /\ op[f].at = "erase" =>
       /\ op[f].todo \subseteq transitiveDependents(op[f].id, op[f].known) \cup {op[f].id}
       /\ op[f].id \in op[f].known /\ op[f].known \subseteq Ids
       /\ \A i \in Running : Deps[i] \cap (op[f].todo \cup op[f].removed) # {} => i \in op[f].todo
       /\ \A i \in op[f].todo : Deps[i] \cap op[f].removed = {}
  /\ op[f].at = "down" /\ op[f].cmd = "remove" =>
       \A i \in Running : Deps[i] \cap op[f].removed = {}

LEMMA ClosedOfOne ==
  ASSUME OneFlight, NEW f \in Flights, ClosedFor(f)'
  PROVE  CascadeIsClosed'
<1>1. \A g \in Flights : g = f BY DEF OneFlight
<1> QED BY <1>1 DEF ClosedFor, CascadeIsClosed

LEMMA RemoveCloses ==
  ASSUME OneFlight, PluginInv, NEW f \in Flights, NEW i \in Ids, NEW cascade \in BOOLEAN,
         remove(f, i, cascade)
  PROVE  CascadeIsClosed'
<1> DEFINE known == Listed(plugins)
           order == transitiveDependents(i, known) \cup {i}
           o == [Idle EXCEPT !.at = "erase", !.cmd = "remove", !.id = i, !.known = known, !.todo = order]
<1>1. CASE op' = Says(f, "no")
  <2>1. op'[f].at = "idle" BY <1>1, SaysType, OpType
  <2> QED BY <2>1, ClosedOfOne DEF ClosedFor
<1>2. CASE op' = [op EXCEPT ![f] = o]
  <2>1. known \in SUBSET Ids /\ order \in SUBSET Ids /\ i \in known
    BY DEF Listed, transitiveDependents, remove
  <2>2. \A r \in Running : r \in known
    BY OpType DEF StoreIsSound, NothingRunsUnseen, Listed, Running
  <2>3. \A r \in Running : Deps[r] \cap order # {} => r \in order
    BY <2>1, <2>2, DependentsAreClosed
  <2>4. order = transitiveDependents(i, known) \cup {i} OBVIOUS
  <2> HIDE DEF known, order
  <2>5. /\ o \in Operations /\ o.at = "erase" /\ o.cmd = "remove" /\ o.id = i /\ o.known = known
        /\ o.todo = order /\ o.removed = {}
    BY <2>1, IdleType DEF Operations, Steps, Commands, Rescans
  <2> HIDE DEF o
  <2>6. op'[f] = o /\ Running' = Running BY <1>2, OpType DEF remove, memory, Running
  <2>7. ClosedFor(f)' BY <2>1, <2>3, <2>4, <2>5, <2>6 DEF ClosedFor
  <2> QED BY <2>7, ClosedOfOne
<1>3. op' = Says(f, "no") \/ op' = [op EXCEPT ![f] = o]
  <2>1. transitiveDependents(i, known) = {} => {i} = order OBVIOUS
  <2> QED BY <2>1 DEF remove
<1> QED BY <1>1, <1>2, <1>3

\* One of the order goes: nothing that needs it is left to go.
LEMMA OneGoes ==
  ASSUME OneFlight, DependentsFirst, PluginInv, CascadeIsClosed, NEW f \in Flights, NEW i \in Ids,
         op[f].at = "erase", i \in NextToGo(f), active' = deactivated(i),
         op' = Says(f, "no") \/ op' = [op EXCEPT ![f].todo = @ \ {i}, ![f].removed = @ \cup {i}]
  PROVE  CascadeIsClosed'
<1>0. op[f] \in Operations BY OpType
<1>1. /\ op[f].todo \subseteq transitiveDependents(op[f].id, op[f].known) \cup {op[f].id}
      /\ op[f].id \in op[f].known /\ op[f].known \subseteq Ids
      /\ \A r \in Running : Deps[r] \cap (op[f].todo \cup op[f].removed) # {} => r \in op[f].todo
      /\ \A r \in op[f].todo : Deps[r] \cap op[f].removed = {}
  BY DEF CascadeIsClosed
<1>2. Running' = Running \ {i} BY GoesDown
<1>3. CASE op' = Says(f, "no")
  <2>1. op'[f].at = "idle" BY <1>3, SaysType, OpType
  <2> QED BY <2>1, ClosedOfOne DEF ClosedFor
<1>4. CASE op' = [op EXCEPT ![f].todo = @ \ {i}, ![f].removed = @ \cup {i}]
  <2> DEFINE o == [op[f] EXCEPT !.todo = @ \ {i}, !.removed = @ \cup {i}]
  <2>1. op' = [op EXCEPT ![f] = o] BY <1>4, OpType
  <2>2. /\ o \in Operations /\ o.at = "erase" /\ o.id = op[f].id /\ o.known = op[f].known
        /\ o.todo = op[f].todo \ {i} /\ o.removed = op[f].removed \cup {i}
    BY <1>0 DEF Operations
  <2> HIDE DEF o
  <2>3. op'[f] = o BY <2>1, <2>2, OpType
  <2>4. i \in op[f].todo BY DEF NextToGo, cascadeLevel
  <2>5. i \in cascadeLevel(op[f].todo, op[f].id, op[f].known) BY DEF NextToGo
  <2>6. \A k \in op[f].todo : i \notin Deps[k]
    BY <1>1, <2>5 DEF DependentsFirst
  <2>7. ClosedFor(f)' BY <1>1, <1>2, <2>2, <2>3, <2>4, <2>6 DEF ClosedFor
  <2> QED BY <2>7, ClosedOfOne
<1> QED BY <1>3, <1>4

LEMMA RemovedAllCloses ==
  ASSUME OneFlight, PluginInv, CascadeIsClosed, NEW f \in Flights, removedAll(f)
  PROVE  CascadeIsClosed'
<1>0. op[f] \in Operations /\ Running' = Running BY OpType DEF removedAll, memory, Running
<1>1. CASE op' = Says(f, "no")
  <2>1. op'[f].at = "idle" BY <1>1, SaysType, OpType
  <2> QED BY <2>1, ClosedOfOne DEF ClosedFor
<1>2. CASE op[f].todo = {} /\ op' = [op EXCEPT ![f].at = "down", ![f].todo = Running]
  <2> DEFINE o == [op[f] EXCEPT !.at = "down", !.todo = Running]
  <2>1. op' = [op EXCEPT ![f] = o] BY <1>2, OpType
  <2>2. o \in Operations /\ o.at = "down" /\ o.removed = op[f].removed
    BY <1>0 DEF Operations, Steps, Running
  <2> HIDE DEF o
  <2>3. op'[f] = o BY <2>1, <2>2, OpType
  <2>4. \A i \in Running : Deps[i] \cap op[f].removed = {}
    BY <1>2 DEF CascadeIsClosed, removedAll
  <2>5. ClosedFor(f)' BY <1>0, <2>2, <2>3, <2>4 DEF ClosedFor
  <2> QED BY <2>5, ClosedOfOne
<1> QED BY <1>1, <1>2 DEF removedAll

LEMMA DeactivateAllCloses ==
  ASSUME OneFlight, PluginInv, CascadeIsClosed, NEW f \in Flights, deactivateAll(f)
  PROVE  CascadeIsClosed'
<1>0. op[f] \in Operations /\ op[f].at = "down" BY OpType DEF deactivateAll
<1>1. CASE op' = To(f, "scan")
  <2>1. op'[f] = [op[f] EXCEPT !.at = "scan"] BY <1>1, ToType, OpType DEF Steps
  <2>2. op'[f].at = "scan" BY <1>0, <2>1 DEF Operations
  <2> QED BY <2>2, ClosedOfOne DEF ClosedFor
<1>2. ASSUME NEW i \in op[f].todo, active' = deactivated(i), op' = [op EXCEPT ![f].todo = @ \ {i}]
      PROVE  CascadeIsClosed'
  <2>1. op'[f] = [op[f] EXCEPT !.todo = @ \ {i}] BY <1>2, OpType
  <2>2. op'[f].at = "down" /\ op'[f].cmd = op[f].cmd /\ op'[f].removed = op[f].removed
    BY <1>0, <2>1 DEF Operations
  <2>3. Running' \subseteq Running
    <3>1. i \in Ids BY <1>0 DEF Operations
    <3> QED BY <1>2, <3>1, GoesDown
  <2>4. ClosedFor(f)' BY <1>0, <2>2, <2>3 DEF ClosedFor, CascadeIsClosed
  <2> QED BY <2>4, ClosedOfOne
<1> QED BY <1>1, <1>2 DEF deactivateAll

\* A step that leaves its operation somewhere else has nothing to show.
LEMMA ElsewhereCloses ==
  ASSUME OneFlight, NEW f \in Flights, op'[f].at \notin {"erase", "down"}
  PROVE  CascadeIsClosed'
  BY ClosedOfOne DEF ClosedFor

\* A rescan that is not a removal's.
LEMMA RescanCloses ==
  ASSUME OneFlight, PluginInv, NEW f \in Flights, NEW cmd \in Rescans \ {"remove"},
         op' = [op EXCEPT ![f] = [Idle EXCEPT !.at = "down", !.cmd = cmd, !.todo = Running]]
  PROVE  CascadeIsClosed'
<1> DEFINE o == [Idle EXCEPT !.at = "down", !.cmd = cmd, !.todo = Running]
<1>1. o.at = "down" /\ o.cmd = cmd BY IdleType DEF Operations
<1> HIDE DEF o
<1>2. op'[f] = o BY OpType DEF o
<1> QED BY <1>1, <1>2, ClosedOfOne DEF ClosedFor

\* A step that says or begins something, by where it leaves the operation.
LEMMA Leaves ==
  ASSUME PluginInv, NEW f \in Flights, NEW o, o.at \notin {"erase", "down", "idle"},
         op' = [op EXCEPT ![f] = o]
  PROVE  op'[f].at \notin {"erase", "down", "idle"}
  BY OpType

LEMMA SaysLeaves ==
  ASSUME PluginInv, NEW f \in Flights, NEW said \in {"no", "ok"}, op' = Says(f, said)
  PROVE  op'[f].at \notin {"erase", "down"} /\ op'[f].said = said
<1>1. op'[f].at = "idle" /\ op'[f].said = said BY SaysType, OpType
<1> QED BY <1>1

LEMMA ToLeaves ==
  ASSUME PluginInv, NEW f \in Flights, NEW at \in Steps \ {"erase", "down", "idle"}, op' = To(f, at)
  PROVE  op'[f].at \notin {"erase", "down", "idle"}
<1>1. op'[f] = [op[f] EXCEPT !.at = at] BY ToType, OpType
<1>2. op'[f].at = at BY <1>1, OpType DEF Operations
<1> QED BY <1>2

LEMMA EnablingLeaves ==
  ASSUME PluginInv, NEW f \in Flights, NEW cmd, NEW i, op' = enabling(f, cmd, i)
  PROVE  /\ op'[f].at \notin {"erase", "down"}
         /\ op'[f].at = "idle" /\ op'[f].said = "ok" => plugins[i] # Nil /\ active[i] # Nil
<1> DEFINE o == [Idle EXCEPT !.at = "up", !.cmd = cmd, !.id = i,
                             !.todo = activationChain(i, plugins), !.known = Listed(plugins)]
<1>1. o.at = "up" BY IdleType DEF Operations
<1>2. \/ op' = Says(f, "no") \/ (op' = Says(f, "ok") /\ plugins[i] # Nil /\ active[i] # Nil)
      \/ op' = [op EXCEPT ![f] = o]
  BY DEF enabling
<1> HIDE DEF o
<1> QED BY <1>1, <1>2, SaysLeaves, Leaves

\* The other steps an operation is asked for with.
LEMMA AskedLeaves ==
  ASSUME PluginInv, NEW f \in Flights, NEW i \in Ids,
         enable(f, i) \/ disable(f, i) \/ reloadOne(f, i) \/ revokeConsent(f, i) \/ devLoad(f, i)
  PROVE  op'[f].at \notin {"erase", "down"}
<1>1. CASE enable(f, i) BY <1>1, EnablingLeaves DEF enable
<1>2. CASE disable(f, i)
  <2> DEFINE o == [Idle EXCEPT !.at = "disabling", !.cmd = "disable", !.id = i]
  <2>1. op' = [op EXCEPT ![f] = o] BY <1>2 DEF disable
  <2>2. o.at = "disabling" BY IdleType DEF Operations
  <2> HIDE DEF o
  <2> QED BY <2>1, <2>2, Leaves
<1>3. CASE reloadOne(f, i)
  <2> DEFINE o == [Idle EXCEPT !.at = "reread", !.cmd = "reloadOne", !.id = i, !.held[i] = plugins[i]]
  <2>1. op' = [op EXCEPT ![f] = o] BY <1>3 DEF reloadOne
  <2>2. o.at = "reread" BY IdleType DEF Operations
  <2> HIDE DEF o
  <2> QED BY <2>1, <2>2, Leaves
<1>4. CASE revokeConsent(f, i)
  <2> DEFINE affected == transitiveDependents(i, Listed(plugins)) \cup {i}
             o == [Idle EXCEPT !.at = "revoke", !.cmd = "revoke", !.id = i, !.known = Listed(plugins),
                               !.todo = affected, !.removed = affected]
  <2>1. op' = [op EXCEPT ![f] = o] BY <1>4 DEF revokeConsent
  <2> HIDE DEF affected
  <2>2. o.at = "revoke" BY IdleType DEF Operations
  <2> HIDE DEF o
  <2> QED BY <2>1, <2>2, Leaves
<1>5. CASE devLoad(f, i)
  <2> DEFINE rt == parseRuntime(work[i], "dev")
             o == [Idle EXCEPT !.at = "select", !.cmd = "devLoad", !.id = i, !.held[i] = rt]
  <2>1. op' = Says(f, "no") \/ op' = [op EXCEPT ![f] = o] BY <1>5 DEF devLoad
  <2> HIDE DEF rt
  <2>2. o.at = "select" BY IdleType DEF Operations
  <2> HIDE DEF o
  <2> QED BY <2>1, <2>2, Leaves, SaysLeaves
<1> QED BY <1>1, <1>2, <1>3, <1>4, <1>5

\* The other steps of an operation under way, and which of them say that all is well.
LEMMA UnderwayLeaves ==
  ASSUME PluginInv, NEW f \in Flights,
         \/ scan(f) \/ listUnits(f) \/ prefetch(f) \/ nextLevel(f) \/ allUp(f) \/ disabled(f) \/ reread(f)
         \/ reenable(f) \/ revokeOne(f) \/ revoked(f) \/ devSelect(f) \/ devPut(f)
         \/ \E i \in Ids : activateRuntime(f, i) \/ activateFails(f, i)
  PROVE  /\ op'[f].at \notin {"erase", "down"}
         /\ op'[f].at = "idle" /\ op'[f].said = "ok" => allUp(f) \/ revoked(f) \/ disabled(f)
<1>0. op[f] \in Operations /\ op \in [Flights -> Operations] BY OpType
<1>1. CASE scan(f)
  <2> DEFINE h == [i \in Ids |-> parseRuntime(inst[i], "installed")]
             o == [op[f] EXCEPT !.at = "units", !.held = h]
  <2>1. op' = Says(f, "no") \/ op' = [op EXCEPT ![f] = o]
    <3>1. op' \in {Says(f, "no"), [op EXCEPT ![f].at = "units", ![f].held = h]} BY <1>1 DEF scan
    <3> QED BY <1>0, <3>1
  <2>2. o.at = "units" BY <1>0 DEF Operations
  <2> HIDE DEF o
  <2> QED BY <2>1, <2>2, Leaves, SaysLeaves
<1>2. CASE listUnits(f)
  <2> DEFINE up == ready(plugins')
             o == [op[f] EXCEPT !.at = "fetch", !.todo = up, !.held = Nothing]
  <2>1. op' = [op EXCEPT ![f] = o] BY <1>0, <1>2 DEF listUnits
  <2>2. o.at = "fetch" BY <1>0 DEF Operations
  <2> HIDE DEF o
  <2> QED BY <2>1, <2>2, Leaves
<1>3. CASE prefetch(f) BY <1>3, ToLeaves DEF prefetch, Steps
<1>4. CASE reenable(f)
  <2>1. active[op[f].id] = Nil
    BY <1>4, OpType DEF reenable, FlightIsSound, TargetIsDown
  <2> QED BY <1>4, <2>1, EnablingLeaves DEF reenable
<1>5. CASE allUp(f) \/ revoked(f) BY <1>5, SaysLeaves DEF allUp, revoked
<1>6. CASE disabled(f) BY <1>6, SaysLeaves, ToLeaves DEF disabled, Steps
<1>7. CASE nextLevel(f)
  <2>1. \E x, y, z : op' = [op EXCEPT ![f] = [op[f] EXCEPT !.todo = x, !.level = y, !.held = z]]
    <3>1. CASE Enabling(f)
      <4>0. PICK i \in chainLevel(op[f].todo, op[f].id, op[f].known) :
              op' = [op EXCEPT ![f].todo = @ \ {i},
                               ![f].level = IF plugins[i] = Nil \/ (plugins[i].status = "enabled" /\ active[i] # Nil)
                                            THEN {} ELSE {i},
                               ![f].held[i] = plugins[i]]
        BY <1>7, <3>1, Zenon DEF nextLevel
      <4> DEFINE y == IF plugins[i] = Nil \/ (plugins[i].status = "enabled" /\ active[i] # Nil)
                      THEN {} ELSE {i}
      <4>1. op' = [op EXCEPT ![f].todo = @ \ {i}, ![f].level = y, ![f].held[i] = plugins[i]]
        BY <4>0, Zenon
      <4> HIDE DEF y
      <4>2. op' = [op EXCEPT ![f] = [op[f] EXCEPT !.todo = op[f].todo \ {i}, !.level = y,
                                                  !.held = [op[f].held EXCEPT ![i] = plugins[i]]]]
        BY <1>0, <4>1
      <4> QED BY <4>2
    <3>2. CASE ~Enabling(f)
      <4> DEFINE up == activationLevel(op[f].todo)
                 y == {i \in up : plugins[i] # Nil}
                 z == [i \in Ids |-> IF i \in up THEN plugins[i] ELSE Nil]
      <4>1. op' = [op EXCEPT ![f].todo = @ \ up, ![f].level = y, ![f].held = z]
        BY <1>7, <3>2 DEF nextLevel
      <4> HIDE DEF up, y, z
      <4>2. op' = [op EXCEPT ![f] = [op[f] EXCEPT !.todo = op[f].todo \ up, !.level = y, !.held = z]]
        BY <1>0, <4>1
      <4> QED BY <4>2
    <3> QED BY <3>1, <3>2
  <2>2. PICK x, y, z : op' = [op EXCEPT ![f] = [op[f] EXCEPT !.todo = x, !.level = y, !.held = z]]
    BY <2>1
  <2>3. op'[f] = [op[f] EXCEPT !.todo = x, !.level = y, !.held = z] BY <1>0, <2>2
  <2>4. op'[f].at = op[f].at BY <1>0, <2>3 DEF Operations
  <2> QED BY <1>7, <2>4 DEF nextLevel
<1>11. CASE revokeOne(f)
  <2>1. op'[f].at = op[f].at BY <1>0, <1>11 DEF revokeOne, Operations
  <2> QED BY <1>11, <2>1 DEF revokeOne
<1>12. ASSUME NEW i \in Ids, activateRuntime(f, i) \/ activateFails(f, i)
       PROVE  op'[f].at \notin {"erase", "down"} /\ (op'[f].at = "idle" => op'[f].said = "no")
  <2> DEFINE o == [op[f] EXCEPT !.level = @ \ {i}, !.held[i] = Nil]
  <2>1. \/ op' = Says(f, "no") \/ op' = [op EXCEPT ![f].level = @ \ {i}, ![f].held[i] = Nil]
    BY <1>12 DEF activateRuntime, activateFails
  <2>2. op' = Says(f, "no") \/ op' = [op EXCEPT ![f] = o] BY <1>0, <2>1
  <2>3. o.at = op[f].at BY <1>0 DEF Operations
  <2>4. op[f].at = "up" BY <1>12 DEF activateRuntime, activateFails
  <2> HIDE DEF o
  <2> QED BY <2>2, <2>3, <2>4, SaysLeaves, Leaves
<1>8. CASE reread(f)
  <2>1. op' = Says(f, "no") \/ op'[f].at = "disabling" BY <1>0, <1>8 DEF reread, Operations
  <2> QED BY <2>1, SaysLeaves
<1>9. CASE devSelect(f)
  <2>1. op'[f].at = "put" BY <1>0, <1>9 DEF devSelect, Operations
  <2> QED BY <2>1
<1>10. CASE devPut(f)
  <2>1. op'[f].at = "up" BY <1>0, <1>10 DEF devPut, Operations
  <2> QED BY <2>1
<1> QED BY <1>1, <1>2, <1>3, <1>4, <1>5, <1>6, <1>7, <1>8, <1>9, <1>10, <1>11, <1>12

LEMMA AroundCloses ==
  ASSUME OneFlight, PluginInv, CascadeIsClosed, Around PROVE CascadeIsClosed'
<1>1. CASE \E i \in Ids : grantConsent(i) \/ edit(i) \/ elsewhere(i) \/ applyRevoke(i)
  <2>1. UNCHANGED <<active, op>> BY <1>1 DEF grantConsent, edit, elsewhere, applyRevoke, memory
  <2> QED BY <2>1 DEF CascadeIsClosed, Running
<1>2. ASSUME NEW f \in Flights, restart(f) PROVE CascadeIsClosed'
  <2>1. \A g \in Flights : op'[g].at \in {"down", "idle"} /\ (op'[g].at = "down" => op'[g].cmd = "reload")
    BY <1>2, BootType DEF restart
  <2> QED BY <2>1 DEF CascadeIsClosed
<1> QED BY <1>1, <1>2 DEF Around

LEMMA CascadeStep ==
  ASSUME OneFlight, DependentsFirst, PluginInv, CascadeIsClosed, [PluginNext]_pluginVars
  PROVE  CascadeIsClosed'
<1>1. CASE UNCHANGED pluginVars
  <2>1. UNCHANGED <<active, op>> BY <1>1 DEF pluginVars, memory
  <2> QED BY <2>1 DEF CascadeIsClosed, Running
<1>2. ASSUME NEW f \in Flights, Asked(f) PROVE CascadeIsClosed'
  <2>0. /\ "reload" \in Rescans \ {"remove"} /\ "install" \in Rescans \ {"remove"}
        /\ "unitDevRemove" \in Rescans \ {"remove"}
    BY DEF Rescans
  <2>1. CASE reload(f) BY <2>0, <2>1, RescanCloses DEF reload
  <2>2. ASSUME NEW i \in Ids, install(f, i) \/ unitDevRemove(f, i) PROVE CascadeIsClosed'
    <3>1. CASE install(f, i) BY <2>0, <3>1, RescanCloses DEF install
    <3>2. CASE unitDevRemove(f, i) BY <2>0, <3>2, RescanCloses DEF unitDevRemove
    <3> QED BY <2>2, <3>1, <3>2
  <2>3. ASSUME NEW i \in Ids, NEW cascade \in BOOLEAN, remove(f, i, cascade) PROVE CascadeIsClosed'
    BY <2>3, RemoveCloses
  <2>4. ASSUME NEW i \in Ids,
               enable(f, i) \/ disable(f, i) \/ reloadOne(f, i) \/ revokeConsent(f, i) \/ devLoad(f, i)
        PROVE  CascadeIsClosed'
    BY <2>4, AskedLeaves, ElsewhereCloses
  <2> QED BY <1>2, <2>1, <2>2, <2>3, <2>4 DEF Asked
<1>3. ASSUME NEW f \in Flights, Underway(f) PROVE CascadeIsClosed'
  <2>1. CASE deactivateAll(f) BY <2>1, DeactivateAllCloses
  <2>2. CASE removedAll(f) BY <2>2, RemovedAllCloses
  <2>3. ASSUME NEW i \in Ids, removeDev(f, i) PROVE CascadeIsClosed'
    BY <2>3, OneGoes DEF removeDev
  <2>4. ASSUME NEW i \in Ids, removeInstalled(f, i) PROVE CascadeIsClosed'
    BY <2>4, OneGoes DEF removeInstalled
  <2>5. CASE \/ scan(f) \/ listUnits(f) \/ prefetch(f) \/ nextLevel(f) \/ allUp(f) \/ disabled(f)
             \/ reread(f) \/ reenable(f) \/ revokeOne(f) \/ revoked(f) \/ devSelect(f) \/ devPut(f)
             \/ \E i \in Ids : activateRuntime(f, i) \/ activateFails(f, i)
    BY <2>5, UnderwayLeaves, ElsewhereCloses
  <2> QED BY <1>3, <2>1, <2>2, <2>3, <2>4, <2>5 DEF Underway
<1>4. CASE Around BY <1>4, AroundCloses
<1> QED BY <1>1, <1>2, <1>3, <1>4 DEF PluginNext

LEMMA CascadeInitial == ASSUME PluginInit PROVE CascadeIsClosed
<1>1. PICK f \in Flights : op = boot(f) BY DEF PluginInit
<1>2. \A g \in Flights : op[g].at \in {"down", "idle"} /\ (op[g].at = "down" => op[g].cmd = "reload")
  BY <1>1, BootType
<1> QED BY <1>2 DEF CascadeIsClosed

\* What runs is listed as enabled under the manifest it was started with, has consent
\* for its version, and is never left behind by a cascade (plugins.ts: reload, enable,
\* reloadOne, devLoad, revokeConsent, remove): for every graph, where operations follow
\* one another and every order of a cascade has the dependents first.
THEOREM WhatRunsIsSound ==
  OneFlight /\ DependentsFirst => (PluginSpec => []RunningIsSound)
<1> SUFFICES ASSUME OneFlight, DependentsFirst PROVE PluginSpec => []RunningIsSound
  OBVIOUS
<1> DEFINE Inv == PluginInv /\ CascadeIsClosed
<1>1. PluginInit => Inv BY PluginInitial, CascadeInitial
<1>2. Inv /\ [PluginNext]_pluginVars => Inv' BY PluginStep, CascadeStep
<1>3. Inv => RunningIsSound
  <2>1. CascadeIsClosed => NoneRunsOrphaned
    <3> SUFFICES ASSUME CascadeIsClosed, NEW f \in Flights, op[f].cmd = "remove",
                        op[f].at \in {"erase", "down"}, NEW i \in Running
                 PROVE  Deps[i] \cap op[f].removed = {}
      BY DEF NoneRunsOrphaned
    <3> QED BY DEF CascadeIsClosed
  <2> QED BY <2>1 DEF PluginInv, StoreIsSound, RunningIsSound
<1> HIDE DEF Inv
<1> QED BY <1>1, <1>2, <1>3, PTL DEF PluginSpec

------------------------------------------------------------------------------
(* What an operation says when it ends. *)

\* What RepliesAreTrue asks of a flight that ends well.
ReplyIsTrue(f) ==
  LET i == op[f].id
      down(j) == active'[j] = Nil /\ j \notin saved'.enabledIds
  IN CASE op[f].cmd \in {"enable", "reloadOne"} ->
            \A j \in Listed(plugins') : (j = i \/ j \in Reaches(i, Listed(plugins'))) =>
               active'[j] # Nil /\ (j \in saved'.enabledIds \/ withdrawn' # {})
       [] op[f].cmd = "disable" -> down(i)
       [] op[f].cmd = "revoke" ->
            \A j \in Listed(plugins') : (j = i \/ i \in Reaches(j, Listed(plugins'))) => down(j)
       [] OTHER -> TRUE

LEMMA AllUpIsTrue == ASSUME PluginInv, NEW f \in Flights, allUp(f) PROVE ReplyIsTrue(f)
<1>0. /\ op[f].cmd \in Rescans \cup {"enable", "reloadOne", "devLoad"} /\ ChainRises(op[f])
      /\ op[f].at = "up" /\ op[f].level = {} /\ op[f].todo = {} /\ RunningIsEnabled
  BY OpType DEF allUp, FlightIsSound, CommandFits, StoreIsSound
<1>1. CASE op[f].cmd \in {"enable", "reloadOne"}
  <2>1. \A j \in activationChain(op[f].id, plugins) : active[j] # Nil
    BY <1>0, <1>1 DEF ChainRises
  <2>2. saved'.enabledIds = enabledIds /\ UNCHANGED <<plugins, active, withdrawn>>
    BY <1>1 DEF allUp, Enabling, persist, memory
  <2>3. \A j \in activationChain(op[f].id, plugins) : j \in enabledIds \/ withdrawn # {}
    BY <1>0, <2>1 DEF RunningIsEnabled, Running, activationChain, Listed
  <2> QED BY <1>1, <2>1, <2>2, <2>3 DEF ReplyIsTrue, activationChain
<1>2. CASE op[f].cmd \in Rescans \cup {"devLoad"} BY <1>2 DEF ReplyIsTrue, Rescans
<1> QED BY <1>0, <1>1, <1>2

LEMMA DisabledIsTrue ==
  ASSUME PluginInv, NEW f \in Flights, disabled(f), op'[f].at = "idle" PROVE ReplyIsTrue(f)
<1>0. /\ op[f].cmd \in {"disable", "reloadOne"} /\ active[op[f].id] = Nil /\ op[f].at = "disabling"
      /\ op[f] \in Operations
  BY OpType DEF disabled, FlightIsSound, CommandFits, TargetIsDown
<1>1. op[f].cmd = "disable"
  <2>1. op' = To(f, "enable") => op'[f] = [op[f] EXCEPT !.at = "enable"] BY ToType, OpType DEF Steps
  <2>2. op' = To(f, "enable") => op'[f].at = "enable" BY <1>0, <2>1 DEF Operations
  <2> QED BY <1>0, <2>2 DEF disabled
<1>2. saved'.enabledIds = enabledIds \ {op[f].id} /\ active' = active
  BY DEF disabled, persist
<1> QED BY <1>0, <1>1, <1>2 DEF ReplyIsTrue

LEMMA RevokedIsTrue == ASSUME PluginInv, NEW f \in Flights, revoked(f) PROVE ReplyIsTrue(f)
<1>0. /\ op[f].cmd = "revoke" /\ op[f].todo = {} /\ op[f].at = "revoke" /\ RevokedIsDown(op[f])
  BY OpType DEF revoked, FlightIsSound, CommandFits
<1>1. /\ saved'.enabledIds = enabledIds \ op[f].removed /\ active' = active /\ plugins' = plugins
  BY DEF revoked, persist
<1>2. \A j \in op[f].removed : active[j] = Nil BY <1>0 DEF RevokedIsDown
<1>3. \A j \in Listed(plugins) : (j = op[f].id \/ op[f].id \in Reaches(j, Listed(plugins))) =>
        j \in op[f].removed
  BY <1>0 DEF RevokedIsDown, transitiveDependents
<1> QED BY <1>0, <1>1, <1>2, <1>3 DEF ReplyIsTrue

\* A removal's steps and a rescan's first never say that all is well.
LEMMA ErasingSaysNo ==
  ASSUME PluginInv, NEW f \in Flights,
         \/ deactivateAll(f) \/ removedAll(f)
         \/ \E i \in Ids : removeDev(f, i) \/ removeInstalled(f, i)
  PROVE  op'[f].at = "idle" => op'[f].said = "no"
<1>0. op[f] \in Operations /\ op[f].at \in {"down", "erase"}
  BY OpType DEF deactivateAll, removedAll, removeDev, removeInstalled
<1>1. CASE deactivateAll(f)
  <2>1. CASE op' = To(f, "scan")
    <3>1. op'[f] = [op[f] EXCEPT !.at = "scan"] BY <2>1, ToType, OpType DEF Steps
    <3>2. op'[f].at = "scan" BY <1>0, <3>1 DEF Operations
    <3> QED BY <3>2
  <2>2. ASSUME NEW i, op' = [op EXCEPT ![f].todo = @ \ {i}]
        PROVE  op'[f].at # "idle"
    <3>1. op'[f] = [op[f] EXCEPT !.todo = @ \ {i}] BY <2>2, OpType
    <3>2. op'[f].at = op[f].at BY <1>0, <3>1 DEF Operations
    <3> QED BY <1>0, <3>2
  <2> QED BY <1>1, <2>1, <2>2 DEF deactivateAll
<1>2. CASE removedAll(f)
  <2> DEFINE o == [op[f] EXCEPT !.at = "down", !.todo = Running]
  <2>1. op' = Says(f, "no") \/ op' = [op EXCEPT ![f].at = "down", ![f].todo = Running]
    BY <1>2 DEF removedAll
  <2>2. op' = Says(f, "no") \/ op' = [op EXCEPT ![f] = o] BY <2>1, OpType
  <2>3. o.at = "down" BY <1>0 DEF Operations
  <2> HIDE DEF o
  <2>4. op' = Says(f, "no") \/ op'[f] = o BY <2>2, OpType
  <2> QED BY <2>3, <2>4, SaysLeaves
<1>3. ASSUME NEW i \in Ids, removeDev(f, i) \/ removeInstalled(f, i)
      PROVE  op'[f].at = "idle" => op'[f].said = "no"
  <2> DEFINE o == [op[f] EXCEPT !.todo = @ \ {i}, !.removed = @ \cup {i}]
  <2>1. op' = Says(f, "no") \/ op' = [op EXCEPT ![f].todo = @ \ {i}, ![f].removed = @ \cup {i}]
    BY <1>3 DEF removeDev, removeInstalled
  <2>2. op' = Says(f, "no") \/ op' = [op EXCEPT ![f] = o] BY <2>1, OpType
  <2>3. o.at = op[f].at BY <1>0 DEF Operations
  <2> HIDE DEF o
  <2>4. op' = Says(f, "no") \/ op'[f] = o BY <2>2, OpType
  <2> QED BY <1>0, <2>3, <2>4, SaysLeaves
<1> QED BY <1>1, <1>2, <1>3

LEMMA EveryReplyIsTrue ==
  ASSUME OneFlight, PluginInv, PluginNext, NEW f \in Flights,
         op[f].at # "idle", op'[f].at = "idle", op'[f].said = "ok"
  PROVE  ReplyIsTrue(f)
<1>0. \A g \in Flights : g = f BY DEF OneFlight
<1>1. ~Asked(f)
  BY DEF Asked, Ask, reload, enable, disable, reloadOne, revokeConsent, install, unitDevRemove, devLoad,
     remove
<1>2. ~Around
  <2>1. CASE \E i \in Ids : grantConsent(i) \/ edit(i) \/ elsewhere(i) \/ applyRevoke(i)
    <3>1. op' = op BY <2>1 DEF grantConsent, edit, elsewhere, applyRevoke
    <3> QED BY <3>1
  <2>2. CASE \E g \in Flights : restart(g)
    <3>1. op' = boot(f) BY <1>0, <2>2 DEF restart
    <3>2. boot(f)[f] = [Idle EXCEPT !.at = "down", !.cmd = "reload"] BY DEF boot
    <3>3. op'[f].at = "down" BY <3>1, <3>2, IdleType DEF Operations
    <3> QED BY <3>3
  <2> QED BY <2>1, <2>2 DEF Around
<1>3. Underway(f) BY <1>0, <1>1, <1>2 DEF PluginNext
<1>4. ~(deactivateAll(f) \/ removedAll(f) \/ \E i \in Ids : removeDev(f, i) \/ removeInstalled(f, i))
  BY ErasingSaysNo
<1>5. \/ scan(f) \/ listUnits(f) \/ prefetch(f) \/ nextLevel(f) \/ allUp(f) \/ disabled(f) \/ reread(f)
      \/ reenable(f) \/ revokeOne(f) \/ revoked(f) \/ devSelect(f) \/ devPut(f)
      \/ \E i \in Ids : activateRuntime(f, i) \/ activateFails(f, i)
  BY <1>3, <1>4 DEF Underway
<1>6. allUp(f) \/ revoked(f) \/ disabled(f) BY <1>5, UnderwayLeaves
<1> QED BY <1>6, AllUpIsTrue, RevokedIsTrue, DisabledIsTrue

\* What an operation says is so when it says it: an enabled plugin runs with its whole
\* chain and is saved as enabled, what was disabled or revoked neither runs nor comes
\* back (enable, disable, reloadOne, revokeConsent), whatever failed on the way: for
\* every graph, where operations follow one another.
THEOREM TheRepliesAreTrue ==
  OneFlight => (PluginSpec => RepliesAreTrue)
<1> SUFFICES ASSUME OneFlight PROVE PluginSpec => RepliesAreTrue
  OBVIOUS
<1>1. PluginInit => PluginInv BY PluginInitial
<1>2. PluginInv /\ [PluginNext]_pluginVars => PluginInv' BY PluginStep
<1>3. PluginInv /\ [PluginNext]_pluginVars =>
        [\A f \in Flights :
           (op[f].at # "idle" /\ op'[f].at = "idle" /\ op'[f].said = "ok") => ReplyIsTrue(f)]_pluginVars
  BY EveryReplyIsTrue
<1> QED BY <1>1, <1>2, <1>3, PTL DEF PluginSpec, RepliesAreTrue, ReplyIsTrue

-----------------------------------------------------------------------------
(* The bus.  That a page executes a request once rests on what the page knows of *)
(* the requests it has seen (SeenOnce); that no request is lost, and that a      *)
(* missing plugin command is not reported too early, on the order of its boot    *)
(* (BootOrder); that an answer stands for an execution, on the way an outcome    *)
(* takes from the handler to the caller (OutcomesComeFromRuns).                  *)

Phases == {"loading", "asking", "listening", "announced"}
Outcomes == {"DONE", "REFUSED", "UNKNOWN_COMMAND"}
PageType ==
    [number : 1..MaxPages, phase : Phases, hostReady : BOOLEAN, registry : SUBSET Kinds,
     inbox : Seq(Requests), served : SUBSET Requests, gated : SUBSET Requests,
     running : SUBSET Requests, quitting : BOOLEAN]
ReplyType == [request : Requests, page : 1..MaxPages, outcome : Outcomes]

\* The types of the whole state; TypeOK follows.
StateTypes ==
    /\ method \in [Requests -> Kinds]
    /\ caller \in [Requests -> {"idle", "inserted", "waiting", "told"}]
    /\ answer \in [Requests -> Outcomes \cup
           {"WINDOW_NOT_FOUND", "WINDOW_DESTROYED", "INTERNAL", "TIMEOUT", None}]
    /\ channel \in [Requests -> Outcomes \cup {"WINDOW_DESTROYED", None}]
    /\ pending \in SUBSET Requests /\ resend \in SUBSET Requests
    /\ window \in {"live", "destroyed", "quit"}
    /\ page \in PageType
    /\ replies \in SUBSET ReplyType
    /\ runs \in [Requests -> Seq(1..MaxPages)]

\* The page that is there has executed only what it has noted as served and no
\* longer holds at its gate; no page has run anything before it was loaded.
SeenOnce ==
    /\ page.gated \subseteq page.served
    /\ \A r \in Requests : \A i \in DOMAIN runs[r] :
          /\ runs[r][i] <= page.number
          /\ window = "live" /\ runs[r][i] = page.number => r \in page.served \ page.gated

\* A page has its catalog once it has asked for requests, and no request before;
\* the page of a destroyed window is as good as one that has not begun.
BootOrder ==
    /\ page.phase # "loading" => CoreKinds \subseteq page.registry
    /\ page.phase = "loading" =>
          page.inbox = <<>> /\ page.gated = {} /\ page.running = {}
    /\ window = "destroyed" => page.phase = "loading"

\* A request nobody has sent is nowhere.
IdleIsNowhere ==
    \A r \in Requests : caller[r] = "idle" =>
        r \notin pending \cup resend \cup ToSet(page.inbox) \cup page.gated /\ runs[r] = <<>>

\* What is being handled or replied, or was put in a channel or told, was executed;
\* a reply comes from this page or an earlier one.
OutcomesComeFromRuns ==
    /\ \A r \in page.running : runs[r] # <<>>
    /\ \A m \in replies : runs[m.request] # <<>> /\ m.page <= page.number
    /\ \A r \in Requests : channel[r] \in Outcomes => runs[r] # <<>>
    /\ \A r \in Requests : answer[r] \in Outcomes => runs[r] # <<>>

\* A command is said to be missing if it is not the core's, by a page whose plugins
\* are up.
MissesAreTrue ==
    /\ \A m \in replies : m.outcome = "UNKNOWN_COMMAND" =>
          /\ method[m.request] \in {"plugin", "missing"}
          /\ m.page = page.number => page.hostReady
    /\ \A r \in Requests : channel[r] = "UNKNOWN_COMMAND" => method[r] \in {"plugin", "missing"}
    /\ \A r \in Requests : answer[r] = "UNKNOWN_COMMAND" => method[r] \in {"plugin", "missing"}

\* The page has the app's end as a task only after the answer went out.
QuitsAfterAnswer ==
    window = "quit" \/ page.quitting =>
        \E r \in Requests : method[r] = "quit" /\ runs[r] # <<>> /\ r \notin pending

BusInv ==
    /\ StateTypes /\ SeenOnce /\ OncePerPage /\ BootOrder /\ NothingIsLost
    /\ IdleIsNowhere /\ OutcomesComeFromRuns /\ MissesAreTrue /\ QuitsAfterAnswer

-----------------------------------------------------------------------------
(* Sequences. *)

LEMMA SetOfAppend ==
  ASSUME NEW S, NEW s \in Seq(S), NEW e \in S
  PROVE  /\ Append(s, e) \in Seq(S) /\ Append(s, e) # <<>>
         /\ Len(Append(s, e)) = Len(s) + 1 /\ Append(s, e)[Len(s) + 1] = e
         /\ \A i \in 1..Len(s) : Append(s, e)[i] = s[i]
         /\ ToSet(Append(s, e)) = ToSet(s) \cup {e}
<1>2. Append(s, e) \in Seq(S) /\ Len(Append(s, e)) = Len(s) + 1 /\ Append(s, e)[Len(s) + 1] = e
  OBVIOUS
<1>7. Append(s, e) # <<>>
  BY <1>2
<1>3. \A i \in 1..Len(s) : Append(s, e)[i] = s[i]
  OBVIOUS
<1>4. DOMAIN Append(s, e) = 1..(Len(s) + 1) /\ DOMAIN s = 1..Len(s) /\ Len(s) \in Nat
  OBVIOUS
<1>5. 1..(Len(s) + 1) = 1..Len(s) \cup {Len(s) + 1}
  BY <1>4
<1>6. ToSet(Append(s, e)) = ToSet(s) \cup {e}
  BY <1>2, <1>3, <1>4, <1>5 DEF ToSet
<1> QED BY <1>2, <1>3, <1>6, <1>7

LEMMA SetOfTail ==
  ASSUME NEW S, NEW s \in Seq(S), s # <<>>
  PROVE  /\ Head(s) \in S /\ Tail(s) \in Seq(S)
         /\ ToSet(s) = {Head(s)} \cup ToSet(Tail(s))
<1>1. Head(s) = s[1] /\ Head(s) \in S /\ Tail(s) \in Seq(S) /\ Len(s) \in Nat \ {0}
  OBVIOUS
<1>2. /\ DOMAIN s = 1..Len(s) /\ DOMAIN Tail(s) = 1..(Len(s) - 1)
      /\ \A i \in 1..(Len(s) - 1) : Tail(s)[i] = s[i + 1]
  BY <1>1
<1>3. \A x \in ToSet(s) : x \in {Head(s)} \cup ToSet(Tail(s))
  <2> SUFFICES ASSUME NEW i \in 1..Len(s), i # 1 PROVE s[i] \in ToSet(Tail(s))
    BY <1>1, <1>2 DEF ToSet
  <2>1. i - 1 \in 1..(Len(s) - 1) /\ Tail(s)[i - 1] = s[i]
    BY <1>1, <1>2
  <2> QED BY <1>2, <2>1 DEF ToSet
<1>4. \A x \in {Head(s)} \cup ToSet(Tail(s)) : x \in ToSet(s)
  <2>1. 1 \in 1..Len(s) /\ \A i \in 1..(Len(s) - 1) : i + 1 \in 1..Len(s)
    BY <1>1
  <2> QED BY <1>1, <1>2, <2>1 DEF ToSet
<1> QED BY <1>1, <1>3, <1>4

LEMMA SetOfNothing == ToSet(<<>>) = {}
BY DEF ToSet

-----------------------------------------------------------------------------
(* What the operators on pages do. *)

LEMMA EmittedPage ==
  ASSUME NEW p \in PageType, NEW r \in Requests
  PROVE  /\ Emitted(p, r) \in PageType
         /\ \/ ~Listening(p) /\ Emitted(p, r) = p
            \/ Listening(p) /\ Emitted(p, r) = [p EXCEPT !.inbox = Append(@, r)]
         /\ Listening(p) => ToSet(Emitted(p, r).inbox) = ToSet(p.inbox) \cup {r}
<1>1. p.inbox \in Seq(Requests)
  BY DEF PageType
<1>2. Append(p.inbox, r) \in Seq(Requests)
  BY <1>1, SetOfAppend
<1>3. Emitted(p, r) \in PageType
  BY <1>1, <1>2 DEF Emitted, PageType
<1>4. Listening(p) => Emitted(p, r).inbox = Append(p.inbox, r)
  BY DEF Emitted, PageType
<1> QED BY <1>1, <1>3, <1>4, SetOfAppend DEF Emitted

\* What an execution changes; runs is the history, so it always grows.
LEMMA ExecuteFacts ==
  ASSUME StateTypes, NEW p \in PageType, NEW r \in Requests, Execute(p, r)
  PROVE  /\ page' \in PageType /\ replies' \in SUBSET ReplyType
         /\ runs' \in [Requests -> Seq(1..MaxPages)]
         /\ runs' = [runs EXCEPT ![r] = Append(runs[r], p.number)]
         /\ page'.number = p.number /\ page'.served = p.served /\ page'.gated = p.gated
         /\ page'.phase = p.phase /\ page'.hostReady = p.hostReady
         /\ page'.registry = p.registry /\ page'.inbox = p.inbox /\ page'.quitting = p.quitting
         /\ \/ page' = [p EXCEPT !.running = @ \cup {r}] /\ replies' = replies
            \/ /\ page' = p
               /\ \E m \in ReplyType :
                     /\ replies' = replies \cup {m} /\ m.request = r /\ m.page = p.number
                     /\ \/ m.outcome = "REFUSED"
                        \/ m.outcome = "UNKNOWN_COMMAND" /\ method[r] \notin p.registry
<1> USE NoneAssumption
<1>1. Refusal(p, r) \in {"UNKNOWN_COMMAND", "REFUSED", None}
  BY DEF Refusal
<1>2. Refusal(p, r) = "UNKNOWN_COMMAND" => method[r] \notin p.registry
  BY DEF Refusal
<1>3. p.number \in 1..MaxPages /\ runs[r] \in Seq(1..MaxPages)
  BY DEF PageType, StateTypes
<1>4. runs' = [runs EXCEPT ![r] = Append(runs[r], p.number)]
  BY DEF Execute
<1>5. runs' \in [Requests -> Seq(1..MaxPages)]
  BY <1>3, <1>4, SetOfAppend DEF StateTypes
<1>6. CASE Refusal(p, r) = None
  <2>1. page' = [p EXCEPT !.running = @ \cup {r}] /\ replies' = replies
    BY <1>6 DEF Execute
  <2>2. page' \in PageType
    BY <2>1 DEF PageType
  <2>3. /\ page'.number = p.number /\ page'.served = p.served /\ page'.gated = p.gated
        /\ page'.phase = p.phase /\ page'.hostReady = p.hostReady
        /\ page'.registry = p.registry /\ page'.inbox = p.inbox /\ page'.quitting = p.quitting
    BY <2>1 DEF PageType
  <2> QED BY <1>4, <1>5, <2>1, <2>2, <2>3 DEF StateTypes
<1>7. CASE Refusal(p, r) # None
  <2> DEFINE m == [request |-> r, page |-> p.number, outcome |-> Refusal(p, r)]
  <2>1. page' = p /\ replies' = replies \cup {m}
    BY <1>7 DEF Execute
  <2>2. m \in ReplyType
    BY <1>1, <1>3, <1>7 DEF ReplyType, Outcomes
  <2>3. m.request = r /\ m.page = p.number /\ m.outcome \in {"UNKNOWN_COMMAND", "REFUSED"}
    BY <1>1, <1>7
  <2>4. m.outcome = "UNKNOWN_COMMAND" => method[r] \notin p.registry
    BY <1>2
  <2> QED BY <1>4, <1>5, <2>1, <2>2, <2>3, <2>4 DEF StateTypes
<1> QED BY <1>6, <1>7

\* Handling the first request of the inbox: seen before, held at the gate, or run.
LEMMA HandleCases ==
  ASSUME StateTypes, Handle
  PROVE  /\ Head(page.inbox) \in Requests /\ Tail(page.inbox) \in Seq(Requests)
         /\ ToSet(page.inbox) = {Head(page.inbox)} \cup ToSet(Tail(page.inbox))
         /\ Taken(page, Head(page.inbox)) \in PageType
         /\ LET r == Head(page.inbox)
            IN  \/ /\ r \in page.served /\ page' = [page EXCEPT !.inbox = Tail(page.inbox)]
                   /\ UNCHANGED <<replies, runs>>
                \/ /\ r \notin page.served /\ Held(page, r)
                   /\ page' = [Taken(page, r) EXCEPT !.gated = @ \cup {r}]
                   /\ UNCHANGED <<replies, runs>>
                \/ r \notin page.served /\ ~Held(page, r) /\ Execute(Taken(page, r), r)
<1>1. page.inbox \in Seq(Requests) /\ page.inbox # <<>>
  BY DEF Handle, StateTypes, PageType
<1>2. /\ Head(page.inbox) \in Requests /\ Tail(page.inbox) \in Seq(Requests)
      /\ ToSet(page.inbox) = {Head(page.inbox)} \cup ToSet(Tail(page.inbox))
  BY <1>1, SetOfTail
<1>3. Taken(page, Head(page.inbox)) \in PageType
  BY <1>2 DEF Taken, StateTypes, PageType
<1> QED BY <1>2, <1>3 DEF Handle


LEMMA TypesKept ==
  ASSUME StateTypes, Next
  PROVE  StateTypes'
<1> USE MethodsAssumption, PagesAssumption, NoneAssumption
<1>1. ASSUME NEW r \in Requests, Insert(r) PROVE StateTypes'
  BY <1>1 DEF Insert, StateTypes, bridge
<1>2. ASSUME NEW r \in Requests, NoWindow(r) PROVE StateTypes'
  BY <1>2 DEF NoWindow, StateTypes, bridge, Told, Outcomes
<1>3. ASSUME NEW r \in Requests, Emit(r) PROVE StateTypes'
  <2>1. Emitted(page, r) \in PageType
    BY EmittedPage DEF StateTypes
  <2>2. CASE window = "live"
    BY <1>3, <2>1, <2>2 DEF Emit, StateTypes
  <2>3. CASE window # "live"
    BY <1>3, <2>3 DEF Emit, StateTypes, Told
  <2> QED BY <2>2, <2>3
<1>4. ASSUME NEW r \in Requests, Receive(r) PROVE StateTypes'
  BY <1>4 DEF Receive, StateTypes, Told
<1>5. ASSUME NEW r \in Requests, Timeout(r) PROVE StateTypes'
  BY <1>5 DEF Timeout, StateTypes, Told
<1>6. ASSUME NEW r \in Requests, Resend(r) PROVE StateTypes'
  BY <1>6, EmittedPage DEF Resend, StateTypes
<1>7. ASSUME NEW r \in Requests, Release(r) PROVE StateTypes'
  <2>1. [page EXCEPT !.gated = @ \ {r}] \in PageType
    BY DEF StateTypes, PageType
  <2> QED BY <1>7, <2>1, ExecuteFacts DEF Release, StateTypes, bridge
<1>8. ASSUME NEW r \in Requests, Finish(r) PROVE StateTypes'
  <2>1. [request |-> r, page |-> page.number, outcome |-> "DONE"] \in ReplyType
    BY DEF StateTypes, PageType, ReplyType, Outcomes
  <2>2. page' \in PageType
    BY <1>8 DEF Finish, StateTypes, PageType
  <2> QED BY <1>8, <2>1, <2>2 DEF Finish, StateTypes, bridge
<1>9. ASSUME NEW m \in replies, Reply(m) PROVE StateTypes'
  BY <1>9 DEF Reply, StateTypes, PageType, ReplyType, Outcomes, Settle, AfterReply
<1>10. ASSUME NEW m \in replies, ReplyFails(m) PROVE StateTypes'
  BY <1>10 DEF ReplyFails, StateTypes, bridge
<1>11. CASE RegisterCatalog
  BY <1>11 DEF RegisterCatalog, StateTypes, bridge, PageType, Phases, CoreKinds, Kinds
<1>12. CASE Listen
  BY <1>12 DEF Listen, StateTypes, bridge, PageType, Phases
<1>13. CASE Announce
  BY <1>13 DEF Announce, StateTypes, bridge, PageType, Phases
<1>14. CASE Handle
  <2> DEFINE r == Head(page.inbox)
  <2>1. /\ page' \in PageType /\ replies' \in SUBSET ReplyType
        /\ runs' \in [Requests -> Seq(1..MaxPages)]
    <3>1. CASE page' = [page EXCEPT !.inbox = Tail(page.inbox)] /\ UNCHANGED <<replies, runs>>
      BY <1>14, <3>1, HandleCases DEF StateTypes, PageType
    <3>2. CASE page' = [Taken(page, r) EXCEPT !.gated = @ \cup {r}] /\ UNCHANGED <<replies, runs>>
      BY <1>14, <3>2, HandleCases DEF StateTypes, PageType
    <3>3. CASE Execute(Taken(page, r), r)
      BY <1>14, <3>3, HandleCases, ExecuteFacts
    <3> QED BY <1>14, <3>1, <3>2, <3>3, HandleCases
  <2> QED BY <1>14, <2>1 DEF Handle, StateTypes, bridge
<1>15. CASE Activate
  BY <1>15 DEF Activate, StateTypes, bridge, PageType, Kinds
<1>16. CASE Deactivate
  BY <1>16 DEF Deactivate, StateTypes, bridge, PageType
<1>17. CASE HostReady
  BY <1>17 DEF HostReady, StateTypes, bridge, PageType
<1>18. CASE Quit
  BY <1>18 DEF Quit, StateTypes, bridge
<1>19. CASE Reload
  BY <1>19 DEF Reload, StateTypes, bridge, PageType, Phases, Fresh
<1>20. CASE Destroy
  BY <1>20 DEF Destroy, StateTypes, PageType, Phases, Fresh, Outcomes
<1> QED BY <1>1, <1>2, <1>3, <1>4, <1>5, <1>6, <1>7, <1>8, <1>9, <1>10, <1>11, <1>12, <1>13,
           <1>14, <1>15, <1>16, <1>17, <1>18, <1>19, <1>20 DEF Next

-----------------------------------------------------------------------------
(* Steps that leave alone what a page has seen and run. *)

LEMMA QuietSteps ==
  ASSUME StateTypes, Next
  PROVE  \/ Handle \/ (\E r \in Requests : Release(r)) \/ Reload \/ Destroy \/ Quit
         \/ /\ UNCHANGED <<runs, window>>
            /\ page'.number = page.number /\ page'.served = page.served
            /\ page'.gated = page.gated
<1>1. ASSUME NEW r \in Requests, Emit(r) \/ Resend(r)
      PROVE  /\ UNCHANGED <<runs, window>>
             /\ page'.number = page.number /\ page'.served = page.served
             /\ page'.gated = page.gated
  <2>1. \/ Emitted(page, r) = page
        \/ Emitted(page, r) = [page EXCEPT !.inbox = Append(@, r)]
    BY EmittedPage DEF StateTypes
  <2>2. page' = page \/ page' = Emitted(page, r)
    BY <1>1 DEF Emit, Resend
  <2> QED BY <1>1, <2>1, <2>2 DEF Emit, Resend, StateTypes, PageType
<1>2. ASSUME NEW r \in Requests,
             Insert(r) \/ NoWindow(r) \/ Receive(r) \/ Timeout(r) \/ Finish(r)
      PROVE  /\ UNCHANGED <<runs, window>>
             /\ page'.number = page.number /\ page'.served = page.served
             /\ page'.gated = page.gated
  BY <1>2 DEF Insert, NoWindow, Receive, Timeout, Finish, StateTypes, PageType
<1>3. ASSUME NEW m \in replies, Reply(m) \/ ReplyFails(m)
      PROVE  /\ UNCHANGED <<runs, window>>
             /\ page'.number = page.number /\ page'.served = page.served
             /\ page'.gated = page.gated
  BY <1>3 DEF Reply, ReplyFails, AfterReply, StateTypes, PageType
<1>4. ASSUME RegisterCatalog \/ Listen \/ Announce \/ Activate \/ Deactivate \/ HostReady
      PROVE  /\ UNCHANGED <<runs, window>>
             /\ page'.number = page.number /\ page'.served = page.served
             /\ page'.gated = page.gated
  BY <1>4 DEF RegisterCatalog, Listen, Announce, Activate, Deactivate, HostReady, StateTypes, PageType
<1> QED BY <1>1, <1>2, <1>3, <1>4 DEF Next

-----------------------------------------------------------------------------
(* A page executes a request once. *)

\* The new entry of the history is the page's number, and no earlier entry is.
LEMMA RunOnceMore ==
  ASSUME StateTypes, SeenOnce, OncePerPage, NEW r \in Requests, window = "live",
         \A i \in DOMAIN runs[r] : runs[r][i] # page.number,
         runs' = [runs EXCEPT ![r] = Append(runs[r], page.number)],
         window' = window, page'.number = page.number,
         r \in page'.served \ page'.gated, page'.gated \subseteq page'.served,
         page.served \ page.gated \subseteq page'.served \ page'.gated
  PROVE  SeenOnce' /\ OncePerPage'
<1>1. page.number \in 1..MaxPages /\ runs[r] \in Seq(1..MaxPages)
  BY DEF StateTypes, PageType
<1> DEFINE new == Append(runs[r], page.number)
<1>2. /\ DOMAIN new = 1..(Len(runs[r]) + 1) /\ DOMAIN runs[r] = 1..Len(runs[r])
      /\ Len(runs[r]) \in Nat /\ new[Len(runs[r]) + 1] = page.number
      /\ \A i \in 1..Len(runs[r]) : new[i] = runs[r][i]
  BY <1>1
<1>3. runs'[r] = new /\ \A q \in Requests : q # r => runs'[q] = runs[q]
  BY DEF StateTypes
<1> HIDE DEF new
<1>4. \A i, j \in DOMAIN new : new[i] = new[j] => i = j
  <2>1. \A i \in DOMAIN new : i \in DOMAIN runs[r] \/ i = Len(runs[r]) + 1
    BY <1>2
  <2> QED BY <1>2, <2>1 DEF OncePerPage, IsInjective
<1>5. OncePerPage'
  BY <1>3, <1>4 DEF OncePerPage, IsInjective
<1>6. ASSUME NEW q \in Requests, NEW i \in DOMAIN runs'[q]
      PROVE  /\ runs'[q][i] <= page'.number
             /\ runs'[q][i] = page'.number => q \in page'.served \ page'.gated
  <2>1. CASE q # r
    BY <1>3, <1>6, <2>1 DEF SeenOnce
  <2>2. CASE q = r
    <3>1. runs'[q][i] \in Int /\ (runs'[q][i] = page.number \/ runs'[q][i] <= page.number)
      <4>1. CASE i \in DOMAIN runs[r]
        <5>1. runs[r][i] \in 1..MaxPages /\ runs[r][i] <= page.number
          <6>1. runs[r][i] <= page.number
            BY <4>1 DEF SeenOnce
          <6>2. runs[r][i] \in 1..MaxPages
            BY <1>1, <1>2, <4>1, ElementOfSeq
          <6> QED BY <6>1, <6>2
        <5> QED BY <1>2, <1>3, <2>2, <4>1, <5>1, PagesAssumption
      <4>2. CASE i = Len(runs[r]) + 1
        BY <1>1, <1>2, <1>3, <2>2, <4>2
      <4> QED BY <1>2, <1>3, <2>2, <4>1, <4>2
    <3> QED BY <1>1, <2>2, <3>1
  <2> QED BY <2>1, <2>2
<1>7. SeenOnce'
  BY <1>6 DEF SeenOnce
<1> QED BY <1>5, <1>7

LEMMA OnceKept ==
  ASSUME StateTypes, SeenOnce, OncePerPage, Next
  PROVE  SeenOnce' /\ OncePerPage'
<1>1. ASSUME NEW r \in Requests, Release(r) PROVE SeenOnce' /\ OncePerPage'
  <2> DEFINE p == [page EXCEPT !.gated = @ \ {r}]
  <2>1. /\ p \in PageType /\ p.number = page.number /\ p.served = page.served
        /\ p.gated = page.gated \ {r}
    BY DEF StateTypes, PageType
  <2>2. Execute(p, r) /\ r \in page.gated /\ window = "live" /\ window' = window
    BY <1>1 DEF Release, Loaded
  <2> HIDE DEF p
  <2>3. /\ runs' = [runs EXCEPT ![r] = Append(runs[r], page.number)]
        /\ page'.number = page.number /\ page'.served = page.served
        /\ page'.gated = page.gated \ {r}
    BY <2>1, <2>2, ExecuteFacts
  <2>4. \A i \in DOMAIN runs[r] : runs[r][i] # page.number
    BY <2>2 DEF SeenOnce
  <2>5. r \in page.served /\ page.gated \subseteq page.served
    BY <2>2 DEF SeenOnce
  <2> QED BY <2>2, <2>3, <2>4, <2>5, RunOnceMore
<1>2. CASE Handle
  <2> DEFINE r == Head(page.inbox)
             p == Taken(page, r)
  <2>1. /\ r \in Requests /\ p \in PageType /\ p.number = page.number
        /\ p.served = page.served \cup {r} /\ p.gated = page.gated
    BY <1>2, HandleCases DEF Taken, StateTypes, PageType
  <2>2. window = "live" /\ window' = window
    BY <1>2 DEF Handle, Loaded
  <2>3. CASE page' = [page EXCEPT !.inbox = Tail(page.inbox)] /\ UNCHANGED <<replies, runs>>
    BY <2>2, <2>3 DEF SeenOnce, OncePerPage, StateTypes, PageType
  <2>4. CASE r \notin page.served /\ page' = [p EXCEPT !.gated = @ \cup {r}] /\ UNCHANGED <<replies, runs>>
    <3>1. page'.number = page.number /\ page'.served = page.served \cup {r} /\ page'.gated = page.gated \cup {r}
      BY <2>1, <2>4 DEF PageType
    <3> QED BY <2>1, <2>2, <2>4, <3>1 DEF SeenOnce, OncePerPage
  <2>5. CASE r \notin page.served /\ Execute(p, r)
    <3> HIDE DEF r, p
    <3>1. /\ runs' = [runs EXCEPT ![r] = Append(runs[r], page.number)]
          /\ page'.number = page.number /\ page'.served = page.served \cup {r}
          /\ page'.gated = page.gated
      BY <2>1, <2>5, ExecuteFacts
    <3>2. \A i \in DOMAIN runs[r] : runs[r][i] # page.number
      BY <2>1, <2>2, <2>5 DEF SeenOnce
    <3>3. r \notin page.gated /\ page.gated \subseteq page.served
      BY <2>5 DEF SeenOnce
    <3> QED BY <2>1, <2>2, <3>1, <3>2, <3>3, RunOnceMore
  <2> QED BY <1>2, <2>3, <2>4, <2>5, HandleCases
<1>3. CASE Reload
  <2>1. page'.number = page.number + 1 /\ page'.gated = {} /\ page'.served = {}
        /\ UNCHANGED <<runs, window>>
    BY <1>3 DEF Reload, Fresh
  <2>2. page.number \in Int /\ \A r \in Requests : \A i \in DOMAIN runs[r] : runs[r][i] \in Int
    BY PagesAssumption DEF StateTypes, PageType
  <2> QED BY <2>1, <2>2 DEF SeenOnce, OncePerPage
<1>4. CASE Destroy
  <2>1. page'.number = page.number /\ page'.gated = {} /\ window' = "destroyed" /\ runs' = runs
    BY <1>4 DEF Destroy, Fresh
  <2> QED BY <2>1 DEF SeenOnce, OncePerPage
<1>5. CASE Quit
  BY <1>5 DEF Quit, SeenOnce, OncePerPage
<1>6. CASE /\ UNCHANGED <<runs, window>>
           /\ page'.number = page.number /\ page'.served = page.served
           /\ page'.gated = page.gated
  BY <1>6 DEF SeenOnce, OncePerPage
<1> QED BY <1>1, <1>2, <1>3, <1>4, <1>5, <1>6, QuietSteps

-----------------------------------------------------------------------------
(* The page's boot, and what is on its way to it. *)

LEMMA BootKept ==
  ASSUME StateTypes, BootOrder, Next
  PROVE  BootOrder'
<1>1. ASSUME NEW r \in Requests, Emit(r) \/ Resend(r) PROVE BootOrder'
  <2>1. \/ Emitted(page, r) = page
        \/ Listening(page) /\ Emitted(page, r) = [page EXCEPT !.inbox = Append(@, r)]
    BY EmittedPage DEF StateTypes
  <2>2. (page' = page \/ page' = Emitted(page, r)) /\ window' = window
    BY <1>1 DEF Emit, Resend
  <2>3. CASE page' = page
    BY <2>2, <2>3 DEF BootOrder
  <2>4. CASE Listening(page) /\ page' = [page EXCEPT !.inbox = Append(@, r)]
    <3>1. /\ page'.phase = page.phase /\ page'.registry = page.registry
          /\ page'.gated = page.gated /\ page'.running = page.running
      BY <2>4 DEF StateTypes, PageType
    <3>2. page.phase # "loading"
      BY <2>4 DEF Listening
    <3> QED BY <2>2, <3>1, <3>2 DEF BootOrder
  <2> QED BY <2>1, <2>2, <2>3, <2>4
<1>2. ASSUME NEW r \in Requests,
             Insert(r) \/ NoWindow(r) \/ Receive(r) \/ Timeout(r)
      PROVE  BootOrder'
  BY <1>2 DEF Insert, NoWindow, Receive, Timeout, BootOrder
<1>3. ASSUME NEW r \in Requests, Release(r) PROVE BootOrder'
  <2> DEFINE p == [page EXCEPT !.gated = @ \ {r}]
  <2>1. /\ p \in PageType /\ p.phase = page.phase /\ p.registry = page.registry
    BY DEF StateTypes, PageType
  <2>2. Execute(p, r) /\ page.phase # "loading" /\ window' = window
    BY <1>3 DEF Release, BootOrder
  <2> HIDE DEF p
  <2>3. page'.phase = page.phase /\ page'.registry = page.registry
    BY <2>1, <2>2, ExecuteFacts
  <2> QED BY <2>2, <2>3 DEF BootOrder
<1>4. ASSUME NEW r \in Requests, Finish(r) PROVE BootOrder'
  BY <1>4 DEF Finish, BootOrder, StateTypes, PageType
<1>5. ASSUME NEW m \in replies, Reply(m) \/ ReplyFails(m) PROVE BootOrder'
  <2>1. page' = page \/ page' = [page EXCEPT !.quitting = TRUE]
    BY <1>5 DEF Reply, ReplyFails, AfterReply
  <2> QED BY <1>5, <2>1 DEF Reply, ReplyFails, BootOrder, StateTypes, PageType
<1>6. CASE Handle
  <2> DEFINE r == Head(page.inbox)
             p == Taken(page, r)
  <2>1. /\ r \in Requests /\ p \in PageType /\ p.phase = page.phase /\ p.registry = page.registry
    BY <1>6, HandleCases DEF Taken, StateTypes, PageType
  <2>2. page.phase # "loading" /\ window' = window
    BY <1>6 DEF Handle, BootOrder
  <2>3. page'.phase = page.phase /\ page'.registry = page.registry
    <3>1. CASE page' = [page EXCEPT !.inbox = Tail(page.inbox)]
      BY <3>1 DEF StateTypes, PageType
    <3>2. CASE page' = [p EXCEPT !.gated = @ \cup {r}]
      BY <2>1, <3>2 DEF PageType
    <3>3. CASE Execute(p, r)
      <4> HIDE DEF p, r
      <4> QED BY <2>1, <3>3, ExecuteFacts
    <3> QED BY <1>6, <3>1, <3>2, <3>3, HandleCases
  <2> QED BY <2>2, <2>3 DEF BootOrder
<1>7. ASSUME RegisterCatalog \/ Listen \/ Announce \/ Activate \/ Deactivate \/ HostReady
      PROVE  BootOrder'
  <2>1. CASE RegisterCatalog
    BY <2>1 DEF RegisterCatalog, BootOrder, StateTypes, PageType, Loaded
  <2>2. CASE Listen \/ Announce \/ HostReady
    BY <2>2 DEF Listen, Announce, HostReady, BootOrder, StateTypes, PageType, Loaded
  <2>3. CASE Activate
    BY <2>3 DEF Activate, BootOrder, StateTypes, PageType, Loaded
  <2>4. CASE Deactivate
    BY <2>4 DEF Deactivate, CoreKinds, BootOrder, StateTypes, PageType, Loaded
  <2> QED BY <1>7, <2>1, <2>2, <2>3, <2>4
<1>8. ASSUME Quit \/ Reload \/ Destroy PROVE BootOrder'
  BY <1>8 DEF Quit, Reload, Destroy, Fresh, BootOrder, Loaded
<1> QED BY <1>1, <1>2, <1>3, <1>4, <1>5, <1>6, <1>7, <1>8 DEF Next

\* Whether a request is on its way depends on the book and the page's own part of it.
LEMMA NothingLostKept ==
  ASSUME StateTypes, BootOrder, NothingIsLost, Next
  PROVE  NothingIsLost'
<1>1. ASSUME NEW r \in Requests, Emit(r) PROVE NothingIsLost'
  <2>1. CASE window = "live"
    <3>1. page' = Emitted(page, r) /\ caller' = [caller EXCEPT ![r] = "waiting"]
          /\ pending' = pending /\ resend' = resend
      BY <1>1, <2>1 DEF Emit
    <3>2. page'.phase = page.phase /\ page'.served = page.served
          /\ ToSet(page.inbox) \subseteq ToSet(page'.inbox)
          /\ (page'.phase = "announced" => r \in ToSet(page'.inbox))
      <4>1. CASE Listening(page)
        <5>1. page' = [page EXCEPT !.inbox = Append(@, r)]
          BY <3>1, <4>1, EmittedPage DEF StateTypes
        <5>2. ToSet(page'.inbox) = ToSet(page.inbox) \cup {r}
          BY <3>1, <4>1, EmittedPage DEF StateTypes
        <5> QED BY <5>1, <5>2 DEF StateTypes, PageType
      <4>2. CASE ~Listening(page)
        BY <3>1, <4>2, EmittedPage DEF StateTypes, Listening
      <4> QED BY <4>1, <4>2
    <3> QED BY <3>1, <3>2 DEF NothingIsLost, StateTypes
  <2>2. CASE window # "live"
    BY <1>1, <2>2 DEF Emit, Told, NothingIsLost, StateTypes
  <2> QED BY <2>1, <2>2
<1>2. ASSUME NEW r \in Requests, Resend(r) PROVE NothingIsLost'
  <2>1. CASE window = "live"
    <3>1. page' = Emitted(page, r) /\ UNCHANGED <<caller, pending>> /\ resend' = resend \ {r}
      BY <1>2, <2>1 DEF Resend
    <3>2. page'.phase = page.phase /\ page'.served = page.served
          /\ ToSet(page.inbox) \subseteq ToSet(page'.inbox)
          /\ (page'.phase = "announced" => r \in ToSet(page'.inbox))
      <4>1. CASE Listening(page)
        <5>1. page' = [page EXCEPT !.inbox = Append(@, r)]
          BY <3>1, <4>1, EmittedPage DEF StateTypes
        <5>2. ToSet(page'.inbox) = ToSet(page.inbox) \cup {r}
          BY <3>1, <4>1, EmittedPage DEF StateTypes
        <5> QED BY <5>1, <5>2 DEF StateTypes, PageType
      <4>2. CASE ~Listening(page)
        BY <3>1, <4>2, EmittedPage DEF StateTypes, Listening
      <4> QED BY <4>1, <4>2
    <3> QED BY <3>1, <3>2 DEF NothingIsLost, StateTypes
  <2>2. CASE window # "live"
    BY <1>2, <2>2 DEF Resend, NothingIsLost, StateTypes, BootOrder
  <2> QED BY <2>1, <2>2
<1>3. ASSUME NEW r \in Requests, Insert(r) \/ NoWindow(r) \/ Receive(r) \/ Timeout(r)
      PROVE  NothingIsLost'
  BY <1>3 DEF Insert, NoWindow, Receive, Timeout, Told, NothingIsLost, StateTypes
<1>4. ASSUME NEW r \in Requests, Release(r) PROVE NothingIsLost'
  <2> DEFINE p == [page EXCEPT !.gated = @ \ {r}]
  <2>1. /\ p \in PageType /\ p.phase = page.phase /\ p.served = page.served /\ p.inbox = page.inbox
    BY DEF StateTypes, PageType
  <2>2. Execute(p, r) /\ UNCHANGED <<caller, pending, resend>>
    BY <1>4 DEF Release, bridge
  <2> HIDE DEF p
  <2> QED BY <2>1, <2>2, ExecuteFacts DEF NothingIsLost
<1>5. ASSUME NEW r \in Requests, Finish(r) PROVE NothingIsLost'
  BY <1>5 DEF Finish, NothingIsLost, StateTypes, PageType, bridge
<1>6. ASSUME NEW m \in replies, Reply(m) \/ ReplyFails(m) PROVE NothingIsLost'
  BY <1>6 DEF Reply, ReplyFails, AfterReply, Settle, NothingIsLost, StateTypes, PageType, bridge
<1>7. CASE Handle
  <2> DEFINE r == Head(page.inbox)
             p == Taken(page, r)
  <2>1. /\ r \in Requests /\ p \in PageType /\ p.phase = page.phase
        /\ p.served = page.served \cup {r} /\ p.inbox = Tail(page.inbox)
        /\ ToSet(page.inbox) = {r} \cup ToSet(Tail(page.inbox))
    BY <1>7, HandleCases DEF Taken, StateTypes, PageType
  <2>2. UNCHANGED <<caller, pending, resend>>
    BY <1>7 DEF Handle, bridge
  <2>3. /\ page'.phase = page.phase /\ page'.inbox = Tail(page.inbox)
        /\ page'.served = page.served \cup {r}
    <3>1. CASE r \in page.served /\ page' = [page EXCEPT !.inbox = Tail(page.inbox)]
      BY <3>1 DEF StateTypes, PageType
    <3>2. CASE page' = [p EXCEPT !.gated = @ \cup {r}]
      BY <2>1, <3>2 DEF PageType
    <3>3. CASE Execute(p, r)
      <4> HIDE DEF p, r
      <4> QED BY <2>1, <3>3, ExecuteFacts
    <3> QED BY <1>7, <3>1, <3>2, <3>3, HandleCases
  <2> HIDE DEF p, r
  <2> QED BY <2>1, <2>2, <2>3 DEF NothingIsLost
<1>8. ASSUME RegisterCatalog \/ Listen \/ Activate \/ Deactivate \/ HostReady
      PROVE  NothingIsLost'
  BY <1>8 DEF RegisterCatalog, Listen, Activate, Deactivate, HostReady, NothingIsLost,
              StateTypes, PageType, bridge
<1>9. CASE Announce
  BY <1>9 DEF Announce, NothingIsLost
<1>10. CASE Quit
  BY <1>10 DEF Quit, NothingIsLost, bridge
<1>11. ASSUME Reload \/ Destroy PROVE NothingIsLost'
  BY <1>11 DEF Reload, Destroy, Fresh, NothingIsLost
<1> QED BY <1>1, <1>2, <1>3, <1>4, <1>5, <1>6, <1>7, <1>8, <1>9, <1>10, <1>11 DEF Next

-----------------------------------------------------------------------------
(* An outcome is that of an execution. *)

\* Histories grow.
LEMMA RunsGrow ==
  ASSUME StateTypes, Next
  PROVE  \A q \in Requests : runs[q] # <<>> => runs'[q] # <<>>
<1>1. ASSUME NEW p \in PageType, NEW r \in Requests, Execute(p, r)
      PROVE  \A q \in Requests : runs[q] # <<>> => runs'[q] # <<>>
  <2>1. runs' = [runs EXCEPT ![r] = Append(runs[r], p.number)] /\ Append(runs[r], p.number) # <<>>
    <3>1. runs[r] \in Seq(1..MaxPages) /\ p.number \in 1..MaxPages
      BY DEF StateTypes, PageType
    <3>2. Append(runs[r], p.number) \in Seq(1..MaxPages) /\ Len(Append(runs[r], p.number)) # 0
      BY <3>1, AppendProperties
    <3>3. Append(runs[r], p.number) # <<>>
      BY <3>2, EmptySeq
    <3> QED BY <1>1, <3>3, ExecuteFacts
  <2> QED BY <2>1 DEF StateTypes
<1>2. ASSUME NEW r \in Requests, Release(r)
      PROVE  \A q \in Requests : runs[q] # <<>> => runs'[q] # <<>>
  <2>1. [page EXCEPT !.gated = @ \ {r}] \in PageType
    BY DEF StateTypes, PageType
  <2> QED BY <1>1, <1>2, <2>1 DEF Release
<1>3. ASSUME Handle
      PROVE  \A q \in Requests : runs[q] # <<>> => runs'[q] # <<>>
  BY <1>1, <1>3, HandleCases
<1> QED BY <1>2, <1>3, QuietSteps DEF Reload, Destroy, Quit

LEMMA IdleKept ==
  ASSUME StateTypes, IdleIsNowhere, Next
  PROVE  IdleIsNowhere'
<1>1. ASSUME NEW r \in Requests, Insert(r) \/ NoWindow(r) \/ Receive(r) \/ Timeout(r)
      PROVE  IdleIsNowhere'
  BY <1>1 DEF Insert, NoWindow, Receive, Timeout, Told, IdleIsNowhere, StateTypes
<1>2. ASSUME NEW r \in Requests, caller[r] # "idle", page' = page \/ page' = Emitted(page, r),
             pending' \subseteq pending, resend' \subseteq resend, runs' = runs,
             \A q \in Requests : caller'[q] = "idle" => caller[q] = "idle"
      PROVE  IdleIsNowhere'
  <2>1. page'.gated = page.gated /\ ToSet(page'.inbox) \subseteq ToSet(page.inbox) \cup {r}
    <3>1. CASE page' = page
      BY <3>1
    <3>2. CASE page' = Emitted(page, r) /\ Listening(page)
      <4>1. page' = [page EXCEPT !.inbox = Append(@, r)]
        BY <3>2, EmittedPage DEF StateTypes
      <4>2. ToSet(page'.inbox) = ToSet(page.inbox) \cup {r}
        BY <3>2, EmittedPage DEF StateTypes
      <4> QED BY <4>1, <4>2 DEF StateTypes, PageType
    <3>3. CASE page' = Emitted(page, r) /\ ~Listening(page)
      BY <3>3, EmittedPage DEF StateTypes
    <3> QED BY <1>2, <3>1, <3>2, <3>3
  <2> QED BY <1>2, <2>1 DEF IdleIsNowhere
<1>3. ASSUME NEW r \in Requests, Emit(r) PROVE IdleIsNowhere'
  <2>1. /\ caller[r] = "inserted" /\ (page' = page \/ page' = Emitted(page, r))
        /\ pending' \subseteq pending /\ resend' = resend /\ runs' = runs
        /\ \A q \in Requests : caller'[q] = "idle" => caller[q] = "idle"
    BY <1>3 DEF Emit, Told, StateTypes
  <2> QED BY <1>2, <2>1
<1>4. ASSUME NEW r \in Requests, Resend(r) PROVE IdleIsNowhere'
  <2>1. /\ r \in resend /\ (page' = page \/ page' = Emitted(page, r))
        /\ pending' = pending /\ resend' \subseteq resend /\ runs' = runs /\ caller' = caller
    BY <1>4 DEF Resend
  <2>2. caller[r] # "idle"
    BY <2>1 DEF IdleIsNowhere
  <2> QED BY <1>2, <2>1, <2>2
<1>5. ASSUME NEW p \in PageType, NEW r \in Requests, Execute(p, r), caller[r] # "idle",
             p.gated \subseteq page.gated, ToSet(p.inbox) \subseteq ToSet(page.inbox),
             UNCHANGED <<caller, pending, resend>>
      PROVE  IdleIsNowhere'
  <2>1. page'.gated = p.gated /\ page'.inbox = p.inbox
        /\ runs' = [runs EXCEPT ![r] = Append(runs[r], p.number)]
    BY <1>5, ExecuteFacts
  <2>2. \A q \in Requests : caller[q] = "idle" => runs'[q] = runs[q]
    BY <1>5, <2>1 DEF StateTypes
  <2> QED BY <1>5, <2>1, <2>2 DEF IdleIsNowhere
<1>6. ASSUME NEW r \in Requests, Release(r) PROVE IdleIsNowhere'
  <2> DEFINE p == [page EXCEPT !.gated = @ \ {r}]
  <2>1. /\ p \in PageType /\ p.gated \subseteq page.gated /\ p.inbox = page.inbox
    BY DEF StateTypes, PageType
  <2>2. Execute(p, r) /\ r \in page.gated /\ UNCHANGED <<caller, pending, resend>>
    BY <1>6 DEF Release, bridge
  <2>3. caller[r] # "idle"
    BY <2>2 DEF IdleIsNowhere
  <2> HIDE DEF p
  <2> QED BY <1>5, <2>1, <2>2, <2>3
<1>7. CASE Handle
  <2> DEFINE r == Head(page.inbox)
             p == Taken(page, r)
  <2>1. /\ r \in Requests /\ r \in ToSet(page.inbox) /\ p \in PageType
        /\ p.gated = page.gated /\ p.inbox = Tail(page.inbox)
        /\ ToSet(Tail(page.inbox)) \subseteq ToSet(page.inbox)
    BY <1>7, HandleCases DEF Taken, StateTypes, PageType
  <2>2. UNCHANGED <<caller, pending, resend>>
    BY <1>7 DEF Handle, bridge
  <2>3. caller[r] # "idle"
    BY <2>1 DEF IdleIsNowhere
  <2>4. CASE page' = [page EXCEPT !.inbox = Tail(page.inbox)] /\ UNCHANGED <<replies, runs>>
    <3>1. page'.gated = page.gated /\ page'.inbox = Tail(page.inbox)
      BY <2>4 DEF StateTypes, PageType
    <3> QED BY <2>1, <2>2, <2>4, <3>1 DEF IdleIsNowhere
  <2>5. CASE page' = [p EXCEPT !.gated = @ \cup {r}] /\ UNCHANGED <<replies, runs>>
    <3>1. page'.gated = page.gated \cup {r} /\ page'.inbox = Tail(page.inbox)
      BY <2>1, <2>5 DEF PageType
    <3> QED BY <2>1, <2>2, <2>3, <2>5, <3>1 DEF IdleIsNowhere
  <2>6. CASE Execute(p, r)
    <3> HIDE DEF p, r
    <3> QED BY <1>5, <2>1, <2>2, <2>3, <2>6
  <2> QED BY <1>7, <2>4, <2>5, <2>6, HandleCases
<1>8. ASSUME NEW r \in Requests, Finish(r) PROVE IdleIsNowhere'
  BY <1>8 DEF Finish, bridge, IdleIsNowhere, StateTypes, PageType
<1>9. ASSUME NEW m \in replies, Reply(m) \/ ReplyFails(m) PROVE IdleIsNowhere'
  <2>1. page'.inbox = page.inbox /\ page'.gated = page.gated
    BY <1>9 DEF Reply, ReplyFails, AfterReply, StateTypes, PageType
  <2> QED BY <1>9, <2>1 DEF Reply, ReplyFails, Settle, bridge, IdleIsNowhere
<1>10. ASSUME RegisterCatalog \/ Listen \/ Announce \/ Activate \/ Deactivate \/ HostReady
       PROVE  IdleIsNowhere'
  <2>1. page'.inbox = page.inbox /\ page'.gated = page.gated
    BY <1>10 DEF RegisterCatalog, Listen, Announce, Activate, Deactivate, HostReady,
                 StateTypes, PageType
  <2>2. UNCHANGED <<caller, pending, runs>> /\ resend' \subseteq resend \cup pending
    BY <1>10 DEF RegisterCatalog, Listen, Announce, Activate, Deactivate, HostReady, bridge
  <2> QED BY <2>1, <2>2 DEF IdleIsNowhere
<1>11. CASE Quit
  BY <1>11 DEF Quit, bridge, IdleIsNowhere
<1>12. ASSUME Reload \/ Destroy PROVE IdleIsNowhere'
  <2>1. page'.inbox = <<>> /\ page'.gated = {}
    BY <1>12 DEF Reload, Destroy, Fresh
  <2>2. UNCHANGED <<caller, runs>> /\ pending' \subseteq pending /\ resend' \subseteq resend
    BY <1>12 DEF Reload, Destroy, bridge
  <2> QED BY <2>1, <2>2, SetOfNothing DEF IdleIsNowhere
<1> QED BY <1>1, <1>3, <1>4, <1>6, <1>7, <1>8, <1>9, <1>10, <1>11, <1>12 DEF Next

LEMMA OutcomesKept ==
  ASSUME StateTypes, OutcomesComeFromRuns, Next
  PROVE  OutcomesComeFromRuns'
<1> USE NoneAssumption
<1>1. \A q \in Requests : runs[q] # <<>> => runs'[q] # <<>>
  BY RunsGrow
<1>2. ASSUME page'.running = page.running, page'.number = page.number, replies' \subseteq replies,
             \A q \in Requests : channel'[q] \in Outcomes =>
                 channel[q] \in Outcomes \/ runs[q] # <<>>,
             \A q \in Requests : answer'[q] \in Outcomes =>
                 answer[q] \in Outcomes \/ channel[q] \in Outcomes
      PROVE  OutcomesComeFromRuns'
  BY <1>1, <1>2 DEF OutcomesComeFromRuns, StateTypes, PageType, ReplyType
<1>3. ASSUME NEW r \in Requests, Insert(r) \/ NoWindow(r) \/ Receive(r) \/ Timeout(r)
      PROVE  OutcomesComeFromRuns'
  <2>1. UNCHANGED <<page, replies, channel>>
    BY <1>3 DEF Insert, NoWindow, Receive, Timeout
  <2>2. \A q \in Requests : answer'[q] \in Outcomes => answer[q] \in Outcomes \/ channel[q] \in Outcomes
    BY <1>3 DEF Insert, NoWindow, Receive, Timeout, Told, Outcomes, StateTypes
  <2> QED BY <1>2, <2>1, <2>2
<1>4. ASSUME NEW r \in Requests, Emit(r) \/ Resend(r) PROVE OutcomesComeFromRuns'
  <2>1. page' = page \/ page' = Emitted(page, r)
    BY <1>4 DEF Emit, Resend
  <2>2. Emitted(page, r) = page \/ Emitted(page, r) = [page EXCEPT !.inbox = Append(@, r)]
    BY EmittedPage DEF StateTypes
  <2>3. page'.running = page.running /\ page'.number = page.number
    BY <2>1, <2>2 DEF StateTypes, PageType
  <2>4. UNCHANGED <<channel, replies>>
    BY <1>4 DEF Emit, Resend
  <2>5. \A q \in Requests : answer'[q] \in Outcomes => answer[q] \in Outcomes
    BY <1>4 DEF Emit, Resend, Told, Outcomes, StateTypes
  <2> QED BY <1>2, <2>3, <2>4, <2>5
<1>5. ASSUME NEW p \in PageType, NEW r \in Requests, Execute(p, r), p.running = page.running,
             p.number = page.number, UNCHANGED <<channel, answer>>
      PROVE  OutcomesComeFromRuns'
  <2>1. /\ page'.number = page.number
        /\ runs' = [runs EXCEPT ![r] = Append(runs[r], p.number)]
        /\ replies' \in SUBSET ReplyType
    BY <1>5, ExecuteFacts
  <2>2. runs'[r] # <<>>
    <3>1. runs[r] \in Seq(1..MaxPages) /\ p.number \in 1..MaxPages /\ runs'[r] = Append(runs[r], p.number)
      BY <2>1 DEF StateTypes, PageType
    <3>2. Len(runs[r]) \in Nat /\ Len(runs'[r]) = Len(runs[r]) + 1
      BY <3>1
    <3> QED BY <3>2
  <2>3. CASE page' = [p EXCEPT !.running = @ \cup {r}] /\ replies' = replies
    <3>1. page'.running = page.running \cup {r}
      BY <1>5, <2>3 DEF PageType
    <3> QED BY <1>1, <1>5, <2>1, <2>2, <2>3, <3>1 DEF OutcomesComeFromRuns, StateTypes, ReplyType, PageType
  <2>4. ASSUME page' = p, NEW m \in ReplyType, replies' = replies \cup {m}, m.request = r,
               m.page = p.number
        PROVE  OutcomesComeFromRuns'
    BY <1>1, <1>5, <2>1, <2>2, <2>4, PagesAssumption DEF OutcomesComeFromRuns, StateTypes, ReplyType, PageType
  <2> QED BY <1>5, <2>3, <2>4, ExecuteFacts
<1>6. ASSUME NEW r \in Requests, Release(r) PROVE OutcomesComeFromRuns'
  <2> DEFINE p == [page EXCEPT !.gated = @ \ {r}]
  <2>1. /\ p \in PageType /\ p.running = page.running /\ p.number = page.number
    BY DEF StateTypes, PageType
  <2>2. Execute(p, r) /\ UNCHANGED <<channel, answer>>
    BY <1>6 DEF Release, bridge
  <2> HIDE DEF p
  <2> QED BY <1>5, <2>1, <2>2
<1>7. CASE Handle
  <2> DEFINE r == Head(page.inbox)
             p == Taken(page, r)
  <2>1. r \in Requests /\ p \in PageType /\ p.running = page.running /\ p.number = page.number
    BY <1>7, HandleCases DEF Taken, StateTypes, PageType
  <2>2. UNCHANGED <<channel, answer>>
    BY <1>7 DEF Handle, bridge
  <2>3. CASE page' = [page EXCEPT !.inbox = Tail(page.inbox)] /\ UNCHANGED <<replies, runs>>
    <3>1. page'.running = page.running /\ page'.number = page.number
      BY <2>3 DEF StateTypes, PageType
    <3> QED BY <1>2, <2>2, <2>3, <3>1
  <2>4. CASE page' = [p EXCEPT !.gated = @ \cup {r}] /\ UNCHANGED <<replies, runs>>
    <3>1. page'.running = page.running /\ page'.number = page.number
      BY <2>1, <2>4 DEF PageType
    <3> QED BY <1>2, <2>2, <2>4, <3>1
  <2>5. CASE Execute(p, r)
    <3> HIDE DEF p, r
    <3> QED BY <1>5, <2>1, <2>2, <2>5
  <2> QED BY <1>7, <2>3, <2>4, <2>5, HandleCases
<1>8. ASSUME NEW r \in Requests, Finish(r) PROVE OutcomesComeFromRuns'
  <2> DEFINE m == [request |-> r, page |-> page.number, outcome |-> "DONE"]
  <2>1. /\ r \in page.running /\ replies' = replies \cup {m} /\ UNCHANGED <<channel, answer, runs>>
        /\ page'.running \subseteq page.running /\ page'.number = page.number
    BY <1>8 DEF Finish, bridge, StateTypes, PageType
  <2>2. m.request = r /\ m.page = page.number
    OBVIOUS
  <2> HIDE DEF m
  <2>3. page.number \in Int
    BY PagesAssumption DEF StateTypes, PageType
  <2> QED BY <2>1, <2>2, <2>3 DEF OutcomesComeFromRuns
<1>9. ASSUME NEW m \in replies, Reply(m) PROVE OutcomesComeFromRuns'
  <2>1. page'.running = page.running /\ page'.number = page.number
    BY <1>9 DEF Reply, AfterReply, StateTypes, PageType
  <2>2. replies' \subseteq replies /\ answer' = answer
    BY <1>9 DEF Reply
  <2>3. m.request \in Requests /\ runs[m.request] # <<>>
    BY DEF OutcomesComeFromRuns, StateTypes, ReplyType
  <2>4. \A q \in Requests : channel'[q] \in Outcomes => channel[q] \in Outcomes \/ runs[q] # <<>>
    BY <1>9, <2>3 DEF Reply, Settle, StateTypes
  <2> QED BY <1>2, <2>1, <2>2, <2>4
<1>10. ASSUME NEW m \in replies, ReplyFails(m) PROVE OutcomesComeFromRuns'
  BY <1>2, <1>10 DEF ReplyFails, bridge
<1>11. ASSUME RegisterCatalog \/ Listen \/ Announce \/ Activate \/ Deactivate \/ HostReady
       PROVE  OutcomesComeFromRuns'
  <2>1. page'.running = page.running /\ page'.number = page.number
    BY <1>11 DEF RegisterCatalog, Listen, Announce, Activate, Deactivate, HostReady,
                 StateTypes, PageType
  <2>2. UNCHANGED <<replies, channel, answer>>
    BY <1>11 DEF RegisterCatalog, Listen, Announce, Activate, Deactivate, HostReady, bridge
  <2> QED BY <1>2, <2>1, <2>2
<1>12. CASE Quit
  BY <1>2, <1>12 DEF Quit, bridge
<1>13. CASE Reload
  <2>1. page'.running = {} /\ page'.number = page.number + 1 /\ UNCHANGED <<replies, channel, answer, runs>>
    BY <1>13 DEF Reload, Fresh, bridge
  <2>2. page.number \in Int /\ \A m \in replies : m.page \in Int
    BY PagesAssumption DEF StateTypes, PageType, ReplyType
  <2> QED BY <2>1, <2>2 DEF OutcomesComeFromRuns
<1>14. CASE Destroy
  <2>1. page'.running = {} /\ replies' = {} /\ UNCHANGED <<answer, runs>>
    BY <1>14 DEF Destroy, Fresh
  <2>2. \A q \in Requests : channel'[q] \in Outcomes => channel[q] \in Outcomes
    BY <1>14 DEF Destroy, Outcomes
  <2> QED BY <2>1, <2>2 DEF OutcomesComeFromRuns
<1> QED BY <1>3, <1>4, <1>6, <1>7, <1>8, <1>9, <1>10, <1>11, <1>12, <1>13, <1>14 DEF Next

LEMMA MissesKept ==
  ASSUME StateTypes, BootOrder, OutcomesComeFromRuns, MissesAreTrue, Next
  PROVE  MissesAreTrue'
<1> USE NoneAssumption
<1> DEFINE Missable(q) == method[q] \in {"plugin", "missing"}
<1>1. ASSUME UNCHANGED method, page'.number = page.number, page.hostReady => page'.hostReady,
             replies' \subseteq replies,
             \A q \in Requests : channel'[q] = "UNKNOWN_COMMAND" =>
                 channel[q] = "UNKNOWN_COMMAND" \/ Missable(q),
             \A q \in Requests : answer'[q] = "UNKNOWN_COMMAND" =>
                 answer[q] = "UNKNOWN_COMMAND" \/ channel[q] = "UNKNOWN_COMMAND"
      PROVE  MissesAreTrue'
  BY <1>1 DEF MissesAreTrue
<1>2. ASSUME NEW r \in Requests, Insert(r) \/ NoWindow(r) \/ Receive(r) \/ Timeout(r)
      PROVE  MissesAreTrue'
  <2>1. UNCHANGED <<method, page, replies, channel>>
    BY <1>2 DEF Insert, NoWindow, Receive, Timeout
  <2>2. \A q \in Requests : answer'[q] = "UNKNOWN_COMMAND" =>
            answer[q] = "UNKNOWN_COMMAND" \/ channel[q] = "UNKNOWN_COMMAND"
    BY <1>2 DEF Insert, NoWindow, Receive, Timeout, Told, StateTypes
  <2> QED BY <1>1, <2>1, <2>2
<1>3. ASSUME NEW r \in Requests, Emit(r) \/ Resend(r) PROVE MissesAreTrue'
  <2>1. page' = page \/ page' = Emitted(page, r)
    BY <1>3 DEF Emit, Resend
  <2>2. Emitted(page, r) = page \/ Emitted(page, r) = [page EXCEPT !.inbox = Append(@, r)]
    BY EmittedPage DEF StateTypes
  <2>3. page'.number = page.number /\ page'.hostReady = page.hostReady
    BY <2>1, <2>2 DEF StateTypes, PageType
  <2>4. UNCHANGED <<method, channel, replies>>
    BY <1>3 DEF Emit, Resend
  <2>5. \A q \in Requests : answer'[q] = "UNKNOWN_COMMAND" => answer[q] = "UNKNOWN_COMMAND"
    BY <1>3 DEF Emit, Resend, Told, StateTypes
  <2> QED BY <1>1, <2>3, <2>4, <2>5
\* The page runs a command it does not know only when it need not wait for plugins.
<1>4. ASSUME NEW p \in PageType, NEW r \in Requests, Execute(p, r), p.number = page.number,
             p.hostReady = page.hostReady, p.registry = page.registry,
             page.hostReady \/ method[r] \in page.registry, page.phase # "loading",
             UNCHANGED <<method, channel, answer>>
      PROVE  MissesAreTrue'
  <2>1. page'.number = page.number /\ page'.hostReady = page.hostReady
    BY <1>4, ExecuteFacts
  <2>2. CASE replies' = replies
    BY <1>1, <1>4, <2>1, <2>2
  <2>3. ASSUME NEW m \in ReplyType, replies' = replies \cup {m}, m.request = r,
               \/ m.outcome = "REFUSED"
               \/ m.outcome = "UNKNOWN_COMMAND" /\ method[r] \notin p.registry
        PROVE  MissesAreTrue'
    <3>1. method[r] \in Kinds
      BY DEF StateTypes
    <3>2. m.outcome = "UNKNOWN_COMMAND" => Missable(r) /\ page.hostReady
      BY <1>4, <2>3, <3>1 DEF BootOrder, CoreKinds, Kinds
    <3> QED BY <1>4, <2>1, <2>3, <3>2 DEF MissesAreTrue
  <2> QED BY <1>4, <2>2, <2>3, ExecuteFacts
<1>5. ASSUME NEW r \in Requests, Release(r) PROVE MissesAreTrue'
  <2> DEFINE p == [page EXCEPT !.gated = @ \ {r}]
  <2>1. /\ p \in PageType /\ p.number = page.number /\ p.hostReady = page.hostReady
        /\ p.registry = page.registry
    BY DEF StateTypes, PageType
  <2>2. Execute(p, r) /\ page.hostReady /\ page.phase # "loading" /\ UNCHANGED <<method, channel, answer>>
    BY <1>5 DEF Release, bridge, BootOrder
  <2> HIDE DEF p
  <2> QED BY <1>4, <2>1, <2>2
<1>6. CASE Handle
  <2> DEFINE r == Head(page.inbox)
             p == Taken(page, r)
  <2>1. /\ r \in Requests /\ p \in PageType /\ p.number = page.number
        /\ p.hostReady = page.hostReady /\ p.registry = page.registry
    BY <1>6, HandleCases DEF Taken, StateTypes, PageType
  <2>2. page.phase # "loading" /\ UNCHANGED <<method, channel, answer>>
    BY <1>6 DEF Handle, bridge, BootOrder
  <2>3. CASE page' = [page EXCEPT !.inbox = Tail(page.inbox)] /\ UNCHANGED <<replies, runs>>
    <3>1. page'.hostReady = page.hostReady /\ page'.number = page.number
      BY <2>3 DEF StateTypes, PageType
    <3> QED BY <1>1, <2>2, <2>3, <3>1
  <2>4. CASE page' = [p EXCEPT !.gated = @ \cup {r}] /\ UNCHANGED <<replies, runs>>
    <3>1. page'.hostReady = page.hostReady /\ page'.number = page.number
      BY <2>1, <2>4 DEF PageType
    <3> QED BY <1>1, <2>2, <2>4, <3>1
  <2>5. CASE ~Held(page, r) /\ Execute(p, r)
    <3>1. page.hostReady \/ method[r] \in page.registry
      BY <2>5 DEF Held
    <3> HIDE DEF p, r
    <3> QED BY <1>4, <2>1, <2>2, <2>5, <3>1
  <2> QED BY <1>6, <2>3, <2>4, <2>5, HandleCases
<1>7. ASSUME NEW r \in Requests, Finish(r) PROVE MissesAreTrue'
  <2> DEFINE m == [request |-> r, page |-> page.number, outcome |-> "DONE"]
  <2>1. /\ replies' = replies \cup {m} /\ UNCHANGED <<method, channel, answer>>
        /\ page'.hostReady = page.hostReady /\ page'.number = page.number
    BY <1>7 DEF Finish, bridge, StateTypes, PageType
  <2>2. m.outcome # "UNKNOWN_COMMAND"
    OBVIOUS
  <2> HIDE DEF m
  <2> QED BY <2>1, <2>2 DEF MissesAreTrue
<1>8. ASSUME NEW m \in replies, Reply(m) PROVE MissesAreTrue'
  <2>1. page'.hostReady = page.hostReady /\ page'.number = page.number
    BY <1>8 DEF Reply, AfterReply, StateTypes, PageType
  <2>2. replies' \subseteq replies /\ answer' = answer /\ method' = method
    BY <1>8 DEF Reply
  <2>3. m.request \in Requests /\ (m.outcome = "UNKNOWN_COMMAND" => Missable(m.request))
    BY DEF MissesAreTrue, StateTypes, ReplyType
  <2>4. \A q \in Requests : channel'[q] = "UNKNOWN_COMMAND" => channel[q] = "UNKNOWN_COMMAND" \/ Missable(q)
    BY <1>8, <2>3 DEF Reply, Settle, StateTypes
  <2> QED BY <1>1, <2>1, <2>2, <2>4
<1>9. ASSUME NEW m \in replies, ReplyFails(m) PROVE MissesAreTrue'
  BY <1>1, <1>9 DEF ReplyFails, bridge
<1>10. ASSUME RegisterCatalog \/ Listen \/ Announce \/ Activate \/ Deactivate \/ HostReady
       PROVE  MissesAreTrue'
  <2>1. (page.hostReady => page'.hostReady) /\ page'.number = page.number
    BY <1>10 DEF RegisterCatalog, Listen, Announce, Activate, Deactivate, HostReady,
                 StateTypes, PageType
  <2>2. UNCHANGED <<method, replies, channel, answer>>
    BY <1>10 DEF RegisterCatalog, Listen, Announce, Activate, Deactivate, HostReady, bridge
  <2> QED BY <1>1, <2>1, <2>2
<1>11. CASE Quit
  BY <1>1, <1>11 DEF Quit, bridge
<1>12. CASE Reload
  <2>1. page'.number = page.number + 1 /\ UNCHANGED <<method, replies, channel, answer>>
    BY <1>12 DEF Reload, Fresh, bridge
  <2>2. page.number \in Int /\ \A m \in replies : m.page \in Int /\ m.page <= page.number
    BY PagesAssumption DEF StateTypes, PageType, ReplyType, OutcomesComeFromRuns
  <2> QED BY <2>1, <2>2 DEF MissesAreTrue
<1>13. CASE Destroy
  <2>1. replies' = {} /\ UNCHANGED <<method, answer>>
    BY <1>13 DEF Destroy
  <2>2. \A q \in Requests : channel'[q] = "UNKNOWN_COMMAND" => channel[q] = "UNKNOWN_COMMAND"
    BY <1>13 DEF Destroy
  <2> QED BY <2>1, <2>2 DEF MissesAreTrue
<1> QED BY <1>2, <1>3, <1>5, <1>6, <1>7, <1>8, <1>9, <1>10, <1>11, <1>12, <1>13 DEF Next

-----------------------------------------------------------------------------
(* The end of the app. *)

LEMMA QuitKept ==
  ASSUME StateTypes, IdleIsNowhere, OutcomesComeFromRuns, QuitsAfterAnswer, Next
  PROVE  QuitsAfterAnswer'
<1>1. \A q \in Requests : runs[q] # <<>> => runs'[q] # <<>>
  BY RunsGrow
<1>2. UNCHANGED method
  BY DEF Next, Insert, NoWindow, Emit, Receive, Timeout, Resend, Release, Finish, Reply, ReplyFails,
         RegisterCatalog, Listen, Announce, Handle, Activate, Deactivate, HostReady, Quit, Reload, Destroy
<1>3. \A q \in Requests : runs[q] # <<>> /\ q \notin pending => q \notin pending'
  <2> SUFFICES ASSUME NEW r \in Requests, Insert(r) PROVE runs[r] = <<>> /\ pending' = pending \cup {r}
    BY DEF Next, NoWindow, Emit, Receive, Timeout, Resend, Release, Finish, Reply, ReplyFails,
         RegisterCatalog, Listen, Announce, Handle, Activate, Deactivate, HostReady, Quit, Reload, Destroy,
         bridge, Settle
  <2> QED BY DEF Insert, IdleIsNowhere
<1>4. ASSUME window' = "quit" \/ page'.quitting => window = "quit" \/ page.quitting
      PROVE  QuitsAfterAnswer'
  BY <1>1, <1>2, <1>3, <1>4 DEF QuitsAfterAnswer
<1>5. ASSUME NEW m \in replies, Reply(m) PROVE QuitsAfterAnswer'
  <2>1. CASE page' = page
    BY <1>4, <1>5, <2>1 DEF Reply
  <2>2. CASE page' # page
    <3>1. method[m.request] = "quit"
      BY <1>5, <2>2 DEF Reply, AfterReply
    <3>2. m.request \in Requests /\ runs[m.request] # <<>> /\ m.request \notin pending'
      BY <1>5 DEF Reply, Settle, OutcomesComeFromRuns, StateTypes, ReplyType
    <3> QED BY <1>1, <1>2, <3>1, <3>2 DEF QuitsAfterAnswer
  <2> QED BY <2>1, <2>2
<1>6. ASSUME NEW m \in replies, ReplyFails(m) PROVE QuitsAfterAnswer'
  BY <1>4, <1>6 DEF ReplyFails
<1>7. ASSUME NEW r \in Requests, Emit(r) \/ Resend(r) PROVE QuitsAfterAnswer'
  <2>1. (page' = page \/ page' = Emitted(page, r)) /\ window' = window
    BY <1>7 DEF Emit, Resend
  <2>2. Emitted(page, r) = page \/ Emitted(page, r) = [page EXCEPT !.inbox = Append(@, r)]
    BY EmittedPage DEF StateTypes
  <2> QED BY <1>4, <2>1, <2>2 DEF StateTypes, PageType
<1>8. ASSUME NEW r \in Requests, Insert(r) \/ NoWindow(r) \/ Receive(r) \/ Timeout(r) \/ Finish(r)
      PROVE  QuitsAfterAnswer'
  BY <1>4, <1>8 DEF Insert, NoWindow, Receive, Timeout, Finish, StateTypes, PageType
<1>9. ASSUME NEW r \in Requests, Release(r) PROVE QuitsAfterAnswer'
  <2> DEFINE p == [page EXCEPT !.gated = @ \ {r}]
  <2>1. p \in PageType /\ p.quitting = page.quitting
    BY DEF StateTypes, PageType
  <2>2. Execute(p, r) /\ window' = window
    BY <1>9 DEF Release
  <2> HIDE DEF p
  <2> QED BY <1>4, <2>1, <2>2, ExecuteFacts
<1>10. CASE Handle
  <2> DEFINE r == Head(page.inbox)
             p == Taken(page, r)
  <2>1. r \in Requests /\ p \in PageType /\ p.quitting = page.quitting
    BY <1>10, HandleCases DEF Taken, StateTypes, PageType
  <2>2. page'.quitting = page.quitting
    <3>1. CASE page' = [page EXCEPT !.inbox = Tail(page.inbox)]
      BY <3>1 DEF StateTypes, PageType
    <3>2. CASE page' = [p EXCEPT !.gated = @ \cup {r}]
      BY <2>1, <3>2 DEF PageType
    <3>3. CASE Execute(p, r)
      <4> HIDE DEF p, r
      <4> QED BY <2>1, <3>3, ExecuteFacts
    <3> QED BY <1>10, <3>1, <3>2, <3>3, HandleCases
  <2> QED BY <1>4, <1>10, <2>2 DEF Handle
<1>11. ASSUME RegisterCatalog \/ Listen \/ Announce \/ Activate \/ Deactivate \/ HostReady
       PROVE  QuitsAfterAnswer'
  BY <1>4, <1>11 DEF RegisterCatalog, Listen, Announce, Activate, Deactivate, HostReady,
                     StateTypes, PageType
<1>12. ASSUME Quit \/ Reload \/ Destroy PROVE QuitsAfterAnswer'
  BY <1>4, <1>12 DEF Quit, Reload, Destroy, Fresh
<1> QED BY <1>5, <1>6, <1>7, <1>8, <1>9, <1>10, <1>11, <1>12 DEF Next

-----------------------------------------------------------------------------
LEMMA BusInit == Init => BusInv
<1> SUFFICES ASSUME Init PROVE BusInv
  OBVIOUS
<1> USE MethodsAssumption, PagesAssumption, NoneAssumption
<1>1. page = Fresh(1) /\ 1 \in 1..MaxPages /\ <<>> \in Seq(Requests) /\ <<>> \in Seq(1..MaxPages)
  BY DEF Init
<1>2. StateTypes
  BY <1>1 DEF Init, StateTypes, Fresh, PageType, Phases
<1>3. SeenOnce /\ OncePerPage
  BY <1>1 DEF Init, SeenOnce, OncePerPage, IsInjective, Fresh
<1>4. BootOrder /\ NothingIsLost
  BY <1>1 DEF Init, BootOrder, NothingIsLost, Fresh
<1>5. IdleIsNowhere
  BY <1>1, SetOfNothing DEF Init, IdleIsNowhere, Fresh
<1>6. OutcomesComeFromRuns /\ MissesAreTrue /\ QuitsAfterAnswer
  BY <1>1 DEF Init, OutcomesComeFromRuns, MissesAreTrue, QuitsAfterAnswer, Fresh, Outcomes
<1> QED BY <1>2, <1>3, <1>4, <1>5, <1>6 DEF BusInv

LEMMA BusStep == BusInv /\ [Next]_vars => BusInv'
<1>1. ASSUME BusInv, Next PROVE BusInv'
  BY <1>1, TypesKept, OnceKept, BootKept, NothingLostKept, IdleKept, OutcomesKept, MissesKept, QuitKept
  DEF BusInv
<1>2. ASSUME BusInv, UNCHANGED vars PROVE BusInv'
  BY <1>2 DEF vars, bridge, BusInv, StateTypes, SeenOnce, OncePerPage, BootOrder, NothingIsLost,
              IdleIsNowhere, OutcomesComeFromRuns, MissesAreTrue, QuitsAfterAnswer
<1> QED BY <1>1, <1>2

LEMMA BusInvSuffices == BusInv => BusIsSound
<1> SUFFICES ASSUME BusInv PROVE BusIsSound
  OBVIOUS
<1>1. TypeOK
  BY DEF BusInv, StateTypes, PageType, TypeOK
<1>2. AnswersAreTrue
  BY DEF BusInv, OutcomesComeFromRuns, MissesAreTrue, AnswersAreTrue, Outcomes
<1>3. QuitIsAnswered
  BY DEF BusInv, QuitsAfterAnswer, QuitIsAnswered
<1> QED BY <1>1, <1>2, <1>3 DEF BusInv, BusIsSound

\* However pages are reloaded, requests sent again and answers lost: a page executes
\* a request once, a request in the book of a page that has announced itself has come
\* or is on its way, nobody is told an outcome nothing had, and the app ends at a
\* command only after the answer went out (executor.ts, ipc.rs).
THEOREM TheBusIsSound == Spec => []BusIsSound
<1>1. Spec => []BusInv
  BY BusInit, BusStep, PTL DEF Spec
<1> QED BY <1>1, BusInvSuffices, PTL
===============================================================================
