---------------------------- MODULE ElectronBridge ----------------------------
(***************************************************************************)
(* The bridge of the Electron shell to its helper process cored            *)
(* (frameworks/electron): main.cjs has cored stood up (cored.cjs), keeps    *)
(* one connection for the calls of the windows (backend.cjs) and a control   *)
(* host for the commands that come from outside (control.cjs): one more      *)
(* each time cored is stood up, and those made before stay and redial.       *)
(*                                                                          *)
(* A process is a number.  An answer carries the call it answers, so that   *)
(* a call can be seen to get another's.  Who serves the socket changes when  *)
(* a process binds it or dies; probes and dials see who serves it then.      *)
(* One that lost the path to another still serves the connections it has.    *)
(***************************************************************************)
EXTENDS Integers, Sequences, FiniteSets, SequencesExt

CONSTANTS Calls,         \* calls of the windows to the backend
          MaxProcs,      \* bound: processes that are ever started
          MaxEnsures,    \* bound: runs of ensureCoredProcess, the boot's included
          MaxFacts       \* bound: changes of the windows

VARIABLES proc,          \* per process: what became of it
          serving,       \* the process that serves the socket
          ensures,       \* per run of ensureCoredProcess: how far it is, who waits for it
          backendReady,  \* the promise of the bridge: "no", "yes", "failed"
          link,          \* the kept connection of backend.cjs
          awaiting,      \* its requests without an answer
          seq,           \* its last id
          line,          \* the requests cored has, the answers on their way
          call,          \* per call: what its caller knows
          hosts,         \* per run: the control host made when it succeeded
          controlHost,   \* the one main.cjs tells of the windows: the last made
          facts          \* how often the windows have changed

processVars == <<proc, serving>>
callVars    == <<awaiting, seq, line, call>>
hostVars    == <<hosts, controlHost, facts>>
bridgeVars  == <<proc, serving, ensures, backendReady, link, awaiting, seq, line, call,
                 hosts, controlHost, facts>>

Procs  == 1..MaxProcs
Runs   == 1..MaxEnsures
boot   == 1
NoOne  == 0
Silent == [asked |-> {}, answers |-> <<>>]

ASSUME BridgeAssumption ==
    /\ IsFiniteSet(Calls) /\ "declare" \notin Calls
    /\ MaxProcs \in Nat /\ MaxEnsures \in Nat \ {0} /\ MaxFacts \in Nat

-----------------------------------------------------------------------------
(* Calls: backend.cjs. *)

\* Mutant: an id is taken again once its call is forgotten.
IdsAgain(i) == Cardinality(awaiting) + i

NextId(i) == seq + i

Written(S) ==
    LET q == SetToSeq(S) IN {[id |-> NextId(i), of |-> q[i]] : i \in DOMAIN q}

\* The calls S are written to the connection: each waits for its answer.
Send(S) ==
    /\ awaiting' = awaiting \cup Written(S)
    /\ seq' = seq + Cardinality(S)
    /\ line' = [line EXCEPT !.asked = @ \cup Written(S)]
    /\ call' = [c \in Calls |-> IF c \in S THEN [call[c] EXCEPT !.st = "sent"] ELSE call[c]]

Fail(S) == call' = [c \in Calls |-> IF c \in S THEN [call[c] EXCEPT !.st = "failed"] ELSE call[c]]

\* connect(), for the calls S: the connection there is, the dial under way, or a new dial.
Join(S) ==
    IF link.st = "up"
    THEN Send(S) /\ UNCHANGED link
    ELSE /\ link' = [link EXCEPT !.st = "dialing", !.waiters = @ \cup S]
         /\ call' = [c \in Calls |-> IF c \in S THEN [call[c] EXCEPT !.st = "joining"] ELSE call[c]]
         /\ UNCHANGED <<awaiting, seq, line>>

callBackend(c) ==
    /\ call[c].st = "new"
    /\ CASE backendReady = "yes"    -> Join({c})
         [] backendReady = "failed" -> Fail({c}) /\ UNCHANGED <<link, awaiting, seq, line>>
         [] backendReady = "no"     -> /\ call' = [call EXCEPT ![c].st = "early"]
                                       /\ UNCHANGED <<link, awaiting, seq, line>>
    /\ UNCHANGED <<processVars, ensures, backendReady, hostVars>>

Early == {c \in Calls : call[c].st = "early"}

\* The dial succeeds: what this connection is goes out first, then whoever waited.
DialOk ==
    /\ link.st = "dialing" /\ serving # NoOne
    /\ link' = [st |-> "up", to |-> serving, waiters |-> {}]
    /\ LET first == [id |-> NextId(1), of |-> "declare"]
           rest  == {[r EXCEPT !.id = @ + 1] : r \in Written(link.waiters)}
       IN /\ awaiting' = awaiting \cup {first} \cup rest
          /\ seq' = seq + 1 + Cardinality(link.waiters)
          /\ line' = [asked |-> {first} \cup rest, answers |-> <<>>]
    /\ call' = [c \in Calls |-> IF c \in link.waiters THEN [call[c] EXCEPT !.st = "sent"] ELSE call[c]]
    /\ UNCHANGED <<processVars, ensures, backendReady, hostVars>>

Unused == {k \in Runs : ensures[k].st = "none"}

\* The dial fails: cored is stood up first, unless that was tried within the second.
DialFails ==
    /\ link.st = "dialing" /\ serving = NoOne
    /\ link' = [link EXCEPT !.st = "down", !.waiters = {}]
    /\ \/ \E k \in Unused :
            /\ \A j \in Unused : k <= j
            /\ ensures' = [ensures EXCEPT ![k].st = "probing", ![k].waiters = link.waiters]
            /\ UNCHANGED call
       \/ /\ Unused # Runs \ {boot}
          /\ Fail(link.waiters) /\ UNCHANGED ensures
    /\ UNCHANGED <<processVars, backendReady, awaiting, seq, line, hostVars>>

Gone(p) == proc[p].st = "gone"

Dead == link.st = "up" /\ Gone(link.to)

\* The close event of the connection.
onClose ==
    /\ Dead
    /\ link' = [link EXCEPT !.st = "down"]
    /\ awaiting' = {}
    /\ Fail({c \in Calls : \E r \in awaiting \ awaiting' : r.of = c})
    /\ line' = Silent
    /\ UNCHANGED <<processVars, ensures, backendReady, seq, hostVars>>

\* External: cored answers what it has been asked, in any order.
Answer(r) ==
    /\ r \in line.asked /\ link.st = "up" /\ ~Dead
    /\ line' = [asked |-> line.asked \ {r}, answers |-> Append(line.answers, r)]
    /\ UNCHANGED <<processVars, ensures, backendReady, link, awaiting, seq, call, hostVars>>

\* A line from cored: it goes to the request with its id, if that still waits.
onData ==
    /\ link.st = "up" /\ line.answers # <<>>
    /\ line' = [line EXCEPT !.answers = Tail(@)]
    /\ LET msg == Head(line.answers)
           entries == {r \in awaiting : r.id = msg.id}
       IN /\ awaiting' = awaiting \ entries
          /\ call' = [c \in Calls |-> IF \E r \in entries : r.of = c
                                      THEN [st |-> "answered", got |-> msg.of] ELSE call[c]]
    /\ UNCHANGED <<processVars, ensures, backendReady, link, seq, hostVars>>

TimesOut(r) ==
    /\ r \in awaiting
    /\ awaiting' = awaiting \ {r}
    /\ Fail({r.of} \cap Calls)
    /\ UNCHANGED <<processVars, ensures, backendReady, link, seq, line, hostVars>>

-----------------------------------------------------------------------------
(* Standing cored up: cored.cjs ensureCored, main.cjs ensureCoredProcess. *)

NoFacts == -1
NoHost  == [st |-> "none", to |-> NoOne, queue |-> <<>>, known |-> NoFacts, at |-> NoFacts]
NewHost == [NoHost EXCEPT !.st = "dialing"]

\* Mutant: whoever waited for a cored that did not come up is not told.
TellsNobody(k) == {}

Rejected(k) == ensures[k].waiters

\* A run ends.  When cored is up another control host is made, and nobody stops the one
\* before; at boot the bridge is made as well, and the calls that waited dial again.
Succeeds(k, how) ==
    /\ ensures' = [ensures EXCEPT ![k].st = how, ![k].waiters = {}]
    /\ hosts' = [hosts EXCEPT ![k] = NewHost] /\ controlHost' = k
    /\ IF k = boot
       THEN backendReady' = "yes" /\ IF Early = {} THEN UNCHANGED <<link, callVars>> ELSE Join(Early)
       ELSE UNCHANGED backendReady /\ Join(ensures[k].waiters)

Fails(k) ==
    /\ ensures' = [ensures EXCEPT ![k].st = "failed", ![k].waiters = {}]
    /\ IF k = boot
       THEN backendReady' = "failed" /\ Fail(Early)
       ELSE UNCHANGED backendReady /\ Fail(Rejected(k))
    /\ UNCHANGED <<link, awaiting, seq, line, hosts, controlHost>>

\* Is somebody serving?  If not a process is started, which may not work.
Probe(k) ==
    /\ ensures[k].st = "probing"
    /\ \/ serving # NoOne /\ Succeeds(k, "adopted") /\ UNCHANGED proc
       \/ serving = NoOne /\ Fails(k) /\ UNCHANGED proc
       \/ \E p \in Procs :
            /\ serving = NoOne /\ proc[p].st = "none" /\ \A q \in 1..(p - 1) : proc[q].st # "none"
            /\ proc' = [proc EXCEPT ![p].st = "starting", ![p].ours = TRUE]
            /\ ensures' = [ensures EXCEPT ![k].st = "waiting", ![k].child = p]
            /\ UNCHANGED <<backendReady, link, callVars, hosts, controlHost>>
    /\ UNCHANGED <<serving, facts>>

Child(k) == proc[ensures[k].child]

\* The line that says it serves.
ReadyLine(k) ==
    /\ ensures[k].st \in {"waiting", "reaping"} /\ Child(k).line
    /\ proc' = [proc EXCEPT ![ensures[k].child].line = FALSE]
    /\ Succeeds(k, "spawned")
    /\ UNCHANGED <<serving, facts>>

\* Too late: the process is told to end, and only then the failure is told.
TooLate(k) ==
    /\ ensures[k].st = "waiting"
    /\ ensures' = [ensures EXCEPT ![k].st = "reaping"]
    /\ proc' = [proc EXCEPT ![ensures[k].child].dying = TRUE]
    /\ UNCHANGED <<serving, backendReady, link, callVars, hostVars>>

ReapedAndFailed(k) ==
    /\ ensures[k].st = "reaping" /\ Child(k).st = "gone"
    /\ Fails(k)
    /\ UNCHANGED <<proc, serving, facts>>

\* The process ended by itself before its line: with 0 when it found another serving.
ChildClosed(k) ==
    /\ ensures[k].st = "waiting" /\ Child(k).st = "gone" /\ ~Child(k).line
    /\ IF Child(k).code = 0
       THEN /\ ensures' = [ensures EXCEPT ![k].st = "reprobing"]
            /\ UNCHANGED <<backendReady, link, callVars, hosts, controlHost>>
       ELSE Fails(k)
    /\ UNCHANGED <<proc, serving, facts>>

\* Asked again, within the time there is.
Reprobe(k) ==
    /\ ensures[k].st = "reprobing"
    /\ \/ serving # NoOne /\ Succeeds(k, "adopted")
       \/ Fails(k)
    /\ UNCHANGED <<proc, serving, facts>>

\* cored looks whether somebody serves, and steps back; else it removes the socket file.
Looks(p) ==
    /\ proc[p].st = "starting"
    /\ \/ serving = NoOne /\ proc' = [proc EXCEPT ![p].st = "binding"]
       \/ serving # NoOne /\ proc' = [proc EXCEPT ![p].st = "gone", ![p].code = 0]
    /\ UNCHANGED <<serving, ensures, backendReady, link, callVars, hostVars>>

\* It binds and says so.  Another that has bound since it looked has lost its file to it,
\* or holds the path, and then this one fails.
Bind(p) ==
    /\ proc[p].st = "binding"
    /\ \/ /\ serving' = p
          /\ proc' = [proc EXCEPT ![p].st = "serving", ![p].line = TRUE]
       \/ /\ serving # NoOne /\ UNCHANGED serving
          /\ proc' = [proc EXCEPT ![p].st = "gone", ![p].code = 2]
    /\ UNCHANGED <<ensures, backendReady, link, callVars, hostVars>>

Alive(p) == proc[p].st \in {"starting", "binding", "serving"}

Dies(p) ==
    /\ Alive(p)
    /\ proc' = [proc EXCEPT ![p].st = "gone", ![p].code = 1]
    /\ serving' = IF serving = p THEN NoOne ELSE serving
    /\ UNCHANGED <<ensures, backendReady, link, callVars, hostVars>>

Killed(p) == proc[p].dying /\ Dies(p)

\* External: another application stands its cored up.
OtherStarts(p) ==
    /\ proc[p].st = "none" /\ \A q \in 1..(p - 1) : proc[q].st # "none"
    /\ proc' = [proc EXCEPT ![p].st = "starting"]
    /\ UNCHANGED <<serving, ensures, backendReady, link, callVars, hostVars>>

-----------------------------------------------------------------------------
(* The control hosts: control.cjs, and cored's register of them. *)

\* The registration says what the windows are now.
HostConnects(k) ==
    /\ hosts[k].st = "dialing" /\ serving # NoOne
    /\ hosts' = [hosts EXCEPT ![k].st = "up", ![k].to = serving, ![k].at = facts,
                              ![k].queue = Append(@, <<"attach", facts>>)]
    /\ UNCHANGED <<processVars, ensures, backendReady, link, callVars, controlHost, facts>>

\* drop: the dial failed or the connection was lost; it is dialled again after a while.
HostDrops(k) ==
    /\ \/ hosts[k].st = "dialing" /\ serving = NoOne
       \/ hosts[k].st = "up" /\ Gone(hosts[k].to)
    /\ hosts' = [hosts EXCEPT ![k] = [NoHost EXCEPT !.st = "down"]]
    /\ UNCHANGED <<processVars, ensures, backendReady, link, callVars, controlHost, facts>>

HostRetries(k) ==
    /\ hosts[k].st = "down"
    /\ hosts' = [hosts EXCEPT ![k].st = "dialing"]
    /\ UNCHANGED <<processVars, ensures, backendReady, link, callVars, controlHost, facts>>

\* attach_host, update_windows: cored has an entry for every connection that registered,
\* and takes an update only of who is registered.
HostHeard(k) ==
    LET h == hosts[k] IN
    /\ h.st = "up" /\ ~Gone(h.to) /\ h.queue # <<>>
    /\ LET msg == Head(h.queue)
           taken == msg[1] = "attach" \/ h.known # NoFacts
       IN hosts' = [hosts EXCEPT ![k].queue = Tail(@),
                                 ![k].known = IF taken THEN msg[2] ELSE @]
    /\ UNCHANGED <<processVars, ensures, backendReady, link, callVars, controlHost, facts>>

\* A window opens, closes or gets the focus; only the last host is told, and the update
\* can be written before its connection stands.
announceWindows ==
    /\ facts < MaxFacts
    /\ facts' = facts + 1
    /\ hosts' = [k \in Runs |->
                   IF k = controlHost /\ hosts[k].st \in {"dialing", "up"}
                   THEN [hosts[k] EXCEPT !.queue = Append(@, <<"windows", facts'>>)]
                   ELSE hosts[k]]
    /\ UNCHANGED <<processVars, ensures, backendReady, link, callVars, controlHost>>

-----------------------------------------------------------------------------
BridgeInit ==
    /\ proc = [p \in Procs |-> [st |-> "none", ours |-> FALSE, line |-> FALSE,
                                dying |-> FALSE, code |-> 0]]
    /\ serving = NoOne
    /\ ensures = [k \in Runs |-> [st |-> IF k = boot THEN "probing" ELSE "none",
                                  child |-> NoOne, waiters |-> {}]]
    /\ backendReady = "no"
    /\ link = [st |-> "down", to |-> NoOne, waiters |-> {}]
    /\ awaiting = {} /\ seq = 0 /\ line = Silent
    /\ call = [c \in Calls |-> [st |-> "new", got |-> c]]
    /\ hosts = [k \in Runs |-> NoHost] /\ controlHost = NoOne /\ facts = 0

EnsureStep(k) ==
    \/ Probe(k) \/ ReadyLine(k) \/ TooLate(k) \/ ReapedAndFailed(k)
    \/ ChildClosed(k) \/ Reprobe(k)

BridgeNext ==
    \/ \E c \in Calls : callBackend(c)
    \/ DialOk \/ DialFails \/ onClose \/ onData
    \/ \E r \in line.asked : Answer(r)
    \/ \E r \in awaiting : TimesOut(r)
    \/ \E k \in Runs : EnsureStep(k)
    \/ \E p \in Procs : Looks(p) \/ Bind(p) \/ Dies(p) \/ Killed(p) \/ OtherStarts(p)
    \/ \E k \in Runs : HostConnects(k) \/ HostDrops(k) \/ HostRetries(k) \/ HostHeard(k)
    \/ announceWindows

\* What the shell does itself, and a process that is killed, goes on: timers fire, dials
\* end, runs go their way.  cored need not answer.
Ours ==
    \/ DialOk \/ DialFails
    \/ \E r \in awaiting : TimesOut(r)
    \/ \E k \in Runs : EnsureStep(k)
    \/ \E p \in Procs : Killed(p)

BridgeFairness == WF_bridgeVars(Ours)

BridgeSpec == BridgeInit /\ [][BridgeNext]_bridgeVars /\ BridgeFairness

-----------------------------------------------------------------------------
BridgeTypeOK ==
    /\ proc \in [Procs -> [st : {"none", "starting", "binding", "serving", "gone"}, ours : BOOLEAN,
                           line : BOOLEAN, dying : BOOLEAN, code : 0..2]]
    /\ serving \in Procs \cup {NoOne}
    /\ ensures \in [Runs -> [st : {"none", "probing", "waiting", "reaping", "reprobing",
                                   "spawned", "adopted", "failed"},
                             child : Procs \cup {NoOne}, waiters : SUBSET Calls]]
    /\ backendReady \in {"no", "yes", "failed"}
    /\ link \in [st : {"down", "dialing", "up"}, to : Procs \cup {NoOne}, waiters : SUBSET Calls]
    /\ seq \in Nat /\ \A r \in awaiting : r.id \in 1..seq
    /\ call \in [Calls -> [st : {"new", "early", "joining", "sent", "answered", "failed"},
                           got : Calls]]
    /\ facts \in 0..MaxFacts /\ controlHost \in Runs \cup {NoOne}
    /\ \A k \in Runs : /\ hosts[k].st \in {"none", "dialing", "down", "up"}
                       /\ {hosts[k].known, hosts[k].at} \subseteq 0..MaxFacts \cup {NoFacts}

\* A call is answered by its own answer, although answers come in any order, late ones
\* after their call was given up, and connections come and go; and no call waits on a
\* connection that is gone (backend.cjs:85-92, 105-112).
CallsAreTrue ==
    /\ BridgeTypeOK
    /\ \A c \in Calls : call[c].st = "answered" => call[c].got = c
    /\ awaiting # {} => link.st = "up"
    /\ \A c \in Calls : call[c].st = "sent" <=> \E r \in awaiting : r.of = c

\* When standing cored up has failed, the process that was started for it is gone, also
\* when it bound the socket or stepped back in the meantime (cored.cjs reapAndFail).
NothingLeftBehind ==
    \A k \in Runs : ensures[k].st = "failed" /\ ensures[k].child # NoOne => ~Alive(ensures[k].child)

\* Once a control host has nothing under way, cored has windows for it that are no older
\* than its connection, and for the host made last the windows as they are, however often
\* either side went away (control.cjs:36-37, 127-134).  A host made before is told no more:
\* its entry keeps the windows of its last connection.
HostKnows ==
    \A k \in Runs :
        (hosts[k].st = "up" /\ ~Gone(hosts[k].to) /\ hosts[k].queue = <<>>) =>
            /\ hosts[k].known >= hosts[k].at
            /\ k = controlHost => hosts[k].known = facts

\* The calls, the processes and the windows' facts together.
BridgeIsSound == CallsAreTrue /\ NothingLeftBehind /\ HostKnows

\* Every call comes back, with an answer or with a named failure.
EveryCallSettles ==
    \A c \in Calls : call[c].st # "new" ~> call[c].st \in {"answered", "failed"}
=============================================================================
