----------------------------- MODULE CommandBus -----------------------------
(***************************************************************************)
(* A command's way from the control socket to a window and back.  The      *)
(* bridge of the app's process (ipc.rs) enters a request in its book,      *)
(* emits it to the window and waits for the answer, up to a limit.  The    *)
(* window's page registers its commands, asks to be told of requests, says *)
(* so once it really listens - and is then sent again what is in the book  *)
(* (executor.ts) - and runs each request it has not served yet, once the   *)
(* plugins are up if the command is not registered before.  A page may be  *)
(* reloaded, and a window destroyed, at any moment.                        *)
(*                                                                         *)
(* One window; requests run at once on the page's event loop.              *)
(***************************************************************************)
EXTENDS Integers, Sequences, SequencesExt, FiniteSets

CONSTANTS Requests,  \* requests from the socket, by their seq
          Methods,   \* what each of them may ask for: [Requests -> Kinds]
          MaxPages,  \* bound: pages the window loads
          None

Kinds == {"core", "plugin", "quit", "refused", "missing"}

ASSUME MethodsAssumption == Methods \subseteq [Requests -> Kinds]
ASSUME PagesAssumption == MaxPages \in Nat \ {0}
ASSUME NoneAssumption == None \notin {"DONE", "REFUSED", "UNKNOWN_COMMAND", "WINDOW_DESTROYED"}

VARIABLES method,    \* per request: the kind of command it asks for
          caller,    \* per request: how far its route has come
          answer,    \* per request: what the caller was told
          pending,   \* the bridge's book: sent to the window, not answered
          channel,   \* per request: an outcome its route has not read yet
          resend,    \* requests a "listener ready" has still to emit again
          window,    \* "live", "destroyed"; "quit": the whole app ended
          page,      \* the page the window shows, and what it knows
          replies,   \* cmd_result calls on their way to the bridge
          runs       \* history: per request, the pages that executed it

bridge == <<caller, answer, pending, channel, resend>>
vars == <<method, bridge, window, page, replies, runs>>

CoreKinds == {"core", "quit", "refused"}

Fresh(n) ==
    [number |-> n, phase |-> "loading", hostReady |-> FALSE, registry |-> {},
     inbox |-> <<>>, served |-> {}, gated |-> {}, running |-> {}, quitting |-> FALSE]

Init ==
    /\ method \in Methods
    /\ caller = [r \in Requests |-> "idle"]
    /\ answer = [r \in Requests |-> None]
    /\ pending = {}
    /\ channel = [r \in Requests |-> None]
    /\ resend = {}
    /\ window = "live"
    /\ page = Fresh(1)
    /\ replies = {}
    /\ runs = [r \in Requests |-> <<>>]

Told(r, what) ==
    /\ caller' = [caller EXCEPT ![r] = "told"]
    /\ answer' = [answer EXCEPT ![r] = what]

-----------------------------------------------------------------------------
(* The bridge. *)

\* The page is told only while it has a listener: what comes before is gone.
Listening(p) == p.phase \in {"listening", "announced"}

Emitted(p, r) == IF Listening(p) THEN [p EXCEPT !.inbox = Append(@, r)] ELSE p

\* A request is in the book before it is sent.
Insert(r) ==
    /\ caller[r] = "idle" /\ window = "live"
    /\ caller' = [caller EXCEPT ![r] = "inserted"]
    /\ pending' = pending \cup {r}
    /\ UNCHANGED <<method, answer, channel, resend, window, page, replies, runs>>

NoWindow(r) ==
    /\ caller[r] = "idle" /\ window = "destroyed"
    /\ Told(r, "WINDOW_NOT_FOUND")
    /\ UNCHANGED <<method, pending, channel, resend, window, page, replies, runs>>

Emit(r) ==
    /\ caller[r] = "inserted" /\ window # "quit"
    /\ IF window = "live"
       THEN /\ caller' = [caller EXCEPT ![r] = "waiting"]
            /\ page' = Emitted(page, r)
            /\ UNCHANGED <<answer, pending>>
       ELSE /\ Told(r, "INTERNAL")
            /\ pending' = pending \ {r}
            /\ UNCHANGED page
    /\ UNCHANGED <<method, channel, resend, window, replies, runs>>

\* The route reads what cmd_result or the window's end left for it.
Receive(r) ==
    /\ caller[r] = "waiting" /\ channel[r] # None /\ window # "quit"
    /\ Told(r, channel[r])
    /\ pending' = pending \ {r}
    /\ UNCHANGED <<method, channel, resend, window, page, replies, runs>>

Timeout(r) ==
    /\ caller[r] = "waiting" /\ channel[r] = None /\ window # "quit"
    /\ Told(r, "TIMEOUT")
    /\ pending' = pending \ {r}
    /\ UNCHANGED <<method, channel, resend, window, page, replies, runs>>

\* Emits again, one after the other, what the book held at the announcement.
Resend(r) ==
    /\ r \in resend /\ window # "quit"
    /\ resend' = resend \ {r}
    /\ page' = IF window = "live" THEN Emitted(page, r) ELSE page
    /\ UNCHANGED <<method, caller, answer, pending, channel, window, replies, runs>>

\* cmd_result: whoever is no longer in the book is not told any more.
Settle(r, what) ==
    /\ pending' = pending \ {r}
    /\ channel' = IF r \in pending THEN [channel EXCEPT ![r] = what] ELSE channel

-----------------------------------------------------------------------------
(* The page's executor. *)

Loaded == window = "live"

\* The catalog is registered before the page asks for the requests.
RegisterCatalog ==
    /\ Loaded /\ page.phase = "loading"
    /\ page' = [page EXCEPT !.phase = "asking", !.registry = CoreKinds]
    /\ UNCHANGED <<method, bridge, window, replies, runs>>

\* The framework has entered the listener.
Listen ==
    /\ Loaded /\ page.phase = "asking"
    /\ page' = [page EXCEPT !.phase = "listening"]
    /\ UNCHANGED <<method, bridge, window, replies, runs>>

\* Mutant: says so when listening is asked for, not when it has begun.
AnnounceEarly ==
    /\ Loaded /\ page.phase = "asking"
    /\ page' = [page EXCEPT !.phase = "announced"]
    /\ resend' = resend \cup pending
    /\ UNCHANGED <<method, caller, answer, pending, channel, window, replies, runs>>

\* subscription.ready: cmd_listener_ready takes what is in the book.
Announce ==
    /\ Loaded /\ page.phase = "listening"
    /\ page' = [page EXCEPT !.phase = "announced"]
    /\ resend' = resend \cup pending
    /\ UNCHANGED <<method, caller, answer, pending, channel, window, replies, runs>>

\* Why execute answers without calling the handler; None if it calls it.  REFUSED
\* is INVALID_PARAMS, or PERMISSION_DENIED by the user's policy.
Refusal(p, r) ==
    CASE method[r] \notin p.registry -> "UNKNOWN_COMMAND"
      [] method[r] = "refused" -> "REFUSED"
      [] OTHER -> None

\* execute up to its first await: the handler runs, or the reply is sent.
Execute(p, r) ==
    LET no == Refusal(p, r)
    IN  /\ page' = IF no = None THEN [p EXCEPT !.running = @ \cup {r}] ELSE p
        /\ replies' = IF no = None THEN replies
                      ELSE replies \cup {[request |-> r, page |-> p.number, outcome |-> no]}
        /\ runs' = [runs EXCEPT ![r] = Append(@, p.number)]

\* Mutant: does not note the request as served until it is running.
TakenUnnoted(p, r) ==
    [p EXCEPT !.inbox = Tail(@),
              !.served = IF p.hostReady \/ method[r] \in p.registry THEN @ \cup {r} ELSE @]

\* The first time a request comes it is noted, before anything else.
Taken(p, r) == [p EXCEPT !.inbox = Tail(@), !.served = @ \cup {r}]

Held(p, r) == ~p.hostReady /\ method[r] \notin p.registry

Handle ==
    /\ Loaded /\ page.inbox # <<>>
    /\ LET r == Head(page.inbox)
           p == Taken(page, r)
       IN  IF r \in page.served
           THEN page' = [page EXCEPT !.inbox = Tail(@)] /\ UNCHANGED <<replies, runs>>
           ELSE IF Held(page, r)
                THEN page' = [p EXCEPT !.gated = @ \cup {r}] /\ UNCHANGED <<replies, runs>>
                ELSE Execute(p, r)
    /\ UNCHANGED <<method, bridge, window>>

\* The plugins' activation registers their commands ...
Activate ==
    /\ Loaded /\ page.phase # "loading" /\ "plugin" \notin page.registry
    /\ page' = [page EXCEPT !.registry = @ \cup {"plugin"}]
    /\ UNCHANGED <<method, bridge, window, replies, runs>>

\* ... their deactivation takes them away again.
Deactivate ==
    /\ Loaded /\ "plugin" \in page.registry
    /\ page' = [page EXCEPT !.registry = @ \ {"plugin"}]
    /\ UNCHANGED <<method, bridge, window, replies, runs>>

\* markCommandHostReady: the plugin host is up, or has failed to come up.
HostReady ==
    /\ Loaded /\ page.phase # "loading" /\ ~page.hostReady
    /\ page' = [page EXCEPT !.hostReady = TRUE]
    /\ UNCHANGED <<method, bridge, window, replies, runs>>

Release(r) ==
    /\ Loaded /\ page.hostReady /\ r \in page.gated
    /\ Execute([page EXCEPT !.gated = @ \ {r}], r)
    /\ UNCHANGED <<method, bridge, window>>

\* The handler has come to an end; what it says, a success or an error, is sent
\* back as its outcome.  app.quit's handler says nothing but OK here.
Finish(r) ==
    /\ Loaded /\ r \in page.running
    /\ replies' = replies \cup {[request |-> r, page |-> page.number, outcome |-> "DONE"]}
    /\ page' = [page EXCEPT !.running = @ \ {r}]
    /\ UNCHANGED <<method, bridge, window, runs>>

\* What a page does when its reply has reached the bridge: app.quit's task.
AfterReply(p, m) ==
    IF m.page = p.number /\ method[m.request] = "quit" /\ m.outcome = "DONE"
    THEN [p EXCEPT !.quitting = TRUE] ELSE p

Reply(m) ==
    /\ m \in replies /\ window # "quit"
    /\ replies' = replies \ {m}
    /\ Settle(m.request, m.outcome)
    /\ page' = AfterReply(page, m)
    /\ UNCHANGED <<method, caller, answer, resend, window, runs>>

\* The call fails: the caller was not told, the tasks are not run.
ReplyFails(m) ==
    /\ m \in replies /\ window # "quit"
    /\ replies' = replies \ {m}
    /\ UNCHANGED <<method, bridge, window, page, runs>>

Quit ==
    /\ Loaded /\ page.quitting
    /\ window' = "quit"
    /\ UNCHANGED <<method, bridge, page, replies, runs>>

-----------------------------------------------------------------------------
(* The window. *)

\* The page goes with all it knows; the calls it has made still arrive.
Reload ==
    /\ Loaded /\ page.number < MaxPages
    /\ page' = Fresh(page.number + 1)
    /\ UNCHANGED <<method, bridge, window, replies, runs>>

\* Whoever waits for the window is told at once; what is still on its way to or
\* from the page changes nothing any more.
Destroy ==
    /\ Loaded
    /\ window' = "destroyed"
    /\ page' = Fresh(page.number)
    /\ channel' = [r \in Requests |-> IF r \in pending THEN "WINDOW_DESTROYED" ELSE channel[r]]
    /\ pending' = {} /\ resend' = {} /\ replies' = {}
    /\ UNCHANGED <<method, caller, answer, runs>>

Next ==
    \/ \E r \in Requests : Insert(r) \/ NoWindow(r) \/ Emit(r) \/ Receive(r) \/ Timeout(r)
                             \/ Resend(r) \/ Release(r) \/ Finish(r)
    \/ \E m \in replies : Reply(m) \/ ReplyFails(m)
    \/ RegisterCatalog \/ Listen \/ Announce \/ Handle \/ Activate \/ Deactivate \/ HostReady
    \/ Quit \/ Reload \/ Destroy

Spec == Init /\ [][Next]_vars

(***************************************************************************)
(* A page's boot comes to its end, the bridge emits what it has entered    *)
(* and what it has to send again, the event loop takes what has come and   *)
(* what the gate lets go.  Nothing is assumed of the limit, of a plugin's  *)
(* activation, of a handler's end or of a reply.                           *)
(***************************************************************************)
Fairness ==
    /\ WF_vars(RegisterCatalog) /\ WF_vars(Listen) /\ WF_vars(Announce) /\ WF_vars(HostReady)
    /\ WF_vars(Handle)
    /\ \A r \in Requests : WF_vars(Emit(r)) /\ WF_vars(Resend(r)) /\ WF_vars(Release(r))

FairSpec == Spec /\ Fairness

-----------------------------------------------------------------------------
TypeOK ==
    /\ caller \in [Requests -> {"idle", "inserted", "waiting", "told"}]
    /\ pending \subseteq Requests /\ resend \subseteq Requests
    /\ window \in {"live", "destroyed", "quit"}
    /\ page.number \in 1..MaxPages /\ page.inbox \in Seq(Requests)
    /\ page.served \cup page.gated \cup page.running \subseteq Requests
    /\ \A r \in Requests : runs[r] \in Seq(1..MaxPages)

\* A page executes a request once, however often and along whatever path it comes.
OncePerPage == \A r \in Requests : IsInjective(runs[r])

\* A request without an answer whose page has announced itself has come to the
\* page, or is on its way to it: no request falls between emit and listener.
NothingIsLost ==
    page.phase = "announced" =>
        \A r \in pending : caller[r] = "waiting" =>
            r \in resend \cup page.served \cup ToSet(page.inbox)

\* Who is told an outcome was served, and a page says that a command is not there
\* only when its plugins are up: a plugin's command is not missed for being early.
AnswersAreTrue ==
    /\ \A r \in Requests :
          /\ answer[r] \in {"DONE", "REFUSED"} => runs[r] # <<>>
          /\ answer[r] = "UNKNOWN_COMMAND" => method[r] \in {"plugin", "missing"}
    /\ \A m \in replies :
          m.outcome = "UNKNOWN_COMMAND" /\ m.page = page.number => page.hostReady

\* The app ends at a request's command only when the answer has gone out before.
QuitIsAnswered ==
    window = "quit" => \E r \in Requests : method[r] = "quit" /\ runs[r] # <<>> /\ r \notin pending

BusIsSound == TypeOK /\ OncePerPage /\ NothingIsLost /\ AnswersAreTrue /\ QuitIsAnswered

\* A request the bridge has sent is answered, or executed by the page that is
\* there, without waiting for the limit: after a reload it is executed again.
RequestsAreServed ==
    \A r \in Requests :
        caller[r] = "waiting" ~>
            \/ caller[r] = "told" \/ channel[r] # None \/ window # "live"
            \/ page.number \in ToSet(runs[r])
=============================================================================
