--------------------------- MODULE RuntimeSession ---------------------------
(***************************************************************************)
(* PluginRuntimeSessionValidator (packages/plugin-spec/src/                *)
(* pluginRuntime.ts): what one end of the wire between the host and a      *)
(* plugin's own runtime knows of the session, which messages it accepts,   *)
(* and what an accepted message changes.                                   *)
(*                                                                         *)
(* A message is a record [kind, method, id, arg]; an answer names the      *)
(* method of its request.  Its direction is its sender's name.  Formats,   *)
(* the generation and the principal (both fixed for a session), and the    *)
(* sequence number (a port keeps the order) are left out.                  *)
(***************************************************************************)
EXTENDS Integers, FiniteSets

CONSTANTS HostCommands, EventTopics, ResourceHandles,   \* what the session is granted
          Nodes, SubscriptionIds, StreamIds,            \* names the ends choose
          MaxIds,                  \* bound: request ids an end uses
          MaxPending, MaxSubscriptions, MaxActiveStreams, MaxStreamsPerSession,
          MaxDomOwnedNodes, MaxStreamTotalBytes,
          None, Used               \* no argument, id or name yet; not again

Ends == {"host", "plugin"}
Other(e) == IF e = "host" THEN "plugin" ELSE "host"

Roles == {"controller", "view", "file-viewer", "overlay", "preview"}
AppRoles == Roles \ {"preview"}
VisualRoles == Roles \ {"controller"}

ProviderMethods == {"provider.mount", "provider.update", "provider.unmount"}
DomRequests == {"dom.query", "dom.snapshot", "dom.measure", "dom.input"}
Streaming == {"stream.open", "stream.chunk", "stream.ack", "stream.close"}
PluginCommand == {"plugin-command.result", "plugin-command.progress", "plugin-command.cancel"}

\* REQUEST_POLICY and SIGNAL_POLICY: who sends what, ...
Requests ==
    [host   |-> {"runtime.bootstrap", "context.update", "plugin-command.invoke"}
                    \cup ProviderMethods \cup DomRequests,
     plugin |-> {"command.execute", "event.subscribe", "event.unsubscribe",
                 "resource.open", "resource.release"}]
Signals ==
    [host   |-> {"runtime.teardown", "plugin-command.cancel", "event.deliver"} \cup Streaming,
     plugin |-> {"runtime.teardown", "lifecycle.ready", "plugin-command.result",
                 "plugin-command.progress", "dom.revision", "runtime.fault"} \cup Streaming]

\* ... and in a session of which role.
RolesOf(method) ==
    CASE method \in ProviderMethods \cup (DomRequests \ {"dom.input"}) \cup {"dom.revision"} -> VisualRoles
      [] method = "dom.input" -> VisualRoles \ {"preview"}
      [] method \in PluginCommand \cup {"plugin-command.invoke"} -> {"controller"}
      [] method \in {"runtime.bootstrap", "runtime.teardown", "context.update",
                     "lifecycle.ready", "runtime.fault"} -> Roles
      [] OTHER -> AppRoles

-----------------------------------------------------------------------------
(* What one end knows.  `requests` and `streams` hold the pending requests  *)
(* and open streams together with the ids that were used before.            *)

RequestIds == Ends \X (1..MaxIds)

Free(role) ==
    [role |-> role, bootstrapped |-> FALSE, ready |-> FALSE, provider |-> "idle",
     closed |-> FALSE, context |-> 0, dom |-> 0,
     requests |-> [id \in RequestIds |-> None],
     subscriptions |-> [i \in SubscriptionIds |-> None],
     released |-> {}, nodes |-> {},
     streams |-> [i \in StreamIds |-> None]]

IsPending(s, id) == id \in RequestIds /\ s.requests[id] \notin {None, Used}
Pending(s) == {id \in RequestIds : IsPending(s, id)}
IsOpen(s, i) == s.streams[i] \notin {None, Used}
Subscribed(s) == {i \in SubscriptionIds : s.subscriptions[i] # None}

IsRequest(m, method) == m.kind = "request" /\ m.method = method
IsSignal(m, method)  == m.kind = "signal" /\ m.method = method
IsResult(m, method)  == m.kind = "result" /\ m.method = method
IsAnswer(m) == m.kind \in {"result", "error"}

\* The request a message answers.
RequestOf(s, m) == s.requests[m.id]

-----------------------------------------------------------------------------
(* The formats: what of them the ends can get wrong here. *)

Page(m) == IF m.kind = "result" /\ m.method \in {"dom.query", "dom.snapshot"}
           THEN m.arg.nodes ELSE {}

\* validateContextForRole: a controller has no slot, everybody else has one.
ContextFits(role, context) == context.slot = (role # "controller")

\* validateRequest
RequestFormed(s, m) ==
    /\ m.method \in {"runtime.bootstrap", "context.update"}
           => m.arg.revision > 0 /\ ContextFits(s.role, m.arg)
    /\ m.method \in ProviderMethods => m.arg > 0
    /\ m.method = "dom.query" => Cardinality(m.arg) = 1
    /\ m.method = "dom.measure" => m.arg # {}

\* validateSignal, and the transfer of a chunk
SignalFormed(m) ==
    /\ m.method = "stream.open" => m.arg.total <= MaxStreamTotalBytes /\ m.arg.chunk > 0
    /\ m.method = "stream.chunk" => m.arg.bytes > 0
    /\ m.method = "stream.ack" => m.arg.index > 0
    /\ m.method = "dom.revision" => m.arg.revision > 0

\* validateResult: a plugin's command answers with its own signal
ResultFormed(m) ==
    /\ m.method # "plugin-command.invoke"
    /\ m.method \in DomRequests => m.arg.revision > 0
    /\ m.method = "dom.query" => Cardinality(m.arg.nodes) <= 1

(* parsePluginRuntimeEnvelope *)
WellFormed(s, m) ==
    /\ m.kind = "request" => RequestFormed(s, m)
    /\ m.kind = "signal" => SignalFormed(m)
    /\ m.kind = "result" => ResultFormed(m)

(* authorizePluginRuntimeEnvelope *)
Authorized(s, m, d) ==
    /\ \/ m.kind = "request" /\ m.method \in Requests[d]
       \/ m.kind = "signal" /\ m.method \in Signals[d]
       \/ IsAnswer(m) /\ m.method \in Requests[Other(d)]
    /\ s.role \in RolesOf(m.method)
    /\ IsRequest(m, "command.execute") => m.arg \in HostCommands
    /\ IsRequest(m, "event.subscribe") => m.arg \in EventTopics
    /\ IsSignal(m, "event.deliver") => m.arg.topic \in EventTopics

\* The host's bootstrap comes first, and once; an id is used once.
InOrder(s, m) ==
    /\ s.bootstrapped \/ IsRequest(m, "runtime.bootstrap")
    /\ m.kind = "request" => /\ m.id \in RequestIds /\ s.requests[m.id] = None
                             /\ m.method = "runtime.bootstrap" => ~s.bootstrapped

(* #validateCorrelation: an answer comes from the end that was asked, and   *)
(* a cancellation from the one that asked.                                  *)
Correlated(s, m, d) ==
    /\ m.kind = "request" => Cardinality(Pending(s)) < MaxPending
    /\ IsAnswer(m) => /\ IsPending(s, m.id)
                      /\ RequestOf(s, m).from # d
                      /\ RequestOf(s, m).method = m.method
                      /\ m.method # "plugin-command.invoke"
    /\ m.kind = "signal" /\ m.method \in PluginCommand =>
           /\ IsPending(s, m.id) /\ RequestOf(s, m).method = "plugin-command.invoke"
           /\ (m.method = "plugin-command.cancel") = (RequestOf(s, m).from = d)

-----------------------------------------------------------------------------
(* #validateDomState.  Node names hold for one revision of the document.   *)

DomRevised(m) == IsSignal(m, "dom.revision") \/ (m.kind = "result" /\ m.method \in DomRequests)

Named(m) == IF m.kind # "request" THEN {}
            ELSE CASE m.method = "dom.query" -> m.arg \ {None}
                   [] m.method = "dom.measure" -> m.arg
                   [] m.method = "dom.input" -> {m.arg}
                   [] OTHER -> {}

NodesAfter(s, m) ==
    IF DomRevised(m)
    THEN (IF m.arg.revision > s.dom THEN {} ELSE s.nodes) \cup Page(m)
    ELSE s.nodes

DomAllows(s, m) ==
    /\ Named(m) \subseteq s.nodes
    /\ IsSignal(m, "dom.revision") => m.arg.revision > s.dom
    /\ DomRevised(m) => /\ m.arg.revision >= s.dom
                        /\ Cardinality(NodesAfter(s, m)) <= MaxDomOwnedNodes

(* #validateStream.  One chunk is in flight at a time. *)

StreamAllows(s, m, d) ==
    m.kind = "signal" /\ m.method \in Streaming =>
        LET i == m.arg.stream
            st == s.streams[i]
        IN  IF m.method = "stream.open"
            THEN /\ st = None
                 /\ Cardinality({j \in StreamIds : IsOpen(s, j)}) < MaxActiveStreams
                 /\ Cardinality({j \in StreamIds : s.streams[j] # None}) < MaxStreamsPerSession
            ELSE /\ IsOpen(s, i)
                 /\ (d = st.owner) = (m.method # "stream.ack")
                 /\ st.inFlight = (m.method = "stream.ack")
                 /\ m.method = "stream.chunk" =>
                        /\ m.arg.index = st.next
                        /\ m.arg.bytes <= st.chunk /\ st.sent + m.arg.bytes <= st.total
                 /\ m.method = "stream.ack" => m.arg.index = st.next
                 /\ m.method = "stream.close" => m.arg.total = st.sent /\ st.sent = st.total

StreamsAfter(s, m, d) ==
    LET i == m.arg.stream
        st == s.streams[i]
    IN  IF ~(m.kind = "signal" /\ m.method \in Streaming) THEN s.streams
        ELSE [s.streams EXCEPT ![i] =
            CASE m.method = "stream.open" ->
                   [owner |-> d, total |-> m.arg.total, chunk |-> m.arg.chunk,
                    next |-> 0, sent |-> 0, inFlight |-> FALSE]
              [] m.method = "stream.chunk" ->
                   [st EXCEPT !.sent = st.sent + m.arg.bytes, !.next = st.next + 1, !.inFlight = TRUE]
              [] m.method = "stream.ack" -> [st EXCEPT !.inFlight = FALSE]
              [] m.method = "stream.close" -> Used]

(* #validateState: the context, the provider's life, resources and events. *)
Allows(s, m, d) ==
    /\ IsSignal(m, "lifecycle.ready") => ~s.ready
    /\ IsRequest(m, "context.update") => m.arg.revision > s.context
    /\ m.kind = "request" /\ m.method \in ProviderMethods =>
           /\ m.arg = s.context /\ s.ready
           /\ s.provider = (IF m.method = "provider.mount" THEN "idle" ELSE "mounted")
    /\ DomAllows(s, m)
    /\ m.kind = "request" /\ m.method \in {"resource.open", "resource.release"} =>
           m.arg \in ResourceHandles \ s.released
    /\ IsRequest(m, "event.unsubscribe") => m.arg \in Subscribed(s)
    /\ IsSignal(m, "event.deliver") => s.subscriptions[m.arg.subscription] = m.arg.topic
    /\ IsResult(m, "event.subscribe") => /\ m.arg \notin Subscribed(s)
                                         /\ Cardinality(Subscribed(s)) < MaxSubscriptions
    /\ StreamAllows(s, m, d)

Accepts(s, m, d) ==
    /\ ~s.closed
    /\ WellFormed(s, m) /\ Authorized(s, m, d) /\ InOrder(s, m)
    /\ Correlated(s, m, d) /\ Allows(s, m, d)

-----------------------------------------------------------------------------
(* What an accepted message changes. *)

\* Mutant: the subscription goes when its end is asked for.
SubscriptionsAfterAsking(s, m) ==
    CASE IsResult(m, "event.subscribe") -> [s.subscriptions EXCEPT ![m.arg] = RequestOf(s, m).arg]
      [] IsRequest(m, "event.unsubscribe") -> [s.subscriptions EXCEPT ![m.arg] = None]
      [] OTHER -> s.subscriptions

SubscriptionsAfter(s, m) ==
    CASE IsResult(m, "event.subscribe") -> [s.subscriptions EXCEPT ![m.arg] = RequestOf(s, m).arg]
      [] IsResult(m, "event.unsubscribe") -> [s.subscriptions EXCEPT ![RequestOf(s, m).arg] = None]
      [] OTHER -> s.subscriptions

\* Mutant: a cancelled invocation is settled.
RequestsAfterCancelling(s, m, d) ==
    CASE m.kind = "request" ->
           [s.requests EXCEPT ![m.id] = [from |-> d, method |-> m.method, arg |-> m.arg]]
      [] IsAnswer(m) \/ IsSignal(m, "plugin-command.result") \/ IsSignal(m, "plugin-command.cancel") ->
           [s.requests EXCEPT ![m.id] = Used]
      [] OTHER -> s.requests

(* #commitCorrelation *)
RequestsAfter(s, m, d) ==
    CASE m.kind = "request" ->
           [s.requests EXCEPT ![m.id] = [from |-> d, method |-> m.method, arg |-> m.arg]]
      [] IsAnswer(m) \/ IsSignal(m, "plugin-command.result") ->
           [s.requests EXCEPT ![m.id] = Used]
      [] OTHER -> s.requests

\* Mutant: only the host's teardown ends the session.
ClosesForHost(m, d) == IsSignal(m, "runtime.teardown") /\ d = "host"

\* Teardown from either direction closes the pair.
Closes(m, d) == IsSignal(m, "runtime.teardown")

(* accept *)
After(s, m, d) ==
    [s EXCEPT !.bootstrapped = TRUE,
              !.ready = @ \/ IsSignal(m, "lifecycle.ready"),
              !.provider = CASE IsRequest(m, "provider.mount") -> "mounted"
                             [] IsRequest(m, "provider.unmount") -> "unmounted"
                             [] OTHER -> @,
              !.closed = @ \/ Closes(m, d),
              !.context = IF IsRequest(m, "runtime.bootstrap") \/ IsRequest(m, "context.update")
                          THEN m.arg.revision ELSE @,
              !.dom = IF DomRevised(m) THEN m.arg.revision ELSE @,
              !.nodes = NodesAfter(s, m),
              !.requests = RequestsAfter(s, m, d),
              !.subscriptions = SubscriptionsAfter(s, m),
              !.released = IF IsResult(m, "resource.release") THEN @ \cup {RequestOf(s, m).arg} ELSE @,
              !.streams = StreamsAfter(s, m, d)]
=============================================================================
