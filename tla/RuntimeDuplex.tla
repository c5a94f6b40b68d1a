---------------------------- MODULE RuntimeDuplex ----------------------------
(***************************************************************************)
(* The host and a plugin's runtime at the two ends of a message port, each *)
(* with a validator of its own (RuntimeSession): an end sends only what    *)
(* its validator accepts, and what the other's refuses is dropped there -  *)
(* the wire has no message that says so.  The port keeps the order of each *)
(* direction; the two directions cross.                                    *)
(***************************************************************************)
EXTENDS RuntimeSession, Sequences

CONSTANTS Traffics,    \* what a session is used for: [role, methods, ids]
          MaxRevision, \* bound: revisions of the context and of the document
          MaxChunks,   \* bound: chunks of a stream, and the length of each in bytes
          MaxInFlight  \* bound: messages on their way in one direction

\* An end names its streams after itself.
ASSUME StreamNames == \A i \in StreamIds : i[1] \in Ends

ASSUME WireBounds == MaxIds \in Nat /\ MaxPending \in Nat /\ MaxRevision \in Nat /\ MaxChunks \in Nat

VARIABLES session,     \* per end: what its validator knows
          wire,        \* per sender: messages on their way, [msg, crossed]
          refused,     \* history: messages that were dropped, [msg, crossed, full]
          traffic      \* what this session is used for

vars == <<session, wire, refused, traffic>>

Basic == {"runtime.bootstrap", "runtime.teardown", "lifecycle.ready"}

Init ==
    /\ traffic \in Traffics
    /\ session = [e \in Ends |-> Free(traffic.role)]
    /\ wire = [e \in Ends |-> <<>>]
    /\ refused = {}

-----------------------------------------------------------------------------
(* The messages an end may think of. *)

Revisions == 0..MaxRevision
Sizes == 0..MaxChunks

RequestArgs(method) ==
    CASE method \in {"runtime.bootstrap", "context.update"} ->
           [revision : Revisions, slot : BOOLEAN]
      [] method \in ProviderMethods -> Revisions
      [] method = "command.execute" -> HostCommands
      [] method = "event.subscribe" -> EventTopics
      [] method = "event.unsubscribe" -> SubscriptionIds
      [] method \in {"resource.open", "resource.release"} -> ResourceHandles
      [] method = "dom.query" -> SUBSET (Nodes \cup {None})
      [] method = "dom.measure" -> SUBSET Nodes
      [] method = "dom.input" -> Nodes
      [] OTHER -> {None}

SignalArgs(e, method) ==
    CASE method = "event.deliver" -> [subscription : SubscriptionIds, topic : EventTopics]
      [] method = "dom.revision" -> [revision : Revisions]
      [] method = "stream.open" -> [stream : {i \in StreamIds : i[1] = e}, total : Sizes, chunk : Sizes]
      [] method = "stream.chunk" -> [stream : StreamIds, index : Sizes, bytes : Sizes]
      [] method = "stream.ack" -> [stream : StreamIds, index : Sizes]
      [] method = "stream.close" -> [stream : StreamIds, total : Sizes]
      [] OTHER -> {None}

ResultArgs(method) ==
    CASE method = "event.subscribe" -> SubscriptionIds
      [] method \in {"dom.query", "dom.snapshot"} -> [revision : Revisions, nodes : SUBSET Nodes]
      [] method \in {"dom.measure", "dom.input"} -> [revision : Revisions]
      [] OTHER -> {None}

methods == Basic \cup traffic.methods

Messages(kind, ms, id, Args(_)) ==
    UNION {{[kind |-> kind, method |-> r, id |-> id, arg |-> a] : a \in Args(r)} : r \in ms}

\* What the tables of an end hold.
Asking == Requests["host"] \cup Requests["plugin"]
PendingRequest == {r \in [from : Ends, method : Asking, arg : UNION {RequestArgs(q) : q \in Asking}] :
                     r.arg \in RequestArgs(r.method)}
OpenStream == [owner : Ends, total : Nat, chunk : Nat, next : Nat, sent : Nat, inFlight : BOOLEAN]

ASSUME NamesApart == /\ None # Used
                     /\ None \notin PendingRequest /\ Used \notin PendingRequest
                     /\ None \notin OpenStream /\ Used \notin OpenStream

\* An end numbers its requests.
NextId(e) == {id \in RequestIds : id[1] = e /\ id[2] <= traffic.ids[e] /\ session[e].requests[id] = None
                           /\ \A k \in 1..(id[2] - 1) : session[e].requests[<<e, k>>] # None}

Open(e) == {id \in Pending(session[e]) : id[1] = e}
Owed(e) == {id \in Pending(session[e]) : id[1] # e}

Sendable(e) ==
    LET asked(id) == session[e].requests[id].method
        sigArgs(r) == SignalArgs(e, r)
    IN  (UNION {Messages("request", Requests[e] \cap methods, id, RequestArgs) : id \in NextId(e)})
        \cup Messages("signal", (Signals[e] \ PluginCommand) \cap methods, None, sigArgs)
        \cup (UNION {Messages("signal", Signals[e] \cap PluginCommand \cap methods, id, sigArgs)
                       : id \in Pending(session[e])})
        \cup (UNION {Messages("result", {asked(id)}, id, ResultArgs) : id \in Pending(session[e])})
        \cup {[kind |-> "error", method |-> asked(id), id |-> id, arg |-> None]
                : id \in Pending(session[e])}

-----------------------------------------------------------------------------
Send(e) ==
    /\ Len(wire[e]) < MaxInFlight
    /\ \E m \in Sendable(e) :
         /\ Accepts(session[e], m, e)
         /\ session' = [session EXCEPT ![e] = After(@, m, e)]
         /\ LET coming == wire[Other(e)]
            IN  wire' = [x \in Ends |->
                           IF x = e THEN Append(wire[e], [msg |-> m, crossed |-> coming # <<>>])
                           ELSE [k \in DOMAIN coming |-> [coming[k] EXCEPT !.crossed = TRUE]]]
    /\ UNCHANGED <<refused, traffic>>

\* A refusal because of too many pending requests.
Full(e, m) == m.kind = "request" /\ Cardinality(Pending(session[e])) >= MaxPending

Receive(e) ==
    LET from == Other(e)
        head == Head(wire[from])
    IN  /\ wire[from] # <<>>
        /\ wire' = [wire EXCEPT ![from] = Tail(@)]
        /\ \/ /\ Accepts(session[e], head.msg, from)
              /\ session' = [session EXCEPT ![e] = After(@, head.msg, from)]
              /\ UNCHANGED refused
           \/ /\ ~Accepts(session[e], head.msg, from)
              /\ refused' = IF session[e].closed THEN refused
                            ELSE refused \cup {[msg |-> head.msg, crossed |-> head.crossed,
                                                full |-> Full(e, head.msg)]}
              /\ UNCHANGED session
        /\ UNCHANGED traffic

Next == \E e \in Ends : Send(e) \/ Receive(e)

Spec == Init /\ [][Next]_vars

(* A message that was posted arrives; nobody has to send one. *)
FairSpec == Spec /\ \A e \in Ends : WF_vars(Receive(e))

-----------------------------------------------------------------------------
(* Properties. *)

Flying(e) == {wire[e][k].msg : k \in DOMAIN wire[e]}
BothOpen == \A e \in Ends : ~session[e].closed

\* Requests and cancellations that may cross what makes them pointless.
Racing == {"dom.query", "dom.measure", "dom.input", "event.unsubscribe",
           "resource.open", "resource.release", "plugin-command.cancel"}

\* A full table drops a request without a word.  Most requests then only go unanswered;
\* these the other end has already counted on.
Vital == ProviderMethods \cup {"runtime.bootstrap", "context.update", "plugin-command.invoke"}
NoneTooMany == \A r \in refused : r.full => r.msg.method \notin Vital

\* What one end's validator lets out the other's lets in, although it decides on an
\* older state of the session: answers, events, stream chunks, context and provider
\* steps are never dropped.  Dropped is only a request or cancellation that crossed
\* the message that voided it, or one request too many.
RefusalsAreRaces ==
    NoneTooMany => \A r \in refused : r.full \/ (r.crossed /\ r.msg.method \in Racing /\ ~IsAnswer(r.msg))

\* No request is lost sight of: what an end waits for is on its way, pending at the
\* other end, answered on the way back, or was dropped; and nothing is pending at the
\* other end that its sender does not wait for.
PendingIsAccounted ==
    BothOpen => \A e \in Ends :
      /\ \A id \in Open(e) :
           \/ \E m \in Flying(e) : m.kind = "request" /\ m.id = id
           \/ id \in Owed(Other(e))
           \/ \E m \in Flying(Other(e)) : m.id = id
           \/ \E r \in refused : r.msg.kind = "request" /\ r.msg.id = id
      /\ Owed(Other(e)) \subseteq Open(e)

\* When nothing is on its way the ends agree on the session: grants in use, provider,
\* document, resources and streams.
QuietEndsAgree ==
    LET view(e) == [session[e] EXCEPT !.requests = <<>>]
    IN  BothOpen /\ (\A e \in Ends : wire[e] = <<>>) => view("host") = view("plugin")

\* Both ends of the wire tell the same story of the session, at rest and in between
\* (#commitCorrelation, #validateState).
EndsAgree == NoneTooMany => PendingIsAccounted /\ QuietEndsAgree

\* A teardown that is sent or accepted closes both ends.
TornDown == \E e \in Ends : session[e].closed
                            \/ \E m \in Flying(e) : IsSignal(m, "runtime.teardown")
ClosesBoth == TornDown ~> \A e \in Ends : session[e].closed
=============================================================================
