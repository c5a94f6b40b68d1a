------------------------------ MODULE Wire_proofs ------------------------------
(***************************************************************************)
(* Theorems about the wire between the host and a plugin's runtime          *)
(* (RuntimeDuplex), for any traffic, grants, names and limits.               *)
(*                                                                           *)
(* Each end decides on an older state of the other.  WireInv says how old:   *)
(* every field of a session is changed by the messages of one end alone, its *)
(* part, and what the other end knows of that part is the part as it was      *)
(* before the messages that are on their way; each of these fits what those   *)
(* before it leave (Follows).  Requests, answers and cancellations are        *)
(* followed through both tables, a stream's chunk until it is acknowledged.   *)
(* From all this the oldest message on its way is let in (HeadIsTaken).       *)
(***************************************************************************)
EXTENDS RuntimeDuplex, FiniteSetTheorems, TLAPS

\* One end opens the streams.  If both do, two openings can cross at the limit and each
\* is dropped at the other end.
OneOpener == \A i, j \in StreamIds : i[1] = j[1]

Signalling == Signals["host"] \cup Signals["plugin"]

ArgsFrom(e) == (UNION {RequestArgs(r) : r \in Asking}) \cup (UNION {SignalArgs(e, r) : r \in Signals[e]})
               \cup (UNION {ResultArgs(r) : r \in Asking}) \cup {None}

Letters(e) ==
  {m \in [kind : {"request", "signal", "result", "error"}, method : Asking \cup Signalling,
          id : RequestIds \cup {None}, arg : ArgsFrom(e)] :
     /\ m.kind = "request" => /\ m.method \in Requests[e] /\ m.id \in RequestIds /\ m.id[1] = e
                              /\ m.arg \in RequestArgs(m.method)
     /\ m.kind = "signal" => /\ m.method \in Signals[e] /\ m.arg \in SignalArgs(e, m.method)
                             /\ m.method \in PluginCommand => m.id \in RequestIds
     /\ m.kind = "result" => m.id \in RequestIds /\ m.arg \in ResultArgs(m.method)
     /\ m.kind = "error" => m.id \in RequestIds}

SessionType ==
  [role : {t.role : t \in Traffics}, bootstrapped : BOOLEAN, ready : BOOLEAN,
   provider : {"idle", "mounted", "unmounted"}, closed : BOOLEAN,
   context : Revisions, dom : Revisions,
   requests : [RequestIds -> PendingRequest \cup {None, Used}],
   subscriptions : [SubscriptionIds -> EventTopics \cup {None}],
   released : SUBSET ResourceHandles, nodes : SUBSET Nodes,
   streams : [StreamIds -> OpenStream \cup {None, Used}]]

Entries(e) == [msg : Letters(e), crossed : BOOLEAN]

WireTypeOK ==
  /\ session \in [Ends -> SessionType]
  /\ wire \in [Ends -> Seq(Entries("host") \cup Entries("plugin"))]
  /\ \A e \in Ends : wire[e] \in Seq(Entries(e))

\* What of a session only the messages of one end change: its part.  A stream's chunk in
\* flight is not in its owner's part, as the other end's answer to it ends the flight.
Own(e) == {i \in StreamIds : i[1] = e}
Plain(st) == IF st \in {None, Used} THEN st ELSE [st EXCEPT !.inFlight = FALSE]
OwnStreams(s, e) == [i \in Own(e) |-> Plain(s.streams[i])]

Mine(s, e) ==
  IF e = "host"
  THEN [bootstrapped |-> s.bootstrapped, context |-> s.context, provider |-> s.provider,
        subscriptions |-> s.subscriptions, released |-> s.released, streams |-> OwnStreams(s, e)]
  ELSE [ready |-> s.ready, dom |-> s.dom, nodes |-> s.nodes, streams |-> OwnStreams(s, e)]

\* A stream with one chunk more on its way.
Sent(st, bytes) ==
  [owner |-> st.owner, total |-> st.total, chunk |-> st.chunk,
   next |-> st.next + 1, sent |-> st.sent + bytes, inFlight |-> TRUE]

\* What an end's message asks of its own part, ...
HostOk(v, m) ==
  /\ v.bootstrapped \/ IsRequest(m, "runtime.bootstrap")
  /\ IsRequest(m, "runtime.bootstrap") => ~v.bootstrapped
  /\ IsRequest(m, "context.update") => m.arg.revision > v.context
  /\ m.kind = "request" /\ m.method \in ProviderMethods =>
       /\ m.arg = v.context
       /\ v.provider = (IF m.method = "provider.mount" THEN "idle" ELSE "mounted")
  /\ IsSignal(m, "event.deliver") => v.subscriptions[m.arg.subscription] = m.arg.topic
  /\ IsResult(m, "event.subscribe") => /\ m.arg \notin Subscribed(v)
                                       /\ Cardinality(Subscribed(v)) < MaxSubscriptions

PluginOk(v, m) ==
  /\ IsSignal(m, "lifecycle.ready") => ~v.ready
  /\ IsSignal(m, "dom.revision") => m.arg.revision > v.dom
  /\ DomRevised(m) => /\ m.arg.revision >= v.dom
                      /\ Cardinality(NodesAfter(v, m)) <= MaxDomOwnedNodes

OwnerSignal(m) == m.kind = "signal" /\ m.method \in Streaming \ {"stream.ack"}

StreamOk(v, m, e) ==
  OwnerSignal(m) =>
    LET i == m.arg.stream
        st == v[i]
    IN  /\ i \in DOMAIN v
        /\ IF m.method = "stream.open"
           THEN /\ st = None
                /\ Cardinality({j \in DOMAIN v : v[j] \notin {None, Used}}) < MaxActiveStreams
                /\ Cardinality({j \in DOMAIN v : v[j] # None}) < MaxStreamsPerSession
           ELSE /\ st \notin {None, Used} /\ st.owner = e
                /\ m.method = "stream.chunk" =>
                       /\ m.arg.index = st.next
                       /\ m.arg.bytes <= st.chunk /\ st.sent + m.arg.bytes <= st.total
                /\ m.method = "stream.close" => m.arg.total = st.sent /\ st.sent = st.total

MineOk(v, m, e) == /\ IF e = "host" THEN HostOk(v, m) ELSE PluginOk(v, m)
                   /\ StreamOk(v.streams, m, e)

\* ... and what it makes of it; a is the request that m answers.
OwnStreamsAfter(v, m, e) ==
  IF ~OwnerSignal(m) THEN v
  ELSE [v EXCEPT ![m.arg.stream] =
          CASE m.method = "stream.open" ->
                 [owner |-> e, total |-> m.arg.total, chunk |-> m.arg.chunk,
                  next |-> 0, sent |-> 0, inFlight |-> FALSE]
            [] m.method = "stream.chunk" -> Plain(Sent(v[m.arg.stream], m.arg.bytes))
            [] m.method = "stream.close" -> Used]

MineAfter(v, m, e, a) ==
  IF e = "host"
  THEN [bootstrapped |-> TRUE,
        context |-> IF IsRequest(m, "runtime.bootstrap") \/ IsRequest(m, "context.update")
                    THEN m.arg.revision ELSE v.context,
        provider |-> CASE IsRequest(m, "provider.mount") -> "mounted"
                       [] IsRequest(m, "provider.unmount") -> "unmounted"
                       [] OTHER -> v.provider,
        subscriptions |-> CASE IsResult(m, "event.subscribe") -> [v.subscriptions EXCEPT ![m.arg] = a.arg]
                            [] IsResult(m, "event.unsubscribe") -> [v.subscriptions EXCEPT ![a.arg] = None]
                            [] OTHER -> v.subscriptions,
        released |-> IF IsResult(m, "resource.release") THEN v.released \cup {a.arg} ELSE v.released,
        streams |-> OwnStreamsAfter(v.streams, m, e)]
  ELSE [ready |-> v.ready \/ IsSignal(m, "lifecycle.ready"),
        dom |-> IF DomRevised(m) THEN m.arg.revision ELSE v.dom,
        nodes |-> NodesAfter(v, m),
        streams |-> OwnStreamsAfter(v.streams, m, e)]

-----------------------------------------------------------------------------
(* The invariant.  Post(e) are the messages of e on their way, oldest first. *)

Post(e) == 1..Len(wire[e])
Msg(e, k) == wire[e][k].msg
Req(m, e) == [from |-> e, method |-> m.method, arg |-> m.arg]
Settles(m) == IsAnswer(m) \/ IsSignal(m, "plugin-command.result")
News(m) == Settles(m) \/ IsSignal(m, "plugin-command.progress")
Of(m) == IF IsAnswer(m) THEN m.method ELSE "plugin-command.invoke"
AsksFor(m, id) == m.kind = "request" /\ m.id = id
About(m, method, i) == IsSignal(m, method) /\ m.arg.stream = i

RolesAgree ==
  /\ session["host"].role = session["plugin"].role
  /\ \A e \in Ends : \A k \in Post(e) :
       WellFormed(session[e], Msg(e, k)) /\ Authorized(session[e], Msg(e, k), e)

\* A request stands in its asker's table and, once it came, in the other's.
TablesAgree(e) == \A id \in RequestIds : id[1] = e =>
  /\ IsPending(session[e], id) => session[e].requests[id].from = e
  /\ IsPending(session[Other(e)], id) => session[e].requests[id] = session[Other(e)].requests[id]
  /\ session[Other(e)].requests[id] # None => session[e].requests[id] # None

RequestsFly(e) == \A k \in Post(e) : Msg(e, k).kind = "request" =>
  /\ session[e].requests[Msg(e, k).id] = Req(Msg(e, k), e)
  /\ session[Other(e)].requests[Msg(e, k).id] = None
  /\ \A j \in Post(e) : AsksFor(Msg(e, j), Msg(e, k).id) => j = k

\* Answers and progress, on their way to an end that waits for them.
NewsFly(e) == \A k \in Post(e) : News(Msg(e, k)) =>
  /\ Msg(e, k).id \in RequestIds /\ Msg(e, k).id[1] = Other(e)
  /\ IsPending(session[Other(e)], Msg(e, k).id)
  /\ session[Other(e)].requests[Msg(e, k).id].method = Of(Msg(e, k))
  /\ IsAnswer(Msg(e, k)) => Msg(e, k).method # "plugin-command.invoke"
  /\ Settles(Msg(e, k)) => session[e].requests[Msg(e, k).id] = Used
  /\ \A j \in Post(e) : Settles(Msg(e, j)) /\ Msg(e, j).id = Msg(e, k).id => k <= j

Cancels(m) == IsSignal(m, "plugin-command.cancel")
CancelsFly(e) == \A k \in Post(e) : Cancels(Msg(e, k)) =>
  /\ Msg(e, k).id[1] = e /\ session[e].requests[Msg(e, k).id] # None
  /\ \A j \in Post(e) : AsksFor(Msg(e, j), Msg(e, k).id) => j < k
  /\ ~wire[e][k].crossed /\ ~session[Other(e)].closed =>
       /\ IsPending(session[e], Msg(e, k).id)
       /\ session[e].requests[Msg(e, k).id].method = "plugin-command.invoke"
       /\ \/ IsPending(session[Other(e)], Msg(e, k).id)
          \/ \E j \in Post(e) : AsksFor(Msg(e, j), Msg(e, k).id)

\* A message that nothing came against finds what it needs.
Finds(s, m) ==
  /\ Named(m) \subseteq s.nodes
  /\ m.kind = "request" /\ m.method \in {"resource.open", "resource.release"} =>
         m.arg \in ResourceHandles \ s.released
  /\ IsRequest(m, "event.unsubscribe") => m.arg \in Subscribed(s)
UncrossedFind(e) == \A k \in Post(e) : ~wire[e][k].crossed =>
  wire[Other(e)] = <<>> /\ Finds(session[Other(e)], Msg(e, k))

Booted ==
  /\ session["plugin"].bootstrapped => session["host"].bootstrapped
  /\ session["host"].ready => session["plugin"].ready
  /\ \A e \in Ends : wire[e] # <<>> => session[e].bootstrapped
  /\ \A k \in Post("plugin") : IsSignal(Msg("plugin", k), "lifecycle.ready") => session["plugin"].ready
  /\ \A k \in Post("host") : Msg("host", k).kind = "request" /\ Msg("host", k).method \in ProviderMethods
                               => session["plugin"].ready

\* The messages of e that are on their way take its part from what the other end knows
\* of it to what it is.
Leads(h, e) ==
  /\ h[0] = Mine(session[Other(e)], e) /\ h[Len(wire[e])] = Mine(session[e], e)
  /\ \A k \in Post(e) :
       /\ MineOk(h[k - 1], Msg(e, k), e)
       /\ h[k] = MineAfter(h[k - 1], Msg(e, k), e, session[Other(e)].requests[Msg(e, k).id])
Follows(e) == ~session[Other(e)].closed => \E h : Leads(h, e)

\* One chunk of a stream at a time is on its way, held at the other end, or its
\* acknowledgement is on its way back.
Held(i) == IsOpen(session[Other(i[1])], i) /\ session[Other(i[1])].streams[i].inFlight
Awaits(i, n) == /\ IsOpen(session[i[1]], i) /\ session[i[1]].streams[i].inFlight
                /\ session[i[1]].streams[i].next = n
ChunkAt(i, k) == k \in Post(i[1]) /\ About(Msg(i[1], k), "stream.chunk", i)
AckAt(i, k) == k \in Post(Other(i[1])) /\ About(Msg(Other(i[1]), k), "stream.ack", i)

OneChunk(i) ==
  /\ \A e \in Ends : IsOpen(session[e], i) => session[e].streams[i].owner = i[1]
  /\ Held(i) => /\ Awaits(i, session[Other(i[1])].streams[i].next)
                /\ \A k : ~ChunkAt(i, k) /\ ~AckAt(i, k)
  /\ \A k : ChunkAt(i, k) => /\ Awaits(i, Msg(i[1], k).arg.index + 1)
                             /\ \A j : ~AckAt(i, j) /\ (ChunkAt(i, j) => j = k)
  /\ \A k : AckAt(i, k) => /\ Awaits(i, Msg(Other(i[1]), k).arg.index)
                           /\ \A j : AckAt(i, j) => j = k
  /\ BothOpen /\ (\E n : Awaits(i, n)) => Held(i) \/ \E k : ChunkAt(i, k) \/ AckAt(i, k)

\* An acknowledgement comes from the other end, and a stream that was closed stays closed.
StreamsFly(i) == \A e \in Ends : \A k \in Post(e) :
  /\ About(Msg(e, k), "stream.ack", i) => i[1] # e
  /\ About(Msg(e, k), "stream.close", i) => session[e].streams[i] = Used

Accounted(e) == BothOpen => \A id \in RequestIds : id[1] = e /\ IsPending(session[e], id) =>
  \/ \E k \in Post(e) : AsksFor(Msg(e, k), id)
  \/ IsPending(session[Other(e)], id)
  \/ \E k \in Post(Other(e)) : Settles(Msg(Other(e), k)) /\ Msg(Other(e), k).id = id
  \/ \E r \in refused : AsksFor(r.msg, id) /\ r.msg.method = session[e].requests[id].method

Races == \A r \in refused : r.full \/ (r.crossed /\ r.msg.method \in Racing /\ ~IsAnswer(r.msg))

\* What the ends know of each other, message for message.
Told(e) == /\ TablesAgree(e) /\ RequestsFly(e) /\ NewsFly(e) /\ CancelsFly(e)
           /\ UncrossedFind(e) /\ Follows(e) /\ Accounted(e)
WireInv == /\ WireTypeOK /\ RolesAgree /\ Booted /\ Races
           /\ \A e \in Ends : Told(e)
           /\ \A i \in StreamIds : OneChunk(i) /\ StreamsFly(i)

-----------------------------------------------------------------------------
(* The messages and what they change. *)

LEMMA TwoEnds ==
  /\ Ends = {"host", "plugin"} /\ "host" # "plugin"
  /\ Other("host") = "plugin" /\ Other("plugin") = "host"
  /\ \A e \in Ends : Other(e) \in Ends /\ Other(Other(e)) = e /\ Other(e) # e
  /\ \A e, x \in Ends : x # e <=> x = Other(e)
BY DEF Ends, Other

LEMMA PluginSends ==
  ASSUME NEW s, NEW m, Authorized(s, m, "plugin")
  PROVE  /\ ~IsRequest(m, "runtime.bootstrap") /\ ~IsRequest(m, "context.update")
         /\ ~IsRequest(m, "plugin-command.invoke")
         /\ ~(m.kind = "request" /\ m.method \in ProviderMethods)
         /\ ~IsRequest(m, "provider.mount") /\ ~IsRequest(m, "provider.unmount")
         /\ ~IsResult(m, "event.subscribe") /\ ~IsResult(m, "event.unsubscribe")
         /\ ~IsResult(m, "resource.release")
         /\ ~IsSignal(m, "event.deliver") /\ ~Cancels(m) /\ Named(m) = {}
BY DEF Authorized, Requests, Signals, IsRequest, IsResult, IsSignal, Other, IsAnswer, ProviderMethods,
       DomRequests, Streaming, Cancels, Named

LEMMA HostSends ==
  ASSUME NEW s, NEW m, Authorized(s, m, "host")
  PROVE  /\ ~IsSignal(m, "lifecycle.ready") /\ ~DomRevised(m)
         /\ ~IsSignal(m, "plugin-command.result") /\ ~IsSignal(m, "plugin-command.progress")
         /\ ~(m.kind = "request" /\ m.method \in {"resource.open", "resource.release"})
         /\ ~IsRequest(m, "event.unsubscribe")
BY DEF Authorized, Requests, Signals, IsRequest, IsSignal, Other, IsAnswer, ProviderMethods,
       DomRequests, Streaming, DomRevised

LEMMA ArgsOf ==
  /\ RequestArgs("event.subscribe") = EventTopics /\ RequestArgs("resource.release") = ResourceHandles
  /\ RequestArgs("runtime.bootstrap") = [revision : Revisions, slot : BOOLEAN]
  /\ RequestArgs("context.update") = [revision : Revisions, slot : BOOLEAN]
  /\ ResultArgs("event.subscribe") = SubscriptionIds
  /\ \A e : /\ SignalArgs(e, "dom.revision") = [revision : Revisions]
            /\ SignalArgs(e, "stream.open") = [stream : Own(e), total : Sizes, chunk : Sizes]
            /\ SignalArgs(e, "stream.chunk") = [stream : StreamIds, index : Sizes, bytes : Sizes]
            /\ SignalArgs(e, "stream.ack") = [stream : StreamIds, index : Sizes]
            /\ SignalArgs(e, "stream.close") = [stream : StreamIds, total : Sizes]
BY DEF RequestArgs, ResultArgs, SignalArgs, ProviderMethods, Own

LEMMA DomArgs ==
  ASSUME NEW m, m.kind = "result", m.method \in DomRequests, m.arg \in ResultArgs(m.method)
  PROVE  m.arg.revision \in Revisions /\ Page(m) \subseteq Nodes
BY DEF DomRequests, ResultArgs, Page

LEMMA AfterIs ==
  ASSUME NEW s \in SessionType, NEW m, NEW d
  PROVE  /\ After(s, m, d).role = s.role /\ After(s, m, d).bootstrapped = TRUE
         /\ After(s, m, d).nodes = NodesAfter(s, m)
         /\ After(s, m, d).requests = RequestsAfter(s, m, d)
         /\ After(s, m, d).subscriptions = SubscriptionsAfter(s, m)
         /\ After(s, m, d).streams = StreamsAfter(s, m, d)
BY DEF After, SessionType

LEMMA AfterSteps ==
  ASSUME NEW s \in SessionType, NEW m, NEW d
  PROVE  /\ After(s, m, d).context = IF IsRequest(m, "runtime.bootstrap") \/ IsRequest(m, "context.update")
                                     THEN m.arg.revision ELSE s.context
         /\ After(s, m, d).dom = IF DomRevised(m) THEN m.arg.revision ELSE s.dom
         /\ After(s, m, d).released = IF IsResult(m, "resource.release")
                                      THEN s.released \cup {RequestOf(s, m).arg} ELSE s.released
BY DEF After, SessionType

LEMMA AfterProvider ==
  ASSUME NEW s \in SessionType, NEW m, NEW d
  PROVE  After(s, m, d).provider = IF IsRequest(m, "provider.mount") THEN "mounted"
                                   ELSE IF IsRequest(m, "provider.unmount") THEN "unmounted"
                                   ELSE s.provider
BY DEF After, SessionType, IsRequest

LEMMA AfterFlags ==
  ASSUME NEW s \in SessionType, NEW m, NEW d
  PROVE  /\ After(s, m, d).ready \in BOOLEAN /\ After(s, m, d).closed \in BOOLEAN
         /\ After(s, m, d).ready <=> s.ready \/ IsSignal(m, "lifecycle.ready")
         /\ After(s, m, d).closed <=> s.closed \/ Closes(m, d)
<1>1. s.ready \in BOOLEAN /\ s.closed \in BOOLEAN
  BY DEF SessionType
<1>2. (s.ready \/ IsSignal(m, "lifecycle.ready")) \in BOOLEAN /\ (s.closed \/ Closes(m, d)) \in BOOLEAN
  BY DEF IsSignal, Closes
<1>3. /\ After(s, m, d).ready = (s.ready \/ IsSignal(m, "lifecycle.ready"))
      /\ After(s, m, d).closed = (s.closed \/ Closes(m, d))
  BY DEF After, SessionType
<1> QED
  BY <1>1, <1>2, <1>3, Zenon

\* A request enters the table, what settles it strikes it out, nothing else touches it.
LEMMA RequestsMove ==
  ASSUME NEW s \in SessionType, NEW d \in Ends, NEW m \in Letters(d), Accepts(s, m, d)
  PROVE  /\ m.kind = "request" =>
              /\ m.id \in RequestIds /\ m.id[1] = d /\ s.requests[m.id] = None
              /\ Req(m, d) \in PendingRequest
         /\ News(m) => /\ m.id \in RequestIds /\ IsPending(s, m.id) /\ s.requests[m.id].from # d
                       /\ s.requests[m.id].method = Of(m)
                       /\ IsAnswer(m) => m.method # "plugin-command.invoke"
         /\ Cancels(m) => /\ m.id \in RequestIds /\ IsPending(s, m.id) /\ s.requests[m.id].from = d
                          /\ s.requests[m.id].method = "plugin-command.invoke"
         /\ RequestsAfter(s, m, d) \in [RequestIds -> PendingRequest \cup {None, Used}]
         /\ \A id \in RequestIds :
              RequestsAfter(s, m, d)[id] = IF AsksFor(m, id) THEN Req(m, d)
                                           ELSE IF Settles(m) /\ m.id = id THEN Used
                                           ELSE s.requests[id]
<1>1. s.requests \in [RequestIds -> PendingRequest \cup {None, Used}]
  BY DEF SessionType
<1>2. ASSUME m.kind = "request"
      PROVE  /\ m.id \in RequestIds /\ m.id[1] = d /\ s.requests[m.id] = None
             /\ Req(m, d) \in PendingRequest
  <2>1. m.method \in Requests[d] /\ m.id \in RequestIds /\ m.id[1] = d /\ m.arg \in RequestArgs(m.method)
    BY <1>2 DEF Letters
  <2>2. m.method \in Asking
    BY <2>1 DEF Asking, Ends, Requests
  <2>3. Req(m, d) \in PendingRequest
    BY <2>1, <2>2 DEF Req, PendingRequest
  <2> QED
    BY <1>2, <2>1, <2>3 DEF Accepts, InOrder
<1>3. ASSUME News(m)
      PROVE  /\ m.id \in RequestIds /\ IsPending(s, m.id) /\ s.requests[m.id].from # d
             /\ s.requests[m.id].method = Of(m)
             /\ IsAnswer(m) => m.method # "plugin-command.invoke"
  <2>1. m.id \in RequestIds
    BY <1>3 DEF News, Settles, IsAnswer, IsSignal, Letters, PluginCommand
  <2>2. CASE IsAnswer(m)
    BY <2>1, <2>2 DEF Accepts, Correlated, Of, RequestOf
  <2>3. CASE ~IsAnswer(m)
    <3>1. m.kind = "signal" /\ m.method \in PluginCommand /\ m.method # "plugin-command.cancel"
      BY <1>3, <2>3 DEF News, Settles, IsSignal, PluginCommand
    <3>2. IsPending(s, m.id) /\ RequestOf(s, m).method = "plugin-command.invoke"
          /\ ~(RequestOf(s, m).from = d)
      BY <3>1 DEF Accepts, Correlated
    <3> QED
      BY <2>1, <2>3, <3>2 DEF Of, RequestOf
  <2> QED
    BY <2>2, <2>3
<1>4. ASSUME Cancels(m)
      PROVE  /\ m.id \in RequestIds /\ IsPending(s, m.id) /\ s.requests[m.id].from = d
             /\ s.requests[m.id].method = "plugin-command.invoke"
  <2>1. m.kind = "signal" /\ m.method = "plugin-command.cancel" /\ m.method \in PluginCommand
    BY <1>4 DEF Cancels, IsSignal, PluginCommand
  <2>2. m.id \in RequestIds
    BY <2>1 DEF Letters
  <2> QED
    BY <2>1, <2>2 DEF Accepts, Correlated, RequestOf
<1>5. Settles(m) => News(m) /\ m.kind # "request"
  BY DEF Settles, News, IsAnswer, IsSignal
<1>6. RequestsAfter(s, m, d) = IF m.kind = "request" THEN [s.requests EXCEPT ![m.id] = Req(m, d)]
                               ELSE IF Settles(m) THEN [s.requests EXCEPT ![m.id] = Used]
                               ELSE s.requests
  <2>1. CASE m.kind = "request"
    BY <2>1 DEF RequestsAfter, Req, IsAnswer, IsSignal
  <2>2. CASE Settles(m)
    BY <2>2, <1>5 DEF RequestsAfter, Settles
  <2>3. CASE m.kind # "request" /\ ~Settles(m)
    BY <2>3 DEF RequestsAfter, Settles
  <2> QED
    BY <2>1, <2>2, <2>3
<1>7. RequestsAfter(s, m, d) \in [RequestIds -> PendingRequest \cup {None, Used}]
  BY <1>1, <1>2, <1>3, <1>5, <1>6
<1>8. ASSUME NEW id \in RequestIds
      PROVE  RequestsAfter(s, m, d)[id] = IF AsksFor(m, id) THEN Req(m, d)
                                          ELSE IF Settles(m) /\ m.id = id THEN Used
                                          ELSE s.requests[id]
  <2>1. CASE m.kind = "request"
    BY <1>1, <1>2, <1>5, <1>6, <2>1 DEF AsksFor
  <2>2. CASE Settles(m)
    BY <1>1, <1>3, <1>5, <1>6, <2>2 DEF AsksFor
  <2>3. CASE m.kind # "request" /\ ~Settles(m)
    BY <1>6, <2>3 DEF AsksFor
  <2> QED
    BY <2>1, <2>2, <2>3
<1> QED
  BY <1>2, <1>3, <1>4, <1>7, <1>8

\* What is asked for is pending.
LEMMA AskedIsPending ==
  ASSUME NEW s, NEW id \in RequestIds, s.requests[id] \in PendingRequest
  PROVE  IsPending(s, id)
BY NamesApart DEF IsPending

LEMMA SentIs ==
  ASSUME NEW st \in OpenStream, NEW bytes \in Nat
  PROVE  /\ Sent(st, bytes) \in OpenStream
         /\ [st EXCEPT !.sent = st.sent + bytes, !.next = st.next + 1, !.inFlight = TRUE] = Sent(st, bytes)
<1> DEFINE r == [st EXCEPT !.sent = st.sent + bytes, !.next = st.next + 1, !.inFlight = TRUE]
<1>1. r \in OpenStream /\ Sent(st, bytes) \in OpenStream
  <2>1. st.owner \in Ends /\ st.total \in Nat /\ st.chunk \in Nat /\ st.next \in Nat /\ st.sent \in Nat
    BY DEF OpenStream
  <2>2. Sent(st, bytes) \in OpenStream
    BY <2>1 DEF OpenStream, Sent
  <2>3. st.next + 1 \in Nat /\ st.sent + bytes \in Nat
    BY <2>1
  <2> QED
    BY <2>1, <2>2, <2>3 DEF OpenStream
<1>2. /\ r.owner = st.owner /\ r.total = st.total /\ r.chunk = st.chunk
      /\ r.next = st.next + 1 /\ r.sent = st.sent + bytes /\ r.inFlight = TRUE
  BY DEF OpenStream
<1> HIDE DEF r
<1>3. r = [owner |-> r.owner, total |-> r.total, chunk |-> r.chunk,
           next |-> r.next, sent |-> r.sent, inFlight |-> r.inFlight]
  BY <1>1 DEF OpenStream
<1>4. r = Sent(st, bytes)
  BY <1>2, <1>3 DEF Sent
<1> QED
  BY <1>1, <1>4 DEF r

LEMMA StreamArgs ==
  ASSUME NEW d \in Ends, NEW m, m.arg \in SignalArgs(d, m.method)
  PROVE  /\ m.method = "stream.open" => /\ m.arg.stream \in Own(d) /\ m.arg.stream \in StreamIds
                                        /\ m.arg.total \in Nat /\ m.arg.chunk \in Nat
         /\ m.method = "stream.chunk" => m.arg.stream \in StreamIds /\ m.arg.bytes \in Nat
         /\ m.method \in {"stream.ack", "stream.close"} => m.arg.stream \in StreamIds
<1>1. Sizes \subseteq Nat /\ Own(d) = {i \in StreamIds : i[1] = d}
  BY WireBounds DEF Sizes, Own
<1>2. CASE m.method = "stream.open"
  BY <1>1, <1>2 DEF SignalArgs
<1>3. CASE m.method = "stream.chunk"
  BY <1>1, <1>3 DEF SignalArgs
<1>4. CASE m.method = "stream.ack"
  BY <1>4 DEF SignalArgs
<1>5. CASE m.method = "stream.close"
  BY <1>5 DEF SignalArgs
<1> QED
  BY <1>2, <1>3, <1>4, <1>5

\* What an accepted message does to a stream.
StreamMove(old, new, m, d, i) ==
  /\ About(m, "stream.open", i) =>
       /\ i[1] = d /\ old = None /\ new \in OpenStream
       /\ new = [owner |-> d, total |-> m.arg.total, chunk |-> m.arg.chunk,
                 next |-> 0, sent |-> 0, inFlight |-> FALSE]
  /\ About(m, "stream.chunk", i) =>
       /\ i[1] = d /\ old \in OpenStream /\ ~old.inFlight /\ m.arg.index = old.next
       /\ new \in OpenStream /\ new = Sent(old, m.arg.bytes)
  /\ About(m, "stream.ack", i) =>
       /\ i[1] # d /\ old \in OpenStream /\ old.inFlight /\ m.arg.index = old.next
       /\ new \in OpenStream /\ new = [old EXCEPT !.inFlight = FALSE]
  /\ About(m, "stream.close", i) =>
       i[1] = d /\ old \in OpenStream /\ ~old.inFlight /\ new = Used
  /\ ~(m.kind = "signal" /\ m.method \in Streaming /\ m.arg.stream = i) => new = old

LEMMA StreamsMove ==
  ASSUME NEW s \in SessionType, NEW d \in Ends, NEW m \in Letters(d), Accepts(s, m, d),
         \A i \in StreamIds : IsOpen(s, i) => s.streams[i].owner = i[1]
  PROVE  /\ StreamsAfter(s, m, d) \in [StreamIds -> OpenStream \cup {None, Used}]
         /\ OwnerSignal(m) => m.arg.stream \in Own(d)
         /\ \A i \in StreamIds : StreamMove(s.streams[i], StreamsAfter(s, m, d)[i], m, d, i)
<1> DEFINE on == m.kind = "signal" /\ m.method \in Streaming
           i == m.arg.stream
           after == StreamsAfter(s, m, d)
<1>1. s.streams \in [StreamIds -> OpenStream \cup {None, Used}]
  BY DEF SessionType
<1>2. ~on => after = s.streams
  BY DEF StreamsAfter
<1>3. ASSUME on
      PROVE  /\ i \in StreamIds /\ (m.method = "stream.open" => i \in Own(d))
             /\ m.method = "stream.open" => m.arg.total \in Nat /\ m.arg.chunk \in Nat
             /\ m.method = "stream.chunk" => m.arg.bytes \in Nat
  <2>1. m.arg \in SignalArgs(d, m.method)
    BY <1>3 DEF Letters
  <2>2. m.method \in {"stream.open", "stream.chunk", "stream.ack", "stream.close"}
    BY <1>3 DEF Streaming
  <2> QED
    BY <2>1, <2>2, StreamArgs
<1>4. ASSUME on
      PROVE  IF m.method = "stream.open" THEN s.streams[i] = None
             ELSE /\ IsOpen(s, i)
                  /\ (d = s.streams[i].owner) = (m.method # "stream.ack")
                  /\ s.streams[i].inFlight = (m.method = "stream.ack")
                  /\ m.method \in {"stream.chunk", "stream.ack"} => m.arg.index = s.streams[i].next
  <2>1. StreamAllows(s, m, d)
    BY DEF Accepts, Allows
  <2> QED
    BY <1>4, <2>1 DEF StreamAllows
<1>5. ASSUME on, m.method # "stream.open"
      PROVE  s.streams[i] \in OpenStream /\ s.streams[i].owner = i[1]
  BY <1>1, <1>3, <1>4, <1>5 DEF IsOpen
<1>6. ASSUME on
      PROVE  after = [s.streams EXCEPT ![i] =
               IF m.method = "stream.open" THEN [owner |-> d, total |-> m.arg.total, chunk |-> m.arg.chunk,
                                                 next |-> 0, sent |-> 0, inFlight |-> FALSE]
               ELSE IF m.method = "stream.chunk" THEN Sent(s.streams[i], m.arg.bytes)
               ELSE IF m.method = "stream.ack" THEN [s.streams[i] EXCEPT !.inFlight = FALSE]
               ELSE Used]
  <2>1. m.method \in {"stream.open", "stream.chunk", "stream.ack", "stream.close"}
    BY <1>6 DEF Streaming
  <2>2. CASE m.method = "stream.open"
    BY <1>6, <2>2 DEF StreamsAfter
  <2>3. CASE m.method = "stream.chunk"
    <3>1. s.streams[i] \in OpenStream
      BY <1>5, <1>6, <2>3
    <3>a. m.arg.bytes \in Nat
      BY <1>3, <1>6, <2>3
    <3>2. [s.streams[i] EXCEPT !.sent = s.streams[i].sent + m.arg.bytes, !.next = s.streams[i].next + 1,
                               !.inFlight = TRUE]
            = Sent(s.streams[i], m.arg.bytes)
      BY <3>1, <3>a, SentIs
    <3>3. after = [s.streams EXCEPT ![i] =
                    [s.streams[i] EXCEPT !.sent = s.streams[i].sent + m.arg.bytes,
                                         !.next = s.streams[i].next + 1, !.inFlight = TRUE]]
      BY <1>6, <2>3 DEF StreamsAfter
    <3> QED
      BY <2>3, <3>2, <3>3
  <2>4. CASE m.method = "stream.ack"
    BY <1>6, <2>4 DEF StreamsAfter
  <2>5. CASE m.method = "stream.close"
    BY <1>6, <2>5 DEF StreamsAfter
  <2> QED
    BY <2>1, <2>2, <2>3, <2>4, <2>5
<1>7. /\ on /\ m.method = "stream.open" =>
           [owner |-> d, total |-> m.arg.total, chunk |-> m.arg.chunk,
            next |-> 0, sent |-> 0, inFlight |-> FALSE] \in OpenStream
      /\ on /\ m.method = "stream.chunk" =>
           Sent(s.streams[i], m.arg.bytes) \in OpenStream
      /\ on /\ m.method = "stream.ack" => [s.streams[i] EXCEPT !.inFlight = FALSE] \in OpenStream
  <2>1. ASSUME on, m.method = "stream.open"
        PROVE  [owner |-> d, total |-> m.arg.total, chunk |-> m.arg.chunk,
                next |-> 0, sent |-> 0, inFlight |-> FALSE] \in OpenStream
    BY <1>3, <2>1 DEF OpenStream
  <2>2. ASSUME on, m.method = "stream.chunk" PROVE Sent(s.streams[i], m.arg.bytes) \in OpenStream
    BY <1>3, <1>5, <2>2 DEF OpenStream, Sent
  <2>3. ASSUME on, m.method = "stream.ack" PROVE [s.streams[i] EXCEPT !.inFlight = FALSE] \in OpenStream
    BY <1>5, <2>3 DEF OpenStream
  <2> QED
    BY <2>1, <2>2, <2>3
<1>8. after \in [StreamIds -> OpenStream \cup {None, Used}]
  BY <1>1, <1>2, <1>3, <1>6, <1>7
<1>9. OwnerSignal(m) => i \in Own(d)
  BY <1>3, <1>4, <1>5 DEF OwnerSignal, Own
<1> HIDE DEF after
<1>10. ASSUME NEW x \in StreamIds, ~(on /\ i = x)
       PROVE  after[x] = s.streams[x]
  BY <1>1, <1>2, <1>3, <1>6, <1>10
<1>11. ASSUME NEW x \in StreamIds, on, i = x
       PROVE  after[x] = IF m.method = "stream.open" THEN [owner |-> d, total |-> m.arg.total, chunk |-> m.arg.chunk,
                                                 next |-> 0, sent |-> 0, inFlight |-> FALSE]
               ELSE IF m.method = "stream.chunk" THEN Sent(s.streams[i], m.arg.bytes)
               ELSE IF m.method = "stream.ack" THEN [s.streams[i] EXCEPT !.inFlight = FALSE]
               ELSE Used
  BY <1>1, <1>6, <1>11
<1> HIDE DEF after
<1>12. ASSUME NEW x \in StreamIds PROVE StreamMove(s.streams[x], after[x], m, d, x)
  <2>1. m.kind = "signal" /\ m.method \in Streaming /\ m.arg.stream = x <=> on /\ i = x
    OBVIOUS
  <2>2. CASE ~(on /\ i = x)
    BY <2>1, <2>2, <1>10 DEF StreamMove, About, IsSignal, Streaming
  <2> SUFFICES ASSUME on, i = x PROVE StreamMove(s.streams[x], after[x], m, d, x)
    BY <2>2
  <2>3. m.method \in {"stream.open", "stream.chunk", "stream.ack", "stream.close"}
    BY DEF Streaming
  <2>4. CASE m.method = "stream.open"
    <3>1. /\ x[1] = d /\ s.streams[x] = None /\ after[x] \in OpenStream
          /\ after[x] = [owner |-> d, total |-> m.arg.total, chunk |-> m.arg.chunk,
                         next |-> 0, sent |-> 0, inFlight |-> FALSE]
      BY <2>4, <1>3, <1>4, <1>7, <1>11 DEF Own
    <3> QED
      BY <3>1, <2>4 DEF StreamMove, About, IsSignal, Streaming
  <2>5. CASE m.method = "stream.chunk"
    <3>1. /\ x[1] = d /\ s.streams[x] \in OpenStream /\ ~s.streams[x].inFlight
          /\ m.arg.index = s.streams[x].next
      BY <2>5, <1>4, <1>5
    <3>2. after[x] \in OpenStream /\ after[x] = Sent(s.streams[x], m.arg.bytes)
      BY <2>5, <1>7, <1>11
    <3> QED
      BY <3>1, <3>2, <2>5 DEF StreamMove, About, IsSignal, Streaming
  <2>6. CASE m.method = "stream.ack"
    <3>1. /\ x[1] # d /\ s.streams[x] \in OpenStream /\ s.streams[x].inFlight
          /\ m.arg.index = s.streams[x].next
      BY <2>6, <1>4, <1>5
    <3>2. after[x] \in OpenStream /\ after[x] = [s.streams[x] EXCEPT !.inFlight = FALSE]
      BY <2>6, <1>7, <1>11
    <3> QED
      BY <3>1, <3>2, <2>6 DEF StreamMove, About, IsSignal, Streaming
  <2>7. CASE m.method = "stream.close"
    <3>1. x[1] = d /\ s.streams[x] \in OpenStream /\ ~s.streams[x].inFlight /\ after[x] = Used
      BY <2>7, <1>4, <1>5, <1>11
    <3> QED
      BY <3>1, <2>7 DEF StreamMove, About, IsSignal, Streaming
  <2> QED
    BY <2>3, <2>4, <2>5, <2>6, <2>7
<1> QED
  BY <1>8, <1>9, <1>12 DEF after

\* An accepted message leaves a session a session.
LEMMA AfterTyped ==
  ASSUME NEW s \in SessionType, NEW d \in Ends, NEW m \in Letters(d), Accepts(s, m, d),
         \A i \in StreamIds : IsOpen(s, i) => s.streams[i].owner = i[1]
  PROVE  After(s, m, d) \in SessionType
<1> DEFINE r == After(s, m, d)
<1>s. /\ s.role \in {t.role : t \in Traffics} /\ s.ready \in BOOLEAN /\ s.closed \in BOOLEAN
      /\ s.provider \in {"idle", "mounted", "unmounted"} /\ s.context \in Revisions /\ s.dom \in Revisions
      /\ s.requests \in [RequestIds -> PendingRequest \cup {None, Used}]
      /\ s.subscriptions \in [SubscriptionIds -> EventTopics \cup {None}]
      /\ s.released \subseteq ResourceHandles /\ s.nodes \subseteq Nodes
  BY DEF SessionType
<1>f. /\ r.role = s.role /\ r.bootstrapped = TRUE
      /\ r.nodes = NodesAfter(s, m)
      /\ r.requests = RequestsAfter(s, m, d)
      /\ r.subscriptions = SubscriptionsAfter(s, m)
      /\ r.streams = StreamsAfter(s, m, d)
  BY AfterIs
<1>g. /\ r.context = IF IsRequest(m, "runtime.bootstrap") \/ IsRequest(m, "context.update")
                     THEN m.arg.revision ELSE s.context
      /\ r.dom = IF DomRevised(m) THEN m.arg.revision ELSE s.dom
      /\ r.released = IF IsResult(m, "resource.release")
                      THEN s.released \cup {RequestOf(s, m).arg} ELSE s.released
  BY AfterSteps
<1>p. r.provider \in {"mounted", "unmounted", s.provider}
  BY AfterProvider
<1>r. r = [role |-> r.role, bootstrapped |-> r.bootstrapped, ready |-> r.ready, provider |-> r.provider,
           closed |-> r.closed, context |-> r.context, dom |-> r.dom, requests |-> r.requests,
           subscriptions |-> r.subscriptions, released |-> r.released, nodes |-> r.nodes,
           streams |-> r.streams]
  <2>1. r \in [role : {r.role}, bootstrapped : {r.bootstrapped}, ready : {r.ready}, provider : {r.provider},
               closed : {r.closed}, context : {r.context}, dom : {r.dom}, requests : {r.requests},
               subscriptions : {r.subscriptions}, released : {r.released}, nodes : {r.nodes},
               streams : {r.streams}]
    BY DEF After, SessionType
  <2> HIDE DEF r
  <2> QED
    BY <2>1
<1> HIDE DEF r
<1>2. r.requests \in [RequestIds -> PendingRequest \cup {None, Used}]
  BY <1>f, RequestsMove
<1>3. r.streams \in [StreamIds -> OpenStream \cup {None, Used}]
  BY <1>f, StreamsMove
<1>4. r.context \in Revisions
  <2>1. ASSUME IsRequest(m, "runtime.bootstrap") \/ IsRequest(m, "context.update")
        PROVE  m.arg.revision \in Revisions
    <3>1. m.arg \in RequestArgs(m.method) /\ m.method \in {"runtime.bootstrap", "context.update"}
      BY <2>1 DEF IsRequest, Letters
    <3>2. m.arg \in [revision : Revisions, slot : BOOLEAN]
      BY <3>1, ArgsOf
    <3> QED
      BY <3>2
  <2> QED
    BY <2>1, <1>s, <1>g
<1>5. DomRevised(m) => m.arg.revision \in Revisions /\ Page(m) \subseteq Nodes
  <2>1. CASE IsSignal(m, "dom.revision")
    <3>1. m.arg \in [revision : Revisions]
      BY <2>1 DEF IsSignal, Letters, SignalArgs
    <3> QED
      BY <2>1, <3>1 DEF IsSignal, Page
  <2>2. CASE m.kind = "result" /\ m.method \in DomRequests
    BY <2>2, DomArgs DEF Letters
  <2> QED
    BY <2>1, <2>2 DEF DomRevised
<1>6. r.dom \in Revisions
  BY <1>5, <1>s, <1>g
<1>7. r.nodes \subseteq Nodes
  <2>1. r.nodes = NodesAfter(s, m)
    BY <1>f
  <2> QED
    BY <2>1, <1>5, <1>s DEF NodesAfter
<1>8. ASSUME m.kind = "result"
      PROVE  /\ RequestOf(s, m) \in PendingRequest /\ RequestOf(s, m).method = m.method
             /\ RequestOf(s, m).arg \in RequestArgs(m.method)
  <2>1. m.id \in RequestIds /\ IsPending(s, m.id) /\ s.requests[m.id].method = Of(m)
    BY <1>8, RequestsMove DEF News, Settles, IsAnswer
  <2>2. s.requests[m.id] \in PendingRequest
    BY <2>1, <1>s DEF IsPending
  <2> QED
    BY <1>8, <2>1, <2>2 DEF RequestOf, PendingRequest, Of, IsAnswer
<1>9. r.subscriptions \in [SubscriptionIds -> EventTopics \cup {None}]
  <2>1. r.subscriptions = SubscriptionsAfter(s, m)
    BY <1>f
  <2>2. IsResult(m, "event.subscribe") => RequestOf(s, m).arg \in EventTopics
    BY <1>8, ArgsOf DEF IsResult
  <2> QED
    BY <2>1, <2>2, <1>s DEF SubscriptionsAfter
<1>10. r.released \subseteq ResourceHandles
  <2>1. IsResult(m, "resource.release") => RequestOf(s, m).arg \in ResourceHandles
    BY <1>8, ArgsOf DEF IsResult
  <2> QED
    BY <2>1, <1>s, <1>g
<1>11. /\ r.role \in {t.role : t \in Traffics} /\ r.bootstrapped \in BOOLEAN
       /\ r.provider \in {"idle", "mounted", "unmounted"}
  BY <1>s, <1>f, <1>p
<1>12. r.ready \in BOOLEAN /\ r.closed \in BOOLEAN
  BY AfterFlags DEF r
<1>13. r \in SessionType
  BY <1>r, <1>2, <1>3, <1>4, <1>6, <1>7, <1>9, <1>10, <1>11, <1>12 DEF SessionType
<1> QED
  BY <1>13 DEF r

\* Streams apart from what is in flight.
LEMMA PlainIs ==
  ASSUME NEW st \in OpenStream
  PROVE  /\ Plain(st) = [owner |-> st.owner, total |-> st.total, chunk |-> st.chunk,
                         next |-> st.next, sent |-> st.sent, inFlight |-> FALSE]
         /\ st \notin {None, Used}
<1>1. st \notin {None, Used}
  BY NamesApart
<1>2. Plain(st) = [st EXCEPT !.inFlight = FALSE]
  BY <1>1 DEF Plain
<1>3. [st EXCEPT !.inFlight = FALSE] = [owner |-> st.owner, total |-> st.total, chunk |-> st.chunk,
                                        next |-> st.next, sent |-> st.sent, inFlight |-> FALSE]
  <2> DEFINE r == [st EXCEPT !.inFlight = FALSE]
  <2>1. r \in OpenStream
    BY DEF OpenStream
  <2>2. /\ r.owner = st.owner /\ r.total = st.total /\ r.chunk = st.chunk
        /\ r.next = st.next /\ r.sent = st.sent /\ r.inFlight = FALSE
    BY DEF OpenStream
  <2> HIDE DEF r
  <2>3. r = [owner |-> r.owner, total |-> r.total, chunk |-> r.chunk,
             next |-> r.next, sent |-> r.sent, inFlight |-> r.inFlight]
    BY <2>1 DEF OpenStream
  <2> QED
    BY <2>2, <2>3 DEF r
<1> QED
  BY <1>1, <1>2, <1>3

LEMMA PlainNames == Plain(None) = None /\ Plain(Used) = Used
BY DEF Plain

LEMMA PlainTells ==
  ASSUME NEW st \in OpenStream \cup {None, Used}
  PROVE  /\ Plain(st) = None <=> st = None
         /\ Plain(st) \in {None, Used} <=> st \in {None, Used}
         /\ st \in OpenStream => /\ Plain(st) \in OpenStream /\ Plain(st).owner = st.owner
                                 /\ Plain(st).next = st.next /\ Plain(st).sent = st.sent
                                 /\ Plain(st).total = st.total /\ Plain(st).chunk = st.chunk
<1>1. CASE st \in OpenStream
  <2>0. /\ st.owner \in Ends /\ st.total \in Nat /\ st.chunk \in Nat /\ st.next \in Nat /\ st.sent \in Nat
    BY <1>1 DEF OpenStream
  <2>1. Plain(st) \in OpenStream
    <3>1. [owner |-> st.owner, total |-> st.total, chunk |-> st.chunk,
           next |-> st.next, sent |-> st.sent, inFlight |-> FALSE] \in OpenStream
      BY <2>0 DEF OpenStream
    <3> QED
      BY <1>1, <3>1, PlainIs
  <2>2. Plain(st) \notin {None, Used} /\ st \notin {None, Used}
    BY <2>1, <1>1, NamesApart
  <2> QED
    BY <1>1, <2>1, <2>2, PlainIs
<1>2. CASE st \notin OpenStream
  BY <1>2, PlainNames
<1> QED
  BY <1>1, <1>2

LEMMA PlainMoves ==
  ASSUME NEW st \in OpenStream
  PROVE  /\ Plain([st EXCEPT !.inFlight = FALSE]) = Plain(st)
         /\ \A b \in Nat : Plain(Sent(Plain(st), b)) = Plain(Sent(st, b))
<1>1. [st EXCEPT !.inFlight = FALSE] \in OpenStream /\ Plain(st) \in OpenStream
  BY PlainTells DEF OpenStream
<1>2. Plain([st EXCEPT !.inFlight = FALSE]) = Plain(st)
  BY <1>1, PlainIs DEF OpenStream
<1>3. ASSUME NEW b \in Nat PROVE Plain(Sent(Plain(st), b)) = Plain(Sent(st, b))
  <2>1. Sent(Plain(st), b) \in OpenStream /\ Sent(st, b) \in OpenStream
    BY <1>1, SentIs
  <2>2. Sent(Plain(st), b) = Sent(st, b)
    <3>1. /\ Plain(st).owner = st.owner /\ Plain(st).total = st.total /\ Plain(st).chunk = st.chunk
          /\ Plain(st).next = st.next /\ Plain(st).sent = st.sent
      BY PlainTells
    <3> QED
      BY <3>1 DEF Sent
  <2> QED
    BY <2>2
<1> QED
  BY <1>2, <1>3

\* An owner's message moves its own streams and finds them as it needs them.
LEMMA OwnStreamsMove ==
  ASSUME NEW s \in SessionType, NEW e \in Ends, NEW m \in Letters(e), Accepts(s, m, e),
         \A i \in StreamIds : IsOpen(s, i) => s.streams[i].owner = i[1]
  PROVE  OwnStreams(After(s, m, e), e) = OwnStreamsAfter(OwnStreams(s, e), m, e)
<1> DEFINE v == OwnStreams(s, e)
           after == StreamsAfter(s, m, e)
           i == m.arg.stream
<1>1. After(s, m, e).streams = after
  BY AfterIs
<1>2. v = [x \in Own(e) |-> Plain(s.streams[x])] /\ Own(e) \subseteq StreamIds
  BY DEF OwnStreams, Own
<1>3. /\ \A x \in StreamIds : StreamMove(s.streams[x], after[x], m, e, x)
      /\ OwnerSignal(m) => i \in Own(e)
  BY StreamsMove
<1> HIDE DEF v, after
<1>4. OwnStreams(After(s, m, e), e) = [x \in Own(e) |-> Plain(after[x])]
  BY <1>1 DEF OwnStreams
<1>5. CASE ~OwnerSignal(m)
  <2>1. ASSUME NEW x \in Own(e) PROVE after[x] = s.streams[x]
    <3>1. x \in StreamIds /\ x[1] = e
      BY DEF Own
    <3> QED
      BY <3>1, <1>3, <1>5 DEF StreamMove, About, IsSignal, OwnerSignal, Streaming
  <2> QED
    BY <2>1, <1>2, <1>4, <1>5 DEF OwnStreamsAfter, v
<1>6. CASE OwnerSignal(m)
  <2>1. i \in Own(e) /\ m.kind = "signal" /\ m.method \in {"stream.open", "stream.chunk", "stream.close"}
    BY <1>3, <1>6 DEF OwnerSignal, Streaming
  <2>2. ASSUME NEW x \in Own(e), x # i PROVE after[x] = s.streams[x]
    BY <1>2, <1>3, <2>2 DEF StreamMove
  <2>3. Plain(after[i]) = CASE m.method = "stream.open" ->
                 [owner |-> e, total |-> m.arg.total, chunk |-> m.arg.chunk,
                  next |-> 0, sent |-> 0, inFlight |-> FALSE]
            [] m.method = "stream.chunk" -> Plain(Sent(v[i], m.arg.bytes))
            [] m.method = "stream.close" -> Used
    <3>1. StreamMove(s.streams[i], after[i], m, e, i) /\ v[i] = Plain(s.streams[i])
      BY <1>2, <1>3, <2>1
    <3>2. CASE m.method = "stream.open"
      <4>1. /\ after[i] \in OpenStream
            /\ after[i] = [owner |-> e, total |-> m.arg.total, chunk |-> m.arg.chunk,
                           next |-> 0, sent |-> 0, inFlight |-> FALSE]
        BY <3>1, <3>2, <2>1 DEF StreamMove, About, IsSignal
      <4>2. Plain(after[i]) = after[i]
        BY <4>1, PlainIs
      <4> QED
        BY <4>1, <4>2, <3>2
    <3>3. CASE m.method = "stream.chunk"
      <4>1. s.streams[i] \in OpenStream /\ after[i] = Sent(s.streams[i], m.arg.bytes)
        BY <3>1, <3>3, <2>1 DEF StreamMove, About, IsSignal
      <4>2. m.arg.bytes \in Nat
        BY <3>3, <2>1, StreamArgs DEF Letters
      <4>3. Plain(Sent(v[i], m.arg.bytes)) = Plain(Sent(s.streams[i], m.arg.bytes))
        BY <3>1, <4>1, <4>2, PlainMoves
      <4> QED
        BY <4>1, <4>3, <3>3
    <3>4. CASE m.method = "stream.close"
      <4>1. after[i] = Used
        BY <3>1, <3>4, <2>1 DEF StreamMove, About, IsSignal
      <4> QED
        BY <4>1, <3>4, PlainNames
    <3> QED
      BY <2>1, <3>2, <3>3, <3>4
  <2>4. OwnStreamsAfter(v, m, e) = [v EXCEPT ![i] = Plain(after[i])]
    BY <1>6, <2>3 DEF OwnStreamsAfter
  <2>5. OwnStreamsAfter(v, m, e) = [x \in Own(e) |-> Plain(after[x])]
    BY <1>2, <2>1, <2>2, <2>4
  <2> QED
    BY <1>4, <2>5 DEF v
<1> QED
  BY <1>5, <1>6

LEMMA OwnStreamsStay ==
  ASSUME NEW s \in SessionType, NEW d \in Ends, NEW m \in Letters(d), Accepts(s, m, d),
         \A i \in StreamIds : IsOpen(s, i) => s.streams[i].owner = i[1]
  PROVE  OwnStreams(After(s, m, d), Other(d)) = OwnStreams(s, Other(d))
<1> DEFINE after == StreamsAfter(s, m, d)
<1>1. After(s, m, d).streams = after
  BY AfterIs
<1>2. \A x \in StreamIds : StreamMove(s.streams[x], after[x], m, d, x)
  BY StreamsMove
<1> HIDE DEF after
<1>3. ASSUME NEW x \in Own(Other(d)) PROVE Plain(after[x]) = Plain(s.streams[x])
  <2>1. x \in StreamIds /\ x[1] # d
    BY TwoEnds DEF Own
  <2>2. StreamMove(s.streams[x], after[x], m, d, x)
    BY <1>2, <2>1
  <2>3. CASE About(m, "stream.ack", x)
    BY <2>2, <2>3, PlainMoves DEF StreamMove
  <2>4. CASE ~About(m, "stream.ack", x)
    BY <2>1, <2>2, <2>4 DEF StreamMove, About, IsSignal, Streaming
  <2> QED
    BY <2>3, <2>4
<1> QED
  BY <1>1, <1>3 DEF OwnStreams

LEMMA SameLimits ==
  ASSUME NEW s \in SessionType, NEW e \in Ends, OneOpener, Own(e) # {}
  PROVE  /\ {j \in DOMAIN OwnStreams(s, e) : OwnStreams(s, e)[j] \notin {None, Used}}
              = {j \in StreamIds : IsOpen(s, j)}
         /\ {j \in DOMAIN OwnStreams(s, e) : OwnStreams(s, e)[j] # None}
              = {j \in StreamIds : s.streams[j] # None}
<1>1. Own(e) = StreamIds
  BY DEF Own, OneOpener
<1>2. \A j \in StreamIds : s.streams[j] \in OpenStream \cup {None, Used}
  BY DEF SessionType
<1>3. \A j \in StreamIds : /\ Plain(s.streams[j]) \in {None, Used} <=> s.streams[j] \in {None, Used}
                           /\ Plain(s.streams[j]) = None <=> s.streams[j] = None
  BY <1>2, PlainTells
<1> QED
  BY <1>1, <1>3 DEF OwnStreams, IsOpen

LEMMA OwnStreamsFit ==
  ASSUME NEW s \in SessionType, NEW e \in Ends, NEW m \in Letters(e), Accepts(s, m, e), OneOpener,
         \A i \in StreamIds : IsOpen(s, i) => s.streams[i].owner = i[1]
  PROVE  StreamOk(OwnStreams(s, e), m, e)
<1> SUFFICES ASSUME OwnerSignal(m) PROVE StreamOk(OwnStreams(s, e), m, e)
  BY DEF StreamOk
<1> DEFINE v == OwnStreams(s, e)
           i == m.arg.stream
<1>1. i \in Own(e) /\ StreamMove(s.streams[i], StreamsAfter(s, m, e)[i], m, e, i)
  BY StreamsMove DEF Own
<1>2. m.kind = "signal" /\ m.method \in {"stream.open", "stream.chunk", "stream.close"}
  BY DEF OwnerSignal, Streaming
<1>3. StreamAllows(s, m, e)
  BY DEF Accepts, Allows
<1>4. v[i] = Plain(s.streams[i]) /\ DOMAIN v = Own(e) /\ i \in StreamIds /\ i[1] = e
  BY <1>1 DEF OwnStreams, Own
<1>5. CASE m.method = "stream.open"
  <2>1. /\ s.streams[i] = None
        /\ Cardinality({j \in StreamIds : IsOpen(s, j)}) < MaxActiveStreams
        /\ Cardinality({j \in StreamIds : s.streams[j] # None}) < MaxStreamsPerSession
    BY <1>2, <1>3, <1>5 DEF StreamAllows, Streaming
  <2>2. /\ {j \in DOMAIN v : v[j] \notin {None, Used}} = {j \in StreamIds : IsOpen(s, j)}
        /\ {j \in DOMAIN v : v[j] # None} = {j \in StreamIds : s.streams[j] # None}
    BY <1>1, SameLimits
  <2>3. v[i] = None
    BY <1>4, <2>1, PlainNames
  <2> HIDE DEF v
  <2> QED
    BY <1>1, <1>4, <1>5, <2>1, <2>2, <2>3 DEF StreamOk, v
<1>6. CASE m.method # "stream.open"
  <2>1. s.streams[i] \in OpenStream /\ s.streams[i].owner = e
    <3>1. s.streams[i] \in OpenStream
      BY <1>1, <1>2, <1>6 DEF StreamMove, About, IsSignal
    <3> QED
      BY <3>1, <1>4, NamesApart DEF IsOpen
  <2>2. /\ v[i] \in OpenStream /\ v[i].owner = e
        /\ v[i].next = s.streams[i].next /\ v[i].sent = s.streams[i].sent
        /\ v[i].total = s.streams[i].total /\ v[i].chunk = s.streams[i].chunk
    BY <1>4, <2>1, PlainTells
  <2>3. /\ m.method = "stream.chunk" =>
             /\ m.arg.index = s.streams[i].next
             /\ m.arg.bytes <= s.streams[i].chunk /\ s.streams[i].sent + m.arg.bytes <= s.streams[i].total
        /\ m.method = "stream.close" => m.arg.total = s.streams[i].sent /\ s.streams[i].sent = s.streams[i].total
    BY <1>2, <1>3, <1>6 DEF StreamAllows, Streaming
  <2>4. v[i] \notin {None, Used}
    BY <2>2, NamesApart
  <2> HIDE DEF v
  <2> QED
    BY <1>1, <1>4, <1>6, <2>2, <2>3, <2>4 DEF StreamOk, v
<1> QED
  BY <1>5, <1>6

\* What fits the other end's part, and finds no chunk held, is let in.
LEMMA OwnStreamsTaken ==
  ASSUME NEW s \in SessionType, NEW e \in Ends, NEW m, OwnerSignal(m), OneOpener,
         StreamOk(OwnStreams(s, e), m, e),
         m.arg.stream \in StreamIds /\ IsOpen(s, m.arg.stream) => ~s.streams[m.arg.stream].inFlight
  PROVE  StreamAllows(s, m, e)
<1> DEFINE v == OwnStreams(s, e)
           i == m.arg.stream
<1>2. m.kind = "signal" /\ m.method \in {"stream.open", "stream.chunk", "stream.close"}
  BY DEF OwnerSignal, Streaming
<1>3. i \in DOMAIN v /\ DOMAIN v = Own(e) /\ Own(e) \subseteq StreamIds
  BY DEF StreamOk, OwnStreams, Own
<1>4. v[i] = Plain(s.streams[i]) /\ s.streams[i] \in OpenStream \cup {None, Used}
  BY <1>3 DEF OwnStreams, SessionType
<1>5. CASE m.method = "stream.open"
  <2>1. /\ v[i] = None
        /\ Cardinality({j \in DOMAIN v : v[j] \notin {None, Used}}) < MaxActiveStreams
        /\ Cardinality({j \in DOMAIN v : v[j] # None}) < MaxStreamsPerSession
    BY <1>5 DEF StreamOk
  <2>2. /\ {j \in DOMAIN v : v[j] \notin {None, Used}} = {j \in StreamIds : IsOpen(s, j)}
        /\ {j \in DOMAIN v : v[j] # None} = {j \in StreamIds : s.streams[j] # None}
    BY <1>3, SameLimits
  <2>3. s.streams[i] = None
    BY <1>4, <2>1, PlainTells
  <2> HIDE DEF v
  <2> QED
    BY <1>5, <2>1, <2>2, <2>3 DEF StreamAllows
<1>6. CASE m.method # "stream.open"
  <2>1. /\ v[i] \notin {None, Used} /\ v[i].owner = e
        /\ m.method = "stream.chunk" =>
             /\ m.arg.index = v[i].next
             /\ m.arg.bytes <= v[i].chunk /\ v[i].sent + m.arg.bytes <= v[i].total
        /\ m.method = "stream.close" => m.arg.total = v[i].sent /\ v[i].sent = v[i].total
    BY <1>6 DEF StreamOk
  <2> HIDE DEF v
  <2>2. s.streams[i] \in OpenStream
    BY <1>4, <2>1, PlainTells
  <2>3. /\ s.streams[i].owner = e
        /\ v[i].next = s.streams[i].next /\ v[i].sent = s.streams[i].sent
        /\ v[i].total = s.streams[i].total /\ v[i].chunk = s.streams[i].chunk
    BY <1>4, <2>1, <2>2, PlainTells
  <2>4. IsOpen(s, i) /\ s.streams[i].inFlight \in BOOLEAN
    BY <2>2, NamesApart DEF IsOpen, OpenStream
  <2>5. ~s.streams[i].inFlight
    BY <2>4, <1>3
  <2> QED
    BY <1>2, <1>6, <2>1, <2>3, <2>4, <2>5 DEF StreamAllows
<1> QED
  BY <1>5, <1>6

\* An accepted message fits its sender's part and changes it as MineAfter says, ...
LEMMA HostMoves ==
  ASSUME NEW s \in SessionType, NEW m \in Letters("host"), Accepts(s, m, "host"), OneOpener,
         \A i \in StreamIds : IsOpen(s, i) => s.streams[i].owner = i[1]
  PROVE  /\ MineOk(Mine(s, "host"), m, "host")
         /\ Mine(After(s, m, "host"), "host") = MineAfter(Mine(s, "host"), m, "host", s.requests[m.id])
<1> DEFINE v == Mine(s, "host")
           t == After(s, m, "host")
           a == s.requests[m.id]
<1>0. "host" \in Ends
  BY TwoEnds
<1>1. /\ v.bootstrapped = s.bootstrapped /\ v.context = s.context /\ v.provider = s.provider
      /\ v.subscriptions = s.subscriptions /\ v.released = s.released /\ v.streams = OwnStreams(s, "host")
  BY DEF Mine
<1>2. HostOk(v, m)
  <2>1. /\ s.bootstrapped \/ IsRequest(m, "runtime.bootstrap")
        /\ IsRequest(m, "runtime.bootstrap") => ~s.bootstrapped
    BY DEF Accepts, InOrder, IsRequest
  <2>2. /\ IsRequest(m, "context.update") => m.arg.revision > s.context
        /\ m.kind = "request" /\ m.method \in ProviderMethods =>
             /\ m.arg = s.context
             /\ s.provider = (IF m.method = "provider.mount" THEN "idle" ELSE "mounted")
        /\ IsSignal(m, "event.deliver") => s.subscriptions[m.arg.subscription] = m.arg.topic
        /\ IsResult(m, "event.subscribe") => /\ m.arg \notin Subscribed(s)
                                             /\ Cardinality(Subscribed(s)) < MaxSubscriptions
    BY DEF Accepts, Allows
  <2>3. Subscribed(v) = Subscribed(s)
    BY <1>1 DEF Subscribed
  <2> HIDE DEF v
  <2> QED
    BY <1>1, <2>1, <2>2, <2>3 DEF HostOk
<1>3. StreamOk(v.streams, m, "host")
  BY <1>0, <1>1, OwnStreamsFit
<1>4. /\ t.bootstrapped = TRUE /\ t.subscriptions = SubscriptionsAfter(s, m)
      /\ OwnStreams(t, "host") = OwnStreamsAfter(v.streams, m, "host")
  BY <1>0, <1>1, AfterIs, OwnStreamsMove
<1>5. /\ t.context = IF IsRequest(m, "runtime.bootstrap") \/ IsRequest(m, "context.update")
                     THEN m.arg.revision ELSE v.context
      /\ t.released = IF IsResult(m, "resource.release") THEN v.released \cup {a.arg} ELSE v.released
  <2>1. /\ t.context = IF IsRequest(m, "runtime.bootstrap") \/ IsRequest(m, "context.update")
                       THEN m.arg.revision ELSE s.context
        /\ t.released = IF IsResult(m, "resource.release") THEN s.released \cup {RequestOf(s, m).arg}
                        ELSE s.released
    BY AfterSteps
  <2> HIDE DEF t, v
  <2> QED
    BY <1>1, <2>1 DEF RequestOf
<1>6. t.provider = CASE IsRequest(m, "provider.mount") -> "mounted"
                     [] IsRequest(m, "provider.unmount") -> "unmounted"
                     [] OTHER -> v.provider
  <2>1. t.provider = IF IsRequest(m, "provider.mount") THEN "mounted"
                     ELSE IF IsRequest(m, "provider.unmount") THEN "unmounted" ELSE v.provider
    BY <1>1, AfterProvider
  <2>2. ~(IsRequest(m, "provider.mount") /\ IsRequest(m, "provider.unmount"))
    BY DEF IsRequest
  <2> HIDE DEF t, v
  <2> QED
    BY <2>1, <2>2
<1>7. t.subscriptions = CASE IsResult(m, "event.subscribe") -> [v.subscriptions EXCEPT ![m.arg] = a.arg]
                          [] IsResult(m, "event.unsubscribe") -> [v.subscriptions EXCEPT ![a.arg] = None]
                          [] OTHER -> v.subscriptions
  BY <1>1, <1>4 DEF SubscriptionsAfter, RequestOf
<1> HIDE DEF v, t, a
<1>8. Mine(t, "host") = MineAfter(v, m, "host", a)
  BY <1>4, <1>5, <1>6, <1>7 DEF Mine, MineAfter
<1> QED
  BY <1>2, <1>3, <1>8 DEF MineOk, v, t, a

LEMMA PluginMoves ==
  ASSUME NEW s \in SessionType, NEW m \in Letters("plugin"), Accepts(s, m, "plugin"), OneOpener,
         \A i \in StreamIds : IsOpen(s, i) => s.streams[i].owner = i[1], NEW a
  PROVE  /\ MineOk(Mine(s, "plugin"), m, "plugin")
         /\ Mine(After(s, m, "plugin"), "plugin") = MineAfter(Mine(s, "plugin"), m, "plugin", a)
<1> DEFINE v == Mine(s, "plugin")
           t == After(s, m, "plugin")
<1>0. "plugin" \in Ends /\ "plugin" # "host"
  BY TwoEnds
<1>1. /\ v.ready = s.ready /\ v.dom = s.dom /\ v.nodes = s.nodes /\ v.streams = OwnStreams(s, "plugin")
  BY <1>0 DEF Mine
<1>n. NodesAfter(v, m) = NodesAfter(s, m)
  BY <1>1 DEF NodesAfter
<1>2. PluginOk(v, m)
  <2>1. /\ IsSignal(m, "lifecycle.ready") => ~s.ready
        /\ IsSignal(m, "dom.revision") => m.arg.revision > s.dom
        /\ DomRevised(m) => /\ m.arg.revision >= s.dom
                            /\ Cardinality(NodesAfter(s, m)) <= MaxDomOwnedNodes
    BY DEF Accepts, Allows, DomAllows
  <2> HIDE DEF v
  <2> QED
    BY <1>1, <1>n, <2>1 DEF PluginOk
<1>3. StreamOk(v.streams, m, "plugin")
  BY <1>0, <1>1, OwnStreamsFit
<1>4. /\ t.nodes = NodesAfter(v, m)
      /\ OwnStreams(t, "plugin") = OwnStreamsAfter(v.streams, m, "plugin")
  BY <1>0, <1>1, <1>n, AfterIs, OwnStreamsMove
<1>5. t.dom = IF DomRevised(m) THEN m.arg.revision ELSE v.dom
  <2>1. t.dom = IF DomRevised(m) THEN m.arg.revision ELSE s.dom
    BY AfterSteps
  <2> HIDE DEF t, v
  <2> QED
    BY <1>1, <2>1
<1>6. t.ready = (v.ready \/ IsSignal(m, "lifecycle.ready"))
  BY <1>1 DEF After, SessionType
<1> HIDE DEF v, t
<1>8. Mine(t, "plugin") = MineAfter(v, m, "plugin", a)
  BY <1>0, <1>4, <1>5, <1>6 DEF Mine, MineAfter
<1> QED
  BY <1>0, <1>2, <1>3, <1>8 DEF MineOk, v, t

LEMMA MineMoves ==
  ASSUME NEW s \in SessionType, NEW e \in Ends, NEW m \in Letters(e), Accepts(s, m, e), OneOpener,
         \A i \in StreamIds : IsOpen(s, i) => s.streams[i].owner = i[1]
  PROVE  /\ MineOk(Mine(s, e), m, e)
         /\ Mine(After(s, m, e), e) = MineAfter(Mine(s, e), m, e, s.requests[m.id])
<1>1. CASE e = "host"
  BY <1>1, HostMoves
<1>2. CASE e = "plugin"
  BY <1>2, PluginMoves
<1> QED
  BY <1>1, <1>2, TwoEnds

\* ... leaves the other end's part alone, ...
LEMMA MineStays ==
  ASSUME NEW s \in SessionType, NEW d \in Ends, NEW m \in Letters(d), Accepts(s, m, d),
         \A i \in StreamIds : IsOpen(s, i) => s.streams[i].owner = i[1]
  PROVE  Mine(After(s, m, d), Other(d)) = Mine(s, Other(d))
<1> DEFINE t == After(s, m, d)
<1>1. OwnStreams(t, Other(d)) = OwnStreams(s, Other(d))
  BY OwnStreamsStay
<1>2. Authorized(s, m, d)
  BY DEF Accepts
<1>3. ASSUME d = "plugin" PROVE Mine(t, Other(d)) = Mine(s, Other(d))
  <2>1. t.bootstrapped = s.bootstrapped
    <3>1. s.bootstrapped
      BY <1>2, <1>3, PluginSends DEF Accepts, InOrder
    <3>2. s.bootstrapped = TRUE
      BY <3>1 DEF SessionType
    <3> QED
      BY <3>2, AfterIs
  <2>2. t.context = s.context /\ t.released = s.released
    <3>1. /\ t.context = IF IsRequest(m, "runtime.bootstrap") \/ IsRequest(m, "context.update")
                         THEN m.arg.revision ELSE s.context
          /\ t.released = IF IsResult(m, "resource.release") THEN s.released \cup {RequestOf(s, m).arg}
                          ELSE s.released
      BY AfterSteps
    <3> HIDE DEF t
    <3> QED
      BY <1>2, <1>3, <3>1, PluginSends
  <2>3. t.provider = s.provider
    BY <1>2, <1>3, PluginSends, AfterProvider
  <2>4. t.subscriptions = s.subscriptions
    <3>1. t.subscriptions = SubscriptionsAfter(s, m)
      BY AfterIs
    <3> QED
      BY <3>1, <1>2, <1>3, PluginSends DEF SubscriptionsAfter
  <2> HIDE DEF t
  <2> QED
    BY <1>1, <1>3, <2>1, <2>2, <2>3, <2>4, TwoEnds DEF Mine
<1>4. ASSUME d = "host" PROVE Mine(t, Other(d)) = Mine(s, Other(d))
  <2>1. ~DomRevised(m) /\ ~IsSignal(m, "lifecycle.ready")
    BY <1>2, <1>4, HostSends
  <2>2. t.dom = s.dom
    BY <2>1, AfterSteps, ZenonT(30)
  <2>3. t.nodes = s.nodes
    BY <2>1, AfterIs, ZenonT(30) DEF NodesAfter
  <2>4. t.ready = s.ready
    <3>1. t.ready = (s.ready \/ IsSignal(m, "lifecycle.ready")) /\ s.ready \in BOOLEAN
      BY DEF After, SessionType
    <3> HIDE DEF t
    <3>2. (s.ready \/ IsSignal(m, "lifecycle.ready")) = s.ready
      BY <2>1, <3>1, Zenon
    <3> QED
      BY <3>1, <3>2
  <2> HIDE DEF t
  <2> QED
    BY <1>1, <1>4, <2>2, <2>3, <2>4, TwoEnds DEF Mine
<1> QED
  BY <1>3, <1>4, TwoEnds DEF t

\* ... and only of an answer does it matter which request it answers.
LEMMA SameAnswered ==
  ASSUME NEW v, NEW m, NEW e, NEW a, NEW b, IsAnswer(m) => a = b
  PROVE  MineAfter(v, m, e, a) = MineAfter(v, m, e, b)
<1>1. CASE IsAnswer(m)
  BY <1>1
<1>2. CASE ~IsAnswer(m)
  BY <1>2 DEF MineAfter, IsAnswer, IsResult
<1> QED
  BY <1>1, <1>2

\* A request that the other end need not have counted on, or a cancellation, changes nothing.
LEMMA MineIdles ==
  ASSUME NEW s \in SessionType, NEW e \in Ends, NEW m, NEW a, MineOk(Mine(s, e), m, e),
         \/ m.kind = "request" /\ m.method \notin Vital
         \/ Cancels(m)
  PROVE  MineAfter(Mine(s, e), m, e, a) = Mine(s, e)
<1>1. /\ ~IsRequest(m, "runtime.bootstrap") /\ ~IsRequest(m, "context.update")
      /\ ~IsRequest(m, "provider.mount") /\ ~IsRequest(m, "provider.unmount")
      /\ ~IsResult(m, "event.subscribe") /\ ~IsResult(m, "event.unsubscribe")
      /\ ~IsResult(m, "resource.release") /\ ~OwnerSignal(m) /\ ~DomRevised(m)
      /\ ~IsSignal(m, "lifecycle.ready")
  BY DEF Vital, ProviderMethods, IsRequest, IsResult, IsSignal, OwnerSignal, Cancels, DomRevised, Streaming
<1>2. CASE e = "host"
  <2>1. s.bootstrapped = TRUE
    BY <1>1, <1>2 DEF MineOk, Mine, HostOk, SessionType
  <2> QED
    BY <1>1, <1>2, <2>1 DEF MineAfter, Mine, OwnStreamsAfter
<1>3. CASE e = "plugin"
  <2>1. (s.ready \/ IsSignal(m, "lifecycle.ready")) = s.ready
    <3>1. s.ready \in BOOLEAN
      BY DEF SessionType
    <3> QED
      BY <1>1, <3>1, Zenon
  <2> QED
    BY <1>1, <1>3, <2>1 DEF MineAfter, Mine, OwnStreamsAfter, NodesAfter
<1> QED
  BY <1>2, <1>3, TwoEnds

-----------------------------------------------------------------------------
(* The steps. *)

LEMMA PostIs ==
  ASSUME WireTypeOK, NEW e \in Ends
  PROVE  /\ Len(wire[e]) \in Nat /\ DOMAIN wire[e] = Post(e) /\ wire[e] \in Seq(Entries(e))
         /\ \A k \in Post(e) : /\ wire[e][k] \in Entries(e) /\ Msg(e, k) \in Letters(e)
                               /\ wire[e][k].crossed \in BOOLEAN
                               /\ wire[e][k] = [msg |-> Msg(e, k), crossed |-> wire[e][k].crossed]
         /\ wire[e] # <<>> => /\ 1 \in Post(e) /\ Head(wire[e]) = wire[e][1]
                              /\ Tail(wire[e]) \in Seq(Entries(e))
                              /\ Len(Tail(wire[e])) = Len(wire[e]) - 1
                              /\ \A k \in 1..(Len(wire[e]) - 1) : Tail(wire[e])[k] = wire[e][k + 1]
         /\ wire[e] = <<>> => Post(e) = {}
         /\ session[e] \in SessionType /\ session[Other(e)] \in SessionType
<1>1. wire[e] \in Seq(Entries(e))
  BY DEF WireTypeOK
<1>2. /\ Len(wire[e]) \in Nat /\ DOMAIN wire[e] = Post(e)
      /\ \A k \in Post(e) : wire[e][k] \in Entries(e)
  BY <1>1 DEF Post
<1>3. \A k \in Post(e) : /\ Msg(e, k) \in Letters(e) /\ wire[e][k].crossed \in BOOLEAN
                         /\ wire[e][k] = [msg |-> Msg(e, k), crossed |-> wire[e][k].crossed]
  BY <1>2 DEF Entries, Msg
<1>4. wire[e] # <<>> => /\ 1 \in Post(e) /\ Head(wire[e]) = wire[e][1]
                        /\ Tail(wire[e]) \in Seq(Entries(e))
                        /\ Len(Tail(wire[e])) = Len(wire[e]) - 1
                        /\ \A k \in 1..(Len(wire[e]) - 1) : Tail(wire[e])[k] = wire[e][k + 1]
  BY <1>1 DEF Post
<1>5. wire[e] = <<>> => Post(e) = {}
  BY DEF Post
<1>6. session[e] \in SessionType /\ session[Other(e)] \in SessionType
  BY TwoEnds DEF WireTypeOK
<1> QED
  BY <1>1, <1>2, <1>3, <1>4, <1>5, <1>6

LEMMA SendableAreLetters ==
  ASSUME WireTypeOK, NEW e \in Ends, NEW m \in Sendable(e)
  PROVE  m \in Letters(e)
<1>1. \A id \in RequestIds : IsPending(session[e], id) =>
        session[e].requests[id] \in PendingRequest /\ session[e].requests[id].method \in Asking
  BY PostIs DEF IsPending, SessionType, PendingRequest
<1>2. ASSUME NEW id \in NextId(e), NEW r \in Requests[e] \cap methods, NEW a \in RequestArgs(r),
             m = [kind |-> "request", method |-> r, id |-> id, arg |-> a]
      PROVE  m \in Letters(e)
  <2>1. id \in RequestIds /\ id[1] = e
    BY <1>2 DEF NextId
  <2>2. r \in Asking
    BY <1>2, TwoEnds DEF Asking
  <2>3. a \in ArgsFrom(e)
    BY <2>2, <1>2 DEF ArgsFrom
  <2> QED
    BY <1>2, <2>1, <2>2, <2>3 DEF Letters
<1>3. ASSUME NEW id \in RequestIds \cup {None}, NEW r \in Signals[e] \cap methods, NEW a \in SignalArgs(e, r),
             r \in PluginCommand => id \in RequestIds,
             m = [kind |-> "signal", method |-> r, id |-> id, arg |-> a]
      PROVE  m \in Letters(e)
  <2>1. r \in Signalling
    BY <1>3, TwoEnds DEF Signalling
  <2>2. a \in ArgsFrom(e)
    BY <1>3 DEF ArgsFrom
  <2>3. m.kind = "signal" /\ m.method = r /\ m.id = id /\ m.arg = a
    BY <1>3
  <2>4. m \in [kind : {"request", "signal", "result", "error"}, method : Asking \cup Signalling,
               id : RequestIds \cup {None}, arg : ArgsFrom(e)]
    BY <1>3, <2>1, <2>2
  <2> QED
    BY <1>3, <2>3, <2>4 DEF Letters
<1>4. ASSUME NEW id \in Pending(session[e]), NEW r \in {session[e].requests[id].method},
             NEW a \in ResultArgs(r), m = [kind |-> "result", method |-> r, id |-> id, arg |-> a]
      PROVE  m \in Letters(e)
  <2>1. id \in RequestIds /\ r \in Asking
    BY <1>1, <1>4 DEF Pending
  <2>2. a \in ArgsFrom(e)
    BY <2>1, <1>4 DEF ArgsFrom
  <2>3. m.kind = "result" /\ m.method = r /\ m.id = id /\ m.arg = a
    BY <1>4
  <2>4. m \in [kind : {"request", "signal", "result", "error"}, method : Asking \cup Signalling,
               id : RequestIds \cup {None}, arg : ArgsFrom(e)]
    BY <1>4, <2>1, <2>2
  <2> QED
    BY <1>4, <2>1, <2>3, <2>4 DEF Letters
<1>5. ASSUME NEW id \in Pending(session[e]),
             m = [kind |-> "error", method |-> session[e].requests[id].method, id |-> id, arg |-> None]
      PROVE  m \in Letters(e)
  <2>1. id \in RequestIds /\ session[e].requests[id].method \in Asking
    BY <1>1, <1>5 DEF Pending
  <2>3. m.kind = "error" /\ m.id = id
    BY <1>5
  <2>4. m \in [kind : {"request", "signal", "result", "error"}, method : Asking \cup Signalling,
               id : RequestIds \cup {None}, arg : ArgsFrom(e)]
    <3>1. None \in ArgsFrom(e)
      BY DEF ArgsFrom
    <3> QED
      BY <1>5, <2>1, <3>1
  <2> QED
    BY <2>1, <2>3, <2>4 DEF Letters
<1>6. Pending(session[e]) \subseteq RequestIds
  BY DEF Pending
<1>7. ASSUME NEW id \in NextId(e), m \in Messages("request", Requests[e] \cap methods, id, RequestArgs)
      PROVE  m \in Letters(e)
  <2>1. PICK r \in Requests[e] \cap methods : \E a \in RequestArgs(r) :
           m = [kind |-> "request", method |-> r, id |-> id, arg |-> a]
    BY <1>7 DEF Messages
  <2> QED
    BY <1>2, <2>1
<1> DEFINE sigArgs(r) == SignalArgs(e, r)
<1>8. ASSUME m \in Messages("signal", (Signals[e] \ PluginCommand) \cap methods, None, sigArgs)
      PROVE  m \in Letters(e)
  <2>1. PICK r \in (Signals[e] \ PluginCommand) \cap methods : \E a \in SignalArgs(e, r) :
           m = [kind |-> "signal", method |-> r, id |-> None, arg |-> a]
    BY <1>8 DEF Messages
  <2> QED
    BY <1>3, <2>1
<1>9. ASSUME NEW id \in Pending(session[e]),
             m \in Messages("signal", Signals[e] \cap PluginCommand \cap methods, id, sigArgs)
      PROVE  m \in Letters(e)
  <2>1. PICK r \in Signals[e] \cap PluginCommand \cap methods : \E a \in SignalArgs(e, r) :
           m = [kind |-> "signal", method |-> r, id |-> id, arg |-> a]
    BY <1>9 DEF Messages
  <2> QED
    BY <1>3, <1>6, <2>1
<1>10. ASSUME NEW id \in Pending(session[e]),
              m \in Messages("result", {session[e].requests[id].method}, id, ResultArgs)
       PROVE  m \in Letters(e)
  <2>1. PICK r \in {session[e].requests[id].method} : \E a \in ResultArgs(r) :
           m = [kind |-> "result", method |-> r, id |-> id, arg |-> a]
    BY <1>10 DEF Messages
  <2> QED
    BY <1>4, <2>1
<1>11. \/ \E id \in NextId(e) : m \in Messages("request", Requests[e] \cap methods, id, RequestArgs)
       \/ m \in Messages("signal", (Signals[e] \ PluginCommand) \cap methods, None, sigArgs)
       \/ \E id \in Pending(session[e]) :
            m \in Messages("signal", Signals[e] \cap PluginCommand \cap methods, id, sigArgs)
       \/ \E id \in Pending(session[e]) :
            m \in Messages("result", {session[e].requests[id].method}, id, ResultArgs)
       \/ \E id \in Pending(session[e]) :
            m = [kind |-> "error", method |-> session[e].requests[id].method, id |-> id, arg |-> None]
  BY DEF Sendable, Messages
<1> QED
  BY <1>5, <1>7, <1>8, <1>9, <1>10, <1>11

-----------------------------------------------------------------------------
(* A step is a message sent, taken or dropped: e sent m. *)

Owned == \A x \in Ends : \A i \in StreamIds : IsOpen(session[x], i) => session[x].streams[i].owner = i[1]

Grows(e, m) ==
  /\ Len(wire'[e]) = Len(wire[e]) + 1 /\ Len(wire'[Other(e)]) = Len(wire[Other(e)])
  /\ wire'[e] # <<>> /\ (wire'[Other(e)] = <<>> <=> wire[Other(e)] = <<>>)
  /\ \A k \in Post(e) : wire'[e][k] = wire[e][k]
  /\ wire'[e][Len(wire[e]) + 1].msg = m
  /\ wire'[e][Len(wire[e]) + 1].crossed <=> wire[Other(e)] # <<>>
  /\ \A k \in Post(Other(e)) : /\ wire'[Other(e)][k].msg = wire[Other(e)][k].msg
                               /\ wire'[Other(e)][k].crossed = TRUE

Shrinks(e, m) ==
  /\ wire[e] # <<>> /\ 1 \in Post(e) /\ m = Msg(e, 1) /\ wire'[Other(e)] = wire[Other(e)]
  /\ Len(wire'[e]) = Len(wire[e]) - 1
  /\ \A k \in 1..(Len(wire[e]) - 1) : wire'[e][k] = wire[e][k + 1]

Posts(e, m) ==
  /\ m \in Letters(e) /\ Grows(e, m) /\ refused' = refused
  /\ Accepts(session[e], m, e) /\ session'[e] = After(session[e], m, e)
  /\ session'[Other(e)] = session[Other(e)]

Takes(e, m) ==
  /\ m \in Letters(e) /\ Shrinks(e, m) /\ refused' = refused
  /\ Accepts(session[Other(e)], m, e) /\ session'[Other(e)] = After(session[Other(e)], m, e)
  /\ session'[e] = session[e]

Drops(e, m) ==
  /\ m \in Letters(e) /\ Shrinks(e, m) /\ session' = session
  /\ ~Accepts(session[Other(e)], m, e)
  /\ refused' = IF session[Other(e)].closed THEN refused
                ELSE refused \cup {[msg |-> m, crossed |-> wire[e][1].crossed,
                                    full |-> Full(Other(e), m)]}

LEMMA SendPosts ==
  ASSUME WireTypeOK, Owned, NEW e \in Ends, Send(e)
  PROVE  WireTypeOK' /\ \E m \in Letters(e) : Posts(e, m)
<1> DEFINE o == Other(e)
           crossed(w) == [k \in DOMAIN w |-> [w[k] EXCEPT !.crossed = TRUE]]
<1>1. PICK m \in Sendable(e) :
        /\ Accepts(session[e], m, e)
        /\ session' = [session EXCEPT ![e] = After(session[e], m, e)]
        /\ wire' = [x \in Ends |-> IF x = e THEN Append(wire[e], [msg |-> m, crossed |-> wire[o] # <<>>])
                                   ELSE crossed(wire[o])]
        /\ refused' = refused
  BY DEF Send
<1>2. m \in Letters(e)
  BY SendableAreLetters
<1>3. /\ wire[e] \in Seq(Entries(e)) /\ wire[o] \in Seq(Entries(o)) /\ o \in Ends /\ o # e
      /\ Ends = {e, o} /\ Other(o) = e
  BY TwoEnds DEF WireTypeOK
<1>4. wire'[e] = Append(wire[e], [msg |-> m, crossed |-> wire[o] # <<>>]) /\ wire'[o] = crossed(wire[o])
  BY <1>1, <1>3
<1>5. [msg |-> m, crossed |-> wire[o] # <<>>] \in Entries(e)
  BY <1>2 DEF Entries
<1>6. wire'[e] \in Seq(Entries(e))
  BY <1>3, <1>4, <1>5
<1>7. /\ \A k \in Post(o) : /\ crossed(wire[o])[k].msg = wire[o][k].msg
                            /\ crossed(wire[o])[k].crossed = TRUE /\ crossed(wire[o])[k] \in Entries(o)
      /\ Len(crossed(wire[o])) = Len(wire[o]) /\ crossed(wire[o]) \in Seq(Entries(o))
  <2>1. DOMAIN wire[o] = Post(o) /\ \A k \in Post(o) : wire[o][k] \in Entries(o)
    BY <1>3, PostIs
  <2>2. \A k \in Post(o) : /\ crossed(wire[o])[k].msg = wire[o][k].msg
                           /\ crossed(wire[o])[k].crossed = TRUE /\ crossed(wire[o])[k] \in Entries(o)
    BY <2>1 DEF Entries
  <2>3. DOMAIN crossed(wire[o]) = 1..Len(wire[o]) /\ Len(wire[o]) \in Nat
    BY <2>1, <1>3 DEF Post
  <2> HIDE DEF crossed
  <2>4. crossed(wire[o]) \in [1..Len(wire[o]) -> Entries(o)]
    <3>1. crossed(wire[o]) = [k \in DOMAIN wire[o] |-> crossed(wire[o])[k]]
      BY DEF crossed
    <3> QED
      BY <2>1, <2>2, <3>1 DEF Post
  <2>5. crossed(wire[o]) \in Seq(Entries(o))
    BY <2>3, <2>4
  <2>6. Len(crossed(wire[o])) = Len(wire[o])
    BY <2>3, <2>5
  <2> QED
    BY <2>2, <2>5, <2>6
<1> HIDE DEF crossed
<1>8. Grows(e, m)
  <2>1. /\ Len(wire'[e]) = Len(wire[e]) + 1 /\ \A k \in Post(e) : wire'[e][k] = wire[e][k]
        /\ wire'[e][Len(wire[e]) + 1] = [msg |-> m, crossed |-> wire[o] # <<>>]
    BY <1>3, <1>4 DEF Post
  <2>2. /\ wire'[e][Len(wire[e]) + 1].msg = m
        /\ wire'[e][Len(wire[e]) + 1].crossed <=> wire[o] # <<>>
    <3> DEFINE came == wire[o] # <<>>
    <3>1. wire'[e][Len(wire[e]) + 1] = [msg |-> m, crossed |-> came]
      BY <2>1
    <3> HIDE DEF came
    <3>2. wire'[e][Len(wire[e]) + 1].msg = m /\ wire'[e][Len(wire[e]) + 1].crossed = came
      BY <3>1
    <3> QED
      BY <3>2, Zenon DEF came
  <2>3. /\ Len(wire'[o]) = Len(wire[o])
        /\ \A k \in Post(o) : wire'[o][k].msg = wire[o][k].msg /\ wire'[o][k].crossed = TRUE
    BY <1>4, <1>7
  <2>4. wire'[e] # <<>> /\ (wire'[o] = <<>> <=> wire[o] = <<>>)
    <3>1. wire'[e] # <<>>
      BY <1>3, <1>4
    <3>2. wire'[o] \in Seq(Entries(o)) /\ Len(wire'[o]) = Len(wire[o])
      BY <1>4, <1>7
    <3> QED
      BY <1>3, <3>1, <3>2
  <2> QED
    BY <2>1, <2>2, <2>3, <2>4, Zenon DEF Grows
<1>9. session'[e] = After(session[e], m, e) /\ session'[o] = session[o]
  BY <1>1, <1>3 DEF WireTypeOK
<1>10. session' \in [Ends -> SessionType]
  <2>1. After(session[e], m, e) \in SessionType
    BY <1>1, <1>2, AfterTyped DEF WireTypeOK, Owned
  <2> QED
    BY <1>1, <2>1 DEF WireTypeOK
<1>11. wire' \in [Ends -> Seq(Entries("host") \cup Entries("plugin"))]
       /\ \A x \in Ends : wire'[x] \in Seq(Entries(x))
  <2>1. \A x \in Ends : wire'[x] \in Seq(Entries(x))
    BY <1>3, <1>4, <1>6, <1>7
  <2>2. \A x \in Ends : wire'[x] \in Seq(Entries("host") \cup Entries("plugin"))
    BY <2>1, TwoEnds
  <2>3. wire' = [x \in Ends |-> wire'[x]]
    BY <1>1
  <2> QED
    BY <2>1, <2>2, <2>3
<1> QED
  BY <1>1, <1>2, <1>8, <1>9, <1>10, <1>11 DEF WireTypeOK, Posts

LEMMA ReceiveTakes ==
  ASSUME WireTypeOK, Owned, NEW e \in Ends, Receive(Other(e))
  PROVE  WireTypeOK' /\ \E m \in Letters(e) : Takes(e, m) \/ Drops(e, m)
<1> DEFINE o == Other(e)
           m == Msg(e, 1)
<1>1. /\ wire[e] # <<>> /\ wire' = [wire EXCEPT ![e] = Tail(wire[e])]
      /\ \/ /\ Accepts(session[o], Head(wire[e]).msg, e)
            /\ session' = [session EXCEPT ![o] = After(session[o], Head(wire[e]).msg, e)]
            /\ refused' = refused
         \/ /\ ~Accepts(session[o], Head(wire[e]).msg, e)
            /\ refused' = IF session[o].closed THEN refused
                          ELSE refused \cup {[msg |-> Head(wire[e]).msg, crossed |-> Head(wire[e]).crossed,
                                              full |-> Full(o, Head(wire[e]).msg)]}
            /\ session' = session
  BY TwoEnds DEF Receive
<1>2. /\ wire[e] \in Seq(Entries(e)) /\ o \in Ends /\ o # e /\ Ends = {e, o} /\ Other(o) = e
      /\ wire \in [Ends -> Seq(Entries("host") \cup Entries("plugin"))]
      /\ session \in [Ends -> SessionType] /\ wire[o] \in Seq(Entries(o))
  BY TwoEnds DEF WireTypeOK
<1>3. /\ 1 \in Post(e) /\ Head(wire[e]) = wire[e][1] /\ m \in Letters(e)
      /\ Tail(wire[e]) \in Seq(Entries(e)) /\ Len(Tail(wire[e])) = Len(wire[e]) - 1
      /\ \A k \in 1..(Len(wire[e]) - 1) : Tail(wire[e])[k] = wire[e][k + 1]
  BY <1>1, PostIs
<1>4. wire'[e] = Tail(wire[e]) /\ wire'[o] = wire[o]
  BY <1>1, <1>2
<1>5. Shrinks(e, m)
  BY <1>1, <1>3, <1>4 DEF Shrinks
<1>6. /\ wire' \in [Ends -> Seq(Entries("host") \cup Entries("plugin"))]
      /\ \A x \in Ends : wire'[x] \in Seq(Entries(x))
  <2>1. \A x \in Ends : wire'[x] \in Seq(Entries(x))
    BY <1>2, <1>3, <1>4
  <2>2. \A x \in Ends : wire'[x] \in Seq(Entries("host") \cup Entries("plugin"))
    BY <2>1, TwoEnds
  <2>3. wire' = [x \in Ends |-> wire'[x]]
    BY <1>1, <1>2
  <2> QED
    BY <2>1, <2>2, <2>3
<1>7. ASSUME Accepts(session[o], m, e), session' = [session EXCEPT ![o] = After(session[o], m, e)],
             refused' = refused
      PROVE  WireTypeOK' /\ Takes(e, m)
  <2>1. After(session[o], m, e) \in SessionType
    BY <1>7, <1>2, <1>3, AfterTyped DEF Owned
  <2>2. session' \in [Ends -> SessionType]
    BY <1>2, <1>7, <2>1
  <2>3. session'[o] = After(session[o], m, e) /\ session'[e] = session[e]
    BY <1>2, <1>7
  <2> QED
    BY <1>3, <1>5, <1>6, <1>7, <2>2, <2>3 DEF WireTypeOK, Takes
<1>8. ASSUME ~Accepts(session[o], m, e), session' = session,
             refused' = IF session[o].closed THEN refused
                        ELSE refused \cup {[msg |-> m, crossed |-> wire[e][1].crossed, full |-> Full(o, m)]}
      PROVE  WireTypeOK' /\ Drops(e, m)
  BY <1>2, <1>3, <1>5, <1>6, <1>8 DEF WireTypeOK, Drops
<1> QED
  BY <1>1, <1>3, <1>7, <1>8 DEF Msg

-----------------------------------------------------------------------------
(* Requests and answers. *)

LEMMA LetterIs ==
  ASSUME NEW e \in Ends, NEW m \in Letters(e)
  PROVE  /\ m.kind = "request" => m.id \in RequestIds /\ m.id[1] = e /\ Req(m, e) \in PendingRequest
         /\ \A id : AsksFor(m, id) => ~News(m) /\ ~Cancels(m) /\ ~IsAnswer(m)
         /\ News(m) => ~Cancels(m)
         /\ Settles(m) => News(m)
         /\ IsAnswer(m) => Settles(m)
<1>1. m.kind = "request" => m.id \in RequestIds /\ m.id[1] = e /\ Req(m, e) \in PendingRequest
  <2> SUFFICES ASSUME m.kind = "request"
               PROVE  m.id \in RequestIds /\ m.id[1] = e /\ Req(m, e) \in PendingRequest
    OBVIOUS
  <2>1. m.id \in RequestIds /\ m.id[1] = e /\ m.method \in Requests[e] /\ m.arg \in RequestArgs(m.method)
    BY DEF Letters
  <2>2. m.method \in Asking
    BY <2>1, TwoEnds DEF Asking
  <2>3. m.arg \in UNION {RequestArgs(q) : q \in Asking}
    BY <2>1, <2>2
  <2> QED
    BY <2>1, <2>2, <2>3 DEF PendingRequest, Req
<1>2. /\ \A id : AsksFor(m, id) => ~News(m) /\ ~Cancels(m) /\ ~IsAnswer(m)
      /\ News(m) => ~Cancels(m)
      /\ Settles(m) => News(m)
      /\ IsAnswer(m) => Settles(m)
  BY DEF AsksFor, News, Settles, IsAnswer, IsSignal, Cancels
<1> QED
  BY <1>1, <1>2

\* The table of x after a message of e.
Moved(x, m, e) == \A id \in RequestIds :
  session'[x].requests[id] = IF AsksFor(m, id) THEN Req(m, e)
                             ELSE IF Settles(m) /\ m.id = id THEN Used
                             ELSE session[x].requests[id]

LEMMA PostedTable ==
  ASSUME WireTypeOK, NEW e \in Ends, NEW m, Posts(e, m)
  PROVE  /\ Moved(e, m, e) /\ session'[Other(e)].requests = session[Other(e)].requests
         /\ m.kind = "request" => session[e].requests[m.id] = None
         /\ News(m) => /\ m.id \in RequestIds /\ IsPending(session[e], m.id)
                       /\ session[e].requests[m.id].from # e
                       /\ session[e].requests[m.id].method = Of(m)
                       /\ IsAnswer(m) => m.method # "plugin-command.invoke"
         /\ Cancels(m) => /\ m.id \in RequestIds /\ IsPending(session[e], m.id)
                          /\ session[e].requests[m.id].from = e
                          /\ session[e].requests[m.id].method = "plugin-command.invoke"
<1>1. /\ session[e] \in SessionType /\ m \in Letters(e) /\ Accepts(session[e], m, e)
      /\ session'[e] = After(session[e], m, e) /\ session'[Other(e)] = session[Other(e)]
  BY DEF WireTypeOK, Posts
<1>2. session'[e].requests = RequestsAfter(session[e], m, e)
  <2>1. \A s \in SessionType : After(s, m, e).requests = RequestsAfter(s, m, e)
    BY AfterIs
  <2> QED
    BY <1>1, <2>1
<1> QED
  BY <1>1, <1>2, RequestsMove DEF Moved

LEMMA TakenTable ==
  ASSUME WireTypeOK, NEW e \in Ends, NEW m, Takes(e, m)
  PROVE  /\ Moved(Other(e), m, e) /\ session'[e].requests = session[e].requests
         /\ m.kind = "request" => session[Other(e)].requests[m.id] = None
         /\ News(m) => m.id \in RequestIds /\ IsPending(session[Other(e)], m.id)
<1>1. /\ session[Other(e)] \in SessionType /\ m \in Letters(e) /\ Accepts(session[Other(e)], m, e)
      /\ session'[Other(e)] = After(session[Other(e)], m, e) /\ session'[e] = session[e]
  BY TwoEnds DEF WireTypeOK, Takes
<1>2. session'[Other(e)].requests = RequestsAfter(session[Other(e)], m, e)
  <2>1. \A s \in SessionType : After(s, m, e).requests = RequestsAfter(s, m, e)
    BY AfterIs
  <2> QED
    BY <1>1, <2>1
<1> QED
  BY <1>1, <1>2, RequestsMove DEF Moved

LEMMA PendingIs ==
  ASSUME NEW s, NEW id \in RequestIds
  PROVE  /\ IsPending(s, id) <=> s.requests[id] # None /\ s.requests[id] # Used
         /\ s.requests[id] \in PendingRequest => IsPending(s, id)
BY NamesApart DEF IsPending

LEMMA PostedTablesAgree ==
  ASSUME WireTypeOK, NEW e \in Ends, NEW m, Posts(e, m), TablesAgree(e), TablesAgree(Other(e))
  PROVE  TablesAgree(e)' /\ TablesAgree(Other(e))'
<1>1. m \in Letters(e) /\ Other(e) # e /\ Other(Other(e)) = e /\ Other(e) \in Ends
  BY TwoEnds DEF Posts
<1>2. /\ m.kind = "request" => m.id[1] = e /\ m.id \in RequestIds /\ Req(m, e) # None /\ Req(m, e).from = e
      /\ \A id : AsksFor(m, id) => id = m.id /\ m.kind = "request"
      /\ Settles(m) => News(m)
  BY <1>1, LetterIs, NamesApart DEF AsksFor, Req
<1>3. TablesAgree(e)'
  BY <1>1, <1>2, PostedTable, PendingIs, NamesApart, SMTT(30) DEF TablesAgree, Moved
<1>4. TablesAgree(Other(e))'
  BY <1>1, <1>2, PostedTable, PendingIs, NamesApart DEF TablesAgree, Moved
<1> QED
  BY <1>3, <1>4

LEMMA TakenTablesAgree ==
  ASSUME WireTypeOK, NEW e \in Ends, NEW m, Takes(e, m), TablesAgree(e), TablesAgree(Other(e)),
         RequestsFly(e), NewsFly(e)
  PROVE  TablesAgree(e)' /\ TablesAgree(Other(e))'
<1>1. m \in Letters(e) /\ Other(e) # e /\ Other(Other(e)) = e /\ Other(e) \in Ends
      /\ 1 \in Post(e) /\ m = Msg(e, 1)
  BY TwoEnds DEF Takes, Shrinks
<1>2. /\ m.kind = "request" => m.id[1] = e /\ m.id \in RequestIds /\ Req(m, e) # None
      /\ \A id : AsksFor(m, id) => id = m.id /\ m.kind = "request"
      /\ Settles(m) => News(m)
  BY <1>1, LetterIs, NamesApart DEF AsksFor, Req
<1>3. /\ m.kind = "request" => session[e].requests[m.id] = Req(m, e)
      /\ Settles(m) => session[e].requests[m.id] = Used
  BY <1>1, <1>2 DEF RequestsFly, NewsFly
<1>4. TablesAgree(e)'
  BY <1>1, <1>2, <1>3, TakenTable, PendingIs, NamesApart DEF TablesAgree, Moved
<1>5. TablesAgree(Other(e))'
  BY <1>1, <1>2, <1>3, TakenTable, PendingIs, NamesApart, SMTT(30) DEF TablesAgree, Moved
<1> QED
  BY <1>4, <1>5

LEMMA PostedRequestsFly ==
  ASSUME WireTypeOK, NEW e \in Ends, NEW m, Posts(e, m), TablesAgree(e), TablesAgree(Other(e)),
         RequestsFly(e), RequestsFly(Other(e))
  PROVE  RequestsFly(e)' /\ RequestsFly(Other(e))'
<1> DEFINE o == Other(e)
           n == Len(wire[e]) + 1
<1>1. m \in Letters(e) /\ o # e /\ Other(o) = e /\ o \in Ends
  BY TwoEnds DEF Posts
<1>2. /\ Len(wire[e]) \in Nat /\ Len(wire[o]) \in Nat /\ Len(wire'[e]) = n /\ Len(wire'[o]) = Len(wire[o])
      /\ \A k \in Post(e) : wire'[e][k].msg = Msg(e, k) /\ Msg(e, k) \in Letters(e)
      /\ wire'[e][n].msg = m
      /\ \A k \in Post(o) : wire'[o][k].msg = Msg(o, k) /\ Msg(o, k) \in Letters(o)
  BY <1>1, PostIs DEF Posts, Grows, Msg
<1>3. \A k \in Post(e) : Msg(e, k).kind = "request" =>
        /\ Msg(e, k).id \in RequestIds /\ IsPending(session[e], Msg(e, k).id)
        /\ session[e].requests[Msg(e, k).id].from = e /\ session[e].requests[Msg(e, k).id] # None
        /\ session[e].requests[Msg(e, k).id] # Used
  <2> SUFFICES ASSUME NEW k \in Post(e), Msg(e, k).kind = "request"
               PROVE  LET id == Msg(e, k).id
                      IN  /\ id \in RequestIds /\ IsPending(session[e], id)
                          /\ session[e].requests[id].from = e /\ session[e].requests[id] # None
                          /\ session[e].requests[id] # Used
    BY Zenon
  <2>1. /\ Msg(e, k).id \in RequestIds /\ Req(Msg(e, k), e) \in PendingRequest
        /\ session[e].requests[Msg(e, k).id] = Req(Msg(e, k), e)
    BY <1>2, LetterIs DEF RequestsFly
  <2>2. Req(Msg(e, k), e).from = e
    BY DEF Req
  <2> QED
    BY <2>1, <2>2, NamesApart, PendingIs
<1>4. ASSUME NEW k \in 1..n, wire'[e][k].msg.kind = "request"
      PROVE  LET w == wire'[e][k].msg
             IN  /\ session'[e].requests[w.id] = Req(w, e)
                 /\ session'[o].requests[w.id] = None
                 /\ \A j \in 1..n : AsksFor(wire'[e][j].msg, w.id) => j = k
  <2>1. CASE k \in Post(e)
    <3>1. wire'[e][k].msg = Msg(e, k) /\ Msg(e, k).id \in RequestIds
      BY <2>1, <1>2, <1>3, <1>4
    <3>2. ~AsksFor(m, Msg(e, k).id)
      BY <2>1, <3>1, <1>3, <1>4, PostedTable DEF AsksFor
    <3>3. ~(Settles(m) /\ m.id = Msg(e, k).id)
      BY <1>1, <2>1, <3>1, <1>3, <1>4, PostedTable, LetterIs
    <3>4. session'[e].requests[Msg(e, k).id] = Req(Msg(e, k), e)
      BY <3>1, <3>2, <3>3, <2>1, <1>4, PostedTable DEF Moved, RequestsFly
    <3>5. session'[o].requests[Msg(e, k).id] = None
      BY <3>1, <2>1, <1>4, PostedTable DEF RequestsFly
    <3>6. \A j \in 1..n : AsksFor(wire'[e][j].msg, Msg(e, k).id) => j = k
      BY <3>1, <3>2, <2>1, <1>2, <1>4, SMTT(30) DEF RequestsFly, Post
    <3> QED
      BY <3>1, <3>4, <3>5, <3>6
  <2>2. CASE k = n
    <3>1. wire'[e][k].msg = m /\ m.id \in RequestIds /\ m.id[1] = e /\ AsksFor(m, m.id) /\ m.kind = "request"
      BY <2>2, <1>1, <1>2, <1>4, LetterIs DEF AsksFor
    <3>2. session'[e].requests[m.id] = Req(m, e)
      BY <3>1, PostedTable DEF Moved
    <3>3. session[e].requests[m.id] = None
      BY <3>1, PostedTable
    <3>4. session'[o].requests[m.id] = None
      BY <3>1, <3>3, PostedTable DEF TablesAgree
    <3>5. \A j \in Post(e) : ~AsksFor(Msg(e, j), m.id)
      BY <1>3, <3>3 DEF AsksFor
    <3> QED
      BY <3>1, <3>2, <3>4, <3>5, <2>2, <1>2 DEF Post
  <2> QED
    BY <2>1, <2>2, <1>2, SMTT(30) DEF Post
<1>5. RequestsFly(e)'
  BY <1>2, <1>4 DEF RequestsFly, Post, Msg
<1>6. ASSUME NEW k \in Post(o), Msg(o, k).kind = "request"
      PROVE  session'[e].requests[Msg(o, k).id] = None
  <2>1. /\ Msg(o, k).id \in RequestIds /\ Msg(o, k).id[1] = o /\ session[e].requests[Msg(o, k).id] = None
    BY <1>1, <1>2, <1>6, LetterIs DEF RequestsFly
  <2>2. ~AsksFor(m, Msg(o, k).id)
    BY <2>1, <1>1, LetterIs DEF AsksFor
  <2>3. ~(Settles(m) /\ m.id = Msg(o, k).id)
    BY <2>1, <1>1, LetterIs, PostedTable DEF IsPending
  <2> QED
    BY <2>1, <2>2, <2>3, PostedTable DEF Moved
<1>7. RequestsFly(o)'
  BY <1>1, <1>2, <1>6, PostedTable, ZenonT(30) DEF RequestsFly, Post, Msg
<1> QED
  BY <1>5, <1>7

LEMMA TakenRequestsFly ==
  ASSUME WireTypeOK, NEW e \in Ends, NEW m, Takes(e, m), RequestsFly(e), RequestsFly(Other(e)), NewsFly(e)
  PROVE  RequestsFly(e)' /\ RequestsFly(Other(e))'
<1> DEFINE o == Other(e)
           n == Len(wire[e]) - 1
<1>1. m \in Letters(e) /\ o # e /\ Other(o) = e /\ o \in Ends /\ 1 \in Post(e) /\ m = Msg(e, 1)
  BY TwoEnds DEF Takes, Shrinks
<1>2. /\ Len(wire[e]) \in Nat /\ Len(wire'[e]) = n /\ wire'[o] = wire[o]
      /\ \A k \in 1..n : wire'[e][k].msg = Msg(e, k + 1) /\ k + 1 \in Post(e) /\ k + 1 # 1
      /\ \A k \in Post(e) : Msg(e, k) \in Letters(e)
      /\ \A k \in Post(o) : Msg(o, k) \in Letters(o)
  <2>1. Len(wire[e]) \in Nat /\ \A k \in Post(e) : Msg(e, k) \in Letters(e)
    BY PostIs
  <2>2. \A k \in Post(o) : Msg(o, k) \in Letters(o)
    BY <1>1, PostIs
  <2> QED
    BY <2>1, <2>2 DEF Takes, Shrinks, Msg, Post
<1>3. ASSUME NEW k \in Post(e), k # 1, Msg(e, k).kind = "request"
      PROVE  session'[o].requests[Msg(e, k).id] = None
  <2>1. Msg(e, k).id \in RequestIds /\ session[o].requests[Msg(e, k).id] = None
    BY <1>2, <1>3, LetterIs DEF RequestsFly
  <2>2. ~AsksFor(m, Msg(e, k).id)
    BY <1>1, <1>3 DEF RequestsFly
  <2>3. ~(Settles(m) /\ m.id = Msg(e, k).id)
    BY <2>1, <1>1, LetterIs, TakenTable DEF IsPending
  <2> QED
    BY <2>1, <2>2, <2>3, TakenTable DEF Moved
<1>4. RequestsFly(e)'
  <2>1. ASSUME NEW k \in 1..n, wire'[e][k].msg.kind = "request"
        PROVE  LET w == wire'[e][k].msg
               IN  /\ session'[e].requests[w.id] = Req(w, e)
                   /\ session'[o].requests[w.id] = None
                   /\ \A j \in 1..n : AsksFor(wire'[e][j].msg, w.id) => j = k
    <3>1. wire'[e][k].msg = Msg(e, k + 1) /\ k + 1 \in Post(e) /\ Msg(e, k + 1).kind = "request" /\ k + 1 # 1
      BY <1>2, <2>1
    <3>2. /\ session'[e].requests[Msg(e, k + 1).id] = Req(Msg(e, k + 1), e)
          /\ \A j \in Post(e) : AsksFor(Msg(e, j), Msg(e, k + 1).id) => j = k + 1
      BY <3>1, TakenTable DEF RequestsFly
    <3>3. \A j \in 1..n : AsksFor(wire'[e][j].msg, Msg(e, k + 1).id) => j = k
      BY <1>2, <3>2
    <3> QED
      BY <3>1, <3>2, <3>3, <1>3
  <2> QED
    BY <1>2, <2>1 DEF RequestsFly, Post, Msg
<1>5. ASSUME NEW k \in Post(o), Msg(o, k).kind = "request"
      PROVE  session'[o].requests[Msg(o, k).id] = Req(Msg(o, k), o)
  <2>1. /\ Msg(o, k).id \in RequestIds /\ Msg(o, k).id[1] = o
        /\ session[o].requests[Msg(o, k).id] = Req(Msg(o, k), o)
        /\ session[e].requests[Msg(o, k).id] = None
    BY <1>1, <1>2, <1>5, LetterIs DEF RequestsFly
  <2>2. ~AsksFor(m, Msg(o, k).id)
    BY <2>1, <1>1, LetterIs DEF AsksFor
  <2>3. ~(Settles(m) /\ m.id = Msg(o, k).id)
    BY <2>1, <1>1, LetterIs, NamesApart DEF NewsFly
  <2> QED
    BY <2>1, <2>2, <2>3, TakenTable DEF Moved
<1>6. RequestsFly(o)'
  BY <1>1, <1>2, <1>5, TakenTable, SMTT(30) DEF RequestsFly, Post, Msg
<1> QED
  BY <1>4, <1>6

LEMMA DroppedRequestsFly ==
  ASSUME WireTypeOK, NEW e \in Ends, NEW m, Drops(e, m), RequestsFly(e), RequestsFly(Other(e))
  PROVE  RequestsFly(e)' /\ RequestsFly(Other(e))'
<1> DEFINE n == Len(wire[e]) - 1
<1>1. /\ Len(wire[e]) \in Nat /\ Len(wire'[e]) = n /\ wire'[Other(e)] = wire[Other(e)] /\ session' = session
      /\ \A k \in 1..n : wire'[e][k].msg = wire[e][k + 1].msg /\ k + 1 \in 1..Len(wire[e])
  BY PostIs DEF Drops, Shrinks, Post
<1>2. ASSUME NEW k \in 1..n, wire'[e][k].msg.kind = "request"
      PROVE  LET w == wire'[e][k].msg
             IN  /\ session'[e].requests[w.id] = Req(w, e)
                 /\ session'[Other(e)].requests[w.id] = None
                 /\ \A j \in 1..n : AsksFor(wire'[e][j].msg, w.id) => j = k
  <2>1. wire'[e][k].msg = Msg(e, k + 1) /\ k + 1 \in Post(e) /\ Msg(e, k + 1).kind = "request"
    BY <1>1, <1>2 DEF Msg, Post
  <2>2. /\ session[e].requests[Msg(e, k + 1).id] = Req(Msg(e, k + 1), e)
        /\ session[Other(e)].requests[Msg(e, k + 1).id] = None
        /\ \A j \in Post(e) : AsksFor(Msg(e, j), Msg(e, k + 1).id) => j = k + 1
    BY <2>1 DEF RequestsFly
  <2>3. \A j \in 1..n : AsksFor(wire'[e][j].msg, Msg(e, k + 1).id) => j = k
    BY <1>1, <2>2, SMTT(30) DEF Msg, Post
  <2> QED
    BY <1>1, <2>1, <2>2, <2>3
<1>4. RequestsFly(e)'
  BY <1>1, <1>2 DEF RequestsFly, Post, Msg
<1>3. RequestsFly(Other(e))'
  BY <1>1 DEF RequestsFly, Post, Msg
<1> QED
  BY <1>3, <1>4

LEMMA GrowIs ==
  ASSUME WireTypeOK, NEW e \in Ends, NEW m, Grows(e, m)
  PROVE  LET o == Other(e)
             n == Len(wire[e]) + 1
         IN  /\ Len(wire[e]) \in Nat /\ Len(wire[o]) \in Nat /\ Len(wire'[e]) = n /\ Len(wire'[o]) = Len(wire[o])
             /\ \A k \in Post(e) : wire'[e][k].msg = Msg(e, k) /\ Msg(e, k) \in Letters(e)
             /\ wire'[e][n].msg = m
             /\ \A k \in Post(o) : wire'[o][k].msg = Msg(o, k) /\ Msg(o, k) \in Letters(o)
             /\ \A k \in 1..n : k \in Post(e) \/ k = n
<1>1. Other(e) \in Ends
  BY TwoEnds
<1>2. /\ Len(wire[e]) \in Nat /\ Len(wire[Other(e)]) \in Nat
      /\ \A k \in Post(e) : Msg(e, k) \in Letters(e)
      /\ \A k \in Post(Other(e)) : Msg(Other(e), k) \in Letters(Other(e))
  BY <1>1, PostIs
<1> QED
  BY <1>2 DEF Grows, Msg, Post

LEMMA ShrinkIs ==
  ASSUME WireTypeOK, NEW e \in Ends, NEW m, Shrinks(e, m)
  PROVE  LET o == Other(e)
             n == Len(wire[e]) - 1
         IN  /\ Len(wire[e]) \in Nat /\ Len(wire'[e]) = n /\ wire'[o] = wire[o] /\ Len(wire[o]) \in Nat
             /\ \A k \in 1..n : wire'[e][k].msg = Msg(e, k + 1) /\ k + 1 \in Post(e) /\ k + 1 # 1
             /\ \A k \in Post(e) : Msg(e, k) \in Letters(e)
             /\ \A k \in Post(o) : Msg(o, k) \in Letters(o)
             /\ \A k \in Post(e) : k # 1 => k - 1 \in 1..n
<1>1. Other(e) \in Ends
  BY TwoEnds
<1>2. /\ Len(wire[e]) \in Nat /\ Len(wire[Other(e)]) \in Nat
      /\ \A k \in Post(e) : Msg(e, k) \in Letters(e)
      /\ \A k \in Post(Other(e)) : Msg(Other(e), k) \in Letters(Other(e))
  BY <1>1, PostIs
<1> QED
  BY <1>2 DEF Shrinks, Msg, Post

LEMMA PostedNewsFly ==
  ASSUME WireTypeOK, NEW e \in Ends, NEW m, Posts(e, m), TablesAgree(e), TablesAgree(Other(e)),
         NewsFly(e), NewsFly(Other(e))
  PROVE  NewsFly(e)' /\ NewsFly(Other(e))'
<1> DEFINE o == Other(e)
           n == Len(wire[e]) + 1
<1>1. m \in Letters(e) /\ o # e /\ Other(o) = e /\ o \in Ends /\ Grows(e, m) /\ Ends = {e, o}
  BY TwoEnds DEF Posts
<1>2. /\ Len(wire[e]) \in Nat /\ Len(wire[o]) \in Nat /\ Len(wire'[e]) = n /\ Len(wire'[o]) = Len(wire[o])
      /\ \A k \in Post(e) : wire'[e][k].msg = Msg(e, k) /\ Msg(e, k) \in Letters(e)
      /\ wire'[e][n].msg = m
      /\ \A k \in Post(o) : wire'[o][k].msg = Msg(o, k) /\ Msg(o, k) \in Letters(o)
      /\ \A k \in 1..n : k \in Post(e) \/ k = n
  BY <1>1, GrowIs
<1>3. ASSUME NEW k \in 1..n, News(wire'[e][k].msg)
      PROVE  LET w == wire'[e][k].msg
             IN  /\ w.id \in RequestIds /\ w.id[1] = o
                 /\ IsPending(session[o], w.id) /\ session[o].requests[w.id].method = Of(w)
                 /\ IsAnswer(w) => w.method # "plugin-command.invoke"
                 /\ Settles(w) => session'[e].requests[w.id] = Used
                 /\ \A j \in 1..n : Settles(wire'[e][j].msg) /\ wire'[e][j].msg.id = w.id => k <= j
  <2>1. CASE k \in Post(e)
    <3>1. wire'[e][k].msg = Msg(e, k)
      BY <2>1, <1>2
    <3>2. /\ Msg(e, k).id \in RequestIds /\ Msg(e, k).id[1] = o
          /\ IsPending(session[o], Msg(e, k).id)
          /\ session[o].requests[Msg(e, k).id].method = Of(Msg(e, k))
          /\ IsAnswer(Msg(e, k)) => Msg(e, k).method # "plugin-command.invoke"
          /\ Settles(Msg(e, k)) => session[e].requests[Msg(e, k).id] = Used
          /\ \A j \in Post(e) : Settles(Msg(e, j)) /\ Msg(e, j).id = Msg(e, k).id => k <= j
      BY <2>1, <3>1, <1>3 DEF NewsFly
    <3>3. ~AsksFor(m, Msg(e, k).id)
      BY <1>1, <3>2, LetterIs DEF AsksFor
    <3>4. Settles(Msg(e, k)) => session'[e].requests[Msg(e, k).id] = Used
      BY <3>2, <3>3, PostedTable DEF Moved
    <3>5. \A j \in 1..n : Settles(wire'[e][j].msg) /\ wire'[e][j].msg.id = Msg(e, k).id => k <= j
      BY <1>2, <3>2, <2>1 DEF Post
    <3> QED
      BY <3>1, <3>2, <3>4, <3>5
  <2>2. CASE k = n
    <3>1. /\ wire'[e][k].msg = m /\ News(m) /\ m.id \in RequestIds /\ IsPending(session[e], m.id)
          /\ session[e].requests[m.id].from # e /\ session[e].requests[m.id].method = Of(m)
          /\ IsAnswer(m) => m.method # "plugin-command.invoke"
      BY <2>2, <1>2, <1>3, PostedTable
    <3>2. m.id[1] = o
      <4>1. m.id[1] \in Ends
        BY <3>1 DEF RequestIds
      <4> QED
        BY <4>1, <1>1, <3>1 DEF TablesAgree
    <3>3. session[o].requests[m.id] = session[e].requests[m.id]
      BY <1>1, <3>1, <3>2 DEF TablesAgree
    <3>4. IsPending(session[o], m.id)
      BY <3>1, <3>3, PendingIs
    <3>5. Settles(m) => session'[e].requests[m.id] = Used
      BY <1>1, <3>1, LetterIs, PostedTable DEF Moved
    <3>6. \A j \in 1..n : Settles(wire'[e][j].msg) /\ wire'[e][j].msg.id = m.id => k <= j
      <4> SUFFICES ASSUME NEW j \in Post(e), Settles(Msg(e, j)), Msg(e, j).id = m.id PROVE FALSE
        BY <1>2, <2>2 DEF Post
      <4>1. session[e].requests[m.id] = Used
        BY <1>2, LetterIs DEF NewsFly
      <4> QED
        BY <4>1, <3>1, PendingIs
    <3> QED
      BY <3>1, <3>2, <3>3, <3>4, <3>5, <3>6
  <2> QED
    BY <2>1, <2>2, <1>2
<1>4. session'[o] = session[o]
  BY DEF Posts
<1>5. NewsFly(e)'
  BY <1>2, <1>3, <1>4 DEF NewsFly, Post, Msg
<1>6. ASSUME NEW k \in Post(o), News(Msg(o, k))
      PROVE  /\ IsPending(session'[e], Msg(o, k).id)
             /\ session'[e].requests[Msg(o, k).id] = session[e].requests[Msg(o, k).id]
  <2>1. Msg(o, k).id \in RequestIds /\ Msg(o, k).id[1] = e /\ IsPending(session[e], Msg(o, k).id)
    BY <1>1, <1>6 DEF NewsFly
  <2>2. ~AsksFor(m, Msg(o, k).id)
    BY <2>1, PostedTable DEF AsksFor, IsPending
  <2>3. ~(Settles(m) /\ m.id = Msg(o, k).id)
    BY <2>1, <1>1, LetterIs, PostedTable DEF TablesAgree
  <2>4. session'[e].requests[Msg(o, k).id] = session[e].requests[Msg(o, k).id]
    BY <2>1, <2>2, <2>3, PostedTable DEF Moved
  <2> QED
    BY <2>1, <2>4, PendingIs
<1>7. ASSUME NEW k \in Post(o), News(Msg(o, k))
      PROVE  LET w == Msg(o, k)
             IN  /\ w.id \in RequestIds /\ w.id[1] = e
                 /\ IsPending(session'[e], w.id) /\ session'[e].requests[w.id].method = Of(w)
                 /\ IsAnswer(w) => w.method # "plugin-command.invoke"
                 /\ Settles(w) => session'[o].requests[w.id] = Used
                 /\ \A j \in Post(o) : Settles(Msg(o, j)) /\ Msg(o, j).id = w.id => k <= j
  BY <1>1, <1>4, <1>6, <1>7 DEF NewsFly
<1>8. NewsFly(o)'
  BY <1>1, <1>2, <1>7, ZenonT(30) DEF NewsFly, Post, Msg
<1> QED
  BY <1>5, <1>8

LEMMA TakenNewsFly ==
  ASSUME WireTypeOK, NEW e \in Ends, NEW m, Takes(e, m), NewsFly(e), NewsFly(Other(e))
  PROVE  NewsFly(e)' /\ NewsFly(Other(e))'
<1> DEFINE o == Other(e)
           n == Len(wire[e]) - 1
<1>1. /\ m \in Letters(e) /\ o # e /\ Other(o) = e /\ o \in Ends /\ 1 \in Post(e) /\ m = Msg(e, 1)
      /\ Shrinks(e, m) /\ session'[e] = session[e]
  BY TwoEnds DEF Takes, Shrinks
<1>2. /\ Len(wire[e]) \in Nat /\ Len(wire'[e]) = n /\ wire'[o] = wire[o] /\ Len(wire[o]) \in Nat
      /\ \A k \in 1..n : wire'[e][k].msg = Msg(e, k + 1) /\ k + 1 \in Post(e) /\ k + 1 # 1
      /\ \A k \in Post(e) : Msg(e, k) \in Letters(e)
      /\ \A k \in Post(o) : Msg(o, k) \in Letters(o)
  BY <1>1, ShrinkIs
<1>3. ASSUME NEW k \in 1..n, News(wire'[e][k].msg)
      PROVE  LET w == wire'[e][k].msg
             IN  /\ w.id \in RequestIds /\ w.id[1] = o
                 /\ IsPending(session'[o], w.id) /\ session'[o].requests[w.id].method = Of(w)
                 /\ IsAnswer(w) => w.method # "plugin-command.invoke"
                 /\ Settles(w) => session[e].requests[w.id] = Used
                 /\ \A j \in 1..n : Settles(wire'[e][j].msg) /\ wire'[e][j].msg.id = w.id => k <= j
  <2> DEFINE w == Msg(e, k + 1)
  <2>1. wire'[e][k].msg = w /\ k + 1 \in Post(e) /\ News(w) /\ k \in Nat /\ k >= 1
    BY <1>2, <1>3
  <2>2. /\ w.id \in RequestIds /\ w.id[1] = o /\ IsPending(session[o], w.id)
        /\ session[o].requests[w.id].method = Of(w)
        /\ IsAnswer(w) => w.method # "plugin-command.invoke"
        /\ Settles(w) => session[e].requests[w.id] = Used
        /\ \A j \in Post(e) : Settles(Msg(e, j)) /\ Msg(e, j).id = w.id => k + 1 <= j
    BY <2>1 DEF NewsFly
  <2>3. ~AsksFor(m, w.id)
    BY <1>1, <2>2, LetterIs DEF AsksFor
  <2>4. ~(Settles(m) /\ m.id = w.id)
    BY <1>1, <2>1, <2>2
  <2>5. session'[o].requests[w.id] = session[o].requests[w.id]
    BY <2>2, <2>3, <2>4, TakenTable DEF Moved
  <2>6. IsPending(session'[o], w.id)
    BY <2>2, <2>5, PendingIs
  <2>7. \A j \in 1..n : Settles(wire'[e][j].msg) /\ wire'[e][j].msg.id = w.id => k <= j
    BY <1>2, <2>1, <2>2
  <2> HIDE DEF w
  <2> QED
    BY <2>1, <2>2, <2>5, <2>6, <2>7
<1>5. NewsFly(e)'
  BY <1>1, <1>2, <1>3 DEF NewsFly, Post, Msg
<1>6. ASSUME NEW k \in Post(o), News(Msg(o, k)), Settles(Msg(o, k))
      PROVE  session'[o].requests[Msg(o, k).id] = Used
  <2>1. /\ Msg(o, k).id \in RequestIds /\ Msg(o, k).id[1] = e /\ IsPending(session[e], Msg(o, k).id)
        /\ session[o].requests[Msg(o, k).id] = Used
    BY <1>1, <1>6 DEF NewsFly
  <2>2. ~AsksFor(m, Msg(o, k).id)
    BY <2>1, TakenTable, NamesApart DEF AsksFor
  <2> QED
    BY <2>1, <2>2, TakenTable DEF Moved
<1>7. NewsFly(o)'
  <2>1. ASSUME NEW k \in Post(o), News(Msg(o, k))
        PROVE  LET w == Msg(o, k)
               IN  /\ w.id \in RequestIds /\ w.id[1] = e /\ IsPending(session[e], w.id)
                   /\ session[e].requests[w.id].method = Of(w)
                   /\ IsAnswer(w) => w.method # "plugin-command.invoke"
                   /\ Settles(w) => session'[o].requests[w.id] = Used
                   /\ \A j \in Post(o) : Settles(Msg(o, j)) /\ Msg(o, j).id = w.id => k <= j
    BY <1>1, <1>6, <2>1 DEF NewsFly
  <2>2. Len(wire'[o]) = Len(wire[o]) /\ \A k \in Post(o) : wire'[o][k].msg = Msg(o, k)
    BY <1>2 DEF Msg
  <2>3. \A k \in 1..Len(wire'[o]) : News(wire'[o][k].msg) =>
          LET w == wire'[o][k].msg
          IN  /\ w.id \in RequestIds /\ w.id[1] = e /\ IsPending(session'[e], w.id)
              /\ session'[e].requests[w.id].method = Of(w)
              /\ IsAnswer(w) => w.method # "plugin-command.invoke"
              /\ Settles(w) => session'[o].requests[w.id] = Used
              /\ \A j \in 1..Len(wire'[o]) : Settles(wire'[o][j].msg) /\ wire'[o][j].msg.id = w.id => k <= j
    BY <1>1, <2>1, <2>2, SMTT(30) DEF Post
  <2> QED
    BY <1>1, <2>3, Zenon DEF NewsFly, Post, Msg
<1> QED
  BY <1>5, <1>7

LEMMA DroppedNewsFly ==
  ASSUME WireTypeOK, NEW e \in Ends, NEW m, Drops(e, m), NewsFly(e), NewsFly(Other(e))
  PROVE  NewsFly(e)' /\ NewsFly(Other(e))'
<1> DEFINE o == Other(e)
           n == Len(wire[e]) - 1
<1>1. o # e /\ Other(o) = e /\ o \in Ends /\ Shrinks(e, m) /\ session' = session
  BY TwoEnds DEF Drops
<1>2. /\ Len(wire[e]) \in Nat /\ Len(wire'[e]) = n /\ wire'[o] = wire[o] /\ Len(wire[o]) \in Nat
      /\ \A k \in 1..n : wire'[e][k].msg = Msg(e, k + 1) /\ k + 1 \in Post(e) /\ k + 1 # 1
  BY <1>1, ShrinkIs
<1>3. ASSUME NEW k \in 1..n, News(wire'[e][k].msg)
      PROVE  LET w == wire'[e][k].msg
             IN  /\ w.id \in RequestIds /\ w.id[1] = o
                 /\ IsPending(session[o], w.id) /\ session[o].requests[w.id].method = Of(w)
                 /\ IsAnswer(w) => w.method # "plugin-command.invoke"
                 /\ Settles(w) => session[e].requests[w.id] = Used
                 /\ \A j \in 1..n : Settles(wire'[e][j].msg) /\ wire'[e][j].msg.id = w.id => k <= j
  <2> DEFINE w == Msg(e, k + 1)
  <2>1. wire'[e][k].msg = w /\ k + 1 \in Post(e) /\ News(w) /\ k \in Nat /\ k >= 1
    BY <1>2, <1>3
  <2>2. /\ w.id \in RequestIds /\ w.id[1] = o /\ IsPending(session[o], w.id)
        /\ session[o].requests[w.id].method = Of(w)
        /\ IsAnswer(w) => w.method # "plugin-command.invoke"
        /\ Settles(w) => session[e].requests[w.id] = Used
        /\ \A j \in Post(e) : Settles(Msg(e, j)) /\ Msg(e, j).id = w.id => k + 1 <= j
    BY <2>1 DEF NewsFly
  <2>7. \A j \in 1..n : Settles(wire'[e][j].msg) /\ wire'[e][j].msg.id = w.id => k <= j
    <3> SUFFICES ASSUME NEW j \in 1..n, Settles(wire'[e][j].msg), wire'[e][j].msg.id = w.id PROVE k <= j
      OBVIOUS
    <3>1. j + 1 \in Post(e) /\ wire'[e][j].msg = Msg(e, j + 1) /\ j \in Nat
      BY <1>2
    <3>2. k + 1 <= j + 1
      BY <2>2, <3>1
    <3> QED
      BY <2>1, <3>1, <3>2
  <2> HIDE DEF w
  <2> QED
    BY <2>1, <2>2, <2>7
<1>5. NewsFly(e)'
  BY <1>1, <1>2, <1>3 DEF NewsFly, Post, Msg
<1>7. NewsFly(o)'
  BY <1>1, <1>2 DEF NewsFly, Post, Msg
<1> QED
  BY <1>5, <1>7

-----------------------------------------------------------------------------
(* Cancellations, and where a request is. *)

LEMMA Reopens ==
  ASSUME WireTypeOK, NEW e \in Ends, NEW m, Posts(e, m) \/ Takes(e, m) \/ Drops(e, m)
  PROVE  /\ \A x \in Ends : session[x].closed => session'[x].closed
         /\ BothOpen' => BothOpen
<1>1. \A x \in Ends : x = e \/ x = Other(e)
  BY TwoEnds
<1>2. \A s \in SessionType : s.closed => After(s, m, e).closed
  BY AfterFlags
<1>3. \A x \in Ends : session[x].closed => session'[x].closed
  BY <1>1, <1>2 DEF Posts, Takes, Drops, WireTypeOK
<1> QED
  BY <1>3 DEF BothOpen

LEMMA DroppedIs ==
  ASSUME NEW e \in Ends, NEW m, Drops(e, m), ~session[Other(e)].closed
  PROVE  \E r \in refused' : /\ r.msg = m /\ r.crossed = wire[e][1].crossed
                             /\ r.full => Full(Other(e), m)
<1> DEFINE full == Full(Other(e), m)
           r == [msg |-> m, crossed |-> wire[e][1].crossed, full |-> full]
<1>1. r \in refused'
  BY DEF Drops
<1> HIDE DEF full
<1>2. r.msg = m /\ r.crossed = wire[e][1].crossed /\ r.full = full
  OBVIOUS
<1> HIDE DEF r
<1>3. r.full => Full(Other(e), m)
  BY <1>2, Zenon DEF full
<1> QED
  BY <1>1, <1>2, <1>3, Zenon

LEMMA PostedCancelsFly ==
  ASSUME WireTypeOK, NEW e \in Ends, NEW m, Posts(e, m), TablesAgree(e), TablesAgree(Other(e)),
         CancelsFly(e), CancelsFly(Other(e)), Accounted(e), Races, NoneTooMany
  PROVE  CancelsFly(e)' /\ CancelsFly(Other(e))'
<1> DEFINE o == Other(e)
           n == Len(wire[e]) + 1
<1>1. m \in Letters(e) /\ o # e /\ Other(o) = e /\ o \in Ends /\ Grows(e, m) /\ Ends = {e, o}
  BY TwoEnds DEF Posts
<1>2. /\ Len(wire[e]) \in Nat /\ Len(wire[o]) \in Nat /\ Len(wire'[e]) = n /\ Len(wire'[o]) = Len(wire[o])
      /\ \A k \in Post(e) : wire'[e][k].msg = Msg(e, k) /\ Msg(e, k) \in Letters(e)
      /\ wire'[e][n].msg = m
      /\ \A k \in Post(o) : wire'[o][k].msg = Msg(o, k) /\ Msg(o, k) \in Letters(o)
      /\ \A k \in 1..n : k \in Post(e) \/ k = n
  BY <1>1, GrowIs
<1>3. /\ \A k \in Post(e) : wire'[e][k].crossed = wire[e][k].crossed
      /\ wire'[e][n].crossed <=> wire[o] # <<>>
      /\ \A k \in Post(o) : wire'[o][k].crossed
      /\ session'[o] = session[o] /\ ~session[e].closed
  BY DEF Posts, Grows, Accepts
<1>4. ASSUME NEW k \in 1..n, Cancels(wire'[e][k].msg)
      PROVE  LET w == wire'[e][k].msg
             IN  /\ w.id[1] = e /\ session'[e].requests[w.id] # None
                 /\ \A j \in 1..n : AsksFor(wire'[e][j].msg, w.id) => j < k
                 /\ ~wire'[e][k].crossed /\ ~session[o].closed =>
                      /\ IsPending(session'[e], w.id)
                      /\ session'[e].requests[w.id].method = "plugin-command.invoke"
                      /\ \/ IsPending(session[o], w.id)
                         \/ \E j \in 1..n : AsksFor(wire'[e][j].msg, w.id)
  <2>1. CASE k \in Post(e)
    <3> DEFINE w == Msg(e, k)
    <3>1. wire'[e][k].msg = w /\ w \in Letters(e) /\ Cancels(w)
      BY <2>1, <1>2, <1>4
    <3>2. w.id \in RequestIds
      BY <3>1 DEF Letters, Cancels, IsSignal, PluginCommand
    <3>3. /\ w.id[1] = e /\ session[e].requests[w.id] # None
          /\ \A j \in Post(e) : AsksFor(Msg(e, j), w.id) => j < k
          /\ ~wire[e][k].crossed /\ ~session[o].closed =>
               /\ IsPending(session[e], w.id)
               /\ session[e].requests[w.id].method = "plugin-command.invoke"
               /\ IsPending(session[o], w.id) \/ \E j \in Post(e) : AsksFor(Msg(e, j), w.id)
      BY <2>1, <3>1 DEF CancelsFly
    <3>4. ~AsksFor(m, w.id)
      BY <3>3, PostedTable DEF AsksFor
    <3>5. session'[e].requests[w.id] = IF Settles(m) /\ m.id = w.id THEN Used ELSE session[e].requests[w.id]
      BY <3>2, <3>4, PostedTable DEF Moved
    <3>6. IsPending(session[e], w.id) => ~(Settles(m) /\ m.id = w.id)
      BY <1>1, <3>2, <3>3, LetterIs, PostedTable DEF TablesAgree
    <3>7. /\ session'[e].requests[w.id] # None
          /\ IsPending(session[e], w.id) => /\ session'[e].requests[w.id] = session[e].requests[w.id]
                                            /\ IsPending(session'[e], w.id)
      BY <3>2, <3>3, <3>5, <3>6, PendingIs, NamesApart
    <3>8. \A j \in 1..n : AsksFor(wire'[e][j].msg, w.id) => j < k
      BY <1>2, <3>3, <3>4
    <3>9. (\E j \in Post(e) : AsksFor(Msg(e, j), w.id)) => \E j \in 1..n : AsksFor(wire'[e][j].msg, w.id)
      BY <1>2 DEF Post
    <3> HIDE DEF w
    <3> QED
      BY <2>1, <1>3, <3>1, <3>3, <3>7, <3>8, <3>9
  <2>2. CASE k = n
    <3>1. /\ wire'[e][k].msg = m /\ Cancels(m) /\ m.id \in RequestIds /\ IsPending(session[e], m.id)
          /\ session[e].requests[m.id].from = e
          /\ session[e].requests[m.id].method = "plugin-command.invoke"
      BY <2>2, <1>2, <1>4, PostedTable
    <3>2. m.id[1] = e
      <4>1. m.id[1] \in Ends
        BY <3>1 DEF RequestIds
      <4>2. ASSUME m.id[1] = o PROVE FALSE
        <5>1. session[o].requests[m.id] = session[e].requests[m.id]
          BY <1>1, <3>1, <4>2 DEF TablesAgree
        <5>2. IsPending(session[o], m.id)
          BY <5>1, <3>1, PendingIs
        <5> QED
          BY <1>1, <3>1, <4>2, <5>1, <5>2 DEF TablesAgree
      <4> QED
        BY <1>1, <4>1, <4>2
    <3>3. ~AsksFor(m, m.id) /\ ~Settles(m)
      BY <1>1, <3>1, LetterIs
    <3>4. session'[e].requests[m.id] = session[e].requests[m.id]
      BY <3>1, <3>3, PostedTable DEF Moved
    <3>5. IsPending(session'[e], m.id) /\ session'[e].requests[m.id] # None
      BY <3>1, <3>4, PendingIs
    <3>6. \A j \in 1..n : AsksFor(wire'[e][j].msg, m.id) => j < n
      BY <1>2, <3>3 DEF Post
    <3>7. ASSUME ~wire'[e][k].crossed, ~session[o].closed
          PROVE  IsPending(session[o], m.id) \/ \E j \in 1..n : AsksFor(wire'[e][j].msg, m.id)
      <4>1. wire[o] = <<>> /\ BothOpen
        BY <2>2, <1>1, <1>3, <3>7 DEF BothOpen
      <4>2. Post(o) = {}
        BY <1>1, <4>1, PostIs
      <4>3. \/ \E j \in Post(e) : AsksFor(Msg(e, j), m.id)
            \/ IsPending(session[o], m.id)
            \/ \E r \in refused : AsksFor(r.msg, m.id) /\ r.msg.method = "plugin-command.invoke"
        BY <3>1, <3>2, <4>1, <4>2 DEF Accounted
      <4>4. ASSUME NEW r \in refused, r.msg.method = "plugin-command.invoke" PROVE FALSE
        BY <4>4 DEF Races, NoneTooMany, Racing, Vital
      <4> QED
        BY <1>2, <4>3, <4>4, SMTT(30) DEF Post
    <3> QED
      BY <2>2, <3>1, <3>2, <3>4, <3>5, <3>6, <3>7
  <2> QED
    BY <2>1, <2>2, <1>2
<1>5. CancelsFly(e)'
  BY <1>2, <1>3, <1>4 DEF CancelsFly, Post, Msg
<1>6. CancelsFly(o)'
  <2>1. ASSUME NEW k \in Post(o), Cancels(Msg(o, k))
        PROVE  LET w == Msg(o, k)
               IN  /\ w.id[1] = o /\ session[o].requests[w.id] # None
                   /\ \A j \in Post(o) : AsksFor(Msg(o, j), w.id) => j < k
    BY <1>1, <2>1 DEF CancelsFly
  <2>2. \A k \in 1..Len(wire'[o]) : Cancels(wire'[o][k].msg) =>
          LET w == wire'[o][k].msg
          IN  /\ w.id[1] = o /\ session'[o].requests[w.id] # None
              /\ \A j \in 1..Len(wire'[o]) : AsksFor(wire'[o][j].msg, w.id) => j < k
              /\ wire'[o][k].crossed
    BY <1>1, <1>2, <1>3, <2>1 DEF Post
  <2> QED
    BY <2>2, Zenon DEF CancelsFly, Post, Msg
<1> QED
  BY <1>5, <1>6

LEMMA TakenCancelsFly ==
  ASSUME WireTypeOK, NEW e \in Ends, NEW m, Takes(e, m), NewsFly(e), CancelsFly(e), CancelsFly(Other(e)),
         UncrossedFind(Other(e))
  PROVE  CancelsFly(e)' /\ CancelsFly(Other(e))'
<1> DEFINE o == Other(e)
           n == Len(wire[e]) - 1
<1>1. /\ m \in Letters(e) /\ o # e /\ Other(o) = e /\ o \in Ends /\ 1 \in Post(e) /\ m = Msg(e, 1)
      /\ Shrinks(e, m) /\ session'[e] = session[e] /\ wire[e] # <<>>
  BY TwoEnds DEF Takes, Shrinks
<1>2. /\ Len(wire[e]) \in Nat /\ Len(wire'[e]) = n /\ wire'[o] = wire[o] /\ Len(wire[o]) \in Nat
      /\ \A k \in 1..n : wire'[e][k].msg = Msg(e, k + 1) /\ k + 1 \in Post(e) /\ k + 1 # 1
      /\ \A k \in Post(e) : Msg(e, k) \in Letters(e)
      /\ \A k \in Post(o) : Msg(o, k) \in Letters(o)
      /\ \A k \in Post(e) : k # 1 => k - 1 \in 1..n
  BY <1>1, ShrinkIs
<1>3. \A k \in 1..n : wire'[e][k].crossed = wire[e][k + 1].crossed
  BY <1>1 DEF Shrinks
<1>4. session[o].closed => session'[o].closed
  BY <1>1, Reopens
<1>5. ASSUME NEW k \in 1..n, Cancels(wire'[e][k].msg)
      PROVE  LET w == wire'[e][k].msg
             IN  /\ w.id[1] = e /\ session[e].requests[w.id] # None
                 /\ \A j \in 1..n : AsksFor(wire'[e][j].msg, w.id) => j < k
                 /\ ~wire'[e][k].crossed /\ ~session'[o].closed =>
                      /\ IsPending(session[e], w.id)
                      /\ session[e].requests[w.id].method = "plugin-command.invoke"
                      /\ \/ IsPending(session'[o], w.id)
                         \/ \E j \in 1..n : AsksFor(wire'[e][j].msg, w.id)
  <2> DEFINE w == Msg(e, k + 1)
  <2>1. wire'[e][k].msg = w /\ k + 1 \in Post(e) /\ Cancels(w) /\ w \in Letters(e) /\ k \in Nat
    BY <1>2, <1>5
  <2>2. w.id \in RequestIds
    BY <2>1 DEF Letters, Cancels, IsSignal, PluginCommand
  <2>3. /\ w.id[1] = e /\ session[e].requests[w.id] # None
        /\ \A j \in Post(e) : AsksFor(Msg(e, j), w.id) => j < k + 1
        /\ ~wire[e][k + 1].crossed /\ ~session[o].closed =>
             /\ IsPending(session[e], w.id)
             /\ session[e].requests[w.id].method = "plugin-command.invoke"
             /\ IsPending(session[o], w.id) \/ \E j \in Post(e) : AsksFor(Msg(e, j), w.id)
    BY <2>1 DEF CancelsFly
  <2>4. ~(Settles(m) /\ m.id = w.id)
    BY <1>1, <2>3, LetterIs DEF NewsFly
  <2>5. session'[o].requests[w.id] = IF AsksFor(m, w.id) THEN Req(m, e) ELSE session[o].requests[w.id]
    BY <2>2, <2>4, TakenTable DEF Moved
  <2>6. AsksFor(m, w.id) => IsPending(session'[o], w.id)
    BY <1>1, <2>2, <2>5, LetterIs, PendingIs DEF AsksFor
  <2>7. IsPending(session[o], w.id) => IsPending(session'[o], w.id)
    BY <2>2, <2>5, <2>6, PendingIs
  <2>8. ASSUME NEW j \in Post(e), AsksFor(Msg(e, j), w.id)
        PROVE  IsPending(session'[o], w.id) \/ \E i \in 1..n : AsksFor(wire'[e][i].msg, w.id)
    <3>1. CASE j = 1
      BY <3>1, <2>6, <2>8, <1>1
    <3>2. CASE j # 1
      <4>1. j - 1 \in 1..n /\ wire'[e][j - 1].msg = Msg(e, j)
        <5>1. j - 1 \in 1..n /\ (j - 1) + 1 = j
          BY <1>2, <3>2 DEF Post
        <5> QED
          BY <5>1, <1>2
      <4> QED
        BY <4>1, <2>8
    <3> QED
      BY <3>1, <3>2
  <2>9. \A j \in 1..n : AsksFor(wire'[e][j].msg, w.id) => j < k
    <3> SUFFICES ASSUME NEW j \in 1..n, AsksFor(wire'[e][j].msg, w.id) PROVE j < k
      OBVIOUS
    <3>1. j + 1 \in Post(e) /\ AsksFor(Msg(e, j + 1), w.id) /\ j \in Nat
      BY <1>2
    <3> QED
      BY <2>1, <2>3, <3>1
  <2> HIDE DEF w
  <2> QED
    BY <1>3, <1>4, <2>1, <2>3, <2>7, <2>8, <2>9
<1>6. CancelsFly(e)'
  <2>1. Len(wire'[e]) = n /\ session'[e] = session[e]
    BY <1>1, <1>2
  <2>2. \A k \in 1..Len(wire'[e]) : Cancels(wire'[e][k].msg) =>
          LET w == wire'[e][k].msg
          IN  /\ w.id[1] = e /\ session'[e].requests[w.id] # None
              /\ \A j \in 1..Len(wire'[e]) : AsksFor(wire'[e][j].msg, w.id) => j < k
              /\ ~wire'[e][k].crossed /\ ~session'[o].closed =>
                   /\ IsPending(session'[e], w.id)
                   /\ session'[e].requests[w.id].method = "plugin-command.invoke"
                   /\ \/ IsPending(session'[o], w.id)
                      \/ \E j \in 1..Len(wire'[e]) : AsksFor(wire'[e][j].msg, w.id)
    BY <1>5, <2>1
  <2> QED
    BY <2>2, Zenon DEF CancelsFly, Post, Msg
<1>7. ASSUME NEW k \in Post(o), Cancels(Msg(o, k))
      PROVE  session'[o].requests[Msg(o, k).id] # None /\ wire[o][k].crossed
  <2>1. Msg(o, k).id \in RequestIds /\ session[o].requests[Msg(o, k).id] # None
    BY <1>1, <1>2, <1>7 DEF CancelsFly, Letters, Cancels, IsSignal, PluginCommand
  <2>2. session'[o].requests[Msg(o, k).id] # None
    BY <1>1, <2>1, TakenTable, LetterIs, NamesApart DEF Moved, AsksFor
  <2>3. wire[o][k].crossed
    BY <1>1 DEF UncrossedFind
  <2> QED
    BY <2>2, <2>3
<1>8. ASSUME NEW k \in Post(o), Cancels(Msg(o, k))
      PROVE  LET w == Msg(o, k)
             IN  /\ w.id[1] = o /\ session'[o].requests[w.id] # None /\ wire[o][k].crossed
                 /\ \A j \in Post(o) : AsksFor(Msg(o, j), w.id) => j < k
  BY <1>1, <1>7, <1>8 DEF CancelsFly
<1>9. CancelsFly(o)'
  <2>1. ASSUME NEW k \in 1..Len(wire'[o]), Cancels(wire'[o][k].msg)
        PROVE  LET w == wire'[o][k].msg
               IN  /\ w.id[1] = o /\ session'[o].requests[w.id] # None /\ wire'[o][k].crossed
                   /\ \A j \in 1..Len(wire'[o]) : AsksFor(wire'[o][j].msg, w.id) => j < k
    BY <1>2, <1>8, <2>1 DEF Post, Msg
  <2> QED
    BY <2>1, Zenon DEF CancelsFly, Post, Msg
<1> QED
  BY <1>6, <1>9

LEMMA DroppedCancelsFly ==
  ASSUME WireTypeOK, NEW e \in Ends, NEW m, Drops(e, m), RequestsFly(e), CancelsFly(e), CancelsFly(Other(e)),
         Races', NoneTooMany'
  PROVE  CancelsFly(e)' /\ CancelsFly(Other(e))'
<1> DEFINE o == Other(e)
           n == Len(wire[e]) - 1
<1>1. /\ m \in Letters(e) /\ o # e /\ Other(o) = e /\ o \in Ends /\ 1 \in Post(e) /\ m = Msg(e, 1)
      /\ Shrinks(e, m) /\ session' = session
  BY TwoEnds DEF Drops, Shrinks
<1>2. /\ Len(wire[e]) \in Nat /\ Len(wire'[e]) = n /\ wire'[o] = wire[o] /\ Len(wire[o]) \in Nat
      /\ \A k \in 1..n : wire'[e][k].msg = Msg(e, k + 1) /\ k + 1 \in Post(e) /\ k + 1 # 1
      /\ \A k \in Post(e) : Msg(e, k) \in Letters(e)
      /\ \A k \in Post(e) : k # 1 => k - 1 \in 1..n
  BY <1>1, ShrinkIs
<1>3. \A k \in 1..n : wire'[e][k].crossed = wire[e][k + 1].crossed
  BY <1>1 DEF Shrinks
<1>4. ~session[o].closed => m.method # "plugin-command.invoke"
  <2> SUFFICES ASSUME ~session[o].closed, m.method = "plugin-command.invoke" PROVE FALSE
    OBVIOUS
  <2>1. PICK r \in refused' : r.msg = m
    BY DroppedIs
  <2> QED
    BY <2>1 DEF Races, NoneTooMany, Racing, Vital
<1>5. ASSUME NEW k \in 1..n, Cancels(wire'[e][k].msg)
      PROVE  LET w == wire'[e][k].msg
             IN  /\ w.id[1] = e /\ session[e].requests[w.id] # None
                 /\ \A j \in 1..n : AsksFor(wire'[e][j].msg, w.id) => j < k
                 /\ ~wire'[e][k].crossed /\ ~session[o].closed =>
                      /\ IsPending(session[e], w.id)
                      /\ session[e].requests[w.id].method = "plugin-command.invoke"
                      /\ \/ IsPending(session[o], w.id)
                         \/ \E j \in 1..n : AsksFor(wire'[e][j].msg, w.id)
  <2> DEFINE w == Msg(e, k + 1)
  <2>1. wire'[e][k].msg = w /\ k + 1 \in Post(e) /\ Cancels(w) /\ k \in Nat
    BY <1>2, <1>5
  <2>3. /\ w.id[1] = e /\ session[e].requests[w.id] # None
        /\ \A j \in Post(e) : AsksFor(Msg(e, j), w.id) => j < k + 1
        /\ ~wire[e][k + 1].crossed /\ ~session[o].closed =>
             /\ IsPending(session[e], w.id)
             /\ session[e].requests[w.id].method = "plugin-command.invoke"
             /\ IsPending(session[o], w.id) \/ \E j \in Post(e) : AsksFor(Msg(e, j), w.id)
    BY <2>1 DEF CancelsFly
  <2>4. session[e].requests[w.id].method = "plugin-command.invoke" /\ ~session[o].closed => ~AsksFor(m, w.id)
    <3>1. AsksFor(m, w.id) => session[e].requests[w.id] = Req(m, e)
      BY <1>1 DEF RequestsFly, AsksFor
    <3> QED
      BY <3>1, <1>4 DEF Req
  <2>8. ASSUME NEW j \in Post(e), AsksFor(Msg(e, j), w.id), ~AsksFor(m, w.id)
        PROVE  \E i \in 1..n : AsksFor(wire'[e][i].msg, w.id)
    <3>1. j # 1
      BY <2>8, <1>1
    <3>2. j - 1 \in 1..n /\ (j - 1) + 1 = j
      BY <1>2, <3>1 DEF Post
    <3>3. wire'[e][j - 1].msg = Msg(e, j)
      BY <1>2, <3>2
    <3> QED
      BY <3>2, <3>3, <2>8
  <2>9. \A j \in 1..n : AsksFor(wire'[e][j].msg, w.id) => j < k
    <3> SUFFICES ASSUME NEW j \in 1..n, AsksFor(wire'[e][j].msg, w.id) PROVE j < k
      OBVIOUS
    <3>1. j + 1 \in Post(e) /\ AsksFor(Msg(e, j + 1), w.id) /\ j \in Nat
      BY <1>2
    <3> QED
      BY <2>1, <2>3, <3>1
  <2> HIDE DEF w
  <2> QED
    BY <1>3, <2>1, <2>3, <2>4, <2>8, <2>9
<1>6. CancelsFly(e)'
  BY <1>1, <1>2, <1>5 DEF CancelsFly, Post, Msg
<1>8. CancelsFly(o)'
  BY <1>1, <1>2, ZenonT(30) DEF CancelsFly, Post, Msg
<1> QED
  BY <1>6, <1>8

LEMMA PostedAccounted ==
  ASSUME WireTypeOK, NEW e \in Ends, NEW m, Posts(e, m), Accounted(e), Accounted(Other(e))
  PROVE  Accounted(e)' /\ Accounted(Other(e))'
<1> DEFINE o == Other(e)
           n == Len(wire[e]) + 1
<1>1. m \in Letters(e) /\ o # e /\ Other(o) = e /\ o \in Ends /\ Grows(e, m) /\ Ends = {e, o}
  BY TwoEnds DEF Posts
<1>2. /\ Len(wire[e]) \in Nat /\ Len(wire[o]) \in Nat /\ Len(wire'[e]) = n /\ Len(wire'[o]) = Len(wire[o])
      /\ \A k \in Post(e) : wire'[e][k].msg = Msg(e, k) /\ Msg(e, k) \in Letters(e)
      /\ wire'[e][n].msg = m
      /\ \A k \in Post(o) : wire'[o][k].msg = Msg(o, k) /\ Msg(o, k) \in Letters(o)
      /\ \A k \in 1..n : k \in Post(e) \/ k = n
  BY <1>1, GrowIs
<1>3. BothOpen' => BothOpen
  BY Reopens
<1>4. session'[o] = session[o] /\ refused' = refused
  BY DEF Posts
<1>5. ASSUME BothOpen, NEW id \in RequestIds, id[1] = e, IsPending(session'[e], id)
      PROVE  \/ \E k \in 1..n : AsksFor(wire'[e][k].msg, id)
             \/ IsPending(session[o], id)
             \/ \E k \in Post(o) : Settles(wire'[o][k].msg) /\ wire'[o][k].msg.id = id
             \/ \E r \in refused : AsksFor(r.msg, id) /\ r.msg.method = session'[e].requests[id].method
  <2>1. CASE AsksFor(m, id)
    BY <2>1, <1>2
  <2>2. CASE ~AsksFor(m, id)
    <3>1. session'[e].requests[id] = session[e].requests[id] /\ IsPending(session[e], id)
      BY <2>2, <1>5, PostedTable, PendingIs DEF Moved
    <3>2. \/ \E k \in Post(e) : AsksFor(Msg(e, k), id)
          \/ IsPending(session[o], id)
          \/ \E k \in Post(o) : Settles(Msg(o, k)) /\ Msg(o, k).id = id
          \/ \E r \in refused : AsksFor(r.msg, id) /\ r.msg.method = session[e].requests[id].method
      BY <1>5, <3>1 DEF Accounted
    <3>3. (\E k \in Post(e) : AsksFor(Msg(e, k), id)) => \E k \in 1..n : AsksFor(wire'[e][k].msg, id)
      BY <1>2 DEF Post
    <3>4. (\E k \in Post(o) : Settles(Msg(o, k)) /\ Msg(o, k).id = id)
            => \E k \in Post(o) : Settles(wire'[o][k].msg) /\ wire'[o][k].msg.id = id
      BY <1>2
    <3> QED
      BY <3>1, <3>2, <3>3, <3>4
  <2> QED
    BY <2>1, <2>2
<1>6. Accounted(e)'
  BY <1>2, <1>3, <1>4, <1>5 DEF Accounted, Post, Msg
<1>7. ASSUME BothOpen, NEW id \in RequestIds, id[1] = o, IsPending(session[o], id)
      PROVE  \/ \E k \in Post(o) : AsksFor(wire'[o][k].msg, id)
             \/ IsPending(session'[e], id)
             \/ \E k \in 1..n : Settles(wire'[e][k].msg) /\ wire'[e][k].msg.id = id
             \/ \E r \in refused : AsksFor(r.msg, id) /\ r.msg.method = session[o].requests[id].method
  <2>1. \/ \E k \in Post(o) : AsksFor(Msg(o, k), id)
        \/ IsPending(session[e], id)
        \/ \E k \in Post(e) : Settles(Msg(e, k)) /\ Msg(e, k).id = id
        \/ \E r \in refused : AsksFor(r.msg, id) /\ r.msg.method = session[o].requests[id].method
    BY <1>1, <1>7 DEF Accounted
  <2>2. ~AsksFor(m, id)
    BY <1>1, <1>7, LetterIs DEF AsksFor
  <2>3. IsPending(session[e], id) => IsPending(session'[e], id) \/ (Settles(m) /\ m.id = id)
    BY <2>2, PostedTable, PendingIs DEF Moved
  <2>4. n \in 1..n /\ \A k \in Post(e) : k \in 1..n
    BY <1>2 DEF Post
  <2> QED
    BY <1>2, <2>1, <2>3, <2>4
<1>8. Accounted(o)'
  BY <1>1, <1>2, <1>3, <1>4, <1>7 DEF Accounted, Post, Msg
<1> QED
  BY <1>6, <1>8

LEMMA TakenAccounted ==
  ASSUME WireTypeOK, NEW e \in Ends, NEW m, Takes(e, m), NewsFly(e), Accounted(e), Accounted(Other(e))
  PROVE  Accounted(e)' /\ Accounted(Other(e))'
<1> DEFINE o == Other(e)
           n == Len(wire[e]) - 1
<1>1. /\ m \in Letters(e) /\ o # e /\ Other(o) = e /\ o \in Ends /\ 1 \in Post(e) /\ m = Msg(e, 1)
      /\ Shrinks(e, m) /\ session'[e] = session[e] /\ refused' = refused
  BY TwoEnds DEF Takes, Shrinks
<1>2. /\ Len(wire[e]) \in Nat /\ Len(wire'[e]) = n /\ wire'[o] = wire[o] /\ Len(wire[o]) \in Nat
      /\ \A k \in 1..n : wire'[e][k].msg = Msg(e, k + 1)
      /\ \A k \in Post(e) : k # 1 => k - 1 \in 1..n
  BY <1>1, ShrinkIs
<1>3. BothOpen' => BothOpen
  BY Reopens
<1>4. \A k \in Post(e) : k # 1 => k - 1 \in 1..n /\ wire'[e][k - 1].msg = Msg(e, k)
  <2> SUFFICES ASSUME NEW k \in Post(e), k # 1 PROVE k - 1 \in 1..n /\ wire'[e][k - 1].msg = Msg(e, k)
    OBVIOUS
  <2>1. k - 1 \in 1..n /\ (k - 1) + 1 = k
    BY <1>2 DEF Post
  <2> QED
    BY <2>1, <1>2
<1>5. ASSUME BothOpen, NEW id \in RequestIds, id[1] = e, IsPending(session[e], id)
      PROVE  \/ \E k \in 1..n : AsksFor(wire'[e][k].msg, id)
             \/ IsPending(session'[o], id)
             \/ \E k \in Post(o) : Settles(Msg(o, k)) /\ Msg(o, k).id = id
             \/ \E r \in refused : AsksFor(r.msg, id) /\ r.msg.method = session[e].requests[id].method
  <2>1. \/ \E k \in Post(e) : AsksFor(Msg(e, k), id)
        \/ IsPending(session[o], id)
        \/ \E k \in Post(o) : Settles(Msg(o, k)) /\ Msg(o, k).id = id
        \/ \E r \in refused : AsksFor(r.msg, id) /\ r.msg.method = session[e].requests[id].method
    BY <1>5 DEF Accounted
  <2>2. ~(Settles(m) /\ m.id = id)
    BY <1>1, <1>5, LetterIs DEF NewsFly
  <2>3. AsksFor(m, id) \/ IsPending(session[o], id) => IsPending(session'[o], id)
    <3>1. AsksFor(m, id) => Req(m, e) \in PendingRequest
      BY <1>1, LetterIs DEF AsksFor
    <3> QED
      BY <2>2, <3>1, TakenTable, PendingIs DEF Moved
  <2>4. ASSUME NEW k \in Post(e), AsksFor(Msg(e, k), id)
        PROVE  (\E j \in 1..n : AsksFor(wire'[e][j].msg, id)) \/ IsPending(session'[o], id)
    BY <1>1, <1>4, <2>3, <2>4
  <2> QED
    BY <2>1, <2>3, <2>4
<1>6. Accounted(e)'
  BY <1>1, <1>2, <1>3, <1>5 DEF Accounted, Post, Msg
<1>7. ASSUME BothOpen, NEW id \in RequestIds, id[1] = o, IsPending(session'[o], id)
      PROVE  \/ \E k \in Post(o) : AsksFor(Msg(o, k), id)
             \/ IsPending(session[e], id)
             \/ \E k \in 1..n : Settles(wire'[e][k].msg) /\ wire'[e][k].msg.id = id
             \/ \E r \in refused : AsksFor(r.msg, id) /\ r.msg.method = session'[o].requests[id].method
  <2>1. ~AsksFor(m, id)
    BY <1>1, <1>7, LetterIs DEF AsksFor
  <2>2. ~(Settles(m) /\ m.id = id)
    BY <1>7, <2>1, TakenTable, PendingIs DEF Moved
  <2>3. session'[o].requests[id] = session[o].requests[id] /\ IsPending(session[o], id)
    BY <1>7, <2>1, <2>2, TakenTable, PendingIs DEF Moved
  <2>4. \/ \E k \in Post(o) : AsksFor(Msg(o, k), id)
        \/ IsPending(session[e], id)
        \/ \E k \in Post(e) : Settles(Msg(e, k)) /\ Msg(e, k).id = id
        \/ \E r \in refused : AsksFor(r.msg, id) /\ r.msg.method = session[o].requests[id].method
    BY <1>1, <1>7, <2>3 DEF Accounted
  <2>5. ASSUME NEW k \in Post(e), Settles(Msg(e, k)) /\ Msg(e, k).id = id
        PROVE  \E j \in 1..n : Settles(wire'[e][j].msg) /\ wire'[e][j].msg.id = id
    BY <1>1, <1>4, <2>2, <2>5
  <2> QED
    BY <2>3, <2>4, <2>5
<1>8. Accounted(o)'
  BY <1>1, <1>2, <1>3, <1>7 DEF Accounted, Post, Msg
<1> QED
  BY <1>6, <1>8

LEMMA DroppedAccounted ==
  ASSUME WireTypeOK, NEW e \in Ends, NEW m, Drops(e, m), RequestsFly(e), NewsFly(e),
         Accounted(e), Accounted(Other(e)), Races'
  PROVE  Accounted(e)' /\ Accounted(Other(e))'
<1> DEFINE o == Other(e)
           n == Len(wire[e]) - 1
<1>1. /\ m \in Letters(e) /\ o # e /\ Other(o) = e /\ o \in Ends /\ 1 \in Post(e) /\ m = Msg(e, 1)
      /\ Shrinks(e, m) /\ session' = session /\ refused \subseteq refused'
  BY TwoEnds DEF Drops, Shrinks
<1>2. /\ Len(wire[e]) \in Nat /\ Len(wire'[e]) = n /\ wire'[o] = wire[o] /\ Len(wire[o]) \in Nat
      /\ \A k \in 1..n : wire'[e][k].msg = Msg(e, k + 1)
      /\ \A k \in Post(e) : k # 1 => k - 1 \in 1..n
  BY <1>1, ShrinkIs
<1>4. \A k \in Post(e) : k # 1 => k - 1 \in 1..n /\ wire'[e][k - 1].msg = Msg(e, k)
  <2> SUFFICES ASSUME NEW k \in Post(e), k # 1 PROVE k - 1 \in 1..n /\ wire'[e][k - 1].msg = Msg(e, k)
    OBVIOUS
  <2>1. k - 1 \in 1..n /\ (k - 1) + 1 = k
    BY <1>2 DEF Post
  <2> QED
    BY <2>1, <1>2
<1>5. BothOpen => \E r \in refused' : r.msg = m /\ (r.full => m.kind = "request")
  BY <1>1, DroppedIs DEF BothOpen, Full
<1>6. ASSUME BothOpen, NEW id \in RequestIds, id[1] = e, IsPending(session[e], id)
      PROVE  \/ \E k \in 1..n : AsksFor(wire'[e][k].msg, id)
             \/ IsPending(session[o], id)
             \/ \E k \in Post(o) : Settles(Msg(o, k)) /\ Msg(o, k).id = id
             \/ \E r \in refused' : AsksFor(r.msg, id) /\ r.msg.method = session[e].requests[id].method
  <2>1. \/ \E k \in Post(e) : AsksFor(Msg(e, k), id)
        \/ IsPending(session[o], id)
        \/ \E k \in Post(o) : Settles(Msg(o, k)) /\ Msg(o, k).id = id
        \/ \E r \in refused : AsksFor(r.msg, id) /\ r.msg.method = session[e].requests[id].method
    BY <1>6 DEF Accounted
  <2>2. AsksFor(m, id) => session[e].requests[id].method = m.method
    <3>1. AsksFor(m, id) => session[e].requests[id] = Req(m, e)
      BY <1>1 DEF RequestsFly, AsksFor
    <3> QED
      BY <3>1 DEF Req
  <2>4. ASSUME NEW k \in Post(e), AsksFor(Msg(e, k), id)
        PROVE  \/ \E j \in 1..n : AsksFor(wire'[e][j].msg, id)
               \/ \E r \in refused' : AsksFor(r.msg, id) /\ r.msg.method = session[e].requests[id].method
    BY <1>1, <1>4, <1>5, <1>6, <2>2, <2>4
  <2> QED
    BY <1>1, <2>1, <2>4
<1>7. Accounted(e)'
  BY <1>1, <1>2, <1>6 DEF Accounted, Post, Msg, BothOpen
<1>8. BothOpen => ~Settles(m)
  <2> SUFFICES ASSUME BothOpen, Settles(m) PROVE FALSE
    OBVIOUS
  <2>1. PICK r \in refused' : r.msg = m /\ (r.full => m.kind = "request")
    BY <1>5
  <2>2. m.method \in Racing /\ ~IsAnswer(m)
    BY <2>1 DEF Races, Settles, IsAnswer, IsSignal
  <2> QED
    BY <2>2 DEF Settles, IsSignal, Racing
<1>9. ASSUME BothOpen, NEW id \in RequestIds, id[1] = o, IsPending(session[o], id)
      PROVE  \/ \E k \in Post(o) : AsksFor(Msg(o, k), id)
             \/ IsPending(session[e], id)
             \/ \E k \in 1..n : Settles(wire'[e][k].msg) /\ wire'[e][k].msg.id = id
             \/ \E r \in refused' : AsksFor(r.msg, id) /\ r.msg.method = session[o].requests[id].method
  <2>4. \/ \E k \in Post(o) : AsksFor(Msg(o, k), id)
        \/ IsPending(session[e], id)
        \/ \E k \in Post(e) : Settles(Msg(e, k)) /\ Msg(e, k).id = id
        \/ \E r \in refused : AsksFor(r.msg, id) /\ r.msg.method = session[o].requests[id].method
    BY <1>1, <1>9 DEF Accounted
  <2>5. ASSUME NEW k \in Post(e), Settles(Msg(e, k)) /\ Msg(e, k).id = id
        PROVE  \E j \in 1..n : Settles(wire'[e][j].msg) /\ wire'[e][j].msg.id = id
    BY <1>1, <1>4, <1>8, <1>9, <2>5
  <2> QED
    BY <1>1, <2>4, <2>5
<1>10. Accounted(o)'
  BY <1>1, <1>2, <1>9 DEF Accounted, Post, Msg, BothOpen
<1> QED
  BY <1>7, <1>10

-----------------------------------------------------------------------------
(* Roles, and the start of a session. *)

LEMMA SameRole ==
  ASSUME NEW s, NEW t, s.role = t.role, NEW m, NEW d
  PROVE  /\ WellFormed(s, m) => WellFormed(t, m)
         /\ Authorized(s, m, d) => Authorized(t, m, d)
<1>1. RequestFormed(s, m) => RequestFormed(t, m)
  BY DEF RequestFormed
<1>2. WellFormed(s, m) => WellFormed(t, m)
  BY <1>1 DEF WellFormed
<1>3. Authorized(s, m, d) => Authorized(t, m, d)
  BY DEF Authorized
<1> QED
  BY <1>2, <1>3

LEMMA RolesStay ==
  ASSUME WireTypeOK, NEW e \in Ends, NEW m, Posts(e, m) \/ Takes(e, m) \/ Drops(e, m)
  PROVE  \A x \in Ends : session'[x].role = session[x].role
<1>1. \A x \in Ends : x = e \/ x = Other(e)
  BY TwoEnds
<1>2. \A s \in SessionType : After(s, m, e).role = s.role
  BY AfterIs, ZenonT(30)
<1> QED
  BY <1>1, <1>2 DEF Posts, Takes, Drops, WireTypeOK

LEMMA PostedRolesAgree ==
  ASSUME WireTypeOK, NEW e \in Ends, NEW m, Posts(e, m), RolesAgree
  PROVE  RolesAgree'
<1> DEFINE o == Other(e)
           n == Len(wire[e]) + 1
<1>1. m \in Letters(e) /\ o # e /\ Other(o) = e /\ o \in Ends /\ Grows(e, m) /\ Ends = {e, o}
  BY TwoEnds DEF Posts
<1>2. /\ Len(wire'[e]) = n /\ Len(wire'[o]) = Len(wire[o])
      /\ \A k \in Post(e) : wire'[e][k].msg = Msg(e, k)
      /\ wire'[e][n].msg = m
      /\ \A k \in Post(o) : wire'[o][k].msg = Msg(o, k)
      /\ \A k \in 1..n : k \in Post(e) \/ k = n
  BY <1>1, GrowIs
<1>3. \A x \in Ends : session'[x].role = session[x].role
  BY RolesStay
<1>4. WellFormed(session[e], m) /\ Authorized(session[e], m, e)
  BY DEF Posts, Accepts
<1>5. \A k \in 1..n : WellFormed(session[e], wire'[e][k].msg) /\ Authorized(session[e], wire'[e][k].msg, e)
  BY <1>2, <1>4 DEF RolesAgree
<1>6. \A k \in 1..n : WellFormed(session'[e], wire'[e][k].msg) /\ Authorized(session'[e], wire'[e][k].msg, e)
  BY <1>3, <1>5, SameRole
<1>7. \A k \in Post(o) : WellFormed(session[o], wire'[o][k].msg) /\ Authorized(session[o], wire'[o][k].msg, o)
  BY <1>1, <1>2 DEF RolesAgree
<1>8. \A k \in Post(o) : WellFormed(session'[o], wire'[o][k].msg) /\ Authorized(session'[o], wire'[o][k].msg, o)
  BY <1>1, <1>3, <1>7, SameRole
<1>9. session'["host"].role = session'["plugin"].role
  BY <1>3, TwoEnds DEF RolesAgree
<1> QED
  BY <1>1, <1>2, <1>6, <1>8, <1>9 DEF RolesAgree, Post, Msg

LEMMA LeftRolesAgree ==
  ASSUME WireTypeOK, NEW e \in Ends, NEW m, Takes(e, m) \/ Drops(e, m), RolesAgree
  PROVE  RolesAgree'
<1> DEFINE o == Other(e)
           n == Len(wire[e]) - 1
<1>1. m \in Letters(e) /\ o # e /\ Other(o) = e /\ o \in Ends /\ Shrinks(e, m) /\ Ends = {e, o}
  BY TwoEnds DEF Takes, Drops
<1>2. /\ Len(wire'[e]) = n /\ wire'[o] = wire[o]
      /\ \A k \in 1..n : wire'[e][k].msg = Msg(e, k + 1) /\ k + 1 \in Post(e)
  BY <1>1, ShrinkIs
<1>3. \A x \in Ends : session'[x].role = session[x].role
  BY RolesStay
<1>5. \A k \in 1..n : WellFormed(session[e], wire'[e][k].msg) /\ Authorized(session[e], wire'[e][k].msg, e)
  BY <1>2 DEF RolesAgree
<1>6. \A k \in 1..n : WellFormed(session'[e], wire'[e][k].msg) /\ Authorized(session'[e], wire'[e][k].msg, e)
  BY <1>3, <1>5, SameRole
<1>7. \A k \in Post(o) : WellFormed(session[o], wire'[o][k].msg) /\ Authorized(session[o], wire'[o][k].msg, o)
  BY <1>1, <1>2 DEF RolesAgree, Msg
<1>8. \A k \in Post(o) : WellFormed(session'[o], wire'[o][k].msg) /\ Authorized(session'[o], wire'[o][k].msg, o)
  BY <1>1, <1>3, <1>7, SameRole
<1>9. session'["host"].role = session'["plugin"].role
  BY <1>3, TwoEnds DEF RolesAgree
<1> QED
  BY <1>1, <1>2, <1>6, <1>8, <1>9 DEF RolesAgree, Post, Msg

LEMMA FlagsAfter ==
  ASSUME WireTypeOK, NEW x \in Ends, NEW e, NEW m, session'[x] = After(session[x], m, e)
  PROVE  /\ session'[x].bootstrapped /\ (session'[x].ready <=> session[x].ready \/ IsSignal(m, "lifecycle.ready"))
<1>1. session[x] \in SessionType
  BY DEF WireTypeOK
<1>2. \A s \in SessionType : /\ After(s, m, e).bootstrapped = TRUE
                             /\ After(s, m, e).ready <=> s.ready \/ IsSignal(m, "lifecycle.ready")
  BY AfterIs, AfterFlags
<1> QED
  BY <1>1, <1>2

LEMMA PostedBooted ==
  ASSUME WireTypeOK, NEW e \in Ends, NEW m, Posts(e, m), Booted
  PROVE  Booted'
<1> DEFINE o == Other(e)
           n == Len(wire[e]) + 1
<1>1. m \in Letters(e) /\ o # e /\ Other(o) = e /\ o \in Ends /\ Grows(e, m) /\ Ends = {e, o}
  BY TwoEnds DEF Posts
<1>2. /\ Len(wire'[e]) = n /\ Len(wire'[o]) = Len(wire[o])
      /\ \A k \in Post(e) : wire'[e][k].msg = Msg(e, k)
      /\ wire'[e][n].msg = m
      /\ \A k \in Post(o) : wire'[o][k].msg = Msg(o, k)
      /\ \A k \in 1..n : k \in Post(e) \/ k = n
  BY <1>1, GrowIs
<1>3. /\ session'[e].bootstrapped /\ (session'[e].ready <=> session[e].ready \/ IsSignal(m, "lifecycle.ready"))
      /\ session'[o] = session[o] /\ Accepts(session[e], m, e)
  BY FlagsAfter DEF Posts
<1>4. wire'[o] # <<>> => wire[o] # <<>>
  BY <1>1 DEF Grows
<1>5. CASE e = "host"
  <2>1. ~IsSignal(m, "lifecycle.ready") /\ o = "plugin"
    BY <1>3, <1>5, HostSends, TwoEnds DEF Accepts
  <2>2. m.kind = "request" /\ m.method \in ProviderMethods => session["plugin"].ready
    BY <1>3, <1>5 DEF Accepts, Allows, Booted
  <2>3. /\ session'["host"].bootstrapped
        /\ session'["host"].ready => session'["plugin"].ready
    BY <1>3, <1>5, <2>1 DEF Booted
  <2>4. \A x \in Ends : wire'[x] # <<>> => session'[x].bootstrapped
    BY <1>1, <1>3, <1>4 DEF Booted
  <2>5. \A k \in 1..Len(wire'["plugin"]) :
          IsSignal(wire'["plugin"][k].msg, "lifecycle.ready") => session'["plugin"].ready
    BY <1>2, <1>3, <2>1 DEF Booted, Post
  <2>6. \A k \in 1..Len(wire'["host"]) :
          wire'["host"][k].msg.kind = "request" /\ wire'["host"][k].msg.method \in ProviderMethods
            => session'["plugin"].ready
    BY <1>2, <1>3, <1>5, <2>1, <2>2 DEF Booted
  <2> QED
    BY <2>3, <2>4, <2>5, <2>6 DEF Booted, Post, Msg
<1>6. CASE e = "plugin"
  <2>1. session["plugin"].bootstrapped /\ o = "host"
    BY <1>3, <1>6, PluginSends, TwoEnds DEF Accepts, InOrder
  <2>3. /\ session'["host"].bootstrapped
        /\ session'["host"].ready => session'["plugin"].ready
    BY <1>3, <1>6, <2>1 DEF Booted
  <2>4. \A x \in Ends : wire'[x] # <<>> => session'[x].bootstrapped
    BY <1>1, <1>3, <1>4 DEF Booted
  <2>5. \A k \in 1..Len(wire'["plugin"]) :
          IsSignal(wire'["plugin"][k].msg, "lifecycle.ready") => session'["plugin"].ready
    BY <1>2, <1>3, <1>6 DEF Booted
  <2>6. \A k \in 1..Len(wire'["host"]) :
          wire'["host"][k].msg.kind = "request" /\ wire'["host"][k].msg.method \in ProviderMethods
            => session'["plugin"].ready
    BY <1>2, <1>3, <1>6, <2>1 DEF Booted, Post
  <2> QED
    BY <2>3, <2>4, <2>5, <2>6 DEF Booted, Post, Msg
<1> QED
  BY <1>5, <1>6, TwoEnds

LEMMA LeftBooted ==
  ASSUME WireTypeOK, NEW e \in Ends, NEW m, Takes(e, m) \/ Drops(e, m), Booted
  PROVE  Booted'
<1> DEFINE o == Other(e)
           n == Len(wire[e]) - 1
<1>1. /\ o # e /\ Other(o) = e /\ o \in Ends /\ Shrinks(e, m) /\ Ends = {e, o}
      /\ m = Msg(e, 1) /\ 1 \in Post(e) /\ wire[e] # <<>>
  BY TwoEnds DEF Takes, Drops, Shrinks
<1>2. /\ Len(wire'[e]) = n /\ wire'[o] = wire[o]
      /\ \A k \in 1..n : wire'[e][k].msg = Msg(e, k + 1) /\ k + 1 \in Post(e)
  BY <1>1, ShrinkIs
<1>3. /\ session'[e] = session[e]
      /\ \/ session'[o] = session[o]
         \/ /\ session'[o].bootstrapped
            /\ session'[o].ready <=> session[o].ready \/ IsSignal(m, "lifecycle.ready")
            /\ Authorized(session[o], m, e)
  BY <1>1, FlagsAfter DEF Takes, Drops, Accepts
<1>4. session[e].bootstrapped
  BY <1>1 DEF Booted
<1>5. CASE e = "host"
  <2>0. o = "plugin"
    BY <1>5, TwoEnds
  <2>1. session["plugin"].ready => session'["plugin"].ready
    BY <1>3, <2>0
  <2>3. /\ session'["host"].bootstrapped
        /\ session'["host"].ready => session'["plugin"].ready
    BY <1>3, <1>4, <1>5, <2>1 DEF Booted
  <2>4. \A x \in Ends : wire'[x] # <<>> => session'[x].bootstrapped
    BY <1>1, <1>2, <1>3, <1>4 DEF Booted
  <2>5. \A k \in 1..Len(wire'["plugin"]) :
          IsSignal(wire'["plugin"][k].msg, "lifecycle.ready") => session'["plugin"].ready
    BY <1>2, <2>0, <2>1 DEF Booted, Post, Msg
  <2>6. \A k \in 1..Len(wire'["host"]) :
          wire'["host"][k].msg.kind = "request" /\ wire'["host"][k].msg.method \in ProviderMethods
            => session'["plugin"].ready
    BY <1>2, <1>5, <2>1 DEF Booted
  <2> QED
    BY <2>3, <2>4, <2>5, <2>6 DEF Booted, Post, Msg
<1>6. CASE e = "plugin"
  <2>1. session["plugin"].bootstrapped /\ (IsSignal(m, "lifecycle.ready") => session["plugin"].ready)
    BY <1>1, <1>4, <1>6 DEF Booted
  <2> QED
    BY <1>1, <1>2, <1>3, <1>6, <2>1, TwoEnds, SMTT(30) DEF Booted, Post, Msg
<1> QED
  BY <1>5, <1>6, TwoEnds

-----------------------------------------------------------------------------
(* What the other end knows of an end. *)

LEMMA SameFinds ==
  ASSUME NEW s, NEW t, NEW r, NEW e \in Ends, NEW m, Authorized(r, m, e),
         Mine(s, Other(e)) = Mine(t, Other(e)), Finds(s, m)
  PROVE  Finds(t, m)
<1>1. CASE e = "host"
  <2>1. Mine(s, "plugin") = Mine(t, "plugin") /\ "plugin" # "host"
    BY <1>1, TwoEnds
  <2>2. s.nodes = t.nodes
    BY <2>1 DEF Mine
  <2>3. /\ ~(m.kind = "request" /\ m.method \in {"resource.open", "resource.release"})
        /\ ~IsRequest(m, "event.unsubscribe")
    BY <1>1, HostSends
  <2> QED
    BY <2>2, <2>3 DEF Finds
<1>2. CASE e = "plugin"
  <2>1. Mine(s, "host") = Mine(t, "host")
    BY <1>2, TwoEnds
  <2>2. s.released = t.released /\ s.subscriptions = t.subscriptions
    BY <2>1 DEF Mine
  <2>3. Named(m) = {}
    BY <1>2, PluginSends
  <2> QED
    BY <2>2, <2>3 DEF Finds, Subscribed
<1> QED
  BY <1>1, <1>2, TwoEnds

LEMMA QuietPart ==
  ASSUME WireTypeOK, NEW e \in Ends, wire[e] = <<>>, Follows(e), ~session[Other(e)].closed
  PROVE  Mine(session[Other(e)], e) = Mine(session[e], e)
<1>1. PICK h : Leads(h, e)
  BY DEF Follows
<1>2. Len(wire[e]) = 0
  OBVIOUS
<1> QED
  BY <1>1, <1>2 DEF Leads

LEMMA PostedUncrossedFind ==
  ASSUME WireTypeOK, NEW e \in Ends, NEW m, Posts(e, m), UncrossedFind(e), Follows(Other(e))
  PROVE  UncrossedFind(e)' /\ UncrossedFind(Other(e))'
<1> DEFINE o == Other(e)
           n == Len(wire[e]) + 1
<1>1. /\ m \in Letters(e) /\ o # e /\ Other(o) = e /\ o \in Ends /\ Grows(e, m) /\ Ends = {e, o}
      /\ Accepts(session[e], m, e) /\ session'[o] = session[o]
  BY TwoEnds DEF Posts
<1>2. /\ Len(wire'[e]) = n /\ Len(wire'[o]) = Len(wire[o])
      /\ \A k \in Post(e) : wire'[e][k].msg = Msg(e, k)
      /\ wire'[e][n].msg = m
      /\ \A k \in 1..n : k \in Post(e) \/ k = n
  BY <1>1, GrowIs
<1>3. /\ \A k \in Post(e) : wire'[e][k].crossed = wire[e][k].crossed
      /\ wire'[e][n].crossed <=> wire[o] # <<>>
      /\ \A k \in Post(o) : wire'[o][k].crossed
  BY <1>1 DEF Grows
<1>4. ASSUME wire[o] = <<>> PROVE wire'[o] = <<>> /\ Finds(session[o], m)
  <2>1. wire'[o] = <<>>
    BY <1>1, <1>2, <1>4 DEF Grows
  <2>2. Finds(session[e], m)
    BY <1>1 DEF Accepts, Allows, DomAllows, Finds
  <2>3. Mine(session[e], o) = Mine(session[o], o)
    BY <1>1, <1>4, QuietPart DEF Accepts
  <2> QED
    BY <1>1, <2>1, <2>2, <2>3, SameFinds DEF Accepts
<1>5. ASSUME NEW k \in 1..n, ~wire'[e][k].crossed
      PROVE  wire'[o] = <<>> /\ Finds(session'[o], wire'[e][k].msg)
  <2>1. CASE k \in Post(e)
    BY <2>1, <1>1, <1>2, <1>3, <1>4, <1>5 DEF UncrossedFind
  <2>2. CASE k = n
    BY <2>2, <1>1, <1>2, <1>3, <1>4, <1>5
  <2> QED
    BY <2>1, <2>2, <1>2
<1>6. UncrossedFind(e)'
  BY <1>2, <1>5 DEF UncrossedFind, Post, Msg
<1>7. UncrossedFind(o)'
  BY <1>1, <1>2, <1>3 DEF UncrossedFind, Post, Msg
<1> QED
  BY <1>6, <1>7

LEMMA TakenUncrossedFind ==
  ASSUME WireTypeOK, Owned, NEW e \in Ends, NEW m, Takes(e, m), RolesAgree,
         UncrossedFind(e), UncrossedFind(Other(e))
  PROVE  UncrossedFind(e)' /\ UncrossedFind(Other(e))'
<1> DEFINE o == Other(e)
           n == Len(wire[e]) - 1
<1>1. /\ o # e /\ Other(o) = e /\ o \in Ends /\ Shrinks(e, m) /\ wire[e] # <<>>
      /\ session[o] \in SessionType /\ m \in Letters(e) /\ Accepts(session[o], m, e)
      /\ session'[o] = After(session[o], m, e)
  BY TwoEnds DEF Takes, Shrinks, WireTypeOK
<1>2. /\ Len(wire'[e]) = n /\ wire'[o] = wire[o]
      /\ \A k \in 1..n : wire'[e][k].msg = Msg(e, k + 1) /\ k + 1 \in Post(e)
  BY <1>1, ShrinkIs
<1>3. \A k \in 1..n : wire'[e][k].crossed = wire[e][k + 1].crossed
  BY <1>1 DEF Shrinks
<1>4. Mine(session'[o], o) = Mine(session[o], o)
  BY <1>1, MineStays DEF Owned
<1>5. ASSUME NEW k \in 1..n, ~wire'[e][k].crossed
      PROVE  wire'[o] = <<>> /\ Finds(session'[o], wire'[e][k].msg)
  <2>1. k + 1 \in Post(e) /\ ~wire[e][k + 1].crossed /\ wire'[e][k].msg = Msg(e, k + 1)
    BY <1>2, <1>3, <1>5
  <2>2. wire[o] = <<>> /\ Finds(session[o], Msg(e, k + 1)) /\ Authorized(session[e], Msg(e, k + 1), e)
    BY <2>1 DEF UncrossedFind, RolesAgree
  <2>3. Finds(session'[o], Msg(e, k + 1))
    BY <1>4, <2>2, SameFinds
  <2> QED
    BY <1>2, <2>1, <2>2, <2>3
<1>6. UncrossedFind(e)'
  BY <1>2, <1>5 DEF UncrossedFind, Post, Msg
<1>7. \A k \in Post(o) : wire[o][k].crossed
  BY <1>1 DEF UncrossedFind
<1>8. UncrossedFind(o)'
  BY <1>1, <1>2, <1>7 DEF UncrossedFind, Post
<1> QED
  BY <1>6, <1>8

LEMMA DroppedUncrossedFind ==
  ASSUME WireTypeOK, NEW e \in Ends, NEW m, Drops(e, m), UncrossedFind(e), UncrossedFind(Other(e))
  PROVE  UncrossedFind(e)' /\ UncrossedFind(Other(e))'
<1> DEFINE o == Other(e)
           n == Len(wire[e]) - 1
<1>1. /\ o # e /\ Other(o) = e /\ o \in Ends /\ Shrinks(e, m) /\ wire[e] # <<>> /\ session' = session
  BY TwoEnds DEF Drops, Shrinks
<1>2. /\ Len(wire'[e]) = n /\ wire'[o] = wire[o]
      /\ \A k \in 1..n : wire'[e][k].msg = Msg(e, k + 1) /\ k + 1 \in Post(e)
  BY <1>1, ShrinkIs
<1>3. \A k \in 1..n : wire'[e][k].crossed = wire[e][k + 1].crossed
  BY <1>1 DEF Shrinks
<1>5. ASSUME NEW k \in 1..n, ~wire'[e][k].crossed
      PROVE  wire'[o] = <<>> /\ Finds(session'[o], wire'[e][k].msg)
  <2>1. k + 1 \in Post(e) /\ ~wire[e][k + 1].crossed /\ wire'[e][k].msg = Msg(e, k + 1)
    BY <1>2, <1>3, <1>5
  <2> QED
    BY <2>1, <1>1, <1>2 DEF UncrossedFind
<1>6. UncrossedFind(e)'
  BY <1>2, <1>5 DEF UncrossedFind, Post, Msg
<1>7. \A k \in Post(o) : wire[o][k].crossed
  BY <1>1 DEF UncrossedFind
<1>8. UncrossedFind(o)'
  BY <1>1, <1>2, <1>7 DEF UncrossedFind, Post
<1> QED
  BY <1>6, <1>8

\* A request that an answer on its way is about stays in the table it will be looked up in.
LEMMA PostedLeavesAsked ==
  ASSUME WireTypeOK, NEW e \in Ends, NEW m, Posts(e, m), TablesAgree(e), NewsFly(Other(e)),
         NEW k \in Post(Other(e)), IsAnswer(Msg(Other(e), k))
  PROVE  session'[e].requests[Msg(Other(e), k).id] = session[e].requests[Msg(Other(e), k).id]
<1> DEFINE o == Other(e)
           id == Msg(o, k).id
<1>1. m \in Letters(e) /\ o # e /\ Other(o) = e /\ o \in Ends /\ News(Msg(o, k))
  BY TwoEnds DEF Posts, News, Settles
<1>2. id \in RequestIds /\ id[1] = e /\ IsPending(session[e], id)
  BY <1>1 DEF NewsFly
<1>3. ~AsksFor(m, id)
  BY <1>2, PostedTable DEF AsksFor, IsPending
<1>4. ~(Settles(m) /\ m.id = id)
  BY <1>1, <1>2, LetterIs, PostedTable DEF TablesAgree
<1> QED
  BY <1>2, <1>3, <1>4, PostedTable DEF Moved

LEMMA TakenLeavesAsked ==
  ASSUME WireTypeOK, NEW e \in Ends, NEW m, Takes(e, m), NewsFly(e),
         NEW k \in Post(e), k # 1, IsAnswer(Msg(e, k))
  PROVE  session'[Other(e)].requests[Msg(e, k).id] = session[Other(e)].requests[Msg(e, k).id]
<1> DEFINE o == Other(e)
           id == Msg(e, k).id
<1>1. /\ m \in Letters(e) /\ o # e /\ o \in Ends /\ News(Msg(e, k)) /\ Settles(Msg(e, k))
      /\ 1 \in Post(e) /\ m = Msg(e, 1) /\ k > 1
  BY TwoEnds, PostIs DEF Takes, Shrinks, News, Settles, Post
<1>2. /\ id \in RequestIds /\ id[1] = o /\ IsPending(session[o], id)
      /\ \A j \in Post(e) : Settles(Msg(e, j)) /\ Msg(e, j).id = id => k <= j
  BY <1>1 DEF NewsFly
<1>3. ~AsksFor(m, id)
  BY <1>1, <1>2, LetterIs DEF AsksFor
<1>4. ~(Settles(m) /\ m.id = id)
  BY <1>1, <1>2 DEF Post
<1> QED
  BY <1>2, <1>3, <1>4, TakenTable DEF Moved

LEMMA PostedFollows ==
  ASSUME OneOpener, WireTypeOK, Owned, NEW e \in Ends, NEW m, Posts(e, m),
         TablesAgree(e), TablesAgree(Other(e)), NewsFly(Other(e)), Follows(e), Follows(Other(e))
  PROVE  Follows(e)' /\ Follows(Other(e))'
<1> DEFINE o == Other(e)
           l == Len(wire[e])
           n == l + 1
<1>1. /\ m \in Letters(e) /\ o # e /\ Other(o) = e /\ o \in Ends /\ Grows(e, m) /\ Ends = {e, o}
      /\ session[e] \in SessionType /\ Accepts(session[e], m, e)
      /\ session'[e] = After(session[e], m, e) /\ session'[o] = session[o]
  BY TwoEnds DEF Posts, WireTypeOK
<1>2. /\ l \in Nat /\ Len(wire'[e]) = n /\ Len(wire'[o]) = Len(wire[o])
      /\ \A k \in Post(e) : wire'[e][k].msg = Msg(e, k)
      /\ wire'[e][n].msg = m
      /\ \A k \in Post(o) : wire'[o][k].msg = Msg(o, k)
      /\ \A k \in 1..n : k \in Post(e) \/ k = n
  BY <1>1, GrowIs
<1>3. /\ MineOk(Mine(session[e], e), m, e)
      /\ Mine(session'[e], e) = MineAfter(Mine(session[e], e), m, e, session[e].requests[m.id])
      /\ Mine(session'[e], o) = Mine(session[e], o)
  BY <1>1, MineMoves, MineStays DEF Owned
<1>4. IsAnswer(m) => session[e].requests[m.id] = session[o].requests[m.id]
  <2> SUFFICES ASSUME IsAnswer(m) PROVE session[e].requests[m.id] = session[o].requests[m.id]
    OBVIOUS
  <2>1. m.id \in RequestIds /\ IsPending(session[e], m.id) /\ session[e].requests[m.id].from # e
    BY PostedTable DEF News, Settles
  <2>2. m.id[1] \in Ends
    BY <2>1 DEF RequestIds
  <2>3. m.id[1] = o
    BY <1>1, <2>1, <2>2 DEF TablesAgree
  <2> QED
    BY <1>1, <2>1, <2>3 DEF TablesAgree
<1>5. Mine(session'[e], e) = MineAfter(Mine(session[e], e), m, e, session[o].requests[m.id])
  BY <1>3, <1>4, SameAnswered
<1>6. ASSUME ~session'[o].closed PROVE \E g : Leads(g, e)'
  <2>1. PICK h : Leads(h, e)
    BY <1>1, <1>6 DEF Follows
  <2> PICK g : g = [k \in 0..n |-> IF k = n THEN Mine(session'[e], e) ELSE h[k]]
    OBVIOUS
  <2>2. g[0] = h[0] /\ g[n] = Mine(session'[e], e) /\ \A k \in Post(e) : g[k] = h[k] /\ g[k - 1] = h[k - 1]
    BY <1>2 DEF Post
  <2>3. g[n - 1] = h[l]
    BY <1>2
  <2>4. /\ h[0] = Mine(session[o], e) /\ h[l] = Mine(session[e], e)
        /\ \A k \in Post(e) : /\ MineOk(h[k - 1], Msg(e, k), e)
                              /\ h[k] = MineAfter(h[k - 1], Msg(e, k), e, session[o].requests[Msg(e, k).id])
    BY <2>1 DEF Leads
  <2>5. ASSUME NEW k \in 1..n
        PROVE  /\ MineOk(g[k - 1], wire'[e][k].msg, e)
               /\ g[k] = MineAfter(g[k - 1], wire'[e][k].msg, e, session'[o].requests[wire'[e][k].msg.id])
    <3>1. CASE k \in Post(e)
      BY <3>1, <1>1, <1>2, <2>2, <2>4
    <3>2. CASE k = n
      BY <3>2, <1>1, <1>2, <1>3, <1>5, <2>2, <2>3, <2>4
    <3> QED
      BY <3>1, <3>2, <1>2
  <2>6. Leads(g, e)'
    <3>1. g[0] = Mine(session'[o], e) /\ g[Len(wire'[e])] = Mine(session'[e], e)
      BY <1>1, <1>2, <2>2, <2>4
    <3>2. \A k \in 1..Len(wire'[e]) :
            /\ MineOk(g[k - 1], wire'[e][k].msg, e)
            /\ g[k] = MineAfter(g[k - 1], wire'[e][k].msg, e, session'[o].requests[wire'[e][k].msg.id])
      BY <1>2, <2>5
    <3> QED
      BY <3>1, <3>2 DEF Leads, Post, Msg
  <2> QED
    BY <2>6
<1>7. ASSUME ~session'[e].closed PROVE \E g : Leads(g, o)'
  <2>1. PICK h : Leads(h, o)
    BY <1>1, <1>7 DEF Follows, Accepts
  <2>2. /\ h[0] = Mine(session[e], o) /\ h[Len(wire[o])] = Mine(session[o], o)
        /\ \A k \in Post(o) : /\ MineOk(h[k - 1], Msg(o, k), o)
                              /\ h[k] = MineAfter(h[k - 1], Msg(o, k), o, session[e].requests[Msg(o, k).id])
    BY <2>1, <1>1 DEF Leads
  <2>3. ASSUME NEW k \in Post(o)
        PROVE  h[k] = MineAfter(h[k - 1], Msg(o, k), o, session'[e].requests[Msg(o, k).id])
    <3>1. IsAnswer(Msg(o, k)) => session'[e].requests[Msg(o, k).id] = session[e].requests[Msg(o, k).id]
      BY PostedLeavesAsked
    <3> QED
      BY <2>2, <3>1, SameAnswered
  <2>4. \A k \in 1..Len(wire'[o]) :
           /\ MineOk(h[k - 1], wire'[o][k].msg, o)
           /\ h[k] = MineAfter(h[k - 1], wire'[o][k].msg, o, session'[e].requests[wire'[o][k].msg.id])
    BY <1>2, <2>2, <2>3 DEF Post
  <2>5. Leads(h, o)'
    BY <1>1, <1>2, <1>3, <2>2, <2>4 DEF Leads, Post, Msg
  <2> QED
    BY <2>5
<1>8. Follows(e)'
  BY <1>6 DEF Follows
<1>9. Follows(o)'
  BY <1>1, <1>7 DEF Follows
<1> QED
  BY <1>8, <1>9

LEMMA TakenFollows ==
  ASSUME OneOpener, WireTypeOK, Owned, NEW e \in Ends, NEW m, Takes(e, m), NewsFly(e),
         Follows(e), Follows(Other(e))
  PROVE  Follows(e)' /\ Follows(Other(e))'
<1> DEFINE o == Other(e)
           n == Len(wire[e]) - 1
<1>1. /\ o # e /\ Other(o) = e /\ o \in Ends /\ Shrinks(e, m) /\ m = Msg(e, 1) /\ 1 \in Post(e)
      /\ session[o] \in SessionType /\ m \in Letters(e) /\ Accepts(session[o], m, e)
      /\ session'[o] = After(session[o], m, e) /\ session'[e] = session[e]
  BY TwoEnds DEF Takes, Shrinks, WireTypeOK
<1>2. /\ Len(wire[e]) \in Nat /\ Len(wire'[e]) = n /\ wire'[o] = wire[o]
      /\ \A k \in 1..n : wire'[e][k].msg = Msg(e, k + 1) /\ k + 1 \in Post(e) /\ k + 1 # 1
  BY <1>1, ShrinkIs
<1>3. /\ Mine(session'[o], e) = MineAfter(Mine(session[o], e), m, e, session[o].requests[m.id])
      /\ Mine(session'[o], o) = Mine(session[o], o)
  BY <1>1, MineMoves, MineStays DEF Owned
<1>6. ASSUME ~session'[o].closed PROVE \E g : Leads(g, e)'
  <2>1. PICK h : Leads(h, e)
    BY <1>1 DEF Follows, Accepts
  <2> PICK g : g = [k \in 0..n |-> h[k + 1]]
    OBVIOUS
  <2>2. n \in Nat /\ g[0] = h[1] /\ g[n] = h[Len(wire[e])]
        /\ \A k \in 1..n : g[k] = h[k + 1] /\ g[k - 1] = h[k]
    BY <1>1, <1>2 DEF Post
  <2>4. /\ h[0] = Mine(session[o], e) /\ h[Len(wire[e])] = Mine(session[e], e)
        /\ \A k \in Post(e) : /\ MineOk(h[k - 1], Msg(e, k), e)
                              /\ h[k] = MineAfter(h[k - 1], Msg(e, k), e, session[o].requests[Msg(e, k).id])
    BY <2>1 DEF Leads
  <2>5. h[1] = Mine(session'[o], e)
    <3>1. h[1] = MineAfter(h[1 - 1], Msg(e, 1), e, session[o].requests[Msg(e, 1).id])
      BY <1>1, <2>4
    <3> QED
      BY <3>1, <1>1, <1>3, <2>4
  <2>6. ASSUME NEW k \in 1..n
        PROVE  /\ MineOk(g[k - 1], wire'[e][k].msg, e)
               /\ g[k] = MineAfter(g[k - 1], wire'[e][k].msg, e, session'[o].requests[wire'[e][k].msg.id])
    <3>1. wire'[e][k].msg = Msg(e, k + 1) /\ k + 1 \in Post(e) /\ k + 1 # 1 /\ (k + 1) - 1 = k
      BY <1>2
    <3>2. /\ MineOk(h[k], Msg(e, k + 1), e)
          /\ h[k + 1] = MineAfter(h[k], Msg(e, k + 1), e, session[o].requests[Msg(e, k + 1).id])
      BY <3>1, <2>4
    <3>3. IsAnswer(Msg(e, k + 1))
            => session'[o].requests[Msg(e, k + 1).id] = session[o].requests[Msg(e, k + 1).id]
      BY <3>1, TakenLeavesAsked
    <3>4. h[k + 1] = MineAfter(h[k], Msg(e, k + 1), e, session'[o].requests[Msg(e, k + 1).id])
      BY <3>2, <3>3, SameAnswered
    <3> QED
      BY <3>1, <3>2, <3>4, <2>2
  <2>7. Leads(g, e)'
    <3>1. g[0] = Mine(session'[o], e) /\ g[Len(wire'[e])] = Mine(session'[e], e)
      BY <1>1, <1>2, <2>2, <2>4, <2>5
    <3>2. \A k \in 1..Len(wire'[e]) :
            /\ MineOk(g[k - 1], wire'[e][k].msg, e)
            /\ g[k] = MineAfter(g[k - 1], wire'[e][k].msg, e, session'[o].requests[wire'[e][k].msg.id])
      BY <1>2, <2>6
    <3> QED
      BY <3>1, <3>2 DEF Leads, Post, Msg
  <2> QED
    BY <2>7
<1>7. ASSUME ~session'[e].closed PROVE \E g : Leads(g, o)'
  <2>1. PICK h : Leads(h, o)
    BY <1>1, <1>7 DEF Follows
  <2>2. /\ h[0] = Mine(session[e], o) /\ h[Len(wire[o])] = Mine(session[o], o)
        /\ \A k \in Post(o) : /\ MineOk(h[k - 1], Msg(o, k), o)
                              /\ h[k] = MineAfter(h[k - 1], Msg(o, k), o, session[e].requests[Msg(o, k).id])
    BY <2>1, <1>1 DEF Leads
  <2>5. Leads(h, o)'
    BY <1>1, <1>2, <1>3, <2>2 DEF Leads, Post, Msg
  <2> QED
    BY <2>5
<1>8. Follows(e)'
  BY <1>6 DEF Follows
<1>9. Follows(o)'
  BY <1>1, <1>7 DEF Follows
<1> QED
  BY <1>8, <1>9

\* A message that is dropped would have changed nothing of its sender's part.
LEMMA DroppedFollows ==
  ASSUME WireTypeOK, NEW e \in Ends, NEW m, Drops(e, m), RolesAgree, Races', NoneTooMany',
         Follows(e), Follows(Other(e))
  PROVE  Follows(e)' /\ Follows(Other(e))'
<1> DEFINE o == Other(e)
           n == Len(wire[e]) - 1
<1>1. /\ o # e /\ Other(o) = e /\ o \in Ends /\ Shrinks(e, m) /\ m = Msg(e, 1) /\ 1 \in Post(e)
      /\ session[o] \in SessionType /\ m \in Letters(e) /\ session' = session
  BY TwoEnds DEF Drops, Shrinks, WireTypeOK
<1>2. /\ Len(wire[e]) \in Nat /\ Len(wire'[e]) = n /\ wire'[o] = wire[o]
      /\ \A k \in 1..n : wire'[e][k].msg = Msg(e, k + 1) /\ k + 1 \in Post(e) /\ k + 1 # 1
  BY <1>1, ShrinkIs
<1>3. ~session[o].closed => \/ m.kind = "request" /\ m.method \notin Vital
                            \/ Cancels(m)
  <2> SUFFICES ASSUME ~session[o].closed
               PROVE  (m.kind = "request" /\ m.method \notin Vital) \/ Cancels(m)
    OBVIOUS
  <2>1. PICK r \in refused' : r.msg = m /\ (r.full => m.kind = "request")
    BY DroppedIs DEF Full
  <2>2. CASE r.full
    BY <2>1, <2>2 DEF NoneTooMany
  <2>3. CASE ~r.full
    <3>1. m.method \in Racing /\ ~IsAnswer(m) /\ m.kind \in {"request", "signal", "result", "error"}
      BY <1>1, <2>1, <2>3 DEF Races, Letters
    <3>2. m.kind = "request" \/ m.kind = "signal"
      BY <3>1 DEF IsAnswer
    <3>3. CASE m.kind = "request"
      <4>1. m.method \in Requests[e]
        BY <1>1, <3>3 DEF Letters
      <4>2. m.method # "plugin-command.cancel"
        BY <4>1, TwoEnds DEF Requests, ProviderMethods, DomRequests
      <4> QED
        BY <3>1, <3>3, <4>2 DEF Racing, Vital, ProviderMethods
    <3>4. CASE m.kind = "signal"
      <4>1. m.method \in Signals[e]
        BY <1>1, <3>4 DEF Letters
      <4>2. m.method = "plugin-command.cancel"
        BY <3>1, <4>1, TwoEnds DEF Racing, Signals, Streaming
      <4> QED
        BY <3>4, <4>2 DEF Cancels, IsSignal
    <3> QED
      BY <3>2, <3>3, <3>4
  <2> QED
    BY <2>2, <2>3
<1>6. ASSUME ~session[o].closed PROVE \E g : Leads(g, e)'
  <2>1. PICK h : Leads(h, e)
    BY <1>6 DEF Follows
  <2> PICK g : g = [k \in 0..n |-> h[k + 1]]
    OBVIOUS
  <2>2. n \in Nat /\ g[0] = h[1] /\ g[n] = h[Len(wire[e])]
        /\ \A k \in 1..n : g[k] = h[k + 1] /\ g[k - 1] = h[k]
    BY <1>1, <1>2 DEF Post
  <2>4. /\ h[0] = Mine(session[o], e) /\ h[Len(wire[e])] = Mine(session[e], e)
        /\ \A k \in Post(e) : /\ MineOk(h[k - 1], Msg(e, k), e)
                              /\ h[k] = MineAfter(h[k - 1], Msg(e, k), e, session[o].requests[Msg(e, k).id])
    BY <2>1 DEF Leads
  <2>5. h[1] = Mine(session[o], e)
    <3>1. /\ MineOk(h[1 - 1], Msg(e, 1), e)
          /\ h[1] = MineAfter(h[1 - 1], Msg(e, 1), e, session[o].requests[Msg(e, 1).id])
      BY <1>1, <2>4
    <3>2. /\ MineOk(Mine(session[o], e), m, e)
          /\ h[1] = MineAfter(Mine(session[o], e), m, e, session[o].requests[m.id])
      BY <3>1, <1>1, <2>4
    <3> QED
      BY <3>2, <1>1, <1>3, <1>6, MineIdles
  <2>6. ASSUME NEW k \in 1..n
        PROVE  /\ MineOk(g[k - 1], wire'[e][k].msg, e)
               /\ g[k] = MineAfter(g[k - 1], wire'[e][k].msg, e, session[o].requests[wire'[e][k].msg.id])
    <3>1. wire'[e][k].msg = Msg(e, k + 1) /\ k + 1 \in Post(e) /\ (k + 1) - 1 = k
      <4>1. wire'[e][k].msg = Msg(e, k + 1) /\ k + 1 \in Post(e)
        BY <1>2
      <4>2. (k + 1) - 1 = k
        OBVIOUS
      <4> QED
        BY <4>1, <4>2
    <3>2. /\ MineOk(h[k], Msg(e, k + 1), e)
          /\ h[k + 1] = MineAfter(h[k], Msg(e, k + 1), e, session[o].requests[Msg(e, k + 1).id])
      BY <3>1, <2>4
    <3> QED
      BY <3>1, <3>2, <2>2
  <2>7. Leads(g, e)'
    <3>1. g[0] = Mine(session'[o], e) /\ g[Len(wire'[e])] = Mine(session'[e], e)
      BY <1>1, <1>2, <2>2, <2>4, <2>5
    <3>2. \A k \in 1..Len(wire'[e]) :
            /\ MineOk(g[k - 1], wire'[e][k].msg, e)
            /\ g[k] = MineAfter(g[k - 1], wire'[e][k].msg, e, session'[o].requests[wire'[e][k].msg.id])
      BY <1>1, <1>2, <2>6
    <3> QED
      BY <3>1, <3>2 DEF Leads, Post, Msg
  <2> QED
    BY <2>7
<1>7. ASSUME ~session[e].closed PROVE \E g : Leads(g, o)'
  <2>1. PICK h : Leads(h, o)
    BY <1>1, <1>7 DEF Follows
  <2>2. /\ h[0] = Mine(session[e], o) /\ h[Len(wire[o])] = Mine(session[o], o)
        /\ \A k \in Post(o) : /\ MineOk(h[k - 1], Msg(o, k), o)
                              /\ h[k] = MineAfter(h[k - 1], Msg(o, k), o, session[e].requests[Msg(o, k).id])
    BY <2>1, <1>1 DEF Leads
  <2>5. Leads(h, o)'
    BY <1>1, <1>2, <2>2 DEF Leads, Post, Msg
  <2> QED
    BY <2>5
<1>8. Follows(e)'
  BY <1>1, <1>6 DEF Follows
<1>9. Follows(o)'
  BY <1>1, <1>7 DEF Follows
<1> QED
  BY <1>8, <1>9

-----------------------------------------------------------------------------
(* The chunk in flight. *)

LEMMA OpenIs ==
  ASSUME WireTypeOK, NEW x \in Ends, NEW i \in StreamIds
  PROVE  /\ session[x].streams[i] \in OpenStream \cup {None, Used}
         /\ IsOpen(session[x], i) <=> session[x].streams[i] \in OpenStream
         /\ IsOpen(session[x], i) => /\ session[x].streams[i].inFlight \in BOOLEAN
                                     /\ session[x].streams[i].next \in Nat
<1>1. session[x].streams[i] \in OpenStream \cup {None, Used}
  BY DEF WireTypeOK, SessionType
<1>2. IsOpen(session[x], i) <=> session[x].streams[i] \in OpenStream
  BY <1>1, NamesApart DEF IsOpen
<1> QED
  BY <1>1, <1>2 DEF OpenStream

LEMMA PostedStream ==
  ASSUME WireTypeOK, Owned, NEW e \in Ends, NEW m, Posts(e, m), NEW i \in StreamIds
  PROVE  /\ StreamMove(session[e].streams[i], session'[e].streams[i], m, e, i)
         /\ session'[Other(e)] = session[Other(e)]
<1>1. /\ session[e] \in SessionType /\ m \in Letters(e) /\ Accepts(session[e], m, e)
      /\ session'[e] = After(session[e], m, e) /\ session'[Other(e)] = session[Other(e)]
  BY DEF WireTypeOK, Posts
<1>2. \A s \in SessionType : After(s, m, e).streams = StreamsAfter(s, m, e)
  BY AfterIs
<1>3. \A j \in StreamIds : StreamMove(session[e].streams[j], StreamsAfter(session[e], m, e)[j], m, e, j)
  BY <1>1, StreamsMove DEF Owned
<1> QED
  BY <1>1, <1>2, <1>3

LEMMA TakenStream ==
  ASSUME WireTypeOK, Owned, NEW e \in Ends, NEW m, Takes(e, m), NEW i \in StreamIds
  PROVE  /\ StreamMove(session[Other(e)].streams[i], session'[Other(e)].streams[i], m, e, i)
         /\ session'[e] = session[e]
<1>1. /\ session[Other(e)] \in SessionType /\ m \in Letters(e) /\ Accepts(session[Other(e)], m, e)
      /\ session'[Other(e)] = After(session[Other(e)], m, e) /\ session'[e] = session[e] /\ Other(e) \in Ends
  BY TwoEnds DEF WireTypeOK, Takes
<1>2. \A s \in SessionType : After(s, m, e).streams = StreamsAfter(s, m, e)
  BY AfterIs
<1>3. \A j \in StreamIds :
        StreamMove(session[Other(e)].streams[j], StreamsAfter(session[Other(e)], m, e)[j], m, e, j)
  BY <1>1, StreamsMove DEF Owned
<1> QED
  BY <1>1, <1>2, <1>3

\* Nothing of a stream but its owner's chunks and the other end's acknowledgements matters.
LEMMA StreamKinds ==
  ASSUME NEW m, NEW i
  PROVE  /\ About(m, "stream.chunk", i) => /\ ~About(m, "stream.ack", i) /\ ~About(m, "stream.open", i)
                                           /\ ~About(m, "stream.close", i)
         /\ About(m, "stream.ack", i) => ~About(m, "stream.open", i) /\ ~About(m, "stream.close", i)
         /\ About(m, "stream.open", i) => ~About(m, "stream.close", i)
         /\ m.kind = "signal" /\ m.method \in Streaming /\ m.arg.stream = i <=>
              \/ About(m, "stream.open", i) \/ About(m, "stream.chunk", i)
              \/ About(m, "stream.ack", i) \/ About(m, "stream.close", i)
BY DEF About, IsSignal, Streaming

LEMMA GrowsAt ==
  ASSUME WireTypeOK, NEW e \in Ends, NEW m, Grows(e, m), NEW z \in Ends, NEW k
  PROVE  /\ k \in 1..Len(wire'[z]) <=> k \in Post(z) \/ (z = e /\ k = Len(wire[e]) + 1)
         /\ k \in Post(z) => wire'[z][k].msg = Msg(z, k)
         /\ z = e /\ k = Len(wire[e]) + 1 => k \notin Post(z) /\ wire'[z][k].msg = m
<1>1. z = e \/ z = Other(e)
  BY TwoEnds
<1>2. /\ Len(wire[e]) \in Nat /\ Len(wire'[e]) = Len(wire[e]) + 1 /\ Len(wire'[Other(e)]) = Len(wire[Other(e)])
      /\ \A j \in Post(e) : wire'[e][j].msg = Msg(e, j)
      /\ wire'[e][Len(wire[e]) + 1].msg = m
      /\ \A j \in Post(Other(e)) : wire'[Other(e)][j].msg = Msg(Other(e), j)
  BY GrowIs
<1>3. CASE z = e
  BY <1>2, <1>3 DEF Post
<1>4. CASE z # e
  BY <1>1, <1>2, <1>4 DEF Post
<1> QED
  BY <1>3, <1>4

LEMMA ShrinksAt ==
  ASSUME WireTypeOK, NEW e \in Ends, NEW m, Shrinks(e, m), NEW z \in Ends
  PROVE  /\ \A k \in 1..Len(wire'[z]) : /\ wire'[z][k].msg = Msg(z, IF z = e THEN k + 1 ELSE k)
                                        /\ (IF z = e THEN k + 1 ELSE k) \in Post(z)
                                        /\ z = e => k + 1 # 1
         /\ \A k \in Post(z) : ~(z = e /\ k = 1) =>
              /\ (IF z = e THEN k - 1 ELSE k) \in 1..Len(wire'[z])
              /\ wire'[z][IF z = e THEN k - 1 ELSE k].msg = Msg(z, k)
<1>1. z = e \/ z = Other(e)
  BY TwoEnds
<1>2. /\ Len(wire[e]) \in Nat /\ Len(wire'[e]) = Len(wire[e]) - 1 /\ wire'[Other(e)] = wire[Other(e)]
      /\ \A k \in 1..(Len(wire[e]) - 1) : wire'[e][k].msg = Msg(e, k + 1) /\ k + 1 \in Post(e) /\ k + 1 # 1
      /\ \A k \in Post(e) : k # 1 => k - 1 \in 1..(Len(wire[e]) - 1)
  BY ShrinkIs
<1>3. CASE z = e
  <2>1. ASSUME NEW k \in Post(e), k # 1
        PROVE  k - 1 \in 1..Len(wire'[e]) /\ wire'[e][k - 1].msg = Msg(e, k)
    <3>1. k - 1 \in 1..(Len(wire[e]) - 1) /\ (k - 1) + 1 = k
      BY <1>2, <2>1 DEF Post
    <3> QED
      BY <3>1, <1>2
  <2> QED
    BY <1>2, <1>3, <2>1
<1>4. CASE z # e
  BY <1>1, <1>2, <1>4 DEF Post, Msg
<1> QED
  BY <1>3, <1>4

LEMMA PostedOneChunk ==
  ASSUME WireTypeOK, WireTypeOK', Owned, NEW e \in Ends, NEW m, Posts(e, m), NEW i \in StreamIds, OneChunk(i)
  PROVE  OneChunk(i)'
<1> DEFINE x == i[1]
           y == Other(x)
           n == Len(wire[e]) + 1
           S == session[x].streams[i]
           T == session[y].streams[i]
           S1 == session'[x].streams[i]
           T1 == session'[y].streams[i]
           chunk(k) == k \in Post(x) /\ About(Msg(x, k), "stream.chunk", i)
           ack(k) == k \in Post(y) /\ About(Msg(y, k), "stream.ack", i)
           chunk1(k) == k \in 1..Len(wire'[x]) /\ About(wire'[x][k].msg, "stream.chunk", i)
           ack1(k) == k \in 1..Len(wire'[y]) /\ About(wire'[y][k].msg, "stream.ack", i)
<1>1. x \in Ends /\ y \in Ends /\ y # x /\ Other(y) = x /\ (e = x \/ e = y) /\ Ends = {x, y} /\ Grows(e, m)
  BY TwoEnds, StreamNames DEF Posts
<1>2. /\ \A k : chunk1(k) <=> chunk(k) \/ (x = e /\ k = n /\ About(m, "stream.chunk", i))
      /\ \A k : chunk(k) => wire'[x][k].msg = Msg(x, k)
      /\ x = e => ~chunk(n) /\ wire'[x][n].msg = m
      /\ \A k : ack1(k) <=> ack(k) \/ (y = e /\ k = n /\ About(m, "stream.ack", i))
      /\ \A k : ack(k) => wire'[y][k].msg = Msg(y, k)
      /\ y = e => ~ack(n) /\ wire'[y][n].msg = m
  BY <1>1, GrowsAt
<1>3. /\ \A z \in Ends : session[z].streams[i] \in OpenStream => session[z].streams[i].owner = x
      /\ T \in OpenStream /\ T.inFlight => /\ S \in OpenStream /\ S.inFlight /\ S.next = T.next
                                          /\ \A k : ~chunk(k) /\ ~ack(k)
      /\ \A k : chunk(k) => /\ S \in OpenStream /\ S.inFlight /\ S.next = Msg(x, k).arg.index + 1
                            /\ \A j : ~ack(j) /\ (chunk(j) => j = k)
      /\ \A k : ack(k) => /\ S \in OpenStream /\ S.inFlight /\ S.next = Msg(y, k).arg.index
                          /\ \A j : ack(j) => j = k
      /\ BothOpen /\ S \in OpenStream /\ S.inFlight => (T \in OpenStream /\ T.inFlight) \/ \E k : chunk(k) \/ ack(k)
  <2>1. \A z \in Ends : IsOpen(session[z], i) <=> session[z].streams[i] \in OpenStream
    BY OpenIs
  <2> QED
    BY <1>1, <2>1 DEF OneChunk, Held, Awaits, ChunkAt, AckAt
<1>4. ASSUME \A z \in Ends : session'[z].streams[i] \in OpenStream => session'[z].streams[i].owner = x,
             T1 \in OpenStream /\ T1.inFlight => /\ S1 \in OpenStream /\ S1.inFlight /\ S1.next = T1.next
                                               /\ \A k : ~chunk1(k) /\ ~ack1(k),
             \A k : chunk1(k) => /\ S1 \in OpenStream /\ S1.inFlight /\ S1.next = wire'[x][k].msg.arg.index + 1
                                /\ \A j : ~ack1(j) /\ (chunk1(j) => j = k),
             \A k : ack1(k) => /\ S1 \in OpenStream /\ S1.inFlight /\ S1.next = wire'[y][k].msg.arg.index
                              /\ \A j : ack1(j) => j = k,
             BothOpen' /\ S1 \in OpenStream /\ S1.inFlight
               => (T1 \in OpenStream /\ T1.inFlight) \/ \E k : chunk1(k) \/ ack1(k)
      PROVE  OneChunk(i)'
  <2>1. \A z \in Ends : IsOpen(session'[z], i) <=> session'[z].streams[i] \in OpenStream
    BY NamesApart DEF WireTypeOK, SessionType, IsOpen
  <2>2. \A z \in Ends : IsOpen(session'[z], i) => session'[z].streams[i].owner = x
    BY <1>4, <2>1
  <2>3. Held(i)' => /\ Awaits(i, session[Other(i[1])].streams[i].next)'
                   /\ \A k : ~ChunkAt(i, k)' /\ ~AckAt(i, k)'
    BY <1>1, <1>4, <2>1 DEF Held, Awaits, ChunkAt, AckAt, Post, Msg
  <2>4. \A k : ChunkAt(i, k)' => /\ Awaits(i, Msg(i[1], k).arg.index + 1)'
                                 /\ \A j : ~AckAt(i, j)' /\ (ChunkAt(i, j)' => j = k)
    BY <1>1, <1>4, <2>1 DEF Awaits, ChunkAt, AckAt, Post, Msg
  <2>5. \A k : AckAt(i, k)' => /\ Awaits(i, Msg(Other(i[1]), k).arg.index)'
                               /\ \A j : AckAt(i, j)' => j = k
    BY <1>1, <1>4, <2>1 DEF Awaits, AckAt, Post, Msg
  <2>6. BothOpen' /\ (\E j : Awaits(i, j)') => Held(i)' \/ \E k : ChunkAt(i, k)' \/ AckAt(i, k)'
    BY <1>1, <1>4, <2>1 DEF Held, Awaits, ChunkAt, AckAt, Post, Msg
  <2> QED
    BY <2>2, <2>3, <2>4, <2>5, <2>6 DEF OneChunk
<1>5. BothOpen' => BothOpen
  BY Reopens
<1>6. StreamMove(session[e].streams[i], session'[e].streams[i], m, e, i) /\ session'[Other(e)] = session[Other(e)]
  BY PostedStream
<1> HIDE DEF chunk, ack, chunk1, ack1, n
<1>7. CASE x = e
  <2>1. StreamMove(S, S1, m, x, i) /\ T1 = T /\ \A k : ack1(k) <=> ack(k)
    BY <1>1, <1>2, <1>6, <1>7
  <2> HIDE DEF S, T, S1, T1
  <2>2. CASE About(m, "stream.open", i)
    <3>1. /\ S = None /\ S1 \in OpenStream /\ S1.owner = x /\ ~S1.inFlight
          /\ ~About(m, "stream.chunk", i)
      BY <2>1, <2>2, StreamKinds DEF StreamMove
    <3> QED
      BY <1>1, <1>2, <1>3, <1>4, <1>5, <2>1, <3>1, NamesApart DEF S, T, S1, T1
  <2>3. CASE About(m, "stream.chunk", i)
    <3>1. /\ S \in OpenStream /\ ~S.inFlight /\ m.arg.index = S.next /\ S1 \in OpenStream
          /\ S1.owner = S.owner /\ S1.next = S.next + 1 /\ S1.inFlight
      BY <2>1, <2>3 DEF StreamMove, Sent
    <3>2. (\A k : ~chunk(k) /\ ~ack(k)) /\ ~(T \in OpenStream /\ T.inFlight)
      BY <1>3, <3>1 DEF S, T
    <3>3. \A k : chunk1(k) <=> k = n
      BY <1>2, <1>7, <2>3, <3>2
    <3>4. wire'[x][n].msg = m
      BY <1>2, <1>7
    <3>5. \A z \in Ends : session'[z].streams[i] \in OpenStream => session'[z].streams[i].owner = x
      BY <1>1, <1>3, <2>1, <3>1 DEF S, T, S1, T1
    <3> QED
      BY <1>1, <1>4, <2>1, <3>1, <3>2, <3>3, <3>4, <3>5 DEF S1, T1
  <2>4. CASE About(m, "stream.close", i)
    <3>1. /\ S \in OpenStream /\ ~S.inFlight /\ S1 = Used /\ ~About(m, "stream.chunk", i)
      BY <2>1, <2>4, StreamKinds DEF StreamMove
    <3> QED
      BY <1>1, <1>2, <1>3, <1>4, <2>1, <3>1, NamesApart DEF S, T, S1, T1
  <2>5. CASE ~(m.kind = "signal" /\ m.method \in Streaming /\ m.arg.stream = i)
    <3>1. S1 = S /\ ~About(m, "stream.chunk", i)
      BY <2>1, <2>5, StreamKinds DEF StreamMove
    <3>2. \A k : chunk1(k) <=> chunk(k)
      BY <1>2, <3>1
    <3> QED
      BY <1>1, <1>2, <1>3, <1>4, <1>5, <2>1, <3>1, <3>2, SMTT(60) DEF S, T, S1, T1
  <2> QED
    BY <2>1, <2>2, <2>3, <2>4, <2>5, StreamKinds DEF StreamMove
<1>8. CASE y = e
  <2>1. StreamMove(T, T1, m, y, i) /\ S1 = S /\ \A k : chunk1(k) <=> chunk(k)
    BY <1>1, <1>2, <1>6, <1>8
  <2> HIDE DEF S, T, S1, T1
  <2>2. CASE About(m, "stream.ack", i)
    <3>1. /\ T \in OpenStream /\ T.inFlight /\ m.arg.index = T.next /\ T1 \in OpenStream
          /\ T1.owner = T.owner /\ ~T1.inFlight
      BY <2>1, <2>2, SentIs DEF StreamMove, OpenStream
    <3>2. /\ \A k : ~chunk(k) /\ ~ack(k)
          /\ S \in OpenStream /\ S.inFlight /\ S.next = T.next
      BY <1>3, <3>1 DEF S, T
    <3>3. \A k : ack1(k) <=> k = n
      BY <1>2, <1>8, <2>2, <3>2
    <3>4. wire'[y][n].msg = m
      BY <1>2, <1>8
    <3>5. \A z \in Ends : session'[z].streams[i] \in OpenStream => session'[z].streams[i].owner = x
      BY <1>1, <1>3, <2>1, <3>1 DEF S, T, S1, T1
    <3> QED
      BY <1>1, <1>4, <2>1, <3>1, <3>2, <3>3, <3>4, <3>5 DEF S1, T1
  <2>3. CASE ~About(m, "stream.ack", i)
    <3>1. T1 = T
      BY <1>1, <2>1, <2>3, StreamKinds DEF StreamMove
    <3>2. \A k : ack1(k) <=> ack(k)
      BY <1>2, <2>3
    <3> QED
      BY <1>1, <1>2, <1>3, <1>4, <1>5, <2>1, <3>1, <3>2, SMTT(60) DEF S, T, S1, T1
  <2> QED
    BY <2>2, <2>3
<1> QED
  BY <1>1, <1>7, <1>8

LEMMA LeftOneChunk ==
  ASSUME WireTypeOK, WireTypeOK', Owned, NEW e \in Ends, NEW m, Shrinks(e, m), NEW i \in StreamIds, OneChunk(i),
         \A z \in Ends : session'[z].streams[i] \in OpenStream => session'[z].streams[i].owner = i[1],
         session'[i[1]].streams[i] = session[i[1]].streams[i],
         LET t == session[Other(i[1])].streams[i]
             u == session'[Other(i[1])].streams[i]
         IN  /\ u \in OpenStream /\ u.inFlight <=> t \in OpenStream /\ t.inFlight
             /\ u \in OpenStream /\ u.inFlight => u.next = t.next,
         BothOpen' => BothOpen /\ ~About(m, "stream.chunk", i) /\ ~About(m, "stream.ack", i)
  PROVE  OneChunk(i)'
<1> DEFINE x == i[1]
           y == Other(x)
           n == Len(wire[e]) - 1
           S == session[x].streams[i]
           T == session[y].streams[i]
           S1 == session'[x].streams[i]
           T1 == session'[y].streams[i]
           chunk(k) == k \in Post(x) /\ About(Msg(x, k), "stream.chunk", i)
           ack(k) == k \in Post(y) /\ About(Msg(y, k), "stream.ack", i)
           chunk1(k) == k \in 1..Len(wire'[x]) /\ About(wire'[x][k].msg, "stream.chunk", i)
           ack1(k) == k \in 1..Len(wire'[y]) /\ About(wire'[y][k].msg, "stream.ack", i)
<1>1. x \in Ends /\ y \in Ends /\ y # x /\ Other(y) = x /\ (e = x \/ e = y) /\ Ends = {x, y} /\ Shrinks(e, m)
  BY TwoEnds, StreamNames DEF Shrinks
<1>2. /\ \A k : chunk1(k) => /\ chunk(IF x = e THEN k + 1 ELSE k) /\ k \in Nat
                             /\ wire'[x][k].msg = Msg(x, IF x = e THEN k + 1 ELSE k)
                             /\ x = e => k + 1 # 1
      /\ \A k : chunk(k) => chunk1(IF x = e THEN k - 1 ELSE k) \/ (x = e /\ k = 1 /\ About(m, "stream.chunk", i))
      /\ \A k : ack1(k) => /\ ack(IF y = e THEN k + 1 ELSE k) /\ k \in Nat
                           /\ wire'[y][k].msg = Msg(y, IF y = e THEN k + 1 ELSE k)
                           /\ y = e => k + 1 # 1
      /\ \A k : ack(k) => ack1(IF y = e THEN k - 1 ELSE k) \/ (y = e /\ k = 1 /\ About(m, "stream.ack", i))
  <2>1. m = Msg(e, 1)
    BY DEF Shrinks
  <2>2. \A z \in Ends :
          /\ \A k \in 1..Len(wire'[z]) : /\ wire'[z][k].msg = Msg(z, IF z = e THEN k + 1 ELSE k)
                                         /\ (IF z = e THEN k + 1 ELSE k) \in Post(z)
                                         /\ z = e => k + 1 # 1
          /\ \A k \in Post(z) : ~(z = e /\ k = 1) =>
               /\ (IF z = e THEN k - 1 ELSE k) \in 1..Len(wire'[z])
               /\ wire'[z][IF z = e THEN k - 1 ELSE k].msg = Msg(z, k)
    BY <1>1, ShrinksAt
  <2>3. \A k : chunk1(k) => /\ chunk(IF x = e THEN k + 1 ELSE k) /\ k \in Nat
                            /\ wire'[x][k].msg = Msg(x, IF x = e THEN k + 1 ELSE k)
                            /\ x = e => k + 1 # 1
    BY <1>1, <2>2
  <2>4. \A k : ack1(k) => /\ ack(IF y = e THEN k + 1 ELSE k) /\ k \in Nat
                          /\ wire'[y][k].msg = Msg(y, IF y = e THEN k + 1 ELSE k)
                          /\ y = e => k + 1 # 1
    BY <1>1, <2>2
  <2>5. \A k : chunk(k) => chunk1(IF x = e THEN k - 1 ELSE k) \/ (x = e /\ k = 1 /\ About(m, "stream.chunk", i))
    BY <1>1, <2>1, <2>2
  <2>6. \A k : ack(k) => ack1(IF y = e THEN k - 1 ELSE k) \/ (y = e /\ k = 1 /\ About(m, "stream.ack", i))
    BY <1>1, <2>1, <2>2
  <2> QED
    BY <2>3, <2>4, <2>5, <2>6
<1>3. /\ \A z \in Ends : session[z].streams[i] \in OpenStream => session[z].streams[i].owner = x
      /\ T \in OpenStream /\ T.inFlight => /\ S \in OpenStream /\ S.inFlight /\ S.next = T.next
                                          /\ \A k : ~chunk(k) /\ ~ack(k)
      /\ \A k : chunk(k) => /\ S \in OpenStream /\ S.inFlight /\ S.next = Msg(x, k).arg.index + 1
                            /\ \A j : ~ack(j) /\ (chunk(j) => j = k)
      /\ \A k : ack(k) => /\ S \in OpenStream /\ S.inFlight /\ S.next = Msg(y, k).arg.index
                          /\ \A j : ack(j) => j = k
      /\ BothOpen /\ S \in OpenStream /\ S.inFlight => (T \in OpenStream /\ T.inFlight) \/ \E k : chunk(k) \/ ack(k)
  <2>1. \A z \in Ends : IsOpen(session[z], i) <=> session[z].streams[i] \in OpenStream
    BY OpenIs
  <2> QED
    BY <1>1, <2>1 DEF OneChunk, Held, Awaits, ChunkAt, AckAt
<1>4. ASSUME \A z \in Ends : session'[z].streams[i] \in OpenStream => session'[z].streams[i].owner = x,
             T1 \in OpenStream /\ T1.inFlight => /\ S1 \in OpenStream /\ S1.inFlight /\ S1.next = T1.next
                                               /\ \A k : ~chunk1(k) /\ ~ack1(k),
             \A k : chunk1(k) => /\ S1 \in OpenStream /\ S1.inFlight /\ S1.next = wire'[x][k].msg.arg.index + 1
                                /\ \A j : ~ack1(j) /\ (chunk1(j) => j = k),
             \A k : ack1(k) => /\ S1 \in OpenStream /\ S1.inFlight /\ S1.next = wire'[y][k].msg.arg.index
                              /\ \A j : ack1(j) => j = k,
             BothOpen' /\ S1 \in OpenStream /\ S1.inFlight
               => (T1 \in OpenStream /\ T1.inFlight) \/ \E k : chunk1(k) \/ ack1(k)
      PROVE  OneChunk(i)'
  <2>1. \A z \in Ends : IsOpen(session'[z], i) <=> session'[z].streams[i] \in OpenStream
    BY NamesApart DEF WireTypeOK, SessionType, IsOpen
  <2>2. \A z \in Ends : IsOpen(session'[z], i) => session'[z].streams[i].owner = x
    BY <1>4, <2>1
  <2>3. Held(i)' => /\ Awaits(i, session[Other(i[1])].streams[i].next)'
                   /\ \A k : ~ChunkAt(i, k)' /\ ~AckAt(i, k)'
    BY <1>1, <1>4, <2>1 DEF Held, Awaits, ChunkAt, AckAt, Post, Msg
  <2>4. \A k : ChunkAt(i, k)' => /\ Awaits(i, Msg(i[1], k).arg.index + 1)'
                                 /\ \A j : ~AckAt(i, j)' /\ (ChunkAt(i, j)' => j = k)
    BY <1>1, <1>4, <2>1 DEF Awaits, ChunkAt, AckAt, Post, Msg
  <2>5. \A k : AckAt(i, k)' => /\ Awaits(i, Msg(Other(i[1]), k).arg.index)'
                               /\ \A j : AckAt(i, j)' => j = k
    BY <1>1, <1>4, <2>1 DEF Awaits, AckAt, Post, Msg
  <2>6. BothOpen' /\ (\E j : Awaits(i, j)') => Held(i)' \/ \E k : ChunkAt(i, k)' \/ AckAt(i, k)'
    BY <1>1, <1>4, <2>1 DEF Held, Awaits, ChunkAt, AckAt, Post, Msg
  <2> QED
    BY <2>2, <2>3, <2>4, <2>5, <2>6 DEF OneChunk
<1> HIDE DEF chunk, ack, chunk1, ack1, n
<1>5. /\ S1 = S /\ (T1 \in OpenStream /\ T1.inFlight <=> T \in OpenStream /\ T.inFlight)
      /\ T1 \in OpenStream /\ T1.inFlight => T1.next = T.next
  OBVIOUS
<1> HIDE DEF S, T, S1, T1
<1>6. T1 \in OpenStream /\ T1.inFlight => /\ S1 \in OpenStream /\ S1.inFlight /\ S1.next = T1.next
                                         /\ \A k : ~chunk1(k) /\ ~ack1(k)
  BY <1>2, <1>3, <1>5 DEF S, T
<1>7. \A k : chunk1(k) => /\ S1 \in OpenStream /\ S1.inFlight /\ S1.next = wire'[x][k].msg.arg.index + 1
                          /\ \A j : ~ack1(j) /\ (chunk1(j) => j = k)
  BY <1>2, <1>3, <1>5, SMTT(30) DEF S
<1>8. \A k : ack1(k) => /\ S1 \in OpenStream /\ S1.inFlight /\ S1.next = wire'[y][k].msg.arg.index
                        /\ \A j : ack1(j) => j = k
  BY <1>2, <1>3, <1>5, SMTT(30) DEF S
<1>9. BothOpen' /\ S1 \in OpenStream /\ S1.inFlight
        => (T1 \in OpenStream /\ T1.inFlight) \/ \E k : chunk1(k) \/ ack1(k)
  BY <1>2, <1>3, <1>5 DEF S, T
<1> QED
  BY <1>4, <1>6, <1>7, <1>8, <1>9 DEF S1, T1

LEMMA TakenOneChunk ==
  ASSUME WireTypeOK, WireTypeOK', Owned, NEW e \in Ends, NEW m, Takes(e, m), NEW i \in StreamIds, OneChunk(i)
  PROVE  OneChunk(i)'
<1> DEFINE x == i[1]
           y == Other(x)
           n == Len(wire[e]) - 1
           S == session[x].streams[i]
           T == session[y].streams[i]
           S1 == session'[x].streams[i]
           T1 == session'[y].streams[i]
           chunk(k) == k \in Post(x) /\ About(Msg(x, k), "stream.chunk", i)
           ack(k) == k \in Post(y) /\ About(Msg(y, k), "stream.ack", i)
           chunk1(k) == k \in 1..Len(wire'[x]) /\ About(wire'[x][k].msg, "stream.chunk", i)
           ack1(k) == k \in 1..Len(wire'[y]) /\ About(wire'[y][k].msg, "stream.ack", i)
<1>1. x \in Ends /\ y \in Ends /\ y # x /\ Other(y) = x /\ (e = x \/ e = y) /\ Ends = {x, y} /\ Shrinks(e, m)
  BY TwoEnds, StreamNames DEF Takes
<1>2. /\ \A k : chunk1(k) => /\ chunk(IF x = e THEN k + 1 ELSE k) /\ k \in Nat
                             /\ wire'[x][k].msg = Msg(x, IF x = e THEN k + 1 ELSE k)
                             /\ x = e => k + 1 # 1
      /\ \A k : chunk(k) => chunk1(IF x = e THEN k - 1 ELSE k) \/ (x = e /\ k = 1 /\ About(m, "stream.chunk", i))
      /\ \A k : ack1(k) => /\ ack(IF y = e THEN k + 1 ELSE k) /\ k \in Nat
                           /\ wire'[y][k].msg = Msg(y, IF y = e THEN k + 1 ELSE k)
                           /\ y = e => k + 1 # 1
      /\ \A k : ack(k) => ack1(IF y = e THEN k - 1 ELSE k) \/ (y = e /\ k = 1 /\ About(m, "stream.ack", i))
  <2>1. m = Msg(e, 1)
    BY DEF Shrinks, Takes
  <2>2. \A z \in Ends :
          /\ \A k \in 1..Len(wire'[z]) : /\ wire'[z][k].msg = Msg(z, IF z = e THEN k + 1 ELSE k)
                                         /\ (IF z = e THEN k + 1 ELSE k) \in Post(z)
                                         /\ z = e => k + 1 # 1
          /\ \A k \in Post(z) : ~(z = e /\ k = 1) =>
               /\ (IF z = e THEN k - 1 ELSE k) \in 1..Len(wire'[z])
               /\ wire'[z][IF z = e THEN k - 1 ELSE k].msg = Msg(z, k)
    BY <1>1, ShrinksAt
  <2>3. \A k : chunk1(k) => /\ chunk(IF x = e THEN k + 1 ELSE k) /\ k \in Nat
                            /\ wire'[x][k].msg = Msg(x, IF x = e THEN k + 1 ELSE k)
                            /\ x = e => k + 1 # 1
    BY <1>1, <2>2
  <2>4. \A k : ack1(k) => /\ ack(IF y = e THEN k + 1 ELSE k) /\ k \in Nat
                          /\ wire'[y][k].msg = Msg(y, IF y = e THEN k + 1 ELSE k)
                          /\ y = e => k + 1 # 1
    BY <1>1, <2>2
  <2>5. \A k : chunk(k) => chunk1(IF x = e THEN k - 1 ELSE k) \/ (x = e /\ k = 1 /\ About(m, "stream.chunk", i))
    BY <1>1, <2>1, <2>2
  <2>6. \A k : ack(k) => ack1(IF y = e THEN k - 1 ELSE k) \/ (y = e /\ k = 1 /\ About(m, "stream.ack", i))
    BY <1>1, <2>1, <2>2
  <2> QED
    BY <2>3, <2>4, <2>5, <2>6
<1>3. /\ \A z \in Ends : session[z].streams[i] \in OpenStream => session[z].streams[i].owner = x
      /\ T \in OpenStream /\ T.inFlight => /\ S \in OpenStream /\ S.inFlight /\ S.next = T.next
                                          /\ \A k : ~chunk(k) /\ ~ack(k)
      /\ \A k : chunk(k) => /\ S \in OpenStream /\ S.inFlight /\ S.next = Msg(x, k).arg.index + 1
                            /\ \A j : ~ack(j) /\ (chunk(j) => j = k)
      /\ \A k : ack(k) => /\ S \in OpenStream /\ S.inFlight /\ S.next = Msg(y, k).arg.index
                          /\ \A j : ack(j) => j = k
      /\ BothOpen /\ S \in OpenStream /\ S.inFlight => (T \in OpenStream /\ T.inFlight) \/ \E k : chunk(k) \/ ack(k)
  <2>1. \A z \in Ends : IsOpen(session[z], i) <=> session[z].streams[i] \in OpenStream
    BY OpenIs
  <2> QED
    BY <1>1, <2>1 DEF OneChunk, Held, Awaits, ChunkAt, AckAt
<1>4. ASSUME \A z \in Ends : session'[z].streams[i] \in OpenStream => session'[z].streams[i].owner = x,
             T1 \in OpenStream /\ T1.inFlight => /\ S1 \in OpenStream /\ S1.inFlight /\ S1.next = T1.next
                                               /\ \A k : ~chunk1(k) /\ ~ack1(k),
             \A k : chunk1(k) => /\ S1 \in OpenStream /\ S1.inFlight /\ S1.next = wire'[x][k].msg.arg.index + 1
                                /\ \A j : ~ack1(j) /\ (chunk1(j) => j = k),
             \A k : ack1(k) => /\ S1 \in OpenStream /\ S1.inFlight /\ S1.next = wire'[y][k].msg.arg.index
                              /\ \A j : ack1(j) => j = k,
             BothOpen' /\ S1 \in OpenStream /\ S1.inFlight
               => (T1 \in OpenStream /\ T1.inFlight) \/ \E k : chunk1(k) \/ ack1(k)
      PROVE  OneChunk(i)'
  <2>1. \A z \in Ends : IsOpen(session'[z], i) <=> session'[z].streams[i] \in OpenStream
    BY NamesApart DEF WireTypeOK, SessionType, IsOpen
  <2>2. \A z \in Ends : IsOpen(session'[z], i) => session'[z].streams[i].owner = x
    BY <1>4, <2>1
  <2>3. Held(i)' => /\ Awaits(i, session[Other(i[1])].streams[i].next)'
                   /\ \A k : ~ChunkAt(i, k)' /\ ~AckAt(i, k)'
    BY <1>1, <1>4, <2>1 DEF Held, Awaits, ChunkAt, AckAt, Post, Msg
  <2>4. \A k : ChunkAt(i, k)' => /\ Awaits(i, Msg(i[1], k).arg.index + 1)'
                                 /\ \A j : ~AckAt(i, j)' /\ (ChunkAt(i, j)' => j = k)
    BY <1>1, <1>4, <2>1 DEF Awaits, ChunkAt, AckAt, Post, Msg
  <2>5. \A k : AckAt(i, k)' => /\ Awaits(i, Msg(Other(i[1]), k).arg.index)'
                               /\ \A j : AckAt(i, j)' => j = k
    BY <1>1, <1>4, <2>1 DEF Awaits, AckAt, Post, Msg
  <2>6. BothOpen' /\ (\E j : Awaits(i, j)') => Held(i)' \/ \E k : ChunkAt(i, k)' \/ AckAt(i, k)'
    BY <1>1, <1>4, <2>1 DEF Held, Awaits, ChunkAt, AckAt, Post, Msg
  <2> QED
    BY <2>2, <2>3, <2>4, <2>5, <2>6 DEF OneChunk
<1>5. BothOpen' => BothOpen
  BY Reopens
<1>6. StreamMove(session[Other(e)].streams[i], session'[Other(e)].streams[i], m, e, i) /\ session'[e] = session[e]
  BY TakenStream
<1> HIDE DEF chunk, ack, chunk1, ack1, n
<1>7. CASE x = e
  <2>1. StreamMove(T, T1, m, x, i) /\ S1 = S
    BY <1>1, <1>6, <1>7
  <2>2. ASSUME ~(T \in OpenStream /\ T.inFlight), T1 \in OpenStream => T1.owner = x /\ ~T1.inFlight,
               ~About(m, "stream.chunk", i), ~About(m, "stream.ack", i)
        PROVE  OneChunk(i)'
    BY <1>1, <1>3, <1>5, <2>1, <2>2, LeftOneChunk
  <2>3. CASE About(m, "stream.open", i)
    BY <2>1, <2>2, <2>3, StreamKinds, NamesApart DEF StreamMove
  <2>4. CASE About(m, "stream.close", i)
    BY <2>1, <2>2, <2>4, StreamKinds, NamesApart DEF StreamMove
  <2>5. CASE ~(m.kind = "signal" /\ m.method \in Streaming /\ m.arg.stream = i)
    <3>1. T1 = T /\ ~About(m, "stream.chunk", i) /\ ~About(m, "stream.ack", i)
      BY <2>1, <2>5, StreamKinds DEF StreamMove
    <3> QED
      BY <1>1, <1>3, <1>5, <2>1, <3>1, LeftOneChunk
  <2> HIDE DEF S, T, S1, T1
  <2>6. CASE About(m, "stream.chunk", i)
    <3>1. /\ T \in OpenStream /\ ~T.inFlight /\ m.arg.index = T.next /\ T1 \in OpenStream
          /\ T1.owner = T.owner /\ T1.next = T.next + 1 /\ T1.inFlight
      BY <2>1, <2>6 DEF StreamMove, Sent
    <3>2. chunk(1) /\ Msg(x, 1) = m
      BY <1>7, <2>6 DEF Takes, Shrinks, chunk
    <3>3. /\ S \in OpenStream /\ S.inFlight /\ S.next = T1.next
          /\ \A j : ~ack(j) /\ (chunk(j) => j = 1)
      BY <1>3, <3>1, <3>2 DEF S
    <3>4. \A k : ~chunk1(k) /\ ~ack1(k)
      BY <1>2, <1>7, <3>3
    <3>5. \A z \in Ends : session'[z].streams[i] \in OpenStream => session'[z].streams[i].owner = x
      BY <1>1, <1>3, <2>1, <3>1 DEF S, T, S1, T1
    <3> QED
      BY <1>4, <2>1, <3>1, <3>3, <3>4, <3>5 DEF S1, T1
  <2> QED
    BY <2>1, <2>3, <2>4, <2>5, <2>6, StreamKinds DEF StreamMove
<1>8. CASE y = e
  <2>1. StreamMove(S, S1, m, y, i) /\ T1 = T
    BY <1>1, <1>6, <1>8
  <2>2. CASE ~About(m, "stream.ack", i)
    <3>1. S1 = S
      BY <1>1, <2>1, <2>2, StreamKinds DEF StreamMove
    <3>2. ~About(m, "stream.chunk", i)
      BY <1>1, <2>1 DEF StreamMove
    <3> QED
      BY <1>1, <1>3, <1>5, <2>1, <2>2, <3>1, <3>2, LeftOneChunk
  <2> HIDE DEF S, T, S1, T1
  <2>3. CASE About(m, "stream.ack", i)
    <3>1. /\ S \in OpenStream /\ S1 \in OpenStream /\ S1.owner = S.owner /\ ~S1.inFlight
      BY <2>1, <2>3, SentIs DEF StreamMove, OpenStream
    <3>2. ack(1)
      BY <1>8, <2>3 DEF Takes, Shrinks, ack
    <3>3. /\ ~(T \in OpenStream /\ T.inFlight) /\ \A j : ~chunk(j) /\ (ack(j) => j = 1)
      BY <1>3, <3>2 DEF T
    <3>4. \A k : ~chunk1(k) /\ ~ack1(k)
      BY <1>2, <1>8, <3>3
    <3>5. \A z \in Ends : session'[z].streams[i] \in OpenStream => session'[z].streams[i].owner = x
      BY <1>1, <1>3, <2>1, <3>1 DEF S, T, S1, T1
    <3> QED
      BY <1>4, <2>1, <3>1, <3>3, <3>4, <3>5 DEF S1, T1
  <2> QED
    BY <2>2, <2>3
<1> QED
  BY <1>1, <1>7, <1>8

LEMMA DroppedOneChunk ==
  ASSUME WireTypeOK, WireTypeOK', Owned, NEW e \in Ends, NEW m, Drops(e, m), Races',
         NEW i \in StreamIds, OneChunk(i)
  PROVE  OneChunk(i)'
<1>1. session' = session /\ Shrinks(e, m) /\ (BothOpen' => BothOpen)
  BY Reopens DEF Drops
<1>2. BothOpen => ~About(m, "stream.chunk", i) /\ ~About(m, "stream.ack", i)
  <2>1. BothOpen => \E r \in refused' : r.msg = m /\ (r.full => m.kind = "request")
    BY DroppedIs, TwoEnds DEF BothOpen, Full
  <2> QED
    BY <2>1 DEF Races, Racing, About, IsSignal
<1>3. \A z \in Ends : session[z].streams[i] \in OpenStream => session[z].streams[i].owner = i[1]
  BY OpenIs DEF Owned
<1> QED
  BY <1>1, <1>2, <1>3, LeftOneChunk

LEMMA PostedStreamsFly ==
  ASSUME WireTypeOK, Owned, NEW e \in Ends, NEW m, Posts(e, m), NEW i \in StreamIds, StreamsFly(i)
  PROVE  StreamsFly(i)'
<1>1. StreamMove(session[e].streams[i], session'[e].streams[i], m, e, i) /\ Grows(e, m)
      /\ session'[Other(e)] = session[Other(e)]
  BY PostedStream DEF Posts
<1>2. None # Used /\ None \notin OpenStream /\ Used \notin OpenStream
  BY NamesApart
<1>3. session[e].streams[i] = Used => session'[e].streams[i] = Used
  BY <1>1, <1>2, StreamKinds DEF StreamMove
<1>4. \A x \in Ends : x = e \/ x = Other(e)
  BY TwoEnds
<1>5. ASSUME NEW x \in Ends, NEW k \in 1..Len(wire'[x])
      PROVE  /\ About(wire'[x][k].msg, "stream.ack", i) => i[1] # x
             /\ About(wire'[x][k].msg, "stream.close", i) => session'[x].streams[i] = Used
  <2>1. CASE k \in Post(x)
    <3>1. wire'[x][k].msg = Msg(x, k)
      BY <1>1, <2>1, GrowsAt
    <3>2. session[x].streams[i] = Used => session'[x].streams[i] = Used
      BY <1>1, <1>3, <1>4
    <3> QED
      BY <2>1, <3>1, <3>2 DEF StreamsFly
  <2>2. CASE k \notin Post(x)
    <3>1. x = e /\ wire'[x][k].msg = m
      BY <1>1, <2>2, GrowsAt
    <3> QED
      BY <1>1, <3>1 DEF StreamMove
  <2> QED
    BY <2>1, <2>2
<1> QED
  BY <1>5 DEF StreamsFly, Post, Msg

LEMMA LeftStreamsFly ==
  ASSUME WireTypeOK, Owned, NEW e \in Ends, NEW m, Takes(e, m) \/ Drops(e, m),
         NEW i \in StreamIds, StreamsFly(i)
  PROVE  StreamsFly(i)'
<1>1. Shrinks(e, m)
  BY DEF Takes, Drops
<1>2. None # Used /\ None \notin OpenStream /\ Used \notin OpenStream
  BY NamesApart
<1>3. ASSUME NEW x \in Ends, session[x].streams[i] = Used
      PROVE  session'[x].streams[i] = Used
  <2>1. CASE Drops(e, m)
    BY <1>3, <2>1 DEF Drops
  <2>2. CASE Takes(e, m)
    <3>1. /\ StreamMove(session[Other(e)].streams[i], session'[Other(e)].streams[i], m, e, i)
          /\ session'[e] = session[e]
      BY <2>2, TakenStream
    <3>2. session[Other(e)].streams[i] = Used => session'[Other(e)].streams[i] = Used
      BY <1>2, <3>1, StreamKinds DEF StreamMove
    <3>3. x = e \/ x = Other(e)
      BY TwoEnds
    <3> QED
      BY <1>3, <3>1, <3>2, <3>3
  <2> QED
    BY <2>1, <2>2
<1>4. ASSUME NEW x \in Ends, NEW k \in 1..Len(wire'[x])
      PROVE  /\ About(wire'[x][k].msg, "stream.ack", i) => i[1] # x
             /\ About(wire'[x][k].msg, "stream.close", i) => session'[x].streams[i] = Used
  <2>1. PICK j \in Post(x) : wire'[x][k].msg = Msg(x, j)
    BY <1>1, ShrinksAt
  <2> QED
    BY <1>3, <2>1 DEF StreamsFly
<1> QED
  BY <1>4 DEF StreamsFly, Post, Msg

-----------------------------------------------------------------------------
(* The oldest message on its way is let in, unless it is one of those that race.  Hasty *)
(* says that something came against such a one.                                        *)

Hasty(e) == wire[e][1].crossed /\ Msg(e, 1).method \in Racing /\ ~IsAnswer(Msg(e, 1))

LEMMA HeadFits ==
  ASSUME WireTypeOK, NEW e \in Ends, Follows(e), ~session[Other(e)].closed, 1 \in Post(e)
  PROVE  MineOk(Mine(session[Other(e)], e), Msg(e, 1), e)
<1>1. PICK h : Leads(h, e)
  BY DEF Follows
<1>2. MineOk(h[1 - 1], Msg(e, 1), e) /\ 1 - 1 = 0 /\ h[0] = Mine(session[Other(e)], e)
  BY <1>1 DEF Leads
<1> QED
  BY <1>2

LEMMA HeadFormed ==
  ASSUME NEW e \in Ends, RolesAgree, 1 \in Post(e)
  PROVE  WellFormed(session[Other(e)], Msg(e, 1)) /\ Authorized(session[Other(e)], Msg(e, 1), e)
<1>1. session[e].role = session[Other(e)].role
  BY TwoEnds DEF RolesAgree
<1>2. WellFormed(session[e], Msg(e, 1)) /\ Authorized(session[e], Msg(e, 1), e)
  BY DEF RolesAgree
<1> QED
  BY <1>1, <1>2, SameRole

LEMMA HostPart ==
  ASSUME NEW s
  PROVE  /\ Mine(s, "host").bootstrapped = s.bootstrapped /\ Mine(s, "host").context = s.context
         /\ Mine(s, "host").provider = s.provider /\ Mine(s, "host").subscriptions = s.subscriptions
         /\ Mine(s, "host").released = s.released /\ Mine(s, "host").streams = OwnStreams(s, "host")
BY DEF Mine

LEMMA PluginPart ==
  ASSUME NEW s
  PROVE  /\ Mine(s, "plugin").ready = s.ready /\ Mine(s, "plugin").dom = s.dom
         /\ Mine(s, "plugin").nodes = s.nodes /\ Mine(s, "plugin").streams = OwnStreams(s, "plugin")
BY DEF Mine

LEMMA HeadInOrder ==
  ASSUME WireTypeOK, NEW e \in Ends, RolesAgree, Booted, RequestsFly(e), Follows(e),
         ~session[Other(e)].closed, 1 \in Post(e)
  PROVE  InOrder(session[Other(e)], Msg(e, 1))
<1> DEFINE s == session[Other(e)]
           m == Msg(e, 1)
<1>1. m \in Letters(e) /\ Authorized(s, m, e) /\ MineOk(Mine(s, e), m, e)
  BY PostIs, HeadFormed, HeadFits
<1>2. m.kind = "request" => m.id \in RequestIds /\ s.requests[m.id] = None
  BY <1>1, LetterIs DEF RequestsFly
<1>3. (s.bootstrapped \/ IsRequest(m, "runtime.bootstrap"))
      /\ (IsRequest(m, "runtime.bootstrap") => ~s.bootstrapped)
  <2>1. CASE e = "host"
    <3>1. HostOk(Mine(s, "host"), m) /\ Mine(s, "host").bootstrapped = s.bootstrapped
      BY <1>1, <2>1, HostPart DEF MineOk
    <3> QED
      BY <3>1 DEF HostOk
  <2>2. CASE e = "plugin"
    <3>1. ~IsRequest(m, "runtime.bootstrap")
      BY <1>1, <2>2, PluginSends
    <3>2. wire["plugin"] # <<>>
      BY <2>2, PostIs DEF Post
    <3>3. s = session["host"]
      BY <2>2, TwoEnds
    <3> QED
      BY <3>1, <3>2, <3>3 DEF Booted, Ends
  <2> QED
    BY <2>1, <2>2, TwoEnds
<1> QED
  BY <1>2, <1>3 DEF InOrder, IsRequest

LEMMA FewPending ==
  ASSUME NEW s
  PROVE  Cardinality(Pending(s)) \in Nat
<1>1. IsFiniteSet(1..MaxIds)
  BY FS_Interval, WireBounds
<1>2. IsFiniteSet(Ends)
  <2>1. IsFiniteSet({"host"}) /\ IsFiniteSet({"plugin"})
    BY FS_Singleton
  <2>2. Ends = {"host"} \cup {"plugin"}
    BY TwoEnds
  <2> QED
    BY <2>1, <2>2, FS_Union
<1>3. IsFiniteSet(RequestIds)
  BY <1>1, <1>2, FS_Product DEF RequestIds
<1>4. IsFiniteSet(Pending(s))
  BY <1>3, FS_Subset DEF Pending
<1> QED
  BY <1>4, FS_CardinalityType

LEMMA HeadCorrelated ==
  ASSUME WireTypeOK, NEW e \in Ends, RolesAgree, TablesAgree(e), TablesAgree(Other(e)),
         NewsFly(e), CancelsFly(e),
         ~session[Other(e)].closed, 1 \in Post(e), ~Full(Other(e), Msg(e, 1)), ~Hasty(e)
  PROVE  Correlated(session[Other(e)], Msg(e, 1), e)
<1> DEFINE s == session[Other(e)]
           m == Msg(e, 1)
<1>1. m \in Letters(e) /\ Authorized(s, m, e) /\ Other(e) \in Ends /\ Other(e) # e /\ Other(Other(e)) = e
  BY PostIs, HeadFormed, TwoEnds
<1>2. m.kind = "request" => Cardinality(Pending(s)) < MaxPending
  <2>1. Cardinality(Pending(s)) \in Nat /\ MaxPending \in Nat
    BY FewPending, WireBounds
  <2> QED
    BY <2>1 DEF Full
<1>3. News(m) => /\ m.id \in RequestIds /\ IsPending(s, m.id) /\ RequestOf(s, m).method = Of(m)
                 /\ RequestOf(s, m).from = Other(e)
                 /\ IsAnswer(m) => m.method # "plugin-command.invoke"
  BY <1>1 DEF NewsFly, TablesAgree, RequestOf
<1>4. IsAnswer(m) => /\ IsPending(s, m.id) /\ RequestOf(s, m).from # e /\ RequestOf(s, m).method = m.method
                     /\ m.method # "plugin-command.invoke"
  BY <1>1, <1>3 DEF News, Settles, Of
<1>5. ASSUME Cancels(m)
      PROVE  /\ IsPending(s, m.id) /\ RequestOf(s, m).method = "plugin-command.invoke"
             /\ RequestOf(s, m).from = e
  <2>1. ~wire[e][1].crossed
    BY <1>5 DEF Hasty, Racing, Cancels, IsSignal, IsAnswer
  <2>2. m.id \in RequestIds
    BY <1>1, <1>5 DEF Letters, Cancels, IsSignal, PluginCommand
  <2>3. ~\E j \in Post(e) : AsksFor(Msg(e, j), m.id)
    <3>1. \A j \in Post(e) : AsksFor(Msg(e, j), m.id) => j < 1
      BY <1>5 DEF CancelsFly
    <3> QED
      BY <3>1 DEF Post
  <2>4. /\ m.id[1] = e /\ IsPending(session[e], m.id) /\ IsPending(s, m.id)
        /\ session[e].requests[m.id].method = "plugin-command.invoke"
    BY <1>5, <2>1, <2>3 DEF CancelsFly
  <2> QED
    BY <2>2, <2>4 DEF TablesAgree, RequestOf
<1>6. m.kind = "signal" /\ m.method \in PluginCommand => News(m) \/ Cancels(m)
  BY DEF PluginCommand, News, Settles, Cancels, IsSignal
<1>7. m.kind = "signal" /\ News(m) => Of(m) = "plugin-command.invoke" /\ m.method # "plugin-command.cancel"
  BY DEF News, Settles, IsAnswer, Of, IsSignal
<1>8. Cancels(m) => m.method = "plugin-command.cancel"
  BY DEF Cancels, IsSignal
<1>9. m.kind = "signal" /\ m.method \in PluginCommand =>
           /\ IsPending(s, m.id) /\ RequestOf(s, m).method = "plugin-command.invoke"
           /\ (m.method = "plugin-command.cancel") = (RequestOf(s, m).from = e)
  BY <1>1, <1>3, <1>5, <1>6, <1>7, <1>8
<1> QED
  BY <1>2, <1>4, <1>9 DEF Correlated

\* The steps of the session, ...
LEMMA HeadSteps ==
  ASSUME WireTypeOK, NEW e \in Ends, RolesAgree, Booted, Follows(e),
         ~session[Other(e)].closed, 1 \in Post(e)
  PROVE  LET s == session[Other(e)]
             m == Msg(e, 1)
         IN  /\ IsSignal(m, "lifecycle.ready") => ~s.ready
             /\ IsRequest(m, "context.update") => m.arg.revision > s.context
             /\ m.kind = "request" /\ m.method \in ProviderMethods =>
                  /\ m.arg = s.context /\ s.ready
                  /\ s.provider = (IF m.method = "provider.mount" THEN "idle" ELSE "mounted")
             /\ IsSignal(m, "event.deliver") => s.subscriptions[m.arg.subscription] = m.arg.topic
             /\ IsResult(m, "event.subscribe") => /\ m.arg \notin Subscribed(s)
                                                  /\ Cardinality(Subscribed(s)) < MaxSubscriptions
<1> DEFINE s == session[Other(e)]
           m == Msg(e, 1)
<1>1. Authorized(s, m, e) /\ MineOk(Mine(s, e), m, e)
  BY HeadFormed, HeadFits
<1>2. CASE e = "host"
  <2>1. HostOk(Mine(s, "host"), m)
    BY <1>1, <1>2 DEF MineOk
  <2>2. Subscribed(Mine(s, "host")) = Subscribed(s)
    BY HostPart DEF Subscribed
  <2>3. ~IsSignal(m, "lifecycle.ready")
    BY <1>1, <1>2, HostSends
  <2>4. m.kind = "request" /\ m.method \in ProviderMethods => s.ready
    BY <1>2, TwoEnds DEF Booted
  <2>5. /\ IsRequest(m, "context.update") => m.arg.revision > s.context
        /\ m.kind = "request" /\ m.method \in ProviderMethods =>
                  /\ m.arg = s.context
                  /\ s.provider = (IF m.method = "provider.mount" THEN "idle" ELSE "mounted")
        /\ IsSignal(m, "event.deliver") => s.subscriptions[m.arg.subscription] = m.arg.topic
        /\ IsResult(m, "event.subscribe") => /\ m.arg \notin Subscribed(s)
                                             /\ Cardinality(Subscribed(s)) < MaxSubscriptions
    BY <2>1, <2>2, HostPart DEF HostOk
  <2> QED
    BY <2>3, <2>4, <2>5
<1>3. CASE e = "plugin"
  <2>1. PluginOk(Mine(s, "plugin"), m)
    BY <1>1, <1>3 DEF MineOk
  <2>2. IsSignal(m, "lifecycle.ready") => ~s.ready
    BY <2>1, PluginPart DEF PluginOk
  <2>3. /\ ~IsRequest(m, "context.update") /\ ~(m.kind = "request" /\ m.method \in ProviderMethods)
        /\ ~IsSignal(m, "event.deliver") /\ ~IsResult(m, "event.subscribe")
    BY <1>1, <1>3, PluginSends
  <2> QED
    BY <2>2, <2>3
<1> QED
  BY <1>2, <1>3, TwoEnds

\* ... the document, what it holds and has given up, ...
LEMMA HeadDocument ==
  ASSUME WireTypeOK, NEW e \in Ends, RolesAgree, Follows(e),
         ~session[Other(e)].closed, 1 \in Post(e)
  PROVE  LET s == session[Other(e)]
             m == Msg(e, 1)
         IN  /\ IsSignal(m, "dom.revision") => m.arg.revision > s.dom
             /\ DomRevised(m) => /\ m.arg.revision >= s.dom
                                 /\ Cardinality(NodesAfter(s, m)) <= MaxDomOwnedNodes
<1> DEFINE s == session[Other(e)]
           m == Msg(e, 1)
<1>1. Authorized(s, m, e) /\ MineOk(Mine(s, e), m, e)
  BY HeadFormed, HeadFits
<1>2. CASE e = "host"
  <2>1. ~DomRevised(m)
    BY <1>1, <1>2, HostSends
  <2> QED
    BY <2>1 DEF DomRevised
<1>3. CASE e = "plugin"
  <2>1. PluginOk(Mine(s, "plugin"), m)
    BY <1>1, <1>3 DEF MineOk
  <2>2. NodesAfter(Mine(s, "plugin"), m) = NodesAfter(s, m)
    BY PluginPart DEF NodesAfter
  <2> QED
    BY <2>1, <2>2, PluginPart DEF PluginOk
<1> QED
  BY <1>2, <1>3, TwoEnds

LEMMA HeadFinds ==
  ASSUME NEW e \in Ends, UncrossedFind(e), 1 \in Post(e), ~Hasty(e)
  PROVE  Finds(session[Other(e)], Msg(e, 1))
<1> DEFINE s == session[Other(e)]
           m == Msg(e, 1)
<1>1. CASE ~wire[e][1].crossed
  BY <1>1 DEF UncrossedFind
<1>2. CASE m.method \notin Racing
  <2>1. Named(m) = {}
    BY <1>2 DEF Named, Racing
  <2>2. /\ m.method \notin {"resource.open", "resource.release"}
        /\ ~IsRequest(m, "event.unsubscribe")
    BY <1>2 DEF Racing, IsRequest
  <2> QED
    BY <2>1, <2>2 DEF Finds
<1>3. CASE IsAnswer(m)
  <2>1. m.kind # "request"
    BY <1>3 DEF IsAnswer
  <2>2. Named(m) = {} /\ ~IsRequest(m, "event.unsubscribe")
    BY <2>1 DEF Named, IsRequest
  <2> QED
    BY <2>1, <2>2 DEF Finds
<1> QED
  BY <1>1, <1>2, <1>3 DEF Hasty

\* ... and its streams.
LEMMA HeadStreams ==
  ASSUME OneOpener, WireTypeOK, Owned, NEW e \in Ends, Follows(e),
         \A i \in StreamIds : OneChunk(i) /\ StreamsFly(i),
         ~session[Other(e)].closed, 1 \in Post(e)
  PROVE  StreamAllows(session[Other(e)], Msg(e, 1), e)
<1> DEFINE o == Other(e)
           s == session[o]
           m == Msg(e, 1)
           i == m.arg.stream
<1>1. m \in Letters(e) /\ s \in SessionType /\ MineOk(Mine(s, e), m, e) /\ o \in Ends /\ o # e /\ Other(o) = e
  BY PostIs, HeadFits, TwoEnds
<1>2. StreamOk(OwnStreams(s, e), m, e)
  <2>1. Mine(s, e).streams = OwnStreams(s, e)
    BY HostPart, PluginPart, TwoEnds
  <2> QED
    BY <1>1, <2>1 DEF MineOk
<1>3. m.kind = "signal" => m.arg \in SignalArgs(e, m.method)
  BY <1>1 DEF Letters
<1>4. CASE OwnerSignal(m)
  <2>1. i \in Own(e) /\ i \in StreamIds /\ i[1] = e
    <3>1. DOMAIN OwnStreams(s, e) = Own(e)
      BY DEF OwnStreams
    <3> QED
      BY <1>2, <1>4, <3>1 DEF StreamOk, Own
  <2>2. ASSUME IsOpen(s, i), s.streams[i].inFlight
        PROVE  FALSE
    <3>1. Held(i) /\ OneChunk(i) /\ StreamsFly(i)
      BY <2>1, <2>2 DEF Held
    <3>2. IsOpen(session[e], i) /\ ~ChunkAt(i, 1)
      BY <2>1, <3>1 DEF OneChunk, Awaits
    <3>3. ~About(m, "stream.chunk", i)
      BY <2>1, <3>2 DEF ChunkAt
    <3>4. ~About(m, "stream.close", i)
      BY <3>1, <3>2 DEF StreamsFly, IsOpen
    <3>5. m.method = "stream.open"
      BY <1>4, <3>3, <3>4 DEF OwnerSignal, Streaming, About, IsSignal
    <3>6. OwnStreams(s, e)[i] = None
      BY <1>2, <1>4, <3>5 DEF StreamOk
    <3>7. OwnStreams(s, e)[i] = Plain(s.streams[i])
      BY <2>1 DEF OwnStreams
    <3>8. s.streams[i] \in OpenStream \cup {None, Used}
      BY <1>1, <2>1, OpenIs
    <3>9. s.streams[i] = None
      BY <3>6, <3>7, <3>8, PlainTells
    <3> QED
      BY <2>2, <3>9 DEF IsOpen
  <2> QED
    BY <1>1, <1>2, <1>4, <2>1, <2>2, OwnStreamsTaken
<1>5. CASE IsSignal(m, "stream.ack")
  <2>1. i \in StreamIds
    BY <1>3, <1>5, StreamArgs DEF IsSignal
  <2>2. StreamsFly(i) /\ OneChunk(i) /\ About(m, "stream.ack", i)
    BY <1>5, <2>1 DEF About
  <2>3. i[1] # e /\ i[1] \in Ends
    BY <2>1, <2>2, StreamNames DEF StreamsFly
  <2>4. i[1] = o
    BY <2>3, TwoEnds
  <2>5. AckAt(i, 1)
    BY <1>1, <2>2, <2>4 DEF AckAt
  <2>6. Awaits(i, m.arg.index)
    BY <1>1, <2>2, <2>4, <2>5 DEF OneChunk
  <2>7. IsOpen(s, i) /\ s.streams[i].inFlight /\ s.streams[i].next = m.arg.index
    BY <2>4, <2>6 DEF Awaits
  <2>8. s.streams[i].owner = o /\ s.streams[i].inFlight \in BOOLEAN
    BY <1>1, <2>1, <2>4, <2>7, OpenIs DEF Owned
  <2>9. m.method = "stream.ack"
    BY <1>5 DEF IsSignal
  <2> QED
    BY <1>1, <2>7, <2>8, <2>9 DEF StreamAllows
<1>6. CASE ~OwnerSignal(m) /\ ~IsSignal(m, "stream.ack")
  BY <1>6 DEF OwnerSignal, IsSignal, StreamAllows
<1> QED
  BY <1>4, <1>5, <1>6

LEMMA HeadIsTaken ==
  ASSUME OneOpener, WireInv, Owned, NEW e \in Ends, ~session[Other(e)].closed, 1 \in Post(e),
         ~Full(Other(e), Msg(e, 1)), ~Hasty(e)
  PROVE  Accepts(session[Other(e)], Msg(e, 1), e)
<1> DEFINE s == session[Other(e)]
           m == Msg(e, 1)
<1>1. WireTypeOK /\ RolesAgree /\ Booted /\ Told(e) /\ Told(Other(e))
      /\ \A i \in StreamIds : OneChunk(i) /\ StreamsFly(i)
  BY TwoEnds DEF WireInv
<1>2. /\ TablesAgree(e) /\ RequestsFly(e) /\ NewsFly(e) /\ CancelsFly(e) /\ UncrossedFind(e) /\ Follows(e)
      /\ TablesAgree(Other(e))
  BY <1>1 DEF Told
<1>3. WellFormed(s, m) /\ Authorized(s, m, e)
  BY <1>1, HeadFormed
<1>4. InOrder(s, m)
  BY <1>1, <1>2, HeadInOrder
<1>5. Correlated(s, m, e)
  BY <1>1, <1>2, HeadCorrelated
<1>6. DomAllows(s, m)
  BY <1>1, <1>2, HeadDocument, HeadFinds DEF DomAllows, Finds
<1>7. /\ m.kind = "request" /\ m.method \in {"resource.open", "resource.release"} =>
           m.arg \in ResourceHandles \ s.released
      /\ IsRequest(m, "event.unsubscribe") => m.arg \in Subscribed(s)
  BY <1>2, HeadFinds DEF Finds
<1>8. StreamAllows(s, m, e)
  BY <1>1, <1>2, HeadStreams
<1>9. /\ IsSignal(m, "lifecycle.ready") => ~s.ready
      /\ IsRequest(m, "context.update") => m.arg.revision > s.context
      /\ m.kind = "request" /\ m.method \in ProviderMethods =>
           /\ m.arg = s.context /\ s.ready
           /\ s.provider = (IF m.method = "provider.mount" THEN "idle" ELSE "mounted")
      /\ IsSignal(m, "event.deliver") => s.subscriptions[m.arg.subscription] = m.arg.topic
      /\ IsResult(m, "event.subscribe") => /\ m.arg \notin Subscribed(s)
                                           /\ Cardinality(Subscribed(s)) < MaxSubscriptions
  BY <1>1, <1>2, HeadSteps
<1>10. Allows(s, m, e)
  BY <1>6, <1>7, <1>8, <1>9 DEF Allows
<1> QED
  BY <1>3, <1>4, <1>5, <1>10 DEF Accepts

-----------------------------------------------------------------------------
(* The invariant holds from the start and is kept. *)

LEMMA DroppedRaces ==
  ASSUME OneOpener, WireInv, Owned, NEW e \in Ends, NEW m, Drops(e, m)
  PROVE  Races'
<1> DEFINE r == [msg |-> m, crossed |-> wire[e][1].crossed, full |-> Full(Other(e), m)]
<1>1. m = Msg(e, 1) /\ 1 \in Post(e)
  BY DEF Drops, Shrinks
<1>2. Races
  BY DEF WireInv
<1>3. CASE session[Other(e)].closed
  <2>1. refused' = refused
    BY <1>3 DEF Drops
  <2> QED
    BY <1>2, <2>1 DEF Races
<1>4. CASE ~session[Other(e)].closed
  <2>1. ~Accepts(session[Other(e)], Msg(e, 1), e) /\ refused' = refused \cup {r}
    BY <1>1, <1>4 DEF Drops
  <2>2. Full(Other(e), m) \/ Hasty(e)
    BY <1>1, <1>4, <2>1, HeadIsTaken
  <2>3. r.msg = m /\ r.crossed = wire[e][1].crossed /\ r.full = Full(Other(e), m)
    OBVIOUS
  <2>4. r.full \/ (r.crossed /\ r.msg.method \in Racing /\ ~IsAnswer(r.msg))
    BY <1>1, <2>2, <2>3 DEF Hasty
  <2> HIDE DEF r
  <2> QED
    BY <1>2, <2>1, <2>4 DEF Races
<1> QED
  BY <1>3, <1>4

LEMMA InvOwned ==
  ASSUME \A i \in StreamIds : OneChunk(i)
  PROVE  Owned
BY DEF OneChunk, Owned

LEMMA PostedInv ==
  ASSUME OneOpener, WireInv, WireTypeOK', Owned, NoneTooMany, NEW e \in Ends, NEW m, Posts(e, m)
  PROVE  WireInv'
<1> DEFINE o == Other(e)
<1>1. /\ WireTypeOK /\ RolesAgree /\ Booted /\ Races /\ Told(e) /\ Told(o)
      /\ \A i \in StreamIds : OneChunk(i) /\ StreamsFly(i)
  BY TwoEnds DEF WireInv
<1>2. /\ TablesAgree(e) /\ RequestsFly(e) /\ NewsFly(e) /\ CancelsFly(e)
      /\ UncrossedFind(e) /\ Follows(e) /\ Accounted(e)
  BY <1>1 DEF Told
<1>3. /\ TablesAgree(o) /\ RequestsFly(o) /\ NewsFly(o) /\ CancelsFly(o)
      /\ UncrossedFind(o) /\ Follows(o) /\ Accounted(o)
  BY <1>1 DEF Told
<1>4. TablesAgree(e)' /\ TablesAgree(o)'
  BY <1>1, <1>2, <1>3, PostedTablesAgree
<1>5. RequestsFly(e)' /\ RequestsFly(o)'
  BY <1>1, <1>2, <1>3, PostedRequestsFly
<1>6. NewsFly(e)' /\ NewsFly(o)'
  BY <1>1, <1>2, <1>3, PostedNewsFly
<1>7. CancelsFly(e)' /\ CancelsFly(o)'
  BY <1>1, <1>2, <1>3, PostedCancelsFly
<1>8. UncrossedFind(e)' /\ UncrossedFind(o)'
  BY <1>1, <1>2, <1>3, PostedUncrossedFind
<1>9. Follows(e)' /\ Follows(o)'
  BY <1>1, <1>2, <1>3, PostedFollows
<1>10. Accounted(e)' /\ Accounted(o)'
  BY <1>1, <1>2, <1>3, PostedAccounted
<1>11. Told(e)' /\ Told(o)'
  BY <1>4, <1>5, <1>6, <1>7, <1>8, <1>9, <1>10 DEF Told
<1>12. \A x \in Ends : Told(x)'
  <2>1. \A x \in Ends : x = e \/ x = o
    BY TwoEnds
  <2> QED
    BY <1>11, <2>1
<1>13. RolesAgree' /\ Booted'
  BY <1>1, PostedRolesAgree, PostedBooted
<1>14. Races'
  BY <1>1 DEF Races, Posts
<1>15. ASSUME NEW i \in StreamIds
       PROVE  OneChunk(i)' /\ StreamsFly(i)'
  BY <1>1, PostedOneChunk, PostedStreamsFly
<1> QED
  BY <1>12, <1>13, <1>14, <1>15 DEF WireInv

LEMMA TakenInv ==
  ASSUME OneOpener, WireInv, WireTypeOK', Owned, NEW e \in Ends, NEW m, Takes(e, m)
  PROVE  WireInv'
<1> DEFINE o == Other(e)
<1>1. /\ WireTypeOK /\ RolesAgree /\ Booted /\ Races /\ Told(e) /\ Told(o)
      /\ \A i \in StreamIds : OneChunk(i) /\ StreamsFly(i)
  BY TwoEnds DEF WireInv
<1>2. /\ TablesAgree(e) /\ RequestsFly(e) /\ NewsFly(e) /\ CancelsFly(e)
      /\ UncrossedFind(e) /\ Follows(e) /\ Accounted(e)
  BY <1>1 DEF Told
<1>3. /\ TablesAgree(o) /\ RequestsFly(o) /\ NewsFly(o) /\ CancelsFly(o)
      /\ UncrossedFind(o) /\ Follows(o) /\ Accounted(o)
  BY <1>1 DEF Told
<1>4. TablesAgree(e)' /\ TablesAgree(o)'
  BY <1>1, <1>2, <1>3, TakenTablesAgree
<1>5. RequestsFly(e)' /\ RequestsFly(o)'
  BY <1>1, <1>2, <1>3, TakenRequestsFly
<1>6. NewsFly(e)' /\ NewsFly(o)'
  BY <1>1, <1>2, <1>3, TakenNewsFly
<1>7. CancelsFly(e)' /\ CancelsFly(o)'
  BY <1>1, <1>2, <1>3, TakenCancelsFly
<1>8. UncrossedFind(e)' /\ UncrossedFind(o)'
  BY <1>1, <1>2, <1>3, TakenUncrossedFind
<1>9. Follows(e)' /\ Follows(o)'
  BY <1>1, <1>2, <1>3, TakenFollows
<1>10. Accounted(e)' /\ Accounted(o)'
  BY <1>1, <1>2, <1>3, TakenAccounted
<1>11. Told(e)' /\ Told(o)'
  BY <1>4, <1>5, <1>6, <1>7, <1>8, <1>9, <1>10 DEF Told
<1>12. \A x \in Ends : Told(x)'
  <2>1. \A x \in Ends : x = e \/ x = o
    BY TwoEnds
  <2> QED
    BY <1>11, <2>1
<1>13. RolesAgree' /\ Booted'
  BY <1>1, LeftRolesAgree, LeftBooted
<1>14. Races'
  BY <1>1 DEF Races, Takes
<1>15. ASSUME NEW i \in StreamIds
       PROVE  OneChunk(i)' /\ StreamsFly(i)'
  BY <1>1, TakenOneChunk, LeftStreamsFly
<1> QED
  BY <1>12, <1>13, <1>14, <1>15 DEF WireInv

LEMMA DroppedInv ==
  ASSUME OneOpener, WireInv, WireTypeOK', Owned, NoneTooMany', NEW e \in Ends, NEW m, Drops(e, m)
  PROVE  WireInv'
<1> DEFINE o == Other(e)
<1>1. /\ WireTypeOK /\ RolesAgree /\ Booted /\ Races /\ Told(e) /\ Told(o)
      /\ \A i \in StreamIds : OneChunk(i) /\ StreamsFly(i)
  BY TwoEnds DEF WireInv
<1>2. /\ TablesAgree(e) /\ RequestsFly(e) /\ NewsFly(e) /\ CancelsFly(e)
      /\ UncrossedFind(e) /\ Follows(e) /\ Accounted(e)
  BY <1>1 DEF Told
<1>3. /\ TablesAgree(o) /\ RequestsFly(o) /\ NewsFly(o) /\ CancelsFly(o)
      /\ UncrossedFind(o) /\ Follows(o) /\ Accounted(o)
  BY <1>1 DEF Told
<1>r. Races'
  BY DroppedRaces
<1>4. TablesAgree(e)' /\ TablesAgree(o)'
  BY <1>2, <1>3 DEF TablesAgree, Drops
<1>5. RequestsFly(e)' /\ RequestsFly(o)'
  BY <1>1, <1>2, <1>3, DroppedRequestsFly
<1>6. NewsFly(e)' /\ NewsFly(o)'
  BY <1>1, <1>2, <1>3, DroppedNewsFly
<1>7. CancelsFly(e)' /\ CancelsFly(o)'
  BY <1>1, <1>2, <1>3, <1>r, DroppedCancelsFly
<1>8. UncrossedFind(e)' /\ UncrossedFind(o)'
  BY <1>1, <1>2, <1>3, DroppedUncrossedFind
<1>9. Follows(e)' /\ Follows(o)'
  BY <1>1, <1>2, <1>3, <1>r, DroppedFollows
<1>10. Accounted(e)' /\ Accounted(o)'
  BY <1>1, <1>2, <1>3, <1>r, DroppedAccounted
<1>11. Told(e)' /\ Told(o)'
  BY <1>4, <1>5, <1>6, <1>7, <1>8, <1>9, <1>10 DEF Told
<1>12. \A x \in Ends : Told(x)'
  <2>1. \A x \in Ends : x = e \/ x = o
    BY TwoEnds
  <2> QED
    BY <1>11, <2>1
<1>13. RolesAgree' /\ Booted'
  BY <1>1, LeftRolesAgree, LeftBooted
<1>15. ASSUME NEW i \in StreamIds
       PROVE  OneChunk(i)' /\ StreamsFly(i)'
  BY <1>1, <1>r, DroppedOneChunk, LeftStreamsFly
<1> QED
  BY <1>12, <1>13, <1>r, <1>15 DEF WireInv

\* What was dropped stays dropped.
LEMMA RefusedGrows ==
  ASSUME [Next]_vars, NoneTooMany'
  PROVE  NoneTooMany
<1>1. ASSUME NEW e \in Ends, Receive(e)
      PROVE  refused \subseteq refused'
  BY <1>1 DEF Receive
<1>2. refused \subseteq refused'
  BY <1>1 DEF Next, Send, vars
<1> QED
  BY <1>2 DEF NoneTooMany

LEMMA InvStutters ==
  ASSUME WireInv, UNCHANGED vars
  PROVE  WireInv'
<1>1. session' = session /\ wire' = wire /\ refused' = refused /\ traffic' = traffic
  BY DEF vars
<1>2. WireTypeOK' /\ RolesAgree' /\ Booted' /\ Races'
  BY <1>1 DEF WireInv, WireTypeOK, RolesAgree, Booted, Races, Post, Msg
<1>3. ASSUME NEW e \in Ends
      PROVE  Told(e)'
  <2>1. Told(e)
    BY DEF WireInv
  <2>2. TablesAgree(e)' /\ RequestsFly(e)' /\ NewsFly(e)' /\ CancelsFly(e)'
    BY <1>1, <2>1 DEF Told, TablesAgree, RequestsFly, NewsFly, CancelsFly, Post, Msg
  <2>3. UncrossedFind(e)' /\ Follows(e)'
    BY <1>1, <2>1 DEF Told, UncrossedFind, Follows, Leads, Post, Msg
  <2>4. Accounted(e)'
    BY <1>1, <2>1 DEF Told, Accounted, BothOpen, Post, Msg
  <2> QED
    BY <2>2, <2>3, <2>4 DEF Told
<1>4. ASSUME NEW i \in StreamIds
      PROVE  OneChunk(i)' /\ StreamsFly(i)'
  <2>1. OneChunk(i) /\ StreamsFly(i)
    BY DEF WireInv
  <2>2. StreamsFly(i)'
    BY <1>1, <2>1 DEF StreamsFly, Post, Msg
  <2>3. OneChunk(i)'
    BY <1>1, <2>1 DEF OneChunk, BothOpen, Held, Awaits, ChunkAt, AckAt, Post, Msg
  <2> QED
    BY <2>2, <2>3
<1> QED
  BY <1>2, <1>3, <1>4 DEF WireInv

LEMMA WireStep ==
  ASSUME OneOpener, NoneTooMany => WireInv, [Next]_vars
  PROVE  (NoneTooMany => WireInv)'
<1> SUFFICES ASSUME NoneTooMany'
             PROVE  WireInv'
  OBVIOUS
<1>1. NoneTooMany /\ WireInv
  BY RefusedGrows
<1>2. WireTypeOK /\ Owned
  BY <1>1, InvOwned DEF WireInv
<1>3. ASSUME NEW e \in Ends, Send(e)
      PROVE  WireInv'
  <2>1. WireTypeOK' /\ \E m \in Letters(e) : Posts(e, m)
    BY <1>2, <1>3, SendPosts
  <2> QED
    BY <1>1, <1>2, <2>1, PostedInv
<1>4. ASSUME NEW x \in Ends, Receive(x)
      PROVE  WireInv'
  <2>1. PICK e \in Ends : x = Other(e)
    BY TwoEnds
  <2>2. WireTypeOK' /\ \E m \in Letters(e) : Takes(e, m) \/ Drops(e, m)
    BY <1>2, <1>4, <2>1, ReceiveTakes
  <2>3. PICK m \in Letters(e) : Takes(e, m) \/ Drops(e, m)
    BY <2>2
  <2> QED
    BY <1>1, <1>2, <2>2, <2>3, TakenInv, DroppedInv
<1>5. UNCHANGED vars => WireInv'
  BY <1>1, InvStutters
<1> QED
  BY <1>3, <1>4, <1>5 DEF Next

LEMMA FreeIs ==
  ASSUME NEW role \in {t.role : t \in Traffics}
  PROVE  /\ Free(role) \in SessionType /\ Free(role).role = role
         /\ ~Free(role).bootstrapped /\ ~Free(role).ready /\ ~Free(role).closed
         /\ \A id \in RequestIds : Free(role).requests[id] = None
         /\ \A i \in StreamIds : Free(role).streams[i] = None
<1> DEFINE s == Free(role)
<1>1. /\ s.role = role /\ s.bootstrapped = FALSE /\ s.ready = FALSE /\ s.provider = "idle"
      /\ s.closed = FALSE /\ s.context = 0 /\ s.dom = 0
  BY DEF Free
<1>2. /\ s.requests = [id \in RequestIds |-> None]
      /\ s.subscriptions = [i \in SubscriptionIds |-> None]
      /\ s.released = {} /\ s.nodes = {} /\ s.streams = [i \in StreamIds |-> None]
  BY DEF Free
<1>3. 0 \in Revisions
  BY WireBounds DEF Revisions
<1>4. s \in SessionType
  <2>1. s.requests \in [RequestIds -> PendingRequest \cup {None, Used}]
    BY <1>2
  <2>2. s.subscriptions \in [SubscriptionIds -> EventTopics \cup {None}]
    BY <1>2
  <2>3. s.streams \in [StreamIds -> OpenStream \cup {None, Used}]
    BY <1>2
  <2> QED
    BY <1>3, <2>1, <2>2, <2>3 DEF SessionType, Free
<1> QED
  BY <1>1, <1>2, <1>4

LEMMA WireStarts ==
  ASSUME Init
  PROVE  WireInv
<1>1. PICK role \in {t.role : t \in Traffics} : \A e \in Ends : session[e] = Free(role)
  BY DEF Init
<1>2. \A e \in Ends : wire[e] = <<>> /\ Len(wire[e]) = 0 /\ Post(e) = {}
  BY DEF Init, Post
<1>3. refused = {}
  BY DEF Init
<1>4. /\ \A e \in Ends : /\ session[e] \in SessionType /\ session[e].role = role
                         /\ ~session[e].bootstrapped /\ ~session[e].ready /\ ~session[e].closed
                         /\ \A id \in RequestIds : session[e].requests[id] = None
                         /\ \A i \in StreamIds : session[e].streams[i] = None
      /\ session = [e \in Ends |-> session[e]]
  <2>1. session = [e \in Ends |-> session[e]]
    BY DEF Init
  <2> QED
    BY <1>1, <2>1, FreeIs
<1>5. WireTypeOK
  <2>1. session \in [Ends -> SessionType]
    BY <1>4
  <2>2. wire \in [Ends -> Seq(Entries("host") \cup Entries("plugin"))]
    BY DEF Init
  <2>3. \A e \in Ends : wire[e] \in Seq(Entries(e))
    <3>1. \A e \in Ends : <<>> \in Seq(Entries(e))
      OBVIOUS
    <3> QED
      BY <1>2, <3>1
  <2> QED
    BY <2>1, <2>2, <2>3 DEF WireTypeOK
<1>6. RolesAgree /\ Booted /\ Races
  <2>1. RolesAgree
    BY <1>2, <1>4, TwoEnds DEF RolesAgree
  <2>2. Booted
    BY <1>2, <1>4, TwoEnds DEF Booted
  <2> QED
    BY <1>3, <2>1, <2>2 DEF Races
<1>7. ASSUME NEW e \in Ends
      PROVE  Told(e)
  <2>1. Other(e) \in Ends
    BY TwoEnds
  <2>2. \A id \in RequestIds : ~IsPending(session[e], id) /\ ~IsPending(session[Other(e)], id)
    BY <1>4, <2>1 DEF IsPending
  <2>3. TablesAgree(e) /\ RequestsFly(e) /\ NewsFly(e) /\ CancelsFly(e) /\ UncrossedFind(e) /\ Accounted(e)
    BY <1>2, <1>4, <2>1, <2>2 DEF TablesAgree, RequestsFly, NewsFly, CancelsFly, UncrossedFind, Accounted
  <2>4. Follows(e)
    <3>1. PICK h : h = [k \in {0} |-> Mine(session[e], e)]
      OBVIOUS
    <3>2. h[0] = Mine(session[e], e) /\ session[Other(e)] = session[e]
      BY <1>1, <2>1, <3>1
    <3>3. Leads(h, e)
      BY <1>2, <3>2 DEF Leads
    <3> QED
      BY <3>3 DEF Follows
  <2> QED
    BY <2>3, <2>4 DEF Told
<1>8. ASSUME NEW i \in StreamIds
      PROVE  OneChunk(i) /\ StreamsFly(i)
  <2>1. i[1] \in Ends /\ Other(i[1]) \in Ends
    BY StreamNames, TwoEnds
  <2>2. \A e \in Ends : ~IsOpen(session[e], i)
    BY <1>4 DEF IsOpen
  <2>3. ~Held(i) /\ \A n : ~Awaits(i, n)
    BY <2>1, <2>2 DEF Held, Awaits
  <2>4. \A k : ~ChunkAt(i, k) /\ ~AckAt(i, k)
    BY <1>2, <2>1 DEF ChunkAt, AckAt
  <2>5. OneChunk(i)
    BY <2>2, <2>3, <2>4 DEF OneChunk
  <2>6. StreamsFly(i)
    BY <1>2 DEF StreamsFly
  <2> QED
    BY <2>5, <2>6
<1> QED
  BY <1>5, <1>6, <1>7, <1>8 DEF WireInv

\* While no vital request was dropped for want of room, the ends know of each other what
\* WireInv says.
LEMMA WireHolds ==
  ASSUME OneOpener
  PROVE  Spec => [](NoneTooMany => WireInv)
<1>1. Init => (NoneTooMany => WireInv)
  BY WireStarts
<1>2. (NoneTooMany => WireInv) /\ [Next]_vars => (NoneTooMany => WireInv)'
  BY WireStep
<1> QED
  BY <1>1, <1>2, PTL DEF Spec

\* The other end lets in whatever an end lets out, although it decides on an older state of
\* the session; but for a request or cancellation that crossed what voided it, or one
\* request too many (PluginRuntimeSessionValidator.accept).
THEOREM DropsAreRaces == OneOpener => (Spec => []RefusalsAreRaces)
<1> SUFFICES ASSUME OneOpener
             PROVE  Spec => []RefusalsAreRaces
  OBVIOUS
<1>1. (NoneTooMany => WireInv) => RefusalsAreRaces
  BY DEF WireInv, Races, RefusalsAreRaces
<1> QED
  BY <1>1, WireHolds, PTL

-----------------------------------------------------------------------------
(* What the ends agree on. *)

LEMMA InvAccounts ==
  ASSUME WireInv
  PROVE  PendingIsAccounted
<1> SUFFICES ASSUME BothOpen, NEW e \in Ends
             PROVE  /\ \A id \in Open(e) :
                         \/ \E m \in Flying(e) : m.kind = "request" /\ m.id = id
                         \/ id \in Owed(Other(e))
                         \/ \E m \in Flying(Other(e)) : m.id = id
                         \/ \E r \in refused : r.msg.kind = "request" /\ r.msg.id = id
                    /\ Owed(Other(e)) \subseteq Open(e)
  BY DEF PendingIsAccounted
<1>1. WireTypeOK /\ TablesAgree(e) /\ Accounted(e) /\ Other(e) \in Ends /\ Other(e) # e
  BY TwoEnds DEF WireInv, Told
<1>2. /\ \A k \in Post(e) : Msg(e, k) \in Flying(e)
      /\ \A k \in Post(Other(e)) : Msg(Other(e), k) \in Flying(Other(e))
  BY <1>1, PostIs DEF Flying, Msg
<1>3. ASSUME NEW id \in Open(e)
      PROVE  \/ \E m \in Flying(e) : m.kind = "request" /\ m.id = id
             \/ id \in Owed(Other(e))
             \/ \E m \in Flying(Other(e)) : m.id = id
             \/ \E r \in refused : r.msg.kind = "request" /\ r.msg.id = id
  <2>1. id \in RequestIds /\ id[1] = e /\ IsPending(session[e], id)
    BY DEF Open, Pending
  <2>2. \/ \E k \in Post(e) : AsksFor(Msg(e, k), id)
        \/ IsPending(session[Other(e)], id)
        \/ \E k \in Post(Other(e)) : Msg(Other(e), k).id = id
        \/ \E r \in refused : AsksFor(r.msg, id)
    BY <1>1, <2>1 DEF Accounted
  <2>3. (\E k \in Post(e) : AsksFor(Msg(e, k), id)) => \E m \in Flying(e) : m.kind = "request" /\ m.id = id
    BY <1>2 DEF AsksFor
  <2>4. IsPending(session[Other(e)], id) => id \in Owed(Other(e))
    BY <1>1, <2>1 DEF Owed, Pending
  <2>5. (\E k \in Post(Other(e)) : Msg(Other(e), k).id = id) => \E m \in Flying(Other(e)) : m.id = id
    BY <1>2
  <2>6. (\E r \in refused : AsksFor(r.msg, id)) => \E r \in refused : r.msg.kind = "request" /\ r.msg.id = id
    BY DEF AsksFor
  <2> QED
    BY <2>2, <2>3, <2>4, <2>5, <2>6
<1>4. ASSUME NEW id \in Owed(Other(e))
      PROVE  id \in Open(e)
  <2>1. id \in RequestIds /\ id[1] # Other(e) /\ IsPending(session[Other(e)], id)
    BY DEF Owed, Pending
  <2>2. id[1] = e
    <3>1. id[1] \in Ends
      BY <2>1 DEF RequestIds
    <3> QED
      BY <2>1, <3>1, TwoEnds
  <2>3. session[Other(e)].requests[id] = session[e].requests[id]
    BY <1>1, <2>1, <2>2 DEF TablesAgree
  <2>4. IsPending(session[e], id)
    BY <2>1, <2>3 DEF IsPending
  <2> QED
    BY <2>1, <2>2, <2>4 DEF Open, Pending
<1> QED
  BY <1>3, <1>4

LEMMA SameStreams ==
  ASSUME WireTypeOK, BothOpen, \A e \in Ends : wire[e] = <<>>, NEW i \in StreamIds, OneChunk(i),
         Mine(session["plugin"], "host") = Mine(session["host"], "host"),
         Mine(session["plugin"], "plugin") = Mine(session["host"], "plugin")
  PROVE  session["host"].streams[i] = session["plugin"].streams[i]
<1> DEFINE st == session[i[1]].streams[i]
           u == session[Other(i[1])].streams[i]
<1>1. i[1] \in Ends /\ Other(i[1]) \in Ends
  BY StreamNames, TwoEnds
<1>2. OwnStreams(session["plugin"], i[1]) = OwnStreams(session["host"], i[1])
  BY <1>1, HostPart, PluginPart, TwoEnds
<1>3. Plain(st) = Plain(u)
  <2>1. \A s : OwnStreams(s, i[1])[i] = Plain(s.streams[i])
    BY DEF OwnStreams, Own
  <2>2. Plain(session["plugin"].streams[i]) = Plain(session["host"].streams[i])
    BY <1>2, <2>1
  <2> QED
    BY <1>1, <2>2, TwoEnds
<1>4. st \in OpenStream \cup {None, Used} /\ u \in OpenStream \cup {None, Used}
  BY <1>1, OpenIs
<1>5. CASE st \in {None, Used}
  <2>1. Plain(st) = st
    BY <1>5, PlainNames
  <2>2. u \in {None, Used}
    BY <1>3, <1>4, <1>5, <2>1, PlainTells
  <2>3. Plain(u) = u
    BY <2>2, PlainNames
  <2>4. st = u
    BY <1>3, <2>1, <2>3
  <2> QED
    BY <1>1, <2>4, TwoEnds
<1>6. CASE st \in OpenStream
  <2>1. u \in OpenStream
    <3>1. st \notin {None, Used}
      BY <1>6, NamesApart
    <3>2. u \notin {None, Used}
      BY <1>3, <1>4, <3>1, PlainTells
    <3> QED
      BY <1>4, <3>2
  <2>2. IsOpen(session[i[1]], i) /\ IsOpen(session[Other(i[1])], i)
    BY <1>1, <1>6, <2>1, OpenIs
  <2>3. \A k : ~ChunkAt(i, k) /\ ~AckAt(i, k)
    BY <1>1, PostIs DEF ChunkAt, AckAt
  <2>4. u.inFlight => st.inFlight
    BY <2>2 DEF OneChunk, Held, Awaits
  <2>5. st.inFlight => u.inFlight
    <3>1. st.inFlight => \E n : Awaits(i, n)
      BY <2>2 DEF Awaits
    <3> QED
      BY <2>3, <3>1 DEF OneChunk, Held
  <2>6. st.inFlight \in BOOLEAN /\ u.inFlight \in BOOLEAN
    BY <1>6, <2>1 DEF OpenStream
  <2>7. st.inFlight = u.inFlight
    BY <2>4, <2>5, <2>6
  <2>8. /\ st.owner = u.owner /\ st.total = u.total /\ st.chunk = u.chunk
        /\ st.next = u.next /\ st.sent = u.sent
    BY <1>3, <1>6, <2>1, PlainTells
  <2>9. /\ st = [owner |-> st.owner, total |-> st.total, chunk |-> st.chunk,
                 next |-> st.next, sent |-> st.sent, inFlight |-> st.inFlight]
        /\ u = [owner |-> u.owner, total |-> u.total, chunk |-> u.chunk,
                next |-> u.next, sent |-> u.sent, inFlight |-> u.inFlight]
    BY <1>6, <2>1 DEF OpenStream
  <2>10. st = u
    BY <2>7, <2>8, <2>9
  <2> QED
    BY <1>1, <2>10, TwoEnds
<1> QED
  BY <1>1, <1>4, <1>5, <1>6, TwoEnds

\* A session is its fields.
LEMMA SameView ==
  ASSUME NEW s \in SessionType, NEW t \in SessionType,
         s.role = t.role, s.bootstrapped = t.bootstrapped, s.ready = t.ready, s.provider = t.provider,
         s.closed = t.closed, s.context = t.context, s.dom = t.dom, s.subscriptions = t.subscriptions,
         s.released = t.released, s.nodes = t.nodes, s.streams = t.streams
  PROVE  [s EXCEPT !.requests = <<>>] = [t EXCEPT !.requests = <<>>]
<1>1. \A x \in SessionType : [x EXCEPT !.requests = <<>>] =
        [role |-> x.role, bootstrapped |-> x.bootstrapped, ready |-> x.ready, provider |-> x.provider,
         closed |-> x.closed, context |-> x.context, dom |-> x.dom, requests |-> <<>>,
         subscriptions |-> x.subscriptions, released |-> x.released, nodes |-> x.nodes,
         streams |-> x.streams]
  BY DEF SessionType
<1> QED
  BY <1>1

LEMMA InvAgrees ==
  ASSUME WireInv
  PROVE  QuietEndsAgree
<1> DEFINE h == session["host"]
           p == session["plugin"]
<1> SUFFICES ASSUME BothOpen, \A e \in Ends : wire[e] = <<>>
             PROVE  [h EXCEPT !.requests = <<>>] = [p EXCEPT !.requests = <<>>]
  BY DEF QuietEndsAgree
<1>1. WireTypeOK /\ RolesAgree /\ (\A e \in Ends : Follows(e)) /\ \A i \in StreamIds : OneChunk(i)
  BY DEF WireInv, Told
<1>2. h \in SessionType /\ p \in SessionType /\ ~h.closed /\ ~p.closed
  BY <1>1, TwoEnds DEF WireTypeOK, BothOpen
<1>3. Mine(p, "host") = Mine(h, "host")
  BY <1>1, <1>2, QuietPart, TwoEnds
<1>4. Mine(h, "plugin") = Mine(p, "plugin")
  BY <1>1, <1>2, QuietPart, TwoEnds
<1>5. /\ h.bootstrapped = p.bootstrapped /\ h.context = p.context /\ h.provider = p.provider
      /\ h.subscriptions = p.subscriptions /\ h.released = p.released
  BY <1>3, HostPart
<1>6. h.ready = p.ready /\ h.dom = p.dom /\ h.nodes = p.nodes
  BY <1>4, PluginPart
<1>7. h.streams = p.streams
  <2>1. \A i \in StreamIds : h.streams[i] = p.streams[i]
    BY <1>1, <1>3, <1>4, SameStreams
  <2>2. h.streams \in [StreamIds -> OpenStream \cup {None, Used}]
        /\ p.streams \in [StreamIds -> OpenStream \cup {None, Used}]
    BY <1>2 DEF SessionType
  <2> QED
    BY <2>1, <2>2
<1>8. h.closed = p.closed
  <2>1. h.closed \in BOOLEAN /\ p.closed \in BOOLEAN
    BY <1>2 DEF SessionType
  <2> QED
    BY <1>2, <2>1
<1>9. h.role = p.role
  BY <1>1 DEF RolesAgree
<1> QED
  BY <1>2, <1>5, <1>6, <1>7, <1>8, <1>9, SameView

\* No request is lost sight of, and the ends hold the same session when nothing is on its
\* way (#commitCorrelation, #validateState and accept at the two ends).
THEOREM TheEndsAgree == OneOpener => (Spec => []EndsAgree)
<1> SUFFICES ASSUME OneOpener
             PROVE  Spec => []EndsAgree
  OBVIOUS
<1>1. (NoneTooMany => WireInv) => EndsAgree
  BY InvAccounts, InvAgrees DEF EndsAgree
<1> QED
  BY <1>1, WireHolds, PTL
===============================================================================
