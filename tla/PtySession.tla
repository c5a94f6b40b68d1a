------------------------------ MODULE PtySession ------------------------------
(***************************************************************************)
(* One live session of the PTY daemon (crates/soksak-ptyd/src/main.rs): the *)
(* reader thread that drains the shell's master fd, the state it shares     *)
(* with the control handlers and the stream handlers under the session's    *)
(* lock `st`, the attach streams, and the tee subscribers.  The far side of  *)
(* an attach stream is the reader thread of a client                        *)
(* (crates/soksak-core/src/ptyd.rs) and the renderer behind it.             *)
(*                                                                         *)
(* One action is one critical section of `st` with everything done in it.   *)
(* A byte is its own position in the shell's output, so a stream that        *)
(* skipped, repeated or reordered bytes shows in the values it carries.      *)
(***************************************************************************)
EXTENDS Naturals, Sequences, RawRing, TeeBuf

CONSTANTS
  Conns,         \* attach connections; each is one hello on the stream socket
  Subs,          \* tee subscriptions; each is one subscribe hello
  None,          \* "no stream attached"
  High, Low,     \* HIGH_WATERMARK, LOW_WATERMARK
  MaxChunk,      \* the reader's buffer: most bytes one read returns
  AckUnit,       \* the renderer acknowledges once it has parsed this much
  StartSeqs,     \* ring coordinates a session may start at: 0, or adopted
  MaxEmit,       \* bound: output coordinates stay below it
  CloneMayFail   \* may duplicating the stream fd fail (fd table full)?

ASSUME SessionAssumption ==
  /\ None \notin Conns
  /\ High \in Nat /\ Low \in Nat /\ Low < High
  /\ MaxChunk \in Nat \ {0}
  /\ AckUnit \in Nat \ {0} /\ AckUnit <= Low + 1
  /\ StartSeqs \subseteq Nat
  /\ MaxEmit \in Nat
  /\ CloneMayFail \in BOOLEAN

VARIABLES
  \* --- the reader thread and the shell ---
  shell,       \* "alive", or "dead": no process holds the slave side
  pc,          \* reader: at the pause check, in read(), holding a chunk, ...
  emitted,     \* coordinate one past the last byte read from the master
  \* --- SessState, guarded by st ---
  ring, attached, attachSeq, unacked, paused, closed, subscribers,
  \* --- stream handlers, one per connection ---
  link,        \* "new" | "open" | "cut" (client gone) | "eof" (daemon ended it)
  handler,     \* does its thread still wait for the connection to end?
  mySeq,       \* the attach generation the handler remembers
  pipe,        \* bytes written to the connection and not yet received
  \* --- the client end of each connection ---
  shown,       \* coordinate the consumer stands at, gaps it was told included
  cursor,      \* the coordinate the client keeps for a later reattach
  lag,         \* bytes received that the renderer has not acknowledged
  \* --- tee subscriptions ---
  tee,         \* each subscription's TeeBuf
  teeSt,       \* "new" | "live" | "closing" (TeeBuf.closed) | "gone"
  wire,        \* drained frames the consumer has not received yet
  teeAt        \* coordinate its consumer stands at

readerVars == <<shell, pc, emitted>>
stVars     == <<ring, attached, attachSeq, unacked, paused, closed, subscribers>>
connVars   == <<link, handler, mySeq, pipe, shown, cursor, lag>>
teeVars    == <<tee, teeSt, wire, teeAt>>
vars       == <<readerVars, stVars, connVars, teeVars>>

------------------------------------------------------------------------------
(* A session as spawn_session or run_handoff_adopt builds it. *)
Init ==
  /\ shell = "alive"
  /\ pc = "check"
  /\ \E s \in StartSeqs : ring = Resumed(s) /\ emitted = s
  /\ attached = None
  /\ attachSeq = 0
  /\ unacked = 0
  /\ paused = FALSE
  /\ closed = FALSE
  /\ subscribers = {}
  /\ link    = [c \in Conns |-> "new"]
  /\ handler = [c \in Conns |-> FALSE]
  /\ mySeq   = [c \in Conns |-> 0]
  /\ pipe    = [c \in Conns |-> <<>>]
  /\ shown   = [c \in Conns |-> 0]
  /\ cursor  = [c \in Conns |-> 0]
  /\ lag     = [c \in Conns |-> 0]
  /\ tee     = [s \in Subs |-> EmptyTee]
  /\ teeSt   = [s \in Subs |-> "new"]
  /\ wire    = [s \in Subs |-> <<>>]
  /\ teeAt   = [s \in Subs |-> 0]

\* Mutant: the count survives the change of attachment.
ResetPauseOnly == UNCHANGED unacked /\ paused' = FALSE

\* The flow reset every change of attachment ends with.
ResetFlow == unacked' = 0 /\ paused' = FALSE

------------------------------------------------------------------------------
(* The reader thread. *)

\* Wait while an attached client has the session paused.
ReaderCheck ==
  /\ pc = "check"
  /\ ~(paused /\ attached # None)
  /\ pc' = "read"
  /\ UNCHANGED <<shell, emitted, stVars, connVars, teeVars>>

\* read() returns n bytes; the lock is not held.
ReaderRead(n) ==
  /\ pc = "read"
  /\ emitted + n <= MaxEmit
  /\ emitted' = emitted + n
  /\ pc' = "push"
  /\ UNCHANGED <<shell, stVars, connVars, teeVars>>

Chunk == [i \in 1..(emitted - ring.seq) |-> ring.seq + i - 1]

\* Under st: ring, then a copy to every subscriber, then the attached socket.
\* A write to a connection whose client is gone fails and detaches it.
ReaderPush ==
  /\ pc = "push"
  /\ pc' = "check"
  /\ ring' = Push(ring, Chunk)
  /\ tee' = [s \in Subs |->
               IF s \in subscribers
               THEN PushData(tee[s], ring.seq, Len(Chunk)) ELSE tee[s]]
  /\ \/ /\ attached = None
        /\ UNCHANGED <<attached, unacked, paused, pipe>>
     \/ /\ attached # None
        /\ link[attached] = "cut"
        /\ attached' = None
        /\ ResetFlow
        /\ UNCHANGED pipe
     \/ /\ attached # None
        /\ link[attached] # "cut"
        /\ pipe' = [pipe EXCEPT ![attached] = @ \o Chunk]
        /\ unacked' = unacked + Len(Chunk)
        /\ paused' = (paused \/ unacked' >= High)
        /\ UNCHANGED attached
  /\ UNCHANGED <<shell, emitted, attachSeq, closed, subscribers,
                 link, handler, mySeq, shown, cursor, lag, teeSt, wire, teeAt>>

\* read() reports the end of the master: nobody holds the slave side.
ReaderEof ==
  /\ pc = "read"
  /\ shell = "dead"
  /\ pc' = "close"
  /\ UNCHANGED <<shell, emitted, stVars, connVars, teeVars>>

\* Under st: mark the session closed and end the attached stream.  (The
\* sealed blob removed here is in module PtyRegistry.)
ReaderClose ==
  /\ pc = "close"
  /\ pc' = "reap"
  /\ closed' = TRUE
  /\ attached' = None
  /\ link' = [c \in Conns |->
                IF c = attached /\ link[c] = "open" THEN "eof" ELSE link[c]]
  /\ UNCHANGED <<shell, emitted, ring, attachSeq, unacked, paused, subscribers,
                 handler, mySeq, pipe, shown, cursor, lag, teeVars>>

\* child.wait() returned; the registry forgets the session.
ReaderReap ==
  /\ pc = "reap"
  /\ pc' = "gone"
  /\ UNCHANGED <<shell, emitted, stVars, connVars, teeVars>>

------------------------------------------------------------------------------
(* Control requests on the session, found by id until it is reaped. *)

Listed == pc # "gone"

\* Mutant: the count is not saturated at zero.
AckUnsaturated(c, n) ==
  /\ Listed
  /\ lag' = [lag EXCEPT ![c] = @ - n]
  /\ unacked' = unacked - n
  /\ paused' = (paused /\ unacked' > Low)
  /\ UNCHANGED <<readerVars, ring, attached, attachSeq, closed, subscribers,
                 link, handler, mySeq, pipe, shown, cursor, teeVars>>

\* Ack{session, bytes}, for bytes some connection delivered; it names the
\* session and not the connection, and may arrive after that one was replaced.
Ack(c, n) ==
  /\ Listed
  /\ lag' = [lag EXCEPT ![c] = @ - n]
  /\ unacked' = IF unacked > n THEN unacked - n ELSE 0
  /\ paused' = (paused /\ unacked' > Low)
  /\ UNCHANGED <<readerVars, ring, attached, attachSeq, closed, subscribers,
                 link, handler, mySeq, pipe, shown, cursor, teeVars>>

\* The renderer acknowledges everything parsed once it amounts to AckUnit.
RendererAck(c) == lag[c] >= AckUnit /\ Ack(c, lag[c])

\* Kill, and KillByWindow for each session of the window.
Kill ==
  /\ Listed
  /\ shell' = "dead"
  /\ paused' = FALSE
  /\ UNCHANGED <<pc, emitted, ring, attached, attachSeq, unacked, closed,
                 subscribers, connVars, teeVars>>

Detach ==
  /\ Listed
  /\ attached' = None
  /\ ResetFlow
  /\ UNCHANGED <<readerVars, ring, attachSeq, closed, subscribers, connVars,
                 teeVars>>

\* The shell and everything it left on the terminal exit.
ShellExits ==
  /\ shell = "alive"
  /\ shell' = "dead"
  /\ UNCHANGED <<pc, emitted, stVars, connVars, teeVars>>

------------------------------------------------------------------------------
(* Stream connections. *)

\* What handle_stream does with c in its critical section once the reply and
\* the replayed tail are written; the client has taken the reply's gap notice
\* (its consumer now stands at `at`) and the reply's seq as its cursor.
Attached(c, at, tail) ==
  /\ ~closed
  /\ link[c] = "new"
  /\ pipe'   = [pipe EXCEPT ![c] = tail]
  /\ shown'  = [shown EXCEPT ![c] = at]
  /\ cursor' = [cursor EXCEPT ![c] = ring.seq]
  /\ attachSeq' = attachSeq + 1
  /\ \/ /\ link' = [link EXCEPT ![c] = "open"]
        /\ handler' = [handler EXCEPT ![c] = TRUE]
        /\ mySeq' = [mySeq EXCEPT ![c] = attachSeq + 1]
        /\ attached' = c
        /\ ResetFlow
     \/ /\ CloneMayFail        \* try_clone failed: the handler just returns
        /\ link' = [link EXCEPT ![c] = "eof"]
        /\ UNCHANGED <<handler, mySeq, attached, unacked, paused>>
  /\ UNCHANGED <<readerVars, ring, closed, subscribers, lag, teeVars>>

\* No fromSeq: live from here, no replay.
AttachLive(c) == Attached(c, ring.seq, <<>>)

\* fromSeq: replay the ring from there; what was evicted is told as a gap, and a
\* coordinate beyond the end replays nothing: the reply's seq corrects it.
AttachFrom(c, from) == Attached(c, ReplayStart(ring, from), SinceTail(ring, from))

\* The client's stream thread reads n bytes and hands them to the renderer.
ClientReads(c, n) ==
  /\ link[c] \in {"open", "eof"}
  /\ pipe'   = [pipe EXCEPT ![c] = SubSeq(@, n + 1, Len(@))]
  /\ shown'  = [shown EXCEPT ![c] = @ + n]
  /\ cursor' = [cursor EXCEPT ![c] = @ + n]
  /\ lag'    = [lag EXCEPT ![c] = @ + n]
  /\ UNCHANGED <<readerVars, stVars, link, handler, mySeq, teeVars>>

\* The client process dies or drops the stream; unread bytes die with it.
ClientCloses(c) ==
  /\ link[c] \in {"open", "eof"}
  /\ link' = [link EXCEPT ![c] = "cut"]
  /\ pipe' = [pipe EXCEPT ![c] = <<>>]
  /\ UNCHANGED <<readerVars, stVars, handler, mySeq, shown, cursor, lag, teeVars>>

\* Mutant: the handler leaves without releasing the attachment.
HandlerEndsSilently(c) ==
  /\ handler[c]
  /\ link[c] \in {"cut", "eof"}
  /\ handler' = [handler EXCEPT ![c] = FALSE]
  /\ UNCHANGED <<readerVars, stVars, link, mySeq, pipe, shown, cursor, lag,
                 teeVars>>

\* The handler's blocking read ended: release the attachment of its own
\* generation, and only that one.
HandlerEnds(c) ==
  /\ handler[c]
  /\ link[c] \in {"cut", "eof"}
  /\ handler' = [handler EXCEPT ![c] = FALSE]
  /\ IF attachSeq = mySeq[c]
     THEN attached' = None /\ ResetFlow
     ELSE UNCHANGED <<attached, unacked, paused>>
  /\ UNCHANGED <<readerVars, ring, attachSeq, closed, subscribers,
                 link, mySeq, pipe, shown, cursor, lag, teeVars>>

------------------------------------------------------------------------------
(* Tee subscriptions.  handle_subscribe does not look at `closed`. *)

\* Register at the ring head; the ack carries the retained backlog as a seed,
\* so the consumer stands at the head once it has taken the ack.
Subscribe(s) ==
  /\ Listed
  /\ teeSt[s] = "new"
  /\ subscribers' = subscribers \cup {s}
  /\ teeSt' = [teeSt EXCEPT ![s] = "live"]
  /\ teeAt' = [teeAt EXCEPT ![s] = ring.seq]
  /\ UNCHANGED <<readerVars, ring, attached, attachSeq, unacked, paused, closed,
                 connVars, tee, wire>>

\* The writer thread takes the whole buffer and writes it to the socket; it
\* comes back for more once that write went through.
TeeDrain(s) ==
  /\ teeSt[s] = "live"
  /\ wire[s] = <<>>
  /\ tee[s].frames # <<>>
  /\ wire' = [wire EXCEPT ![s] = tee[s].frames]
  /\ tee' = [tee EXCEPT ![s] = EmptyTee]
  /\ UNCHANGED <<readerVars, stVars, connVars, teeSt, teeAt>>

\* The consumer takes one frame: a data frame moves it by the bytes it carries,
\* a gap frame to the coordinate the gap names.
TeeReceive(s) ==
  /\ teeSt[s] = "live"
  /\ wire[s] # <<>>
  /\ LET f == Head(wire[s])
     IN  teeAt' = [teeAt EXCEPT ![s] = IF f.kind = "gap" THEN f.to
                                       ELSE @ + (f.to - f.from)]
  /\ wire' = [wire EXCEPT ![s] = Tail(@)]
  /\ UNCHANGED <<readerVars, stVars, connVars, tee, teeSt>>

\* The subscriber is gone: the watcher thread marks the buffer closed.
SubscriberCloses(s) ==
  /\ teeSt[s] = "live"
  /\ teeSt' = [teeSt EXCEPT ![s] = "closing"]
  /\ UNCHANGED <<readerVars, stVars, connVars, tee, wire, teeAt>>

\* The writer thread leaves: last drain, then out of the subscriber list.
TeeDeregisters(s) ==
  /\ teeSt[s] = "closing"
  /\ teeSt' = [teeSt EXCEPT ![s] = "gone"]
  /\ tee' = [tee EXCEPT ![s] = EmptyTee]
  /\ wire' = [wire EXCEPT ![s] = <<>>]
  /\ subscribers' = subscribers \ {s}
  /\ UNCHANGED <<readerVars, ring, attached, attachSeq, unacked, paused, closed,
                 connVars, teeAt>>

------------------------------------------------------------------------------
Reader == \/ ReaderCheck
          \/ \E n \in 1..MaxChunk : ReaderRead(n)
          \/ ReaderPush
          \/ ReaderEof
          \/ ReaderClose
          \/ ReaderReap

Control == (\E c \in Conns : RendererAck(c)) \/ Kill \/ Detach

Stream(c) == \/ AttachLive(c)
             \/ \E from \in 0..(ring.seq + MaxChunk) : AttachFrom(c, from)
             \/ \E n \in 1..Len(pipe[c]) : ClientReads(c, n)
             \/ ClientCloses(c)
             \/ HandlerEnds(c)

Tee(s) == \/ Subscribe(s) \/ TeeDrain(s) \/ TeeReceive(s)
          \/ SubscriberCloses(s) \/ TeeDeregisters(s)

Next == \/ Reader
        \/ Control
        \/ ShellExits
        \/ \E c \in Conns : Stream(c)
        \/ \E s \in Subs : Tee(s)

Spec == Init /\ [][Next]_vars

(* What the threads owe: the reader thread never stops on its own, a handler  *)
(* whose connection ended notices it, a living client keeps reading its       *)
(* stream and its renderer keeps parsing and acknowledging, a subscriber's    *)
(* writer thread keeps draining.  Shell output and requests owe nothing.      *)
Fairness ==
  /\ WF_vars(ReaderCheck) /\ WF_vars(ReaderPush) /\ WF_vars(ReaderEof)
  /\ WF_vars(ReaderClose) /\ WF_vars(ReaderReap)
  /\ \A c \in Conns :
       /\ WF_vars(\E n \in 1..Len(pipe[c]) : ClientReads(c, n))
       /\ WF_vars(link[c] = "open" /\ RendererAck(c))
       /\ WF_vars(HandlerEnds(c))
  /\ \A s \in Subs :
       WF_vars(TeeDrain(s)) /\ WF_vars(TeeReceive(s)) /\ WF_vars(TeeDeregisters(s))

FairSpec == Spec /\ Fairness

------------------------------------------------------------------------------
(* Properties. *)

\* Type invariant: every variable of the session has its type.
TypeOK ==
  /\ shell \in {"alive", "dead"}
  /\ pc \in {"check", "read", "push", "close", "reap", "gone"}
  /\ emitted \in Nat
  /\ ring \in Rings(Nat)
  /\ attached \in Conns \cup {None}
  /\ attachSeq \in Nat
  /\ unacked \in Nat
  /\ paused \in BOOLEAN /\ closed \in BOOLEAN
  /\ subscribers \subseteq Subs
  /\ link \in [Conns -> {"new", "open", "cut", "eof"}]
  /\ handler \in [Conns -> BOOLEAN]
  /\ mySeq \in [Conns -> Nat]
  /\ pipe \in [Conns -> Seq(Nat)]
  /\ shown \in [Conns -> Nat] /\ cursor \in [Conns -> Nat]
  /\ lag \in [Conns -> Nat]
  /\ tee \in [Subs -> TeeBufs]
  /\ teeSt \in [Subs -> {"new", "live", "closing", "gone"}]
  /\ wire \in [Subs -> Seq(TeeFrames)]
  /\ teeAt \in [Subs -> Nat]

\* The bytes a connection still has in flight continue, one by one, from where
\* its consumer stands: whatever replay, eviction, replacement and live output
\* interleave, no byte is skipped, repeated or out of order without the gap
\* notice of the reply (ring.rs since(), handle_stream's critical section).
NoSilentShift ==
  \A c \in Conns : Consecutive(pipe[c], shown[c])

\* The attached connection misses nothing: what it has and what is in flight
\* to it reach exactly the ring's end, so a replay and the live output after it
\* neither overlap nor leave a hole.
AttachedIsCurrent ==
  \A c \in Conns :
    attached = c /\ link[c] = "open" => shown[c] + Len(pipe[c]) = ring.seq

\* A connection the daemon ended at session close was given the shell's last
\* byte first: its end of file never cuts the output's tail.
EofIsComplete ==
  \A c \in Conns :
    link[c] = "eof" /\ mySeq[c] > 0
      => closed /\ shown[c] + Len(pipe[c]) = ring.seq /\ ring.seq = emitted

\* What the clients of the stream see, whatever replay, eviction, replacement and
\* end of the session interleave (handle_stream, RawRing::since, spawn_reader).
StreamIsTrue == NoSilentShift /\ AttachedIsCurrent /\ EofIsComplete

\* A paused reader always has someone who can resume it: a stream is attached,
\* and the unacknowledged count, above the low mark, is covered by bytes that
\* this very client has in flight or has yet to acknowledge - however many
\* acknowledgements of replaced connections were subtracted from the count.
PauseIsOwed ==
  /\ paused => attached # None /\ unacked > Low
  /\ \A c \in Conns : attached = c /\ link[c] = "open"
                        => unacked <= Len(pipe[c]) + lag[c]

\* The watermark bounds what a client may leave unacknowledged: the reader
\* never writes more than one read past it.  Kill lifts the pause so that the
\* reader can reach the end of the master; the rest of a dead shell's output may
\* then overshoot the mark.
FlowBound ==
  attached # None /\ shell = "alive" => unacked < High + MaxChunk

\* Flow control neither starves a reader nor lets it run away (Ack, Session::detach).
FlowIsSound == PauseIsOwed /\ FlowBound

\* A tee subscriber's loss is loud: from where its consumer stands, the frames
\* on the wire and then those in its buffer cover every coordinate up to the
\* ring's end, each once, as data or as a gap (tee.rs push_data, drain).
TeeIsExact ==
  \A s \in Subs :
    teeSt[s] = "live" => Covers(wire[s] \o tee[s].frames, teeAt[s], ring.seq)

\* A starved subscriber's buffer stays bounded: its data by the cap, and its
\* frames too, because gaps are merged and so cannot pile up.
TeeIsBounded ==
  \A s \in Subs :
    tee[s].bytes <= TeeCap /\ Len(tee[s].frames) <= 2 * TeeCap + 1

\* A starved subscriber costs neither memory nor the truth (TeeBuf).
TeeIsSound == TeeIsExact /\ TeeIsBounded

\* Not checked (README, known disagreements): the coordinate a client keeps for its next reattach is where its consumer
\* stands once it has read what was sent (ptyd.rs: the reply's seq is "where
\* you stand once you have consumed this reply").
CursorIsTrue ==
  \A c \in Conns : link[c] = "open" /\ pipe[c] = <<>> => cursor[c] = shown[c]

\* A paused session resumes: its client acknowledges, or goes and is noticed.
PauseEnds == paused ~> ~paused

\* A session whose shell is gone is closed, reaped and forgotten, paused or
\* not, attached or not.
DeadShellIsReaped == shell = "dead" ~> pc = "gone"

\* A client that went away is released without waiting for output (main.rs:
\* the end of the handler's read is the release event).
DeadClientIsReleased ==
  \A c \in Conns : (attached = c /\ link[c] = "cut") ~> attached # c

\* Nobody waits for ever in a session: not a paused reader, not the end of a dead
\* shell, not the attachment of a dead client (spawn_reader, handle_stream).
SessionRecovers == PauseEnds /\ DeadShellIsReaped /\ DeadClientIsReleased
==============================================================================
