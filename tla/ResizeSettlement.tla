--------------------------- MODULE ResizeSettlement ---------------------------
(***************************************************************************)
(* A resize of an Electron window as a transaction                         *)
(* (frameworks/electron/resizeSettlement.cjs): it settles when the window   *)
(* has the requested size and the page and every visible guest have         *)
(* presented a frame of their geometry, and otherwise times out.  Frames    *)
(* come from frameSubscriptionBroker.cjs, which owns the one native         *)
(* subscription of each contents and shares it with the other consumers.    *)
(* A size is one number, the display has one scale factor.                  *)
(***************************************************************************)
EXTENDS Integers, Sequences, FiniteSets, SequencesExt

CONSTANTS Sizes,         \* sizes of the window
          Guests,        \* visible guests beside the renderer
          Shared,        \* contents another consumer looks at as well
          Resizes,       \* resize requests, one call of resize() each
          MaxExternal    \* bound: resizes of the window by someone else

VARIABLES win,           \* the size of the BrowserWindow
          toTell,        \* resize events not delivered yet
          page,          \* per contents: the size it is laid out for, a frame on its way
          broker,        \* per contents: the leases, the native subscription
          queue,         \* the ledger's queue of requests
          running,       \* a turn of the queue: "no", "yes", "over" (its promise is settled)
          pending,       \* the transaction under way
          thrown,        \* history: the request whose perform threw
          request,       \* per request: what its caller knows
          external       \* what is left of MaxExternal

turnVars   == <<queue, running, thrown>>
ledgerVars == <<win, toTell, page, broker, turnVars, pending, request, external>>

renderer == "renderer"
Targets == Guests \cup {renderer}
NoSize == 0

ASSUME LedgerAssumption ==
    /\ Sizes \subseteq Nat \ {NoSize}
    /\ renderer \notin Guests /\ Shared \subseteq Targets
    /\ "none" \notin Resizes
    /\ MaxExternal \in Nat

NoPending == [of |-> "none"]
Unasked == [st |-> "new", size |-> NoSize, proof |-> [t \in Targets |-> NoSize]]

InTransaction == pending # NoPending

-----------------------------------------------------------------------------
(* frameSubscriptionBroker: the native subscription lives as long as a lease. *)

release(b, who) ==
    LET others == b.leases \ {who} IN [leases |-> others, native |-> b.native /\ others # {}]

acquire(b, who) == [leases |-> b.leases \cup {who}, native |-> TRUE]

\* A frame of a subscription that has ended is not delivered.
Kept(p, b) == [t \in Targets |-> IF b[t].native THEN p[t] ELSE [p[t] EXCEPT !.frame = NoSize]]

\* Another consumer (first frame, capture) takes and returns its own lease.
OtherAcquires(t) ==
    /\ "other" \notin broker[t].leases
    /\ broker' = [broker EXCEPT ![t] = acquire(@, "other")]
    /\ UNCHANGED <<win, toTell, page, turnVars, pending, request, external>>

OtherReleases(t) ==
    /\ "other" \in broker[t].leases
    /\ broker' = [broker EXCEPT ![t] = release(@, "other")]
    /\ page' = Kept(page, broker')
    /\ UNCHANGED <<win, toTell, turnVars, pending, request, external>>

-----------------------------------------------------------------------------
(* The transaction. *)

Unmeasured == [event |-> NoSize, measured |-> NoSize, queued |-> NoSize]

Released == [t \in Targets |-> release(broker[t], "ledger")]

\* perform: the leases are taken, then the window is resized or told to repaint;
\* the window manager may leave it at another size.
perform(r, asked, to) ==
    LET size == asked[r].size IN
    /\ pending' = [of |-> r, requested |-> size, nativeSeen |-> win = size, actual |-> win,
                   proof |-> [t \in Targets |-> NoSize], check |-> [g \in Guests |-> Unmeasured]]
    /\ broker' = [t \in Targets |-> acquire(broker[t], "ledger")]
    /\ win' = IF win = size THEN win ELSE to
    /\ toTell' = IF win' = win THEN toTell ELSE toTell + 1
    /\ running' = "yes" /\ request' = asked /\ UNCHANGED thrown

\* It is refused: the window is gone, a target is none, the window cannot be resized.
Refused(r, asked) ==
    /\ running' = "over" /\ request' = [asked EXCEPT ![r].st = "failed"]
    /\ UNCHANGED <<pending, broker, win, toTell, thrown>>

\* It throws, over bounds, display or size, before there is a promise: nobody takes running
\* back, and the request is answered only if its own call to resize() drained the queue.
Throws(r, asked, own) ==
    /\ running' = "yes" /\ thrown' = r
    /\ request' = IF own THEN [asked EXCEPT ![r].st = "failed"] ELSE asked
    /\ UNCHANGED <<pending, broker, win, toTell>>

\* drain, of the queue q: its first request has its turn.
drain(q, asked, own) ==
    IF q = <<>>
    THEN /\ queue' = q /\ running' = "no" /\ request' = asked
         /\ UNCHANGED <<pending, broker, win, toTell, thrown>>
    ELSE /\ queue' = Tail(q)
         /\ \/ \E to \in Sizes : perform(Head(q), asked, to)
            \/ Refused(Head(q), asked)
            \/ Throws(Head(q), asked, own)

\* The turn before is settled, one way or the other.
NextTurn ==
    /\ running = "over"
    /\ drain(queue, request, FALSE)
    /\ UNCHANGED <<page, external>>

resize(r, size) ==
    /\ request[r].st = "new"
    /\ LET asked == [request EXCEPT ![r].st = "asked", ![r].size = size] IN
       IF running = "no"
       THEN drain(Append(queue, r), asked, TRUE)
       ELSE /\ queue' = Append(queue, r) /\ request' = asked
            /\ UNCHANGED <<win, toTell, broker, running, thrown, pending>>
    /\ UNCHANGED <<page, external>>

\* maybeFinish, after what it was called for: p is the transaction by then.
Finishes(p) == p.nativeSeen /\ \A t \in Targets : p.proof[t] # NoSize

Continue(p) ==
    IF Finishes(p)
    THEN /\ request' = [request EXCEPT ![p.of].st = "settled", ![p.of].proof = p.proof]
         /\ pending' = NoPending /\ running' = "over"
         /\ broker' = Released
    ELSE /\ pending' = p
         /\ UNCHANGED <<running, request, broker>>

\* Mutant: the timer is stopped as soon as the window has the size.
StopsAtResize == InTransaction /\ ~pending.nativeSeen

TimeIsUp == InTransaction

\* The timer of the transaction.
Timeout ==
    /\ TimeIsUp
    /\ request' = [request EXCEPT ![pending.of].st = "failed"]
    /\ pending' = NoPending /\ running' = "over"
    /\ broker' = Released
    /\ page' = Kept(page, broker')
    /\ UNCHANGED <<win, toTell, queue, thrown, external>>

\* The window's resize event: it reads the size the window has by now.
onResize ==
    /\ toTell > 0
    /\ toTell' = toTell - 1
    /\ IF InTransaction /\ win = pending.requested
       THEN Continue([pending EXCEPT !.nativeSeen = TRUE, !.actual = win])
       ELSE UNCHANGED <<running, pending, request, broker>>
    /\ page' = Kept(page, broker')
    /\ UNCHANGED <<win, queue, thrown, external>>

-----------------------------------------------------------------------------
(* Frames and proofs. *)

\* Mutant: frames presented before the window was resized are proofs as well.
ListensAtOnce(t) == InTransaction /\ pending.proof[t] = NoSize

Listens(t) == InTransaction /\ pending.nativeSeen /\ pending.proof[t] = NoSize

\* The page's own frame is compared with the window as it is now.
RendererFrame ==
    /\ page[renderer].frame # NoSize
    /\ LET frame == page[renderer].frame
           proven == Listens(renderer) /\ win = pending.actual /\ frame = win
       IN IF proven THEN Continue([pending EXCEPT !.proof[renderer] = frame])
          ELSE UNCHANGED <<running, pending, request, broker>>
    /\ page' = Kept([page EXCEPT ![renderer].frame = NoSize], broker')
    /\ UNCHANGED <<win, toTell, queue, thrown, external>>

\* A guest is asked for its viewport; while it is asked the latest frame is kept.
GuestFrame(g) ==
    /\ page[g].frame # NoSize
    /\ page' = [page EXCEPT ![g].frame = NoSize]
    /\ pending' = IF ~Listens(g) THEN pending
                  ELSE IF pending.check[g].event = NoSize
                       THEN [pending EXCEPT !.check[g].event = page[g].frame]
                       ELSE [pending EXCEPT !.check[g].queued = page[g].frame]
    /\ UNCHANGED <<win, toTell, broker, turnVars, request, external>>

GuestMeasured(g) ==
    /\ InTransaction
    /\ pending.check[g].event # NoSize /\ pending.check[g].measured = NoSize
    /\ pending' = [pending EXCEPT !.check[g].measured = page[g].laid]
    /\ UNCHANGED <<win, toTell, page, broker, turnVars, request, external>>

\* The answer: a proof, or a mismatch after which the kept frame is looked at.
GuestAnswer(g) ==
    /\ InTransaction /\ pending.check[g].measured # NoSize
    /\ LET c == pending.check[g]
           p == [pending EXCEPT !.check[g] = [Unmeasured EXCEPT !.event = c.queued]]
       IN Continue(IF c.event = c.measured
                   THEN [p EXCEPT !.proof[g] = c.event, !.check[g] = Unmeasured] ELSE p)
    /\ page' = Kept(page, broker')
    /\ UNCHANGED <<win, toTell, queue, thrown, external>>

\* External: the page is laid out for the window, and presents.
LayOut(t) ==
    /\ page[t].laid # win
    /\ page' = [page EXCEPT ![t].laid = win]
    /\ UNCHANGED <<win, toTell, broker, turnVars, pending, request, external>>

Present(t) ==
    /\ broker[t].native /\ page[t].frame = NoSize
    /\ page' = [page EXCEPT ![t].frame = page[t].laid]
    /\ UNCHANGED <<win, toTell, broker, turnVars, pending, request, external>>

ExternalResize(to) ==
    /\ external > 0 /\ to # win
    /\ win' = to /\ toTell' = toTell + 1 /\ external' = external - 1
    /\ UNCHANGED <<page, broker, turnVars, pending, request>>

-----------------------------------------------------------------------------
LedgerInit ==
    /\ win \in Sizes /\ toTell = 0 /\ external = MaxExternal
    /\ page = [t \in Targets |-> [laid |-> win, frame |-> NoSize]]
    /\ broker = [t \in Targets |-> [leases |-> {}, native |-> FALSE]]
    /\ queue = <<>> /\ running = "no" /\ thrown = "none" /\ pending = NoPending
    /\ request = [r \in Resizes |-> Unasked]

LedgerNext ==
    \/ \E r \in Resizes, size \in Sizes : resize(r, size)
    \/ \E to \in Sizes : ExternalResize(to)
    \/ NextTurn \/ onResize \/ RendererFrame \/ Timeout
    \/ \E g \in Guests : GuestFrame(g) \/ GuestMeasured(g) \/ GuestAnswer(g)
    \/ \E t \in Targets : LayOut(t) \/ Present(t)
    \/ \E t \in Shared : OtherAcquires(t) \/ OtherReleases(t)

\* A settled turn is followed by the next and the timer fires; frames need not come.
Due == Timeout \/ NextTurn

LedgerFairness == WF_ledgerVars(Due)

LedgerSpec == LedgerInit /\ [][LedgerNext]_ledgerVars /\ LedgerFairness

-----------------------------------------------------------------------------
LedgerTypeOK ==
    LET Size == Sizes \cup {NoSize} IN
    /\ win \in Sizes /\ toTell \in Nat /\ external \in 0..MaxExternal
    /\ page \in [Targets -> [laid : Sizes, frame : Size]]
    /\ broker \in [Targets -> [leases : SUBSET {"ledger", "other"}, native : BOOLEAN]]
    /\ queue \in Seq(Resizes) /\ running \in {"no", "yes", "over"}
    /\ thrown \in Resizes \cup {"none"}
    /\ request \in [Resizes -> [st : {"new", "asked", "settled", "failed"}, size : Size,
                              proof : [Targets -> Size]]]
    /\ InTransaction =>
         pending \in [of : Resizes, requested : Sizes, nativeSeen : BOOLEAN, actual : Sizes,
                      proof : [Targets -> Size],
                      check : [Guests -> [event : Size, measured : Size, queued : Size]]]

\* Whoever leaves, a lease keeps its subscription and the last one ends it; the
\* ledger has its leases exactly during a transaction, however that one ends; and a
\* request is either waiting in the queue, once, or under way, or answered, but for one
\* whose turn threw (frameSubscriptionBroker.cjs:5-6, resizeSettlement.cjs cleanup, drain).
LeasesAreSound ==
    /\ LedgerTypeOK
    /\ \A t \in Targets :
         /\ broker[t].native <=> broker[t].leases # {}
         /\ "ledger" \in broker[t].leases <=> InTransaction
    /\ IsInjective(queue)
    /\ \A r \in Resizes : thrown # r =>
         ((request[r].st = "asked") <=> (r \in Range(queue) \/ pending.of = r))

\* A receipt says what was on the screen: the page's own frame has the size that was
\* asked for and every guest presented one, although sizes change under a transaction
\* by its own request, by the window manager and by the user, and the events that say
\* so come late (resizeSettlement.cjs:3-5).
ReceiptIsTrue ==
    \A r \in Resizes : request[r].st = "settled" =>
        /\ request[r].proof[renderer] = request[r].size
        /\ \A g \in Guests : request[r].proof[g] # NoSize

\* The ledger, its leases and its receipts together.
ResizeIsSound == LeasesAreSound /\ ReceiptIsTrue

\* Every resize is answered, settled or failed, whatever the pages do and however many
\* resizes are queued before it, refused or timed out - until a turn throws: from then on
\* the window's queue is not drained any more (resizeSettlement.cjs:260-266, 429).
EveryResizeSettles ==
    \A r \in Resizes :
        request[r].st = "asked" ~> request[r].st \in {"settled", "failed"} \/ thrown # "none"
=============================================================================
