----------------------------- MODULE ContentView -----------------------------
(***************************************************************************)
(* A content view that lives outside the document                          *)
(* (src/src/framework/tauri/contentViews.ts): a plugin declares a slot in   *)
(* the DOM, and the adapter keeps a native child window where the slot is   *)
(* and shows it when it is wanted.  One label; the adapter keeps nothing    *)
(* that relates two labels.                                                 *)
(*                                                                          *)
(* The native commands run in the order in which they are sent, on the main *)
(* thread, and answer in that order, so a call takes effect when it is sent *)
(* and only its answer is awaited (inFlight).  Everything between two awaits   *)
(* is one step.                                                             *)
(***************************************************************************)
EXTENDS Integers, Sequences

CONSTANTS SlotPlaces,    \* where the slot can be
          MaxChanges,    \* bound: changes of the DOM
          MaxResizes,    \* bound: resizes of the window
          MaxAsks,       \* bound: calls of visible()
          MaxMoves,      \* bound: layout transactions
          MaxDetaches,   \* bound: times the child falls off its window
          MaxEvents      \* bound: all of these together

ASSUME PlacesAssumption == SlotPlaces \subseteq Nat \ {0}

VARIABLES slot,          \* the DOM slot: present, its place, whether an animation shows it elsewhere
          sf,            \* SurfaceState and the coroutines that run over it
          nat,           \* the native child: exists, its place, visible
          inFlight,      \* native calls that have run and whose answers are awaited
          mv,            \* the layout transaction of useArrangementPhase
          owed,          \* events the browser still has to deliver
          asked,         \* history: what visible() was last called with
          deaf,          \* history: events that were not heard and not made good since
          left           \* what is left of each bound

surfaceVars == <<slot, sf, nat, inFlight, mv, owed, asked, deaf, left>>

Unset == "unset"
NoPlace == 0             \* lastRect = "" and precommitTarget = ""
Midway == -1             \* where an animation shows the slot before it lands
Adrift == -2             \* where AppKit put the child when the window was resized
Anywhere == SlotPlaces \cup {Midway, Adrift}
Wishes == {"shown", "hidden"}
Wish(b) == IF b THEN "shown" ELSE "hidden"

NoMove == [pc |-> "idle", glide |-> FALSE, before |-> NoPlace, target |-> NoPlace]

\* What getBoundingClientRect answers.
slotRect(s) == IF s.moving THEN Midway ELSE s.at

Spend(kind) == /\ left[kind] > 0 /\ left.events > 0
               /\ left' = [left EXCEPT ![kind] = @ - 1, !.events = @ - 1]

World == [sf |-> sf, nat |-> nat, calls |-> inFlight, deaf |-> deaf]
Becomes(w) == /\ sf' = w.sf /\ nat' = w.nat /\ inFlight' = w.calls /\ deaf' = w.deaf

-----------------------------------------------------------------------------
(* The native commands. *)

Sent(w, call) == [w EXCEPT !.calls = Append(@, call)]

\* A label without a child is answered ok.  A frame makes good what was not heard,
\* unless the answer of an open comes after it and takes its own frame for the last.
Placed(w, at) ==
    IF w.nat.exists
    THEN [w EXCEPT !.nat.at = at,
                   !.deaf = IF w.sf.opening /\ ~w.sf.opened THEN @ ELSE {}]
    ELSE w

webview_bounds(w, by, at) == Sent(Placed(w, at), [by |-> by, at |-> at])

webview_visible(w, by, on) ==
    Sent([w EXCEPT !.nat.visible = w.nat.exists /\ on = "shown"], [by |-> by, on |-> on])

-----------------------------------------------------------------------------
(* requestSlotSync: geometry. *)

Following(w) == w.sf.opened /\ ~w.sf.precommitting /\ w.sf.desiredVisible # "hidden"

\* A hidden surface whose next frame is forced when it returns.
ReturnsForced(w) ==
    /\ w.sf.appliedVisible = "hidden" /\ w.sf.desiredVisible = "hidden"
    /\ w.sf.vis \in {"idle", "hiding"} \/ (w.sf.vis \in {"alive", "drained"} /\ w.sf.returning)

\* History: an event that changed nothing and that nothing later makes good.  The
\* commit of a transaction reads the slot again, the return of a hidden surface is
\* forced; lastRect is stale while the frame of a commit is being written.
Unheard(w, force) ==
    IF force /\ (w.sf.precommitting \/ w.sf.opening
                   \/ ~ReturnsForced(w))
    THEN [w EXCEPT !.deaf = @ \cup {"resize"}]
    ELSE IF \/ w.sf.precommitting /\ mv.pc \in {"preparing", "prepared"}
            \/ ~w.sf.precommitting /\ mv.pc = "committing"
         THEN [w EXCEPT !.deaf = @ \cup {"mutation"}] ELSE w

\* The drain between two answers: what is requested by then is one request.
DrainOn(w, s) ==
    LET u == [w EXCEPT !.sf.requested = FALSE, !.sf.force = FALSE]
        writes == /\ w.sf.requested /\ Following(w) /\ s.present
                  /\ w.sf.force \/ slotRect(s) # w.sf.lastRect
    IN CASE writes -> webview_bounds([u EXCEPT !.sf.draining = TRUE], "drain", slotRect(s))
         [] w.sf.requested /\ ~writes -> Unheard([u EXCEPT !.sf.draining = FALSE], w.sf.force)
         [] OTHER -> [u EXCEPT !.sf.draining = FALSE]

\* Mutant: a request made while a frame is written replaces the one before it.
LastRequestWins(w, s, force) ==
    LET u == [w EXCEPT !.sf.requested = TRUE, !.sf.force = force]
    IN IF ~Following(w) THEN Unheard(w, force)
       ELSE IF w.sf.draining THEN u ELSE DrainOn(u, s)

requestSlotSync(w, s, force) ==
    LET u == [w EXCEPT !.sf.requested = TRUE, !.sf.force = @ \/ force]
    IN IF ~Following(w) THEN Unheard(w, force)
       ELSE IF w.sf.draining THEN u ELSE DrainOn(u, s)

-----------------------------------------------------------------------------
(* Opening, and requestVisibilitySync: one loop that applies the latest wish. *)

\* The wish is read here and written back when webview_open has answered.
openTrackedSurface(w, s, by, ok) ==
    LET desired == IF w.sf.desiredVisible = Unset THEN Wish(s.shown) ELSE w.sf.desiredVisible
    IN Sent([w EXCEPT !.nat = IF ok THEN [exists |-> TRUE, at |-> slotRect(s), visible |-> TRUE] ELSE @,
                      !.deaf = IF w.sf.precommitting THEN @ \cup {"restored"} ELSE @],
            [by |-> "open", for |-> by, ok |-> ok, desired |-> desired, at |-> slotRect(s)])

\* The head of the loop; a surface that is not open has nothing to apply.
VisLoop(w) ==
    LET u == [w EXCEPT !.sf.visibilityRequested = FALSE]
    IN IF ~w.sf.visibilityRequested \/ ~w.sf.opened \/ w.sf.desiredVisible = Unset
       THEN [u EXCEPT !.sf.vis = "idle"]
       ELSE IF w.sf.desiredVisible = "hidden"
            THEN webview_visible([u EXCEPT !.sf.vis = "hiding"], "vis", "hidden")
            ELSE Sent([u EXCEPT !.sf.vis = "alive",
                                !.sf.returning = w.sf.appliedVisible = "hidden"],
                      [by |-> "vis", alive |-> u.nat.exists])

\* A hide requested while the frame was written owns the next operation.
ShowOrYield(w) ==
    IF w.sf.desiredVisible = "shown"
    THEN webview_visible([w EXCEPT !.sf.vis = "showing"], "vis", "shown")
    ELSE VisLoop(w)

\* Mutant: the frame of a surface that returns is not settled anew.
ShowsAsItWas(w, s) ==
    LET u == requestSlotSync(w, s, FALSE)
    IN IF u.sf.draining THEN [u EXCEPT !.sf.vis = "geometry"] ELSE ShowOrYield(u)

SettleThenShow(w, s) ==
    LET u == requestSlotSync(w, s, w.sf.returning)
    IN IF u.sf.draining THEN [u EXCEPT !.sf.vis = "geometry"] ELSE ShowOrYield(u)

\* Mutant: those who wait for the geometry are not told.
WakesNobody(w, s) == w

\* The end of a drain resumes the loop that awaits it.
DrainOver(w, s) ==
    CASE w.sf.draining -> w
      [] ~w.sf.draining /\ w.sf.vis = "drained" -> SettleThenShow(w, s)
      [] ~w.sf.draining /\ w.sf.vis = "geometry" -> ShowOrYield(w)
      [] OTHER -> w

Applied(w, on) ==
    VisLoop([w EXCEPT !.sf.appliedVisible = on,
                      !.sf.visibilityRequested = @ \/ on # w.sf.desiredVisible])

visible(on) ==
    /\ ~sf.closed
    /\ asked' = on
    /\ LET w == [World EXCEPT !.sf.desiredVisible = on, !.sf.visibilityRequested = TRUE]
       IN Becomes(IF sf.vis = "idle" THEN VisLoop(w) ELSE w)
    /\ Spend("asks")
    /\ UNCHANGED <<slot, mv, owed>>

open ==
    /\ ~sf.closed /\ ~sf.opened /\ ~sf.opening /\ ~nat.exists
    /\ sf.vis = "idle" /\ slot.present
    /\ \E ok \in BOOLEAN :
          Becomes(openTrackedSurface([World EXCEPT !.sf.opening = TRUE], slot, "client", ok))
    /\ UNCHANGED <<slot, mv, owed, asked, left>>

\* The state leaves the map; what still runs keeps it and finds it not opened.
close ==
    /\ ~sf.closed /\ sf.opened /\ ~sf.opening /\ sf.vis # "alive"
    /\ Becomes([World EXCEPT !.sf.opened = FALSE, !.sf.closed = TRUE,
                             !.nat.exists = FALSE, !.nat.visible = FALSE])
    /\ owed' = owed \ {"observe"}
    /\ UNCHANGED <<slot, inFlight, mv, asked, left>>

-----------------------------------------------------------------------------
(* Answers. *)

Answer == Head(inFlight)
AnswerOf(by) == /\ inFlight # <<>> /\ Answer.by = by
Answered == [World EXCEPT !.calls = Tail(@)]

DrainAnswer ==
    /\ AnswerOf("drain")
    /\ Becomes(DrainOver(DrainOn([Answered EXCEPT !.sf.lastRect = Answer.at], slot), slot))
    /\ UNCHANGED <<slot, mv, owed, asked, left>>

VisibleAnswer ==
    /\ AnswerOf("vis") /\ sf.vis \in {"hiding", "showing"}
    /\ Becomes(Applied(Answered, Answer.on))
    /\ UNCHANGED <<slot, mv, owed, asked, left>>

\* restoreIfDetached: alive, or opened again from the options it was opened with.
AliveAnswer ==
    /\ AnswerOf("vis") /\ sf.vis = "alive"
    /\ LET w == Answered
           lost == [w EXCEPT !.sf.opened = FALSE, !.sf.lastRect = NoPlace]
       IN \/ /\ Answer.alive
             /\ Becomes(IF w.sf.draining THEN [w EXCEPT !.sf.vis = "drained"]
                        ELSE SettleThenShow(w, slot))
          \/ /\ ~Answer.alive /\ slot.present
             /\ \E ok \in BOOLEAN :
                   Becomes(openTrackedSurface([lost EXCEPT !.sf.opening = TRUE, !.sf.vis = "restoring"],
                                              slot, "vis", ok))
          \/ /\ ~Answer.alive /\ ~slot.present
             /\ Becomes(VisLoop(lost))
    /\ UNCHANGED <<slot, mv, owed, asked, left>>

\* Whom the first webview_visible of an open is for.
Opened == [client |-> "opened-client", vis |-> "opened-vis"]

\* A failed open rejects its caller; the loop goes on with what was requested meanwhile.
Failed(w) == IF Answer.for = "vis" THEN VisLoop(w) ELSE w

OpenAnswer ==
    /\ AnswerOf("open")
    /\ LET w == Answered
       IN \/ /\ Answer.ok
             /\ Becomes(webview_visible(
                  [w EXCEPT !.sf.opened = TRUE, !.sf.desiredVisible = Answer.desired,
                            !.sf.lastRect = Answer.at],
                  Opened[Answer.for], Answer.desired))
             /\ owed' = owed \cup {"observe"}
          \/ /\ ~Answer.ok
             /\ Becomes(Failed([w EXCEPT !.sf.opening = FALSE]))
             /\ UNCHANGED owed
    /\ UNCHANGED <<slot, mv, asked, left>>

OpenedAnswer ==
    \/ /\ AnswerOf("opened-client")
       /\ Becomes([Answered EXCEPT !.sf.appliedVisible = Answer.on, !.sf.opening = FALSE])
       /\ UNCHANGED <<slot, mv, owed, asked, left>>
    \/ /\ AnswerOf("opened-vis")
       /\ Becomes(VisLoop([Answered EXCEPT !.sf.appliedVisible = Answer.on, !.sf.opening = FALSE]))
       /\ UNCHANGED <<slot, mv, owed, asked, left>>

-----------------------------------------------------------------------------
(* The layout transaction: the surface is locked, moved with the DOM, unlocked. *)

Unlocked(w) == [w EXCEPT !.sf.precommitting = FALSE, !.sf.precommitTarget = NoPlace]
Locked(w, at) == [w EXCEPT !.sf.precommitting = TRUE, !.sf.precommitTarget = at]

\* A transaction that is given up does not look at the slot again.
GivenUp(w, s) ==
    [Unlocked(w) EXCEPT !.deaf = @ \cup IF slotRect(s) = w.sf.lastRect THEN {} ELSE {"mutation"}]

settlePreparedFrame(w, s) ==
    IF s.present /\ slotRect(s) = w.sf.precommitTarget THEN Unlocked(w) ELSE w

\* The targets are read before the window is asked whether it has the focus.
MoveAsked ==
    /\ mv.pc = "idle"
    /\ ~sf.closed /\ sf.opened /\ sf.desiredVisible # "hidden"
    /\ slot.present /\ ~slot.moving /\ sf.lastRect # NoPlace
    /\ \E t \in SlotPlaces \ {slot.at} :
          mv' = [NoMove EXCEPT !.pc = "asked", !.before = sf.lastRect, !.target = t]
    /\ Spend("moves")
    /\ UNCHANGED <<slot, sf, nat, inFlight, owed, asked, deaf>>

\* A snap only locks; a glide also arms the native animation, which may fail.
MoveLock(glide, ok) ==
    /\ mv.pc = "asked" /\ ~sf.draining
    /\ ok => nat.exists
    /\ mv' = [mv EXCEPT !.pc = IF glide THEN "preparing" ELSE "prepared", !.glide = glide]
    /\ LET w == Locked(World, mv.target)
       IN Becomes(IF ~glide THEN w
                  ELSE Sent(IF ok THEN Placed(w, mv.target) ELSE w, [by |-> "prepare", ok |-> ok, at |-> mv.target]))
    /\ UNCHANGED <<slot, owed, asked, left>>

PrepareAnswer ==
    /\ AnswerOf("prepare")
    /\ IF Answer.ok
       THEN /\ Becomes([Answered EXCEPT !.sf.lastRect = Answer.at])
            /\ mv' = [mv EXCEPT !.pc = "prepared"]
       ELSE /\ Becomes(GivenUp(Answered, slot))
            /\ mv' = NoMove
    /\ UNCHANGED <<slot, owed, asked, left>>

\* Where the commit writes the frame it finds: a snap always, a glide only off its target.
CommitWrites(at) == ~mv.glide \/ at \notin {sf.lastRect, mv.target}

\* React commits the new arrangement, the layout effect runs commit(), then the
\* mutation is observed: the lock ends if the slot stands where it was committed.
MoveCommit(s) ==
    /\ mv.pc = "prepared" /\ ~sf.closed
    /\ slot' = s
    /\ LET heard == [World EXCEPT !.deaf = @ \ {"mutation"}]
           at == s.at
           locked == [heard EXCEPT !.sf.precommitTarget = at]
       IN \/ /\ s.present /\ CommitWrites(at)
             /\ LET w == IF mv.glide
                         THEN webview_bounds([locked EXCEPT !.sf.lastRect = at], "land", at)
                         ELSE webview_bounds(locked, "commit", at)
                IN Becomes(settlePreparedFrame(w, s))
             /\ mv' = [mv EXCEPT !.pc = "committing", !.target = at]
          \/ /\ s.present /\ ~CommitWrites(at)
             /\ Becomes(settlePreparedFrame(
                  [locked EXCEPT !.deaf = IF at = sf.lastRect THEN @ ELSE @ \cup {"mutation"}], s))
             /\ mv' = NoMove
          \/ /\ ~s.present
             /\ Becomes(IF mv.glide THEN requestSlotSync(Unlocked(heard), s, TRUE) ELSE Unlocked(heard))
             /\ mv' = NoMove
    /\ UNCHANGED <<owed, asked, left>>

CommitAnswer ==
    /\ AnswerOf("commit") \/ AnswerOf("land")
    /\ LET w == IF Answer.by = "land" THEN Answered ELSE [Answered EXCEPT !.sf.lastRect = Answer.at]
       IN Becomes(IF w.sf.precommitting THEN settlePreparedFrame(w, slot) ELSE w)
    /\ mv' = NoMove
    /\ UNCHANGED <<slot, owed, asked, left>>

\* A newer arrangement replaces the prepared one: back to where the child was.
MoveCancel ==
    /\ mv.pc = "prepared"
    /\ LET back == Placed([World EXCEPT !.sf.lastRect = mv.before], mv.before)
       IN Becomes(IF mv.glide THEN Sent(GivenUp(back, slot), [by |-> "cancel"])
                  ELSE GivenUp(World, slot))
    /\ mv' = NoMove
    /\ UNCHANGED <<slot, owed, asked, left>>

CancelAnswer ==
    /\ AnswerOf("cancel") /\ Becomes(Answered)
    /\ UNCHANGED <<slot, mv, owed, asked, left>>

-----------------------------------------------------------------------------
(* What the adapter hears of: the DOM, the window, the child itself. *)

\* The MutationObserver runs at the end of the task that changed the DOM.
Mutated(w, s) ==
    IF w.sf.closed THEN w
    ELSE IF w.sf.precommitting THEN settlePreparedFrame(Unheard(w, FALSE), s)
    ELSE requestSlotSync(w, s, FALSE)

\* Only the commit of a prepared arrangement puts the slot where it is prepared to go.
Unprepared(at) == mv.pc \in {"idle", "committing"} \/ at # mv.target

DomChange(s) ==
    /\ s # slot /\ Unprepared(s.at)
    /\ slot' = s
    /\ Becomes(Mutated(World, s))
    /\ Spend("changes")
    /\ UNCHANGED <<mv, owed, asked>>

\* animationend first, then the mutation that takes the animation's class away.
AnimationEnd ==
    /\ slot.moving
    /\ LET s == [slot EXCEPT !.moving = FALSE]
       IN /\ slot' = s
          /\ Becomes(IF sf.closed THEN World
                     ELSE IF sf.precommitting THEN settlePreparedFrame(World, s)
                     ELSE requestSlotSync(World, s, FALSE))
    /\ UNCHANGED <<mv, owed, asked, left>>

\* AppKit moves the child while the window is resized; the document hears of it later.
WindowResize ==
    /\ nat' = [nat EXCEPT !.at = IF nat.exists THEN Adrift ELSE @]
    /\ owed' = owed \cup {"resize"}
    /\ Spend("resizes")
    /\ UNCHANGED <<slot, sf, inFlight, mv, asked, deaf>>

onWindowResize(at) ==
    /\ "resize" \in owed /\ Unprepared(at)
    /\ owed' = owed \ {"resize"}
    /\ LET s == [slot EXCEPT !.at = at]
       IN slot' = s /\ Becomes(IF sf.closed THEN World ELSE requestSlotSync(World, s, TRUE))
    /\ UNCHANGED <<mv, asked, left>>

\* A new ResizeObserver reports the size it finds.
SlotObserved ==
    /\ "observe" \in owed
    /\ owed' = owed \ {"observe"}
    /\ Becomes(requestSlotSync(World, slot, FALSE))
    /\ UNCHANGED <<slot, mv, asked, left>>

\* The child falls off its window; the label stays registered.
Detach ==
    /\ nat.exists
    /\ nat' = [nat EXCEPT !.exists = FALSE, !.visible = FALSE]
    /\ Spend("detaches")
    /\ UNCHANGED <<slot, sf, inFlight, mv, owed, asked, deaf>>

-----------------------------------------------------------------------------
SlotStates == [present : BOOLEAN, at : SlotPlaces, moving : {FALSE}, shown : BOOLEAN]

SurfaceInit ==
    /\ slot \in SlotStates
    /\ sf = [opened |-> FALSE, desiredVisible |-> Unset, appliedVisible |-> Unset,
             precommitting |-> FALSE, precommitTarget |-> NoPlace, lastRect |-> NoPlace,
             requested |-> FALSE, force |-> FALSE, draining |-> FALSE,
             visibilityRequested |-> FALSE, vis |-> "idle", returning |-> FALSE,
             opening |-> FALSE, closed |-> FALSE]
    /\ nat = [exists |-> FALSE, at |-> Adrift, visible |-> FALSE]
    /\ inFlight = <<>> /\ mv = NoMove /\ owed = {} /\ asked = Unset
    /\ deaf = {}
    /\ left = [changes |-> MaxChanges, resizes |-> MaxResizes, asks |-> MaxAsks,
               moves |-> MaxMoves, detaches |-> MaxDetaches, events |-> MaxEvents]

\* What a committed arrangement can make of the slot.
Arranged == { s \in [present : BOOLEAN, at : SlotPlaces, moving : BOOLEAN, shown : BOOLEAN] :
                 s.shown = slot.shown /\ (s.moving => mv.glide) }

Answers == DrainAnswer \/ VisibleAnswer \/ AliveAnswer \/ OpenAnswer \/ OpenedAnswer
             \/ PrepareAnswer \/ CommitAnswer \/ CancelAnswer

SurfaceNext ==
    \/ open \/ close \/ Answers
    \/ \E on \in Wishes : visible(on)
    \/ MoveAsked \/ MoveCancel
    \/ \E glide, ok \in BOOLEAN : MoveLock(glide, ok)
    \/ \E s \in Arranged : MoveCommit(s)
    \/ \E p \in BOOLEAN, a \in SlotPlaces : DomChange([slot EXCEPT !.present = p, !.at = a])
    \/ AnimationEnd \/ WindowResize \/ SlotObserved \/ Detach
    \/ \E at \in SlotPlaces : onWindowResize(at)

\* Native calls are answered, the browser delivers its events and ends its
\* animations, and an arrangement that was prepared is committed or cancelled.
SurfaceFairness ==
    /\ WF_surfaceVars(Answers)
    /\ WF_surfaceVars(AnimationEnd) /\ WF_surfaceVars(SlotObserved)
    /\ WF_surfaceVars(\E at \in SlotPlaces : onWindowResize(at))
    /\ WF_surfaceVars(\E glide, ok \in BOOLEAN : MoveLock(glide, ok))
    /\ WF_surfaceVars(MoveCancel \/ \E s \in Arranged : MoveCommit(s))

SurfaceSpec == SurfaceInit /\ [][SurfaceNext]_surfaceVars /\ SurfaceFairness

-----------------------------------------------------------------------------
SurfaceTypeOK ==
    /\ slot \in [present : BOOLEAN, at : SlotPlaces, moving : BOOLEAN, shown : BOOLEAN]
    /\ {sf.desiredVisible, sf.appliedVisible} \subseteq Wishes \cup {Unset}
    /\ sf.lastRect \in Anywhere \cup {NoPlace} /\ nat.at \in Anywhere
    /\ sf.vis \in {"idle", "hiding", "showing", "alive", "restoring", "drained", "geometry"}

\* Nothing is under way: no call, no event, no loop, no transaction.
AtRest ==
    /\ inFlight = <<>> /\ owed = {} /\ ~slot.moving /\ mv.pc = "idle"
    /\ ~sf.draining /\ sf.vis = "idle" /\ ~sf.opening

\* At rest the child is where its slot is and visible as it is wanted,
\* whatever was asked, moved, resized and restored in between; and a closed
\* label has no child.  The exceptions are a surface left locked and an event
\* that found it locked (README, known disagreements).
SurfaceIsTrue ==
    /\ SurfaceTypeOK
    /\ AtRest =>
         /\ nat.exists /\ sf.opened => nat.visible = (sf.desiredVisible = "shown")
         /\ /\ nat.exists /\ sf.opened /\ nat.visible /\ slot.present
            /\ ~sf.precommitting /\ deaf = {}
            => nat.at = slot.at
    /\ sf.closed => ~nat.exists

\* The visibility loop shows a surface only where its slot is: whatever moved
\* the slot or the child while it was hidden has been made good before, unless it
\* was asked anew since it began its round and will go round again.
ShownWhereItBelongs ==
    [][ /\ sf.vis # "showing" /\ sf'.vis = "showing"
        /\ nat.exists /\ sf.opened /\ slot.present
        /\ mv.pc = "idle" /\ ~sf.precommitting /\ deaf = {} /\ "resize" \notin owed
        /\ ~sf.visibilityRequested
        => nat'.at = slotRect(slot) ]_surfaceVars

\* Every call, wait and transaction ends: whoever asked to be shown, to be
\* moved or to be opened is answered, and the surface comes to rest.
ComesToRest == []<>AtRest

-----------------------------------------------------------------------------
\* The code does not keep these two (README, known disagreements).

\* requestVisibilitySync: "Rapid hide/show requests are coalesced to the
\* latest desired value" (contentViews.ts:546-547).
LatestWishWins == AtRest /\ sf.opened => sf.desiredVisible = asked \/ asked = Unset

\* installNativeContentViewComposition: the resize event is the edge at which
\* the surface settles, even if the slot has not changed (contentViews.ts:474-478).
ResizeResettles ==
    AtRest /\ nat.exists /\ sf.opened /\ nat.visible /\ slot.present => nat.at = slot.at
=============================================================================
