------------------------------ MODULE ViewFocus ------------------------------
(***************************************************************************)
(* Who has the keyboard (src/src/plugins/viewFocus.ts): the coordinator    *)
(* keeps one intent, the view that is to be focused, and the mounted views *)
(* that can take it.  Views mount and are cleaned up by React effects      *)
(* (components/PluginViewHost.tsx), frames deliver the intent, the store's *)
(* active view changes by commands and clicks, and the user puts the input *)
(* focus where he likes.  An intent is aborted only when another one       *)
(* replaces it, so the abort signal is the change of intent itself.        *)
(***************************************************************************)
EXTENDS Integers, FiniteSets

CONSTANTS Views,           \* content views
          NoView,          \* no view: nothing active, nothing requested
          Hookless,        \* the views whose provider has no focus hook
          Gens,            \* bound: containers a view gets over its life
          RetryLimit,      \* FOCUS_LANDING_RETRY_LIMIT
          Callers          \* commands that wait for a view to mount

VARIABLES active,          \* activeSessionViewId: the end of the store's active chain
          f,               \* the coordinator: mounted, regs, told, focused, intent
          gens,            \* containers a view has had
          leases,          \* effects not cleaned up yet, by view and container
          cursor,          \* where the input focus is: in a view, on the body, elsewhere
          calls            \* what each caller waits for, and what it was answered

focusVars == <<active, f, gens, leases, cursor, calls>>

ASSUME FocusAssumption ==
    NoView \notin Views /\ Gens \in Nat /\ RetryLimit \in Nat \ {0}

NoIntent == [view |-> NoView, queued |-> FALSE, delivered |-> TRUE, retries |-> 0, late |-> FALSE]
Intent(v) == [NoIntent EXCEPT !.view = v, !.delivered = FALSE]
Places == Views \cup {"body", "elsewhere"}
Idle == [view |-> NoView, answer |-> "none"]

Mounted(v) == f.mounted[v] # 0

-----------------------------------------------------------------------------
(* The coordinator's methods, as functions of its state. *)

publishFocused(c, v, on) ==
    [c EXCEPT !.focused = IF on THEN v ELSE IF @ = v THEN NoView ELSE @,
              !.told[v] = IF c.mounted[v] # 0 THEN on ELSE @]

queueCurrentIntent(c) ==
    IF c.intent.delivered \/ c.mounted[c.intent.view] = 0 THEN c
    ELSE [c EXCEPT !.intent.queued = TRUE]

\* A pending request of the same view is the same request.
requestFocus(c, v) ==
    LET taken == IF c.focused \in {NoView, v} THEN c ELSE publishFocused(c, c.focused, FALSE)
    IN IF c.intent.view = v /\ ~c.intent.delivered THEN publishFocused(c, v, TRUE)
       ELSE queueCurrentIntent(publishFocused([taken EXCEPT !.intent = Intent(v)], v, TRUE))

clear(c) ==
    [(IF c.focused = NoView THEN c ELSE publishFocused(c, c.focused, FALSE))
       EXCEPT !.intent = NoIntent]

\* The subscription to the store.
Synced(c, from, to) ==
    IF from = to THEN c ELSE IF to = NoView THEN clear(c) ELSE requestFocus(c, to)

\* The target is requested whatever the activation answered.
transferFocus(c, source, v, activated(_)) ==
    requestFocus(activated(IF source \in {NoView, v} THEN c ELSE publishFocused(c, source, FALSE)), v)

\* The intent of a view whose container changes starts over.
Renewed(c, v) == IF c.intent.view = v THEN [c EXCEPT !.intent = Intent(v)] ELSE c

\* The same container registers again, or a new one takes over.
registerMountedView(c, v, g) ==
    LET placed == [(IF c.mounted[v] # 0 THEN Renewed(c, v) ELSE c)
                     EXCEPT !.mounted[v] = g, !.regs[v] = 1, !.told[v] = FALSE]
    IN IF c.mounted[v] = g THEN [c EXCEPT !.regs[v] = @ + 1]
       ELSE queueCurrentIntent(IF v \in {c.intent.view, c.focused}
                               THEN publishFocused(placed, v, TRUE) ELSE placed)

\* Mutant: the cleanup of an old container takes the new one with it.
ReleasesAny(c, v, g) ==
    IF c.mounted[v] = 0 THEN c
    ELSE IF c.regs[v] > 1 THEN [c EXCEPT !.regs[v] = @ - 1]
    ELSE [Renewed(c, v) EXCEPT !.mounted[v] = 0, !.regs[v] = 0, !.told[v] = FALSE]

\* The cleanup of an old container changes nothing.
releaseMountedView(c, v, g) ==
    IF c.mounted[v] # g THEN c
    ELSE IF c.regs[v] > 1 THEN [c EXCEPT !.regs[v] = @ - 1]
    ELSE [Renewed(c, v) EXCEPT !.mounted[v] = 0, !.regs[v] = 0, !.told[v] = FALSE]

-----------------------------------------------------------------------------
(* Views mount and go. *)

FocusInit ==
    /\ active \in Views \cup {NoView}
    /\ f = LET c == [mounted |-> [v \in Views \cup {NoView} |-> 0],
                     regs |-> [v \in Views \cup {NoView} |-> 0],
                     told |-> [v \in Views \cup {NoView} |-> FALSE],
                     focused |-> NoView, intent |-> NoIntent]
           IN IF active = NoView THEN c ELSE requestFocus(c, active)
    /\ gens = [v \in Views |-> 0]
    /\ leases = [v \in Views |-> [g \in 1..Gens |-> 0]]
    /\ cursor = "body"
    /\ calls = [x \in Callers |-> Idle]

\* Everyone who waits for the view is answered.
Woken(v) ==
    [x \in Callers |-> IF calls[x] = [view |-> v, answer |-> "pending"]
                       THEN [calls[x] EXCEPT !.answer = "mounted"] ELSE calls[x]]

\* A provider's mount is over.  The container may be the current one (an effect
\* that runs twice) or a new one, with the old one, and the input focus in it,
\* not cleaned up yet.
Mount(v, g) ==
    /\ \/ g = gens[v] /\ leases[v][g] = 1
       \/ g = gens[v] + 1 /\ g <= Gens
    /\ gens' = [gens EXCEPT ![v] = g]
    /\ leases' = [leases EXCEPT ![v][g] = @ + 1]
    /\ f' = registerMountedView(f, v, g)
    /\ calls' = IF f.mounted[v] = g THEN calls ELSE Woken(v)
    /\ cursor' = IF cursor = v /\ g # gens[v] THEN "elsewhere" ELSE cursor
    /\ UNCHANGED active

\* The container goes with its last effect, and the input focus in it.
Cleanup(v, g) ==
    /\ leases[v][g] > 0
    /\ leases' = [leases EXCEPT ![v][g] = @ - 1]
    /\ f' = releaseMountedView(f, v, g)
    /\ cursor' = IF cursor = v /\ g = gens[v] /\ leases[v][g] = 1 THEN "body" ELSE cursor
    /\ UNCHANGED <<active, gens, calls>>

-----------------------------------------------------------------------------
(* The store's active view, and requests. *)

\* A tab closes, a space or a project is switched, a view opens.
StoreChanges(v) ==
    /\ active' = v
    /\ f' = Synced(f, active, v)
    /\ UNCHANGED <<gens, leases, cursor, calls>>

\* tab.activate, pane.activate and a click: the store may keep its active view,
\* for a tab of a space that is not shown, or a rail that is pinned.
Activate(v) ==
    \E took \in BOOLEAN :
        /\ active' = IF took THEN v ELSE active
        /\ f' = transferFocus(f, active, v, LAMBDA c : Synced(c, active, active'))
        /\ UNCHANGED <<gens, leases, cursor, calls>>

\* The end of a layout move gives back a focus that fell to the body.
redeliverIfLost ==
    /\ Mounted(f.intent.view)
    /\ cursor = "body"
    /\ f' = queueCurrentIntent([f EXCEPT !.intent.delivered = FALSE, !.intent.retries = 0])
    /\ UNCHANGED <<active, gens, leases, cursor, calls>>

-----------------------------------------------------------------------------
(* Frames, and where the input focus is. *)

\* Mutant: a request that did not land is not tried again.
DeliversOnce ==
    /\ f.intent.queued
    /\ \E lands \in BOOLEAN :
         cursor' = IF lands /\ f.intent.view \notin Hookless THEN f.intent.view ELSE cursor
    /\ f' = [f EXCEPT !.intent.queued = FALSE]
    /\ UNCHANGED <<active, gens, leases, calls>>

\* A provider's hook moves the input focus at once, later, or not at all.
deliver ==
    /\ f.intent.queued
    /\ LET v == f.intent.view
           done == [f EXCEPT !.intent.queued = FALSE, !.intent.delivered = TRUE]
           retries == f.intent.retries + 1
       IN \/ /\ cursor = v \/ v \in Hookless
             /\ f' = done /\ UNCHANGED cursor
          \/ /\ cursor # v /\ v \notin Hookless
             /\ f' = done /\ cursor' = v
          \/ /\ cursor # v /\ v \notin Hookless
             /\ f' = [f EXCEPT !.intent.retries = retries, !.intent.late = TRUE,
                               !.intent.queued = retries < RetryLimit,
                               !.intent.delivered = retries = RetryLimit]
             /\ UNCHANGED cursor
    /\ UNCHANGED <<active, gens, leases, calls>>

\* A hook that was waiting for its engine, and was not aborted.
LandLate ==
    /\ f.intent.late /\ Mounted(f.intent.view)
    /\ cursor' = f.intent.view
    /\ UNCHANGED <<active, f, gens, leases, calls>>

\* A layout move drops the input focus, the user puts it somewhere.
MoveCursor(place) ==
    /\ place \in Views => Mounted(place)
    /\ cursor' = place
    /\ UNCHANGED <<active, f, gens, leases, calls>>

-----------------------------------------------------------------------------
(* tab.open and pane.split wait for what they opened. *)

awaitMounted(x, v) ==
    /\ calls[x] = Idle
    /\ calls' = [calls EXCEPT ![x] = [view |-> v,
                                      answer |-> IF Mounted(v) THEN "mounted" ELSE "pending"]]
    /\ UNCHANGED <<active, f, gens, leases, cursor>>

TimeOut(x) ==
    /\ calls[x].answer = "pending"
    /\ calls' = [calls EXCEPT ![x].answer = "timeout"]
    /\ UNCHANGED <<active, f, gens, leases, cursor>>

FocusNext ==
    \/ \E v \in Views, g \in 1..Gens : Mount(v, g) \/ Cleanup(v, g)
    \/ \E v \in Views \cup {NoView} : StoreChanges(v)
    \/ \E v \in Views : Activate(v)
    \/ redeliverIfLost \/ deliver \/ LandLate
    \/ \E place \in Places : MoveCursor(place)
    \/ \E x \in Callers : TimeOut(x) \/ \E v \in Views : awaitMounted(x, v)

\* The browser runs the frames it was asked for.
FocusSpec == FocusInit /\ [][FocusNext]_focusVars /\ WF_focusVars(deliver)

-----------------------------------------------------------------------------
(* Properties. *)

TypeOK ==
    /\ active \in Views \cup {NoView} /\ cursor \in Places
    /\ f.focused \in Views \cup {NoView} /\ f.intent.view \in Views \cup {NoView}
    /\ f.intent.retries \in 0..RetryLimit
    /\ \A x \in Callers : calls[x].answer \in {"none", "pending", "mounted", "timeout"}

\* Whatever mounts, remounts, is requested or cleared, exactly the requested view
\* shows itself as focused, as soon as it is mounted, and no other one does.
OneIsTold ==
    /\ f.focused = f.intent.view
    /\ {v \in Views : f.told[v]} = {v \in Views : v = f.intent.view /\ Mounted(v)}

\* A view can be commanded as long as its newest container lives: neither an
\* effect that runs twice nor the late cleanup of an older one unmounts it, and
\* none keeps it mounted that is gone.
MountIsOwned ==
    \A v \in Views :
        LET alive == IF gens[v] = 0 THEN 0 ELSE leases[v][gens[v]]
        IN /\ f.mounted[v] = (IF alive > 0 THEN gens[v] ELSE 0)
           /\ f.regs[v] = alive

\* A command that opened a view waits only while the view is not there: no
\* mount passes a caller by.
NoWaiterSleeps ==
    \A x \in Callers : calls[x].answer = "pending" => ~Mounted(calls[x].view)

\* What the coordinator says of the focus, of the mounted views and to those who
\* wait for one.
FocusIsSound == OneIsTold /\ MountIsOwned /\ NoWaiterSleeps

\* A request for a view that stays mounted comes to an end, by a focus that
\* landed or by the report that it would not, unless another request replaces it
\* or layouts move for ever: the end of each move that lost the focus starts over.
IntentSettles ==
    <>[][~redeliverIfLost]_focusVars => \A v \in Views :
        (f.intent.view = v /\ Mounted(v)) ~>
            (f.intent.view # v \/ f.intent.delivered \/ ~Mounted(v))

\* Not checked, the code does not keep it (README, known disagreements).  The
\* comment on startViewFocusSync: the focus intent is kept aligned with every
\* transition of the active chain.
FocusFollowsActive == active # NoView => f.intent.view = active
=============================================================================
