----------------------------- MODULE Window_proofs -----------------------------
(***************************************************************************)
(* Theorems about a window: its focus coordinator (ViewFocus), for any views, *)
(* containers and waiting commands; what it keeps (WindowStore), for any       *)
(* windows, roots and slots of an earlier version, through any crash, reload    *)
(* and respawn; and a native content view (ContentView), for any places of its   *)
(* slot and any number of changes, resizes, requests, layout transactions and    *)
(* detachments.  The models share no variable.                                    *)
(***************************************************************************)
EXTENDS ViewFocus, WindowStore, ContentView, FiniteSetTheorems, TLAPS

------------------------------------------------------------------------------
(* The focus.  The methods of the coordinator are functions of its state, so most of *)
(* the proof is about them: each keeps what the views were told in step with the       *)
(* focus (TellsOne), also halfway through a transfer, when one view has lost the       *)
(* focus and the other has not got it.                                                  *)

Known == Views \cup {NoView}
IntentType == [view : Known, queued : BOOLEAN, delivered : BOOLEAN,
               retries : 0..RetryLimit, late : BOOLEAN]
Coordinator == [mounted : [Known -> Nat], regs : [Known -> Nat], told : [Known -> BOOLEAN],
                focused : Known, intent : IntentType]
CallRecord == [view : Known, answer : {"none", "pending", "mounted", "timeout"}]

\* A request that is not over is for a view, and has tries left.
TriesLeft(i) == /\ ~i.delivered => (i.retries < RetryLimit /\ i.view # NoView)
                /\ i.queued => ~i.delivered

\* The focused view, if it is mounted, and no other was told that it has the focus; it is
\* the one that was requested, or a transfer has taken it away.
TellsOne(c) ==
    /\ c \in Coordinator /\ c.mounted[NoView] = 0 /\ TriesLeft(c.intent)
    /\ \A v \in Known : c.told[v] <=> v = c.focused /\ c.mounted[v] # 0
    /\ c.focused \in {NoView, c.intent.view}

SameMounts(c, d) == d.mounted = c.mounted /\ d.regs = c.regs

-----------------------------------------------------------------------------
(* The methods. *)

LEMMA PublishFacts ==
    ASSUME NEW c \in Coordinator, NEW v \in Known, NEW on \in BOOLEAN
    PROVE  LET d == publishFocused(c, v, on) IN
           /\ d \in Coordinator /\ SameMounts(c, d) /\ d.intent = c.intent
           /\ d.focused = IF on THEN v ELSE IF c.focused = v THEN NoView ELSE c.focused
           /\ \A u \in Known : d.told[u] = IF u = v /\ c.mounted[v] # 0 THEN on ELSE c.told[u]
<1> DEFINE fo == IF on THEN v ELSE IF c.focused = v THEN NoView ELSE c.focused
           ts == IF c.mounted[v] # 0 THEN on ELSE c.told[v]
           to == [c.told EXCEPT ![v] = ts]
           d == [c EXCEPT !.focused = fo, !.told = to]
<1>1. publishFocused(c, v, on) = d
  BY DEF publishFocused, Coordinator
<1>2. fo \in Known /\ c.told \in [Known -> BOOLEAN] /\ ts \in BOOLEAN
  BY DEF Coordinator, Known
<1>3. to \in [Known -> BOOLEAN] /\ \A u \in Known : to[u] = IF u = v THEN ts ELSE c.told[u]
  BY <1>2
<1> HIDE DEF fo, to
<1>4. /\ d \in Coordinator /\ d.focused = fo /\ d.told = to /\ d.mounted = c.mounted
      /\ d.regs = c.regs /\ d.intent = c.intent
  BY <1>2, <1>3 DEF Coordinator
<1> HIDE DEF d
<1>5. \A u \in Known : d.told[u] = IF u = v /\ c.mounted[v] # 0 THEN on ELSE c.told[u]
  BY <1>3, <1>4
<1>6. QED
  BY <1>1, <1>4, <1>5 DEF SameMounts, fo

LEMMA QueueFacts ==
    ASSUME NEW c, TellsOne(c)
    PROVE  LET d == queueCurrentIntent(c) IN
           /\ TellsOne(d) /\ SameMounts(c, d) /\ d.intent.view = c.intent.view
           /\ d.focused = c.focused
<1> DEFINE i == [c.intent EXCEPT !.queued = TRUE]
           d == [c EXCEPT !.intent = i]
<1>1. CASE c.intent.delivered \/ c.mounted[c.intent.view] = 0
  BY <1>1 DEF queueCurrentIntent, SameMounts
<1>2. CASE ~(c.intent.delivered \/ c.mounted[c.intent.view] = 0)
  <2>1. c \in Coordinator /\ c.intent \in IntentType /\ TriesLeft(c.intent)
    BY DEF TellsOne, Coordinator
  <2>2. queueCurrentIntent(c) = d
    BY <1>2, <2>1 DEF queueCurrentIntent, Coordinator, IntentType
  <2>3. i \in IntentType /\ TriesLeft(i) /\ i.view = c.intent.view
    BY <1>2, <2>1 DEF IntentType, TriesLeft
  <2> HIDE DEF i
  <2>4. /\ d \in Coordinator /\ d.focused = c.focused /\ d.told = c.told
        /\ d.mounted = c.mounted /\ d.regs = c.regs /\ d.intent = i
    BY <2>1, <2>3 DEF Coordinator
  <2> HIDE DEF d
  <2>5. QED
    BY <2>2, <2>3, <2>4 DEF TellsOne, SameMounts
<1>3. QED
  BY <1>1, <1>2

LEMMA NewIntent ==
    /\ \A v \in Views : Intent(v) \in IntentType /\ Intent(v).view = v /\ TriesLeft(Intent(v))
    /\ NoIntent \in IntentType /\ NoIntent.view = NoView /\ TriesLeft(NoIntent)
<1>1. /\ 0 \in 0..RetryLimit /\ 0 < RetryLimit /\ NoView \in Known
      /\ Views \subseteq Known /\ NoView \notin Views
  BY FocusAssumption DEF Known
<1>2. NoIntent \in IntentType /\ NoIntent.view = NoView /\ TriesLeft(NoIntent)
  BY <1>1 DEF NoIntent, IntentType, TriesLeft
<1>3. ASSUME NEW v \in Views
      PROVE  Intent(v) \in IntentType /\ Intent(v).view = v /\ TriesLeft(Intent(v))
  <2>1. ~NoIntent.queued /\ NoIntent.retries = 0
    BY DEF NoIntent
  <2>2. /\ Intent(v) \in IntentType /\ Intent(v).view = v /\ ~Intent(v).queued
        /\ Intent(v).retries = 0
    BY <1>1, <1>2, <2>1 DEF Intent, IntentType
  <2>3. QED
    BY <1>1, <2>2 DEF TriesLeft
<1>4. QED
  BY <1>2, <1>3

\* The intent is replaced, of a coordinator nothing is focused in, or what is to be.
LEMMA ReplaceFacts ==
    ASSUME NEW c, TellsOne(c), NEW i \in IntentType, TriesLeft(i), c.focused \in {NoView, i.view}
    PROVE  LET d == [c EXCEPT !.intent = i] IN
           TellsOne(d) /\ SameMounts(c, d) /\ d.intent = i /\ d.focused = c.focused
<1> DEFINE d == [c EXCEPT !.intent = i]
<1>1. /\ d \in Coordinator /\ d.focused = c.focused /\ d.told = c.told
      /\ d.mounted = c.mounted /\ d.regs = c.regs /\ d.intent = i
  BY DEF Coordinator, TellsOne
<1> HIDE DEF d
<1>2. TellsOne(d) /\ SameMounts(c, d) /\ d.intent = i /\ d.focused = c.focused
  BY <1>1 DEF TellsOne, SameMounts
<1>3. QED
  BY <1>2 DEF d

\* A view is told: off, or on because it is what is requested.
LEMMA TellFacts ==
    ASSUME NEW c, TellsOne(c), NEW v \in Views, NEW on \in BOOLEAN,
           on => v = c.intent.view /\ c.focused \in {NoView, v}
    PROVE  LET d == publishFocused(c, v, on) IN
           /\ TellsOne(d) /\ SameMounts(c, d) /\ d.intent = c.intent
           /\ on => d.focused = v
           /\ ~on => d.focused = IF c.focused = v THEN NoView ELSE c.focused
<1> DEFINE d == publishFocused(c, v, on)
<1>1. v \in Known /\ c \in Coordinator /\ NoView \notin Views
  BY FocusAssumption DEF Known, TellsOne
<1>2. /\ d \in Coordinator /\ SameMounts(c, d) /\ d.intent = c.intent
      /\ d.focused = IF on THEN v ELSE IF c.focused = v THEN NoView ELSE c.focused
      /\ \A u \in Known : d.told[u] = IF u = v /\ c.mounted[v] # 0 THEN on ELSE c.told[u]
  BY <1>1, PublishFacts
<1> HIDE DEF d
<1>3. \A u \in Known : d.told[u] <=> u = d.focused /\ d.mounted[u] # 0
  <2>1. d.mounted = c.mounted /\ \A u \in Known : c.told[u] <=> u = c.focused /\ c.mounted[u] # 0
    BY <1>2 DEF SameMounts, TellsOne
  <2>2. c.mounted[NoView] = 0 /\ c.told \in [Known -> BOOLEAN]
    BY DEF TellsOne, Coordinator
  <2>3. QED
    BY <1>1, <1>2, <2>1, <2>2
<1>4. TellsOne(d)
  BY <1>1, <1>2, <1>3 DEF TellsOne, SameMounts
<1>5. QED
  BY <1>2, <1>4 DEF d

LEMMA RequestFacts ==
    ASSUME NEW c, TellsOne(c), NEW v \in Views
    PROVE  LET d == requestFocus(c, v) IN
           TellsOne(d) /\ SameMounts(c, d) /\ d.intent.view = v /\ d.focused = v
<1> DEFINE taken == IF c.focused \in {NoView, v} THEN c ELSE publishFocused(c, c.focused, FALSE)
           new == [taken EXCEPT !.intent = Intent(v)]
           told == publishFocused(new, v, TRUE)
<1>1. /\ c.focused \in Known /\ v \in Known /\ c.focused \in {NoView, c.intent.view}
      /\ NoView \notin Views
  BY FocusAssumption DEF TellsOne, Coordinator, Known
<1>2. CASE c.intent.view = v /\ ~c.intent.delivered
  <2>1. requestFocus(c, v) = publishFocused(c, v, TRUE)
    BY <1>2 DEF requestFocus
  <2>2. v = c.intent.view /\ c.focused \in {NoView, v}
    BY <1>1, <1>2
  <2>3. /\ TellsOne(publishFocused(c, v, TRUE)) /\ SameMounts(c, publishFocused(c, v, TRUE))
        /\ publishFocused(c, v, TRUE).intent = c.intent
        /\ publishFocused(c, v, TRUE).focused = v
    BY <2>2, TellFacts
  <2>4. QED
    BY <2>1, <2>2, <2>3
<1>3. CASE ~(c.intent.view = v /\ ~c.intent.delivered)
  <2>1. requestFocus(c, v) = queueCurrentIntent(told)
    BY <1>3 DEF requestFocus
  <2>2. TellsOne(taken) /\ SameMounts(c, taken) /\ taken.focused \in {NoView, v}
    <3>1. CASE c.focused \in {NoView, v}
      BY <3>1 DEF SameMounts
    <3>2. CASE c.focused \notin {NoView, v}
      <4>1. c.focused \in Views /\ taken = publishFocused(c, c.focused, FALSE)
        BY <1>1, <3>2 DEF Known
      <4>2. QED
        BY <4>1, TellFacts
    <3>3. QED
      BY <3>1, <3>2
  <2> HIDE DEF taken
  <2>3. /\ TellsOne(new) /\ SameMounts(taken, new) /\ new.intent = Intent(v)
        /\ new.focused = taken.focused /\ Intent(v).view = v
    BY <1>1, <2>2, NewIntent, ReplaceFacts
  <2> HIDE DEF new
  <2>4. TellsOne(told) /\ SameMounts(new, told) /\ told.intent = new.intent /\ told.focused = v
    BY <2>2, <2>3, TellFacts
  <2> HIDE DEF told
  <2>5. QED
    BY <2>1, <2>2, <2>3, <2>4, QueueFacts DEF SameMounts
<1>4. QED
  BY <1>2, <1>3

LEMMA ClearFacts ==
    ASSUME NEW c, TellsOne(c)
    PROVE  LET d == clear(c) IN
           TellsOne(d) /\ SameMounts(c, d) /\ d.intent.view = NoView /\ d.focused = NoView
<1> DEFINE off == IF c.focused = NoView THEN c ELSE publishFocused(c, c.focused, FALSE)
<1>1. clear(c) = [off EXCEPT !.intent = NoIntent]
  BY DEF clear
<1>2. TellsOne(off) /\ SameMounts(c, off) /\ off.focused = NoView
  <2>1. CASE c.focused = NoView
    BY <2>1 DEF SameMounts
  <2>2. CASE c.focused # NoView
    <3>1. c.focused \in Views /\ off = publishFocused(c, c.focused, FALSE)
      BY <2>2 DEF TellsOne, Coordinator, Known
    <3>2. QED
      BY <3>1, TellFacts
  <2>3. QED
    BY <2>1, <2>2
<1> HIDE DEF off
<1>3. QED
  BY <1>1, <1>2, NewIntent, ReplaceFacts DEF SameMounts

\* Between a request and what the store makes of it, the focus may be nowhere.
LEMMA SyncedFacts ==
    ASSUME NEW c, TellsOne(c), NEW from \in Known, NEW to \in Known
    PROVE  LET d == Synced(c, from, to) IN
           /\ TellsOne(d) /\ SameMounts(c, d)
           /\ c.focused = c.intent.view => d.focused = d.intent.view
<1>1. CASE from = to
  BY <1>1 DEF Synced, SameMounts
<1>2. CASE from # to /\ to = NoView
  BY <1>2, ClearFacts DEF Synced
<1>3. CASE from # to /\ to # NoView
  BY <1>3, RequestFacts DEF Synced, Known
<1>4. QED
  BY <1>1, <1>2, <1>3

-----------------------------------------------------------------------------
(* Mounts. *)

\* The intent of a view whose container changes.
LEMMA RenewedFacts ==
    ASSUME NEW c, TellsOne(c), NEW v \in Views
    PROVE  LET d == Renewed(c, v) IN
           /\ TellsOne(d) /\ SameMounts(c, d) /\ d.intent.view = c.intent.view
           /\ d.focused = c.focused
<1>1. CASE c.intent.view = v
  BY <1>1, NewIntent, ReplaceFacts DEF Renewed, TellsOne, Known
<1>2. CASE c.intent.view # v
  BY <1>2 DEF Renewed, SameMounts
<1>3. QED
  BY <1>1, <1>2

\* A container is placed (n > 0) or gone: the view is told nothing yet.
MountedAt(c, v, n, r) == [c EXCEPT !.mounted[v] = n, !.regs[v] = r, !.told[v] = FALSE]

LEMMA MountedFacts ==
    ASSUME NEW c, TellsOne(c), NEW v \in Views, NEW n \in Nat, NEW r \in Nat
    PROVE  LET d == MountedAt(c, v, n, r) IN
           /\ d \in Coordinator /\ d.mounted[NoView] = 0 /\ d.intent = c.intent
           /\ d.focused = c.focused
           /\ d.mounted[v] = n /\ d.regs[v] = r /\ ~d.told[v]
           /\ \A u \in Known \ {v} :
                d.mounted[u] = c.mounted[u] /\ d.regs[u] = c.regs[u] /\ d.told[u] = c.told[u]
<1> DEFINE m == [c.mounted EXCEPT ![v] = n]
           g == [c.regs EXCEPT ![v] = r]
           t == [c.told EXCEPT ![v] = FALSE]
           d == [c EXCEPT !.mounted = m, !.regs = g, !.told = t]
<1>1. /\ c \in Coordinator /\ v \in Known /\ NoView \in Known /\ v # NoView
      /\ c.mounted \in [Known -> Nat] /\ c.regs \in [Known -> Nat]
      /\ c.told \in [Known -> BOOLEAN] /\ c.mounted[NoView] = 0
  BY FocusAssumption DEF TellsOne, Coordinator, Known
<1>2. MountedAt(c, v, n, r) = d
  BY <1>1 DEF Coordinator, MountedAt
<1>3. /\ m \in [Known -> Nat] /\ g \in [Known -> Nat] /\ t \in [Known -> BOOLEAN]
      /\ m[v] = n /\ g[v] = r /\ ~t[v]
      /\ \A u \in Known \ {v} : m[u] = c.mounted[u] /\ g[u] = c.regs[u] /\ t[u] = c.told[u]
  BY <1>1
<1> HIDE DEF m, g, t
<1>4. /\ d \in Coordinator /\ d.mounted = m /\ d.regs = g /\ d.told = t
      /\ d.focused = c.focused /\ d.intent = c.intent
  BY <1>1, <1>3 DEF Coordinator
<1> HIDE DEF d
<1>5. QED
  BY <1>1, <1>2, <1>3, <1>4

\* A container registers again, or takes over.
LEMMA RegisterFacts ==
    ASSUME NEW c, TellsOne(c), c.focused = c.intent.view, NEW v \in Views, NEW g \in Nat \ {0}
    PROVE  LET d == registerMountedView(c, v, g) IN
           /\ TellsOne(d) /\ d.focused = d.intent.view
           /\ d.mounted[v] = g
           /\ d.regs[v] = IF c.mounted[v] = g THEN c.regs[v] + 1 ELSE 1
           /\ \A u \in Views \ {v} : d.mounted[u] = c.mounted[u] /\ d.regs[u] = c.regs[u]
<1>1. /\ c \in Coordinator /\ v \in Known /\ Views \subseteq Known /\ NoView \in Known
      /\ NoView \notin Views /\ c.mounted \in [Known -> Nat] /\ c.regs \in [Known -> Nat]
      /\ c.told \in [Known -> BOOLEAN]
  BY FocusAssumption DEF TellsOne, Coordinator, Known
<1>2. CASE c.mounted[v] = g
  <2> DEFINE r == [c.regs EXCEPT ![v] = c.regs[v] + 1]
             d == [c EXCEPT !.regs = r]
  <2>1. registerMountedView(c, v, g) = d
    BY <1>1, <1>2 DEF registerMountedView, Coordinator
  <2>2. /\ r \in [Known -> Nat] /\ r[v] = c.regs[v] + 1
        /\ \A u \in Views \ {v} : r[u] = c.regs[u]
    BY <1>1
  <2> HIDE DEF r
  <2>3. /\ d \in Coordinator /\ d.regs = r /\ d.mounted = c.mounted /\ d.told = c.told
        /\ d.focused = c.focused /\ d.intent = c.intent
    BY <1>1, <2>2 DEF Coordinator
  <2> HIDE DEF d
  <2>4. TellsOne(d)
    BY <2>3 DEF TellsOne
  <2>5. QED
    BY <1>2, <2>1, <2>2, <2>3, <2>4
<1>3. CASE c.mounted[v] # g
  <2> DEFINE base == IF c.mounted[v] # 0 THEN Renewed(c, v) ELSE c
             placed == MountedAt(base, v, g, 1)
             shown == IF v \in {c.intent.view, c.focused} THEN publishFocused(placed, v, TRUE)
                      ELSE placed
  <2>1. registerMountedView(c, v, g) = queueCurrentIntent(shown)
    BY <1>3 DEF registerMountedView, MountedAt
  <2>2. TellsOne(base) /\ SameMounts(c, base) /\ base.intent.view = c.intent.view
        /\ base.focused = c.focused
    BY RenewedFacts DEF SameMounts
  <2> HIDE DEF base
  <2>3. /\ placed \in Coordinator /\ placed.mounted[NoView] = 0 /\ placed.intent = base.intent
        /\ placed.focused = c.focused /\ placed.mounted[v] = g /\ placed.regs[v] = 1
        /\ ~placed.told[v]
        /\ \A u \in Known \ {v} : /\ placed.mounted[u] = base.mounted[u]
                                  /\ placed.regs[u] = base.regs[u]
                                  /\ placed.told[u] = base.told[u]
    <3>1. g \in Nat /\ 1 \in Nat
      OBVIOUS
    <3>2. QED
      BY <2>2, <3>1, MountedFacts
  <2> HIDE DEF placed
  <2>4. TriesLeft(placed.intent) /\ placed.intent.view = c.intent.view
    BY <2>2, <2>3 DEF TellsOne
  <2>5. \A u \in Known \ {v} : placed.told[u] <=> u = placed.focused /\ placed.mounted[u] # 0
    BY <2>2, <2>3 DEF TellsOne
  <2>6. /\ TellsOne(shown) /\ SameMounts(placed, shown) /\ shown.focused = c.focused
        /\ shown.intent.view = c.intent.view
    <3>1. CASE v \in {c.intent.view, c.focused}
      <4>1. v = c.focused /\ shown = publishFocused(placed, v, TRUE)
        BY <3>1
      <4>2. /\ shown \in Coordinator /\ SameMounts(placed, shown)
            /\ shown.intent = placed.intent /\ shown.focused = v
            /\ \A u \in Known : shown.told[u] = IF u = v /\ placed.mounted[v] # 0 THEN TRUE
                                                ELSE placed.told[u]
        <5>1. placed \in Coordinator /\ v \in Known /\ TRUE \in BOOLEAN
          BY <1>1, <2>3
        <5> HIDE DEF shown
        <5>2. LET d == publishFocused(placed, v, TRUE) IN
              /\ d \in Coordinator /\ SameMounts(placed, d) /\ d.intent = placed.intent
              /\ d.focused = IF TRUE THEN v ELSE IF placed.focused = v THEN NoView ELSE placed.focused
              /\ \A u \in Known : d.told[u] = IF u = v /\ placed.mounted[v] # 0 THEN TRUE
                                              ELSE placed.told[u]
          BY <5>1, PublishFacts, ZenonT(30)
        <5>3. QED
          BY <4>1, <5>2
      <4> HIDE DEF shown
      <4>3. \A u \in Known : shown.told[u] <=> u = shown.focused /\ shown.mounted[u] # 0
        <5>1. shown.told[v] /\ shown.mounted[v] # 0 /\ v = shown.focused
          BY <1>1, <2>3, <4>2 DEF SameMounts
        <5>2. \A u \in Known \ {v} : ~shown.told[u] /\ u # shown.focused
          BY <2>3, <2>5, <4>1, <4>2
        <5>3. QED
          BY <5>1, <5>2
      <4>4. QED
        <5>1. shown.mounted[NoView] = 0 /\ TriesLeft(shown.intent)
          BY <2>3, <2>4, <4>2 DEF SameMounts
        <5>2. shown.focused = c.focused /\ shown.intent.view = c.intent.view
          BY <2>4, <4>1, <4>2
        <5>3. QED
          BY <4>2, <4>3, <5>1, <5>2 DEF TellsOne
    <3>2. CASE v \notin {c.intent.view, c.focused}
      <4>1. shown = placed /\ v # placed.focused
        BY <2>3, <3>2
      <4>2. TellsOne(placed)
        BY <2>3, <2>4, <2>5, <4>1 DEF TellsOne
      <4>3. QED
        BY <2>3, <2>4, <4>1, <4>2 DEF SameMounts
    <3>3. QED
      BY <3>1, <3>2
  <2> HIDE DEF shown
  <2>7. LET d == queueCurrentIntent(shown) IN
        TellsOne(d) /\ SameMounts(shown, d) /\ d.intent.view = shown.intent.view
        /\ d.focused = shown.focused
    BY <2>6, QueueFacts
  <2>8. QED
    BY <1>1, <1>3, <2>1, <2>2, <2>3, <2>6, <2>7 DEF SameMounts
<1>4. QED
  BY <1>2, <1>3

\* An effect is cleaned up: of the container that is mounted, or of an older one.
LEMMA ReleaseFacts ==
    ASSUME NEW c, TellsOne(c), c.focused = c.intent.view, NEW v \in Views, NEW g \in Nat
    PROVE  LET d == releaseMountedView(c, v, g) IN
           /\ TellsOne(d) /\ d.focused = d.intent.view
           /\ \A u \in Views \ {v} : d.mounted[u] = c.mounted[u] /\ d.regs[u] = c.regs[u]
           /\ c.mounted[v] # g => d.mounted[v] = c.mounted[v] /\ d.regs[v] = c.regs[v]
           /\ c.mounted[v] = g /\ c.regs[v] > 1
                => d.mounted[v] = g /\ d.regs[v] = c.regs[v] - 1
           /\ c.mounted[v] = g /\ ~(c.regs[v] > 1) => d.mounted[v] = 0 /\ d.regs[v] = 0
<1>1. /\ c \in Coordinator /\ v \in Known /\ Views \subseteq Known /\ NoView \in Known
      /\ NoView \notin Views /\ c.mounted \in [Known -> Nat] /\ c.regs \in [Known -> Nat]
  BY FocusAssumption DEF TellsOne, Coordinator, Known
<1>2. CASE c.mounted[v] # g
  BY <1>2 DEF releaseMountedView
<1>3. CASE c.mounted[v] = g /\ c.regs[v] > 1
  <2> DEFINE r == [c.regs EXCEPT ![v] = c.regs[v] - 1]
             d == [c EXCEPT !.regs = r]
  <2>1. releaseMountedView(c, v, g) = d
    BY <1>1, <1>3 DEF releaseMountedView, Coordinator
  <2>2. /\ r \in [Known -> Nat] /\ r[v] = c.regs[v] - 1
        /\ \A u \in Views \ {v} : r[u] = c.regs[u]
    BY <1>1, <1>3
  <2> HIDE DEF r
  <2>3. /\ d \in Coordinator /\ d.regs = r /\ d.mounted = c.mounted /\ d.told = c.told
        /\ d.focused = c.focused /\ d.intent = c.intent
    BY <1>1, <2>2 DEF Coordinator
  <2> HIDE DEF d
  <2>4. TellsOne(d)
    BY <2>3 DEF TellsOne
  <2>5. QED
    BY <1>3, <2>1, <2>2, <2>3, <2>4
<1>4. CASE c.mounted[v] = g /\ ~(c.regs[v] > 1)
  <2> DEFINE base == Renewed(c, v)
             d == MountedAt(base, v, 0, 0)
  <2>1. releaseMountedView(c, v, g) = d
    BY <1>4 DEF releaseMountedView, MountedAt
  <2>2. TellsOne(base) /\ SameMounts(c, base) /\ base.intent.view = c.intent.view
        /\ base.focused = c.focused
    BY RenewedFacts
  <2> HIDE DEF base
  <2>3. /\ d \in Coordinator /\ d.mounted[NoView] = 0 /\ d.intent = base.intent
        /\ d.focused = c.focused /\ d.mounted[v] = 0 /\ d.regs[v] = 0 /\ ~d.told[v]
        /\ \A u \in Known \ {v} : /\ d.mounted[u] = base.mounted[u]
                                  /\ d.regs[u] = base.regs[u]
                                  /\ d.told[u] = base.told[u]
    <3>1. 0 \in Nat
      OBVIOUS
    <3>2. QED
      BY <2>2, <3>1, MountedFacts
  <2> HIDE DEF d
  <2>4. \A u \in Known : d.told[u] <=> u = d.focused /\ d.mounted[u] # 0
    BY <2>2, <2>3 DEF TellsOne
  <2>5. TellsOne(d)
    BY <2>2, <2>3, <2>4 DEF TellsOne
  <2>6. QED
    BY <1>1, <1>4, <2>1, <2>2, <2>3, <2>5 DEF SameMounts
<1>5. QED
  BY <1>2, <1>3, <1>4

-----------------------------------------------------------------------------
(* Steps. *)

\* Containers are numbered as they come; those to come have no effect yet.
LeasesInOrder ==
    /\ gens \in [Views -> 0..Gens] /\ leases \in [Views -> [1..Gens -> Nat]]
    /\ \A v \in Views, g \in 1..Gens : g > gens[v] => leases[v][g] = 0

FocusInv ==
    /\ active \in Known /\ cursor \in Places /\ calls \in [Callers -> CallRecord]
    /\ TellsOne(f) /\ f.focused = f.intent.view
    /\ LeasesInOrder /\ MountIsOwned /\ NoWaiterSleeps

LEMMA FocusInvImplies == FocusInv => TypeOK /\ FocusIsSound
<1> SUFFICES ASSUME FocusInv PROVE TypeOK /\ FocusIsSound
  OBVIOUS
<1>1. f \in Coordinator /\ f.intent \in IntentType
  BY DEF FocusInv, TellsOne, Coordinator
<1>2. TypeOK
  BY <1>1 DEF FocusInv, TypeOK, Coordinator, IntentType, Known, CallRecord
<1>3. OneIsTold
  BY DEF FocusInv, TellsOne, OneIsTold, Mounted, Known
<1>4. QED
  BY <1>2, <1>3 DEF FocusInv, FocusIsSound

\* The coordinator moves the focus, and no view mounts or goes.
LEMMA FocusMoves ==
    ASSUME FocusInv, TellsOne(f'), f'.focused = f'.intent.view, SameMounts(f, f'),
           active' \in Known, cursor' \in Places, UNCHANGED <<gens, leases, calls>>
    PROVE  FocusInv'
<1>1. LeasesInOrder'
  BY DEF FocusInv, LeasesInOrder
<1>2. MountIsOwned' /\ NoWaiterSleeps'
  BY DEF FocusInv, MountIsOwned, NoWaiterSleeps, Mounted, SameMounts
<1>3. QED
  BY <1>1, <1>2 DEF FocusInv

LEMMA MountKeeps ==
    ASSUME FocusInv, NEW v \in Views, NEW g \in 1..Gens, Mount(v, g) PROVE FocusInv'
<1>1. /\ gens \in [Views -> 0..Gens] /\ leases \in [Views -> [1..Gens -> Nat]] /\ Gens \in Nat
      /\ calls \in [Callers -> CallRecord] /\ TellsOne(f) /\ f.focused = f.intent.view
      /\ g \in Nat \ {0} /\ NoView \notin Views /\ v \in Known
  BY FocusAssumption DEF FocusInv, LeasesInOrder, Known
<1>2. /\ gens' = [gens EXCEPT ![v] = g] /\ leases' = [leases EXCEPT ![v][g] = leases[v][g] + 1]
      /\ f' = registerMountedView(f, v, g)
      /\ calls' = IF f.mounted[v] = g THEN calls ELSE Woken(v)
      /\ active' = active /\ (cursor' = cursor \/ cursor' = "elsewhere")
      /\ \/ g = gens[v] /\ leases[v][g] = 1
         \/ g = gens[v] + 1
  BY DEF Mount
<1>3. /\ TellsOne(f') /\ f'.focused = f'.intent.view
      /\ f'.mounted[v] = g /\ f'.regs[v] = IF f.mounted[v] = g THEN f.regs[v] + 1 ELSE 1
      /\ \A u \in Views \ {v} : f'.mounted[u] = f.mounted[u] /\ f'.regs[u] = f.regs[u]
  <2> DEFINE d == registerMountedView(f, v, g)
  <2>1. /\ TellsOne(d) /\ d.focused = d.intent.view
        /\ d.mounted[v] = g
        /\ d.regs[v] = IF f.mounted[v] = g THEN f.regs[v] + 1 ELSE 1
        /\ \A u \in Views \ {v} : d.mounted[u] = f.mounted[u] /\ d.regs[u] = f.regs[u]
    BY <1>1, RegisterFacts
  <2> HIDE DEF d
  <2>2. f' = d
    BY <1>2 DEF d
  <2>3. QED
    BY <2>1, <2>2
<1>4. /\ gens' \in [Views -> 0..Gens] /\ leases' \in [Views -> [1..Gens -> Nat]]
      /\ gens'[v] = g /\ leases'[v][g] = leases[v][g] + 1
      /\ \A h \in 1..Gens : h # g => leases'[v][h] = leases[v][h]
      /\ \A u \in Views \ {v} : gens'[u] = gens[u] /\ leases'[u] = leases[u]
  BY <1>1, <1>2
<1>5. LeasesInOrder'
  <2>1. \A h \in 1..Gens : h > gens'[v] => leases'[v][h] = 0
    <3> SUFFICES ASSUME NEW h \in 1..Gens, h > g PROVE leases'[v][h] = 0
      BY <1>4
    <3>1. h # g /\ h > gens[v]
      BY <1>1, <1>2
    <3>2. QED
      BY <1>4, <3>1 DEF FocusInv, LeasesInOrder
  <2>2. \A u \in Views \ {v}, h \in 1..Gens : h > gens'[u] => leases'[u][h] = 0
    BY <1>4 DEF FocusInv, LeasesInOrder
  <2>3. QED
    BY <1>4, <2>1, <2>2 DEF LeasesInOrder
<1>6. MountIsOwned'
  <2>1. /\ f'.mounted[v] = g /\ leases'[v][g] > 0 /\ f'.regs[v] = leases'[v][g]
    <3>1. CASE g = gens[v] /\ leases[v][g] = 1
      <4>1. f.mounted[v] = g /\ f.regs[v] = 1
        BY <1>1, <3>1 DEF FocusInv, MountIsOwned
      <4>2. QED
        BY <1>3, <1>4, <3>1, <4>1
    <3>2. CASE g = gens[v] + 1
      <4>1. f.mounted[v] # g
        BY <1>1, <3>2 DEF FocusInv, MountIsOwned
      <4>2. leases[v][g] = 0
        BY <1>1, <3>2 DEF FocusInv, LeasesInOrder
      <4>3. QED
        BY <1>3, <1>4, <4>1, <4>2
    <3>3. QED
      BY <1>2, <3>1, <3>2
  <2>2. ASSUME NEW u \in Views \ {v}
        PROVE  LET a == IF gens'[u] = 0 THEN 0 ELSE leases'[u][gens'[u]]
               IN f'.mounted[u] = (IF a > 0 THEN gens'[u] ELSE 0) /\ f'.regs[u] = a
    <3>1. /\ f'.mounted[u] = f.mounted[u] /\ f'.regs[u] = f.regs[u]
          /\ gens'[u] = gens[u] /\ leases'[u] = leases[u]
      BY <1>3, <1>4
    <3>2. QED
      BY <3>1 DEF FocusInv, MountIsOwned
  <2>3. gens'[v] = g /\ g # 0
    BY <1>1, <1>4
  <2>4. QED
    BY <2>1, <2>2, <2>3 DEF MountIsOwned
<1>7. calls' \in [Callers -> CallRecord] /\ NoWaiterSleeps'
  <2>1. CASE f.mounted[v] = g
    <3>1. calls' = calls /\ \A u \in Views : f'.mounted[u] = f.mounted[u]
      BY <1>2, <1>3, <2>1
    <3>2. f'.mounted[NoView] = 0
      BY <1>3 DEF TellsOne
    <3>3. QED
      BY <1>1, <3>1, <3>2 DEF FocusInv, NoWaiterSleeps, Mounted, CallRecord, Known
  <2>2. CASE f.mounted[v] # g
    <3>1. calls' = Woken(v)
      BY <1>2, <2>2
    <3>2. \A x \in Callers : calls[x].view = v /\ calls[x].answer = "pending"
                               => calls[x] = [view |-> v, answer |-> "pending"]
      BY <1>1 DEF CallRecord
    <3>3. \A x \in Callers : /\ calls'[x] \in CallRecord
                             /\ calls'[x].answer = "pending" => calls'[x] = calls[x]
                                                               /\ calls[x].view # v
      BY <1>1, <3>1, <3>2 DEF Woken, CallRecord
    <3>4. f'.mounted[NoView] = 0
      BY <1>3 DEF TellsOne
    <3>5. \A x \in Callers : calls'[x].answer = "pending" => f'.mounted[calls'[x].view] = 0
      <4> SUFFICES ASSUME NEW x \in Callers, calls'[x].answer = "pending"
                   PROVE  f'.mounted[calls'[x].view] = 0
        OBVIOUS
      <4>1. calls'[x] = calls[x] /\ calls[x].view \in Known \ {v} /\ calls[x].answer = "pending"
        BY <1>1, <3>3 DEF CallRecord
      <4>2. f.mounted[calls[x].view] = 0
        BY <4>1 DEF FocusInv, NoWaiterSleeps, Mounted
      <4>3. QED
        BY <1>3, <3>4, <4>1, <4>2 DEF Known
    <3>6. calls' \in [Callers -> CallRecord]
      BY <3>1, <3>3 DEF Woken
    <3>7. QED
      BY <3>5, <3>6 DEF NoWaiterSleeps, Mounted
  <2>3. QED
    BY <2>1, <2>2
<1>8. active' \in Known /\ cursor' \in Places
  BY <1>2 DEF FocusInv, Places
<1>9. QED
  BY <1>3, <1>5, <1>6, <1>7, <1>8 DEF FocusInv

LEMMA CleanupKeeps ==
    ASSUME FocusInv, NEW v \in Views, NEW g \in 1..Gens, Cleanup(v, g) PROVE FocusInv'
<1>1. /\ gens \in [Views -> 0..Gens] /\ leases \in [Views -> [1..Gens -> Nat]] /\ Gens \in Nat
      /\ calls \in [Callers -> CallRecord] /\ TellsOne(f) /\ f.focused = f.intent.view
      /\ g \in Nat \ {0} /\ NoView \notin Views /\ v \in Known
  BY FocusAssumption DEF FocusInv, LeasesInOrder, Known
<1>2. /\ leases[v][g] > 0 /\ leases' = [leases EXCEPT ![v][g] = leases[v][g] - 1]
      /\ f' = releaseMountedView(f, v, g) /\ UNCHANGED <<active, gens, calls>>
      /\ cursor' = cursor \/ cursor' = "body"
  BY DEF Cleanup
<1>3. /\ TellsOne(f') /\ f'.focused = f'.intent.view
      /\ \A u \in Views \ {v} : f'.mounted[u] = f.mounted[u] /\ f'.regs[u] = f.regs[u]
      /\ f.mounted[v] # g => f'.mounted[v] = f.mounted[v] /\ f'.regs[v] = f.regs[v]
      /\ f.mounted[v] = g /\ f.regs[v] > 1
           => f'.mounted[v] = g /\ f'.regs[v] = f.regs[v] - 1
      /\ f.mounted[v] = g /\ ~(f.regs[v] > 1) => f'.mounted[v] = 0 /\ f'.regs[v] = 0
  <2> DEFINE d == releaseMountedView(f, v, g)
  <2>1. /\ TellsOne(d) /\ d.focused = d.intent.view
        /\ \A u \in Views \ {v} : d.mounted[u] = f.mounted[u] /\ d.regs[u] = f.regs[u]
        /\ f.mounted[v] # g => d.mounted[v] = f.mounted[v] /\ d.regs[v] = f.regs[v]
        /\ f.mounted[v] = g /\ f.regs[v] > 1
             => d.mounted[v] = g /\ d.regs[v] = f.regs[v] - 1
        /\ f.mounted[v] = g /\ ~(f.regs[v] > 1) => d.mounted[v] = 0 /\ d.regs[v] = 0
    BY <1>1, ReleaseFacts
  <2> HIDE DEF d
  <2>2. f' = d
    BY <1>2 DEF d
  <2>3. QED
    BY <2>1, <2>2
<1>4. /\ leases' \in [Views -> [1..Gens -> Nat]] /\ leases'[v][g] = leases[v][g] - 1
      /\ \A h \in 1..Gens : h # g => leases'[v][h] = leases[v][h]
      /\ \A u \in Views \ {v} : leases'[u] = leases[u]
  BY <1>1, <1>2
<1>5. g <= gens[v]
  BY <1>1, <1>2 DEF FocusInv, LeasesInOrder
<1>6. LeasesInOrder'
  BY <1>1, <1>2, <1>4, <1>5, SMTT(30) DEF FocusInv, LeasesInOrder
<1>7. MountIsOwned'
  <2> DEFINE alive == IF gens[v] = 0 THEN 0 ELSE leases[v][gens[v]]
             remain == IF gens[v] = 0 THEN 0 ELSE leases'[v][gens[v]]
  <2>1. f.mounted[v] = (IF alive > 0 THEN gens[v] ELSE 0) /\ f.regs[v] = alive
    BY DEF FocusInv, MountIsOwned
  <2>2. f'.mounted[v] = (IF remain > 0 THEN gens[v] ELSE 0) /\ f'.regs[v] = remain
    <3>1. CASE g = gens[v]
      <4>1. /\ f.mounted[v] = g /\ f.regs[v] = leases[v][g] /\ leases[v][g] \in Nat \ {0}
            /\ remain = leases[v][g] - 1
        BY <1>1, <1>2, <1>4, <2>1, <3>1
      <4>2. QED
        BY <1>3, <3>1, <4>1
    <3>2. CASE g # gens[v]
      <4>1. f.mounted[v] # g /\ remain = alive
        BY <1>1, <1>4, <2>1, <3>2, SMTT(30)
      <4>2. QED
        BY <1>3, <2>1, <4>1
    <3>3. QED
      BY <3>1, <3>2
  <2>3. \A u \in Views \ {v} :
          LET a == IF gens[u] = 0 THEN 0 ELSE leases[u][gens[u]]
          IN f.mounted[u] = (IF a > 0 THEN gens[u] ELSE 0) /\ f.regs[u] = a
    BY DEF FocusInv, MountIsOwned
  <2>4. QED
    BY <1>2, <1>3, <1>4, <2>2, <2>3 DEF MountIsOwned
<1>8. NoWaiterSleeps'
  <2>1. \A u \in Known : f.mounted[u] = 0 => f'.mounted[u] = 0
    BY <1>1, <1>3 DEF TellsOne, Known
  <2>2. \A x \in Callers : calls[x].view \in Known
    BY <1>1 DEF CallRecord
  <2>3. QED
    BY <1>2, <2>1, <2>2 DEF FocusInv, NoWaiterSleeps, Mounted
<1>9. active' \in Known /\ cursor' \in Places /\ calls' \in [Callers -> CallRecord]
  BY <1>1, <1>2 DEF FocusInv, Places
<1>10. QED
  BY <1>3, <1>6, <1>7, <1>8, <1>9 DEF FocusInv

LEMMA ActivateKeeps ==
    ASSUME FocusInv, NEW v \in Views, Activate(v) PROVE FocusInv'
<1>1. PICK took \in BOOLEAN :
        /\ active' = IF took THEN v ELSE active
        /\ f' = transferFocus(f, active, v, LAMBDA c : Synced(c, active, active'))
        /\ UNCHANGED <<gens, leases, cursor, calls>>
  BY DEF Activate
<1>2. active \in Known /\ active' \in Known /\ v \in Known /\ TellsOne(f)
  BY <1>1 DEF FocusInv, Known
<1> DEFINE c == IF active \in {NoView, v} THEN f ELSE publishFocused(f, active, FALSE)
           d == Synced(c, active, active')
<1>3. TellsOne(c) /\ SameMounts(f, c)
  <2>1. CASE active \in {NoView, v}
    BY <1>2, <2>1 DEF SameMounts
  <2>2. CASE active \notin {NoView, v}
    <3>1. active \in Views
      BY <1>2, <2>2 DEF Known
    <3>2. TellsOne(publishFocused(f, active, FALSE))
          /\ SameMounts(f, publishFocused(f, active, FALSE))
      BY <1>2, <3>1, TellFacts
    <3>3. QED
      BY <2>2, <3>2
  <2>3. QED
    BY <2>1, <2>2
<1> HIDE DEF c
<1>4. TellsOne(d) /\ SameMounts(c, d)
  BY <1>2, <1>3, SyncedFacts
<1>5. f' = requestFocus(d, v)
  BY <1>1 DEF transferFocus, c
<1> HIDE DEF d
<1>6. TellsOne(f') /\ SameMounts(d, f') /\ f'.intent.view = v /\ f'.focused = v
  BY <1>4, <1>5, RequestFacts
<1>7. cursor' \in Places
  BY <1>1 DEF FocusInv
<1>8. SameMounts(f, f')
  BY <1>3, <1>4, <1>6 DEF SameMounts
<1>9. QED
  BY <1>1, <1>2, <1>6, <1>7, <1>8, FocusMoves

\* The intent goes on: it is queued, delivered or tried once more.
LEMMA IntentGoesOn ==
    ASSUME FocusInv, NEW i \in IntentType, TriesLeft(i), i.view = f.intent.view,
           f' = [f EXCEPT !.intent = i], cursor' \in Places,
           UNCHANGED <<active, gens, leases, calls>>
    PROVE  FocusInv'
<1>1. TellsOne(f) /\ f.focused = f.intent.view /\ active \in Known
  BY DEF FocusInv
<1>2. TellsOne(f') /\ SameMounts(f, f') /\ f'.intent = i /\ f'.focused = f.focused
  BY <1>1, ReplaceFacts
<1>3. QED
  BY <1>1, <1>2, FocusMoves

LEMMA deliverKeeps == ASSUME FocusInv, deliver PROVE FocusInv'
<1> DEFINE i == f.intent
           r == i.retries + 1
           done == [i EXCEPT !.queued = FALSE, !.delivered = TRUE]
           again == [i EXCEPT !.retries = r, !.late = TRUE, !.queued = r < RetryLimit,
                              !.delivered = (r = RetryLimit)]
<1>1. /\ f \in Coordinator /\ i \in IntentType /\ i.retries \in Nat /\ i.retries < RetryLimit
      /\ RetryLimit \in Nat /\ UNCHANGED <<active, gens, leases, calls>>
      /\ i.queued /\ i.view \in Views /\ cursor \in Places
  BY FocusAssumption DEF FocusInv, TellsOne, Coordinator, IntentType, TriesLeft, Known, deliver
<1>2. done \in IntentType /\ TriesLeft(done) /\ done.view = i.view
  BY <1>1 DEF IntentType, TriesLeft
<1>3. again \in IntentType /\ TriesLeft(again) /\ again.view = i.view
  <2>1. /\ r \in 0..RetryLimit /\ (r < RetryLimit) \in BOOLEAN /\ (r = RetryLimit) \in BOOLEAN
    BY <1>1
  <2>2. /\ again \in IntentType /\ again.view = i.view /\ again.retries = r
        /\ (again.queued <=> r < RetryLimit) /\ (again.delivered <=> r = RetryLimit)
    BY <1>1, <2>1 DEF IntentType
  <2>3. QED
    <3>1. r = RetryLimit \/ r < RetryLimit
      BY <1>1
    <3>2. again.view # NoView
      BY <1>1, <2>2, FocusAssumption
    <3>3. QED
      BY <1>1, <2>2, <3>1, <3>2 DEF TriesLeft
<1>4. /\ [f EXCEPT !.intent.queued = FALSE, !.intent.delivered = TRUE] = [f EXCEPT !.intent = done]
      /\ [f EXCEPT !.intent.retries = r, !.intent.late = TRUE,
                   !.intent.queued = r < RetryLimit,
                   !.intent.delivered = (r = RetryLimit)] = [f EXCEPT !.intent = again]
  BY <1>1 DEF Coordinator, IntentType
<1> HIDE DEF done, again
<1>5. CASE f' = [f EXCEPT !.intent = done] /\ cursor' \in {cursor, i.view}
  <2>1. cursor' \in Places
    <3>1. CASE cursor' = cursor
      BY <1>1, <3>1
    <3>2. CASE cursor' = i.view /\ cursor' # cursor
      BY <1>1, <3>2 DEF Known, Places
    <3>3. QED
      BY <1>5, <3>1, <3>2
  <2>2. QED
    BY <1>1, <1>2, <1>5, <2>1, IntentGoesOn
<1>6. CASE f' = [f EXCEPT !.intent = again] /\ cursor' = cursor
  BY <1>1, <1>3, <1>6, IntentGoesOn
<1>7. QED
  BY <1>4, <1>5, <1>6 DEF deliver

LEMMA redeliverKeeps == ASSUME FocusInv, redeliverIfLost PROVE FocusInv'
<1> DEFINE i == [f.intent EXCEPT !.delivered = FALSE, !.retries = 0]
           c == [f EXCEPT !.intent = i]
<1>1. /\ f \in Coordinator /\ f.intent \in IntentType /\ 0 \in 0..RetryLimit /\ 0 < RetryLimit
      /\ TellsOne(f) /\ f.focused = f.intent.view /\ active \in Known /\ cursor \in Places
      /\ UNCHANGED <<active, gens, leases, cursor, calls>>
      /\ f.intent.view # NoView
  BY FocusAssumption DEF FocusInv, TellsOne, Coordinator, Mounted, redeliverIfLost
<1>2. i \in IntentType /\ TriesLeft(i) /\ i.view = f.intent.view
  BY <1>1 DEF IntentType, TriesLeft
<1>3. f' = queueCurrentIntent(c)
  <2>1. [f EXCEPT !.intent.delivered = FALSE, !.intent.retries = 0] = c
    BY <1>1 DEF Coordinator, IntentType
  <2>2. QED
    BY <2>1 DEF redeliverIfLost
<1> HIDE DEF i
<1>4. TellsOne(c) /\ SameMounts(f, c) /\ c.intent = i /\ c.focused = f.focused
  BY <1>1, <1>2, ReplaceFacts
<1> HIDE DEF c
<1>5. TellsOne(f') /\ SameMounts(c, f') /\ f'.intent.view = c.intent.view /\ f'.focused = c.focused
  BY <1>3, <1>4, QueueFacts
<1>6. QED
  BY <1>1, <1>2, <1>4, <1>5, FocusMoves DEF SameMounts

LEMMA CallsKeep ==
    ASSUME FocusInv, NEW x \in Callers, TimeOut(x) \/ \E v \in Views : awaitMounted(x, v)
    PROVE  FocusInv'
<1>1. /\ calls \in [Callers -> CallRecord] /\ UNCHANGED <<active, f, gens, leases, cursor>>
      /\ Views \subseteq Known
  BY DEF FocusInv, TimeOut, awaitMounted, Known
<1>2. /\ calls' \in [Callers -> CallRecord]
      /\ \A y \in Callers : calls'[y].answer = "pending" => ~Mounted(calls'[y].view)
  <2>1. CASE TimeOut(x)
    BY <1>1, <2>1 DEF TimeOut, CallRecord, FocusInv, NoWaiterSleeps
  <2>2. ASSUME NEW v \in Views, awaitMounted(x, v)
        PROVE  /\ calls' \in [Callers -> CallRecord]
               /\ \A y \in Callers : calls'[y].answer = "pending" => ~Mounted(calls'[y].view)
    <3> DEFINE n == [view |-> v, answer |-> IF Mounted(v) THEN "mounted" ELSE "pending"]
    <3>1. calls' = [calls EXCEPT ![x] = n] /\ n \in CallRecord
          /\ (n.answer = "pending" => ~Mounted(n.view))
      BY <1>1, <2>2 DEF awaitMounted, CallRecord
    <3> HIDE DEF n
    <3>2. QED
      BY <1>1, <3>1 DEF FocusInv, NoWaiterSleeps
  <2>3. QED
    BY <2>1, <2>2
<1>3. NoWaiterSleeps'
  BY <1>1, <1>2 DEF NoWaiterSleeps, Mounted
<1>4. QED
  BY <1>1, <1>2, <1>3 DEF FocusInv, LeasesInOrder, MountIsOwned, TellsOne

LEMMA FocusStarts == FocusInit => FocusInv
<1> SUFFICES ASSUME FocusInit PROVE FocusInv
  OBVIOUS
<1> DEFINE c == [mounted |-> [v \in Views \cup {NoView} |-> 0],
                 regs |-> [v \in Views \cup {NoView} |-> 0],
                 told |-> [v \in Views \cup {NoView} |-> FALSE],
                 focused |-> NoView, intent |-> NoIntent]
<1>1. active \in Known /\ cursor \in Places /\ NoView \in Known
  BY DEF FocusInit, Known, Places
<1>2. TellsOne(c)
  <2>1. /\ c.mounted = [v \in Known |-> 0] /\ c.regs = [v \in Known |-> 0]
        /\ c.told = [v \in Known |-> FALSE] /\ c.focused = NoView /\ c.intent = NoIntent
    BY DEF Known
  <2>2. c \in Coordinator
    BY <1>1, NewIntent DEF Coordinator, Known
  <2> HIDE DEF c
  <2>3. QED
    BY <1>1, <2>1, <2>2, NewIntent DEF TellsOne
<1>3. f = IF active = NoView THEN c ELSE requestFocus(c, active)
  BY DEF FocusInit
<1>4. c.focused = c.intent.view /\ \A v \in Views : c.mounted[v] = 0 /\ c.regs[v] = 0
  BY DEF NoIntent
<1> HIDE DEF c
<1>5. TellsOne(f) /\ SameMounts(c, f) /\ f.focused = f.intent.view
  <2>1. CASE active = NoView
    BY <1>2, <1>3, <1>4, <2>1 DEF SameMounts
  <2>2. CASE active # NoView
    BY <1>1, <1>2, <1>3, <2>2, RequestFacts DEF Known
  <2>3. QED
    BY <2>1, <2>2
<1>6. LeasesInOrder /\ calls \in [Callers -> CallRecord]
  BY <1>1, FocusAssumption DEF FocusInit, LeasesInOrder, CallRecord, Idle
<1>7. MountIsOwned /\ NoWaiterSleeps
  BY <1>4, <1>5 DEF FocusInit, MountIsOwned, NoWaiterSleeps, SameMounts, Idle
<1>8. QED
  BY <1>1, <1>5, <1>6, <1>7 DEF FocusInv

LEMMA FocusSteps == FocusInv /\ [FocusNext]_focusVars => FocusInv'
<1> SUFFICES ASSUME FocusInv, [FocusNext]_focusVars PROVE FocusInv'
  OBVIOUS
<1>1. /\ TellsOne(f) /\ f.focused = f.intent.view /\ active \in Known /\ cursor \in Places
      /\ Views \subseteq Known /\ f.intent.view \in Known
  BY DEF FocusInv, Known, TellsOne, Coordinator, IntentType
<1>2. ASSUME NEW v \in Views, NEW g \in 1..Gens, Mount(v, g) \/ Cleanup(v, g) PROVE FocusInv'
  BY <1>2, MountKeeps, CleanupKeeps
<1>3. ASSUME NEW v \in Known, StoreChanges(v) PROVE FocusInv'
  <2>1. /\ active' = v /\ f' = Synced(f, active, v)
        /\ UNCHANGED <<gens, leases, cursor, calls>>
    BY <1>3 DEF StoreChanges
  <2>2. TellsOne(f') /\ SameMounts(f, f') /\ f'.focused = f'.intent.view
    BY <1>1, <2>1, SyncedFacts
  <2>3. QED
    BY <1>1, <2>1, <2>2, FocusMoves
<1>4. CASE LandLate
  <2>1. f.intent.view # NoView
    BY <1>1, <1>4 DEF LandLate, Mounted, TellsOne
  <2>2. /\ cursor' \in Places /\ UNCHANGED <<active, f, gens, leases, calls>>
    BY <1>1, <1>4, <2>1 DEF LandLate, Places, Known
  <2>3. QED
    BY <1>1, <2>2, FocusMoves DEF SameMounts
<1>5. ASSUME NEW place \in Places, MoveCursor(place) PROVE FocusInv'
  <2>1. /\ cursor' \in Places /\ UNCHANGED <<active, f, gens, leases, calls>>
    BY <1>5 DEF MoveCursor
  <2>2. QED
    BY <1>1, <2>1, FocusMoves DEF SameMounts
<1>6. CASE UNCHANGED focusVars
  <2>1. UNCHANGED <<active, f, gens, leases, cursor, calls>>
    BY <1>6 DEF focusVars
  <2>2. QED
    BY <1>1, <2>1, FocusMoves DEF SameMounts
<1>7. QED
  BY <1>2, <1>3, <1>4, <1>5, <1>6, ActivateKeeps, redeliverKeeps, deliverKeeps, CallsKeep
     DEF FocusNext, Known

\* One view at a time is told that it has the focus, views stay mounted as long as their
\* newest container lives, and no command waits for a view that is there (requestFocus,
\* registerMountedView and its release, awaitMounted).
THEOREM TheFocusIsSound == FocusSpec => [](TypeOK /\ FocusIsSound)
<1>1. FocusInv => TypeOK /\ FocusIsSound
  BY FocusInvImplies
<1>2. QED
  BY <1>1, FocusStarts, FocusSteps, PTL DEF FocusSpec

------------------------------------------------------------------------------
(* The store.  A list of slots is read in one step and written in another, so the     *)
(* inductive invariant speaks of every list there is (SlotsAreStored): the manifest,    *)
(* the copy window.close holds, and the one the respawn holds.                           *)

\* A window's renderer, a window's slot.
Windows == [phase : {"down", "gone", "directed", "hydrate", "claim", "live"},
            init : Roots \cup {None}, read : {"unread", "empty", "projects"},
            left : SUBSET Roots, open : SUBSET Roots, asked : SUBSET Roots,
            save : {"idle", "slot"}, granted : SUBSET Roots,
            loose : SUBSET Roots, dropped : SUBSET Roots]
Slots == Labels \cup OldLabels

StoreTypeOK ==
  /\ snap \in [Slots -> {Absent} \cup SUBSET Roots]
  /\ cache \in [Labels -> SUBSET Roots]
  /\ slots \subseteq Slots
  /\ owner \in [Roots -> Labels \cup {None}]
  /\ win \in [Labels -> Windows]
  /\ main \in [phase : {"off", "manifest", "slots"}, manifest : SUBSET Slots,
               todo : SUBSET Slots, pruned : BOOLEAN]
  /\ closing \in {None} \cup [label : Labels, manifest : SUBSET Slots]

\* A list of slots may be old when it is written: whoever it names has projects stored, or
\* is gone for good.
Lists(x) ==
  \/ x \in slots
  \/ closing # None /\ x \in closing.manifest
  \/ main.phase = "slots" /\ x \in main.manifest
Reopens(x) == win[x].phase = "gone" \/ snap[x] \notin {Absent, {}}
SlotsAreStored == \A x \in Labels : Lists(x) => Reopens(x)

\* What a renderer takes its snapshot for.
ReadIsTrue(w) ==
  /\ win[w].read = "empty" /\ win[w].open = {} => snap[w] \in {Absent, {}}
  /\ win[w].save = "slot" => win[w].phase = "live" /\ snap[w] # Absent

\* What the respawn has not in the manifest it read was emptied or has come since.
RespawnKnows ==
  /\ main.phase = "slots" =>
       \A x \in slots \ main.manifest : snap[x] = {} \/ (x \in Labels /\ Up(x))
  /\ closing # None => main.phase = "off"

\* A window that is not there has nothing.
Rests(w) == Up(w) \/ win[w] \in {Down, Gone}

StoreInv == /\ StoreTypeOK /\ SlotsAreStored /\ RespawnKnows
            /\ \A w \in Labels : ReadIsTrue(w) /\ Rests(w)

------------------------------------------------------------------------------
(* What is stored. *)

LEMMA StoreStarts == Init => StoreInv
<1> SUFFICES ASSUME Init PROVE StoreInv
  OBVIOUS
<1>1. \A w \in Labels : win[w] = Down
  BY DEF Init
<1>2. StoreTypeOK
  BY <1>1 DEF Init, StoreTypeOK, Slots, Windows, Down, Quiet
<1>3. /\ \A w \in Labels : ReadIsTrue(w) /\ Rests(w)
      /\ SlotsAreStored /\ RespawnKnows
  BY <1>1, StoreAssumption DEF Init, ReadIsTrue, Rests, Down, SlotsAreStored, Lists, Reopens, RespawnKnows, Quiet
<1>4. QED
  BY <1>2, <1>3 DEF StoreInv

\* A step of one window: its own snapshot, its own slot.
LEMMA StepOf ==
  ASSUME StoreInv, StoreTypeOK', NEW w \in Labels, UNCHANGED <<main, closing>>,
         \A x \in Slots \ {w} : snap'[x] = snap[x], \A x \in Labels \ {w} : win'[x] = win[x],
         slots' \subseteq slots \cup {w},
         w \in slots' \ slots => Up(w)' /\ Reopens(w)',
         w \in slots' => (snap[w] = {} \/ Up(w) => snap'[w] = {} \/ Up(w)'),
         Reopens(w) => Reopens(w)',
         ReadIsTrue(w)', Rests(w)'
  PROVE  StoreInv'
<1>1. \A x \in Labels : ReadIsTrue(x)' /\ Rests(x)'
  BY DEF StoreInv, ReadIsTrue, Rests, Up, Slots
<1>2. SlotsAreStored'
  <2>1. ASSUME NEW x \in Labels, Lists(x)' PROVE Reopens(x)'
    <3>1. CASE x # w
      <4>1. Lists(x)
        BY <2>1, <3>1 DEF Lists
      <4>2. QED
        BY <3>1, <4>1 DEF StoreInv, SlotsAreStored, Reopens, Slots
    <3>2. CASE x = w
      <4>1. Lists(w) \/ w \in slots' \ slots
        BY <2>1, <3>2 DEF Lists
      <4>2. QED
        BY <3>2, <4>1 DEF StoreInv, SlotsAreStored
    <3>3. QED
      BY <3>1, <3>2
  <2>2. QED
    BY <2>1 DEF SlotsAreStored
<1>3. RespawnKnows'
  <2>1. ASSUME main.phase = "slots", NEW x \in slots' \ main.manifest
        PROVE  snap'[x] = {} \/ (x \in Labels /\ Up(x)')
    <3>1. CASE x = w
      BY <2>1, <3>1 DEF StoreInv, RespawnKnows
    <3>2. CASE x # w
      <4>1. x \in slots /\ x \in Slots /\ snap'[x] = snap[x]
        BY <2>1, <3>2 DEF StoreInv, StoreTypeOK
      <4>2. snap[x] = {} \/ (x \in Labels /\ Up(x))
        BY <2>1, <4>1 DEF StoreInv, RespawnKnows
      <4>3. QED
        BY <3>2, <4>1, <4>2 DEF Up
    <3>3. QED
      BY <3>1, <3>2
  <2>2. QED
    BY <2>1 DEF StoreInv, RespawnKnows
<1>4. QED
  BY <1>1, <1>2, <1>3 DEF StoreInv

\* A step of one window that stores nothing.
LEMMA StepInMemory ==
  ASSUME StoreInv, StoreTypeOK', NEW w \in Labels, UNCHANGED <<snap, slots, main, closing>>,
         \A x \in Labels \ {w} : win'[x] = win[x],
         Up(w)', win[w].phase # "gone", ReadIsTrue(w)'
  PROVE  StoreInv'
<1>1. (Reopens(w) => Reopens(w)') /\ Rests(w)'
  BY DEF Reopens, Up, Rests
<1>2. QED
  BY <1>1, StepOf

\* What a window makes of a claim: the registry takes from nobody, and a root that the
\* window holds without its word is marked.
LEMMA ClaimsAre ==
  ASSUME StoreTypeOK, NEW w \in Labels, NEW r \in Roots, NEW claim \in Claims(r, w)
  PROVE  /\ claim.owner \in [Roots -> Labels \cup {None}]
         /\ claim.loose \in SUBSET Roots /\ claim.granted \in BOOLEAN
         /\ \A x \in Labels : \A s \in Roots : owner[s] = x => claim.owner[s] = x
         /\ claim.granted => r \in claim.loose \/ claim.owner[r] = w
         /\ \A s \in win[w].loose \ claim.loose : claim.owner[s] = w
<1>1. /\ win[w].loose \in SUBSET Roots /\ owner \in [Roots -> Labels \cup {None}]
      /\ w # None
  BY StoreAssumption DEF StoreTypeOK, Windows
<1>2. CASE claim = [granted |-> Grants(r, w), owner |-> claimProject(r, w),
                    loose |-> IF Grants(r, w) THEN win[w].loose \ {r} ELSE win[w].loose]
  <2>1. Grants(r, w) \in BOOLEAN
    BY DEF Grants
  <2>2. CASE Grants(r, w)
    <3>1. claim.granted = TRUE /\ claim.loose = win[w].loose \ {r} /\ claim.owner = [owner EXCEPT ![r] = w]
      BY <1>2, <2>2 DEF claimProject
    <3>2. owner[r] \in {None, w}
      BY <2>2 DEF Grants
    <3>3. QED
      BY <1>1, <3>1, <3>2, StoreAssumption
  <2>3. CASE ~Grants(r, w)
    <3>1. claim.granted = FALSE /\ claim.loose = win[w].loose /\ claim.owner = owner
      BY <1>2, <2>1, <2>3 DEF claimProject
    <3>2. QED
      BY <1>1, <3>1
  <2>4. QED
    BY <2>2, <2>3
<1>3. CASE claim = [granted |-> TRUE, owner |-> owner, loose |-> win[w].loose \cup {r}]
  <2>1. claim.granted = TRUE /\ claim.loose = win[w].loose \cup {r} /\ claim.owner = owner
    BY <1>3
  <2>2. QED
    BY <1>1, <2>1
<1>4. QED
  BY <1>2, <1>3 DEF Claims

LEMMA BootsKeep ==
  ASSUME StoreInv, NEW w \in Labels,
         claimInit(w) \/ restoreProjects(w) \/ \E r \in Roots : claimRoots(w, r)
  PROVE  StoreInv'
<1>1. win[w] \in Windows /\ win \in [Labels -> Windows]
  BY DEF StoreInv, StoreTypeOK
<1>2. ASSUME StoreTypeOK', UNCHANGED <<snap, slots, main, closing>>,
             win[w].phase \in {"directed", "claim"}, win'[w].phase \in {"hydrate", "claim", "live"},
             win'[w].read = win[w].read, win'[w].save = win[w].save,
             win'[w].open = {} => win[w].open = {},
             \A x \in Labels \ {w} : win'[x] = win[x]
      PROVE  StoreInv'
  <2>1. ReadIsTrue(w)' /\ Up(w)' /\ win[w].phase # "gone"
    BY <1>2 DEF StoreInv, ReadIsTrue, Up
  <2>2. QED
    BY <1>2, <2>1, StepInMemory
<1>3. CASE claimInit(w)
  <2>1. PICK nowOpen \in SUBSET Roots, loose \in SUBSET Roots :
          /\ win' = [win EXCEPT ![w].phase = "hydrate", ![w].init = None, ![w].loose = loose, ![w].open = nowOpen]
          /\ nowOpen = {} => win[w].open = {}
          /\ owner' \in [Roots -> Labels \cup {None}]
    <3>1. CASE win[w].init = None
      <4>1. win' = [win EXCEPT ![w].phase = "hydrate"] /\ owner' = owner
        BY <1>3, <3>1 DEF claimInit
      <4>2. win' = [win EXCEPT ![w].phase = "hydrate", ![w].init = None, ![w].loose = win[w].loose,
                              ![w].open = win[w].open]
        BY <1>1, <3>1, <4>1 DEF Windows
      <4>3. win[w].loose \in SUBSET Roots /\ win[w].open \in SUBSET Roots
        BY <1>1 DEF Windows
      <4>4. owner' \in [Roots -> Labels \cup {None}]
        BY <4>1 DEF StoreInv, StoreTypeOK
      <4>5. QED
        BY <4>2, <4>3, <4>4, Zenon
    <3>2. CASE win[w].init # None
      <4>1. win[w].init \in Roots
        BY <1>1, <3>2 DEF Windows
      <4>2. PICK claim \in Claims(win[w].init, w) :
              /\ owner' = claim.owner
              /\ win' = [win EXCEPT ![w].phase = "hydrate", ![w].init = None, ![w].loose = claim.loose,
                                    ![w].open = IF claim.granted /\ @ = {} THEN {win[w].init} ELSE @]
        BY <1>3, <3>2 DEF claimInit
      <4> DEFINE nowOpen == IF claim.granted /\ win[w].open = {} THEN {win[w].init} ELSE win[w].open
      <4>3. claim.owner \in [Roots -> Labels \cup {None}] /\ claim.loose \in SUBSET Roots
        BY <4>1, ClaimsAre DEF StoreInv
      <4>4. nowOpen \in SUBSET Roots /\ (nowOpen = {} => win[w].open = {})
        BY <1>1, <4>1 DEF Windows
      <4>5. win' = [win EXCEPT ![w].phase = "hydrate", ![w].init = None, ![w].loose = claim.loose, ![w].open = nowOpen]
        BY <4>2
      <4> HIDE DEF nowOpen
      <4>6. QED
        BY <4>2, <4>3, <4>4, <4>5
    <3>3. QED
      BY <3>1, <3>2
  <2>2. /\ UNCHANGED <<snap, cache, slots, main, closing>> /\ win[w].phase = "directed"
    BY <1>3 DEF claimInit
  <2>3. win' \in [Labels -> Windows]
    BY <1>1, <2>1, StoreAssumption DEF Windows
  <2>4. /\ StoreTypeOK' /\ win'[w].phase = "hydrate"
        /\ win'[w].read = win[w].read /\ win'[w].save = win[w].save
        /\ win'[w].open = {} => win[w].open = {}
        /\ \A x \in Labels \ {w} : win'[x] = win[x]
    BY <1>1, <2>1, <2>2, <2>3 DEF StoreInv, StoreTypeOK, Windows
  <2>5. QED
    BY <2>2, <2>4, <1>2
<1>4. CASE restoreProjects(w)
  <2>1. PICK nowOpen \in SUBSET Roots, dropped \in SUBSET Roots :
          /\ win' = [win EXCEPT ![w].phase = "live", ![w].granted = {}, ![w].open = nowOpen, ![w].dropped = dropped]
          /\ nowOpen = {} => win[w].open = {}
    <3>1. /\ win[w].open \in SUBSET Roots /\ win[w].dropped \in SUBSET Roots
          /\ win[w].granted \in SUBSET Roots
      BY <1>1 DEF Windows
    <3>2. CASE /\ win[w].open = {}
               /\ win' = [win EXCEPT ![w].phase = "live", ![w].granted = {}, ![w].open = win[w].granted]
      <4>1. win' = [win EXCEPT ![w].phase = "live", ![w].granted = {}, ![w].open = win[w].granted,
                              ![w].dropped = win[w].dropped]
        BY <1>1, <3>2 DEF Windows
      <4>2. QED
        BY <3>1, <3>2, <4>1, Zenon
    <3>3. CASE win' = [win EXCEPT ![w].phase = "live", ![w].granted = {},
                                 ![w].dropped = @ \cup win[w].granted]
      <4>1. win' = [win EXCEPT ![w].phase = "live", ![w].granted = {}, ![w].open = win[w].open,
                              ![w].dropped = win[w].dropped \cup win[w].granted]
        BY <1>1, <3>3 DEF Windows
      <4>2. win[w].dropped \cup win[w].granted \in SUBSET Roots
        BY <3>1
      <4>3. QED
        BY <3>1, <4>1, <4>2, Zenon
    <3>4. QED
      BY <1>4, <3>2, <3>3 DEF restoreProjects
  <2>2. UNCHANGED <<snap, cache, slots, owner, main, closing>> /\ win[w].phase = "claim"
    BY <1>4 DEF restoreProjects
  <2>3. win' \in [Labels -> Windows]
    BY <1>1, <2>1 DEF Windows
  <2>4. /\ StoreTypeOK' /\ win'[w].phase = "live"
        /\ win'[w].read = win[w].read /\ win'[w].save = win[w].save
        /\ win'[w].open = {} => win[w].open = {}
        /\ \A x \in Labels \ {w} : win'[x] = win[x]
    BY <1>1, <2>1, <2>2, <2>3 DEF StoreInv, StoreTypeOK, Windows
  <2>5. QED
    BY <2>2, <2>4, <1>2
<1>5. ASSUME NEW r \in Roots, claimRoots(w, r) PROVE StoreInv'
  <2>1. PICK remain \in SUBSET Roots, loose \in SUBSET Roots, granted \in SUBSET Roots,
             dropped \in SUBSET Roots :
          /\ win' = [win EXCEPT ![w].left = remain, ![w].loose = loose, ![w].granted = granted,
                                ![w].dropped = dropped]
          /\ owner' \in [Roots -> Labels \cup {None}]
    <3>1. PICK claim \in Claims(r, w) :
            /\ owner' = claim.owner
            /\ win' = [win EXCEPT ![w].left = @ \ {r}, ![w].loose = claim.loose,
                                  ![w].granted = IF claim.granted THEN @ \cup {r} ELSE @,
                                  ![w].dropped = IF claim.granted THEN @ ELSE @ \cup {r}]
      BY <1>5 DEF claimRoots
    <3> DEFINE granted == IF claim.granted THEN win[w].granted \cup {r} ELSE win[w].granted
               dropped == IF claim.granted THEN win[w].dropped ELSE win[w].dropped \cup {r}
               remain == win[w].left \ {r}
    <3>2. claim.owner \in [Roots -> Labels \cup {None}] /\ claim.loose \in SUBSET Roots
      BY ClaimsAre DEF StoreInv
    <3>3. granted \in SUBSET Roots /\ dropped \in SUBSET Roots /\ remain \in SUBSET Roots
      BY <1>1 DEF Windows
    <3>4. win' = [win EXCEPT ![w].left = remain, ![w].loose = claim.loose, ![w].granted = granted,
                            ![w].dropped = dropped]
      BY <3>1
    <3>5. owner' \in [Roots -> Labels \cup {None}]
      BY <3>1, <3>2
    <3> HIDE DEF granted, dropped, remain
    <3>6. QED
      BY <3>2, <3>3, <3>4, <3>5, Zenon
  <2>2. UNCHANGED <<snap, cache, slots, main, closing>> /\ win[w].phase = "claim"
    BY <1>5 DEF claimRoots
  <2>3. win' \in [Labels -> Windows]
    BY <1>1, <2>1 DEF Windows
  <2>4. /\ StoreTypeOK' /\ win'[w].phase = "claim"
        /\ win'[w].read = win[w].read /\ win'[w].save = win[w].save
        /\ win'[w].open = {} => win[w].open = {}
        /\ \A x \in Labels \ {w} : win'[x] = win[x]
    BY <1>1, <2>1, <2>2, <2>3 DEF StoreInv, StoreTypeOK, Windows
  <2>5. QED
    BY <2>2, <2>4, <1>2
<1>6. QED
  BY <1>3, <1>4, <1>5

\* A close changes what is open, what is loose and what was given up.
LEMMA ClosedIs ==
  ASSUME StoreTypeOK, NEW w \in Labels, NEW r \in Roots, win' = Closed(w, r)
  PROVE  \E loose \in SUBSET Roots, dropped \in SUBSET Roots :
           /\ win' = [win EXCEPT ![w].open = win[w].open \ {r}, ![w].asked = win[w].asked,
                                 ![w].loose = loose, ![w].dropped = dropped]
           /\ win[w].loose \ {r} \subseteq loose /\ (r \in win[w].asked => r \in loose)
           /\ win[w].dropped \cup ({r} \cap hydrated(w)) \subseteq dropped
<1>1. win[w] \in Windows /\ win \in [Labels -> Windows]
  BY DEF StoreTypeOK
<1> DEFINE loose == IF r \in win[w].asked THEN win[w].loose \cup {r} ELSE win[w].loose \ {r}
           dropped == win[w].dropped \cup ({r} \cap hydrated(w))
<1>2. loose \in SUBSET Roots /\ dropped \in SUBSET Roots
  BY <1>1 DEF Windows
<1>3. win' = [win EXCEPT ![w].open = @ \ {r}, ![w].dropped = dropped, ![w].loose = loose]
  BY DEF Closed
<1>4. win[w].loose \ {r} \subseteq loose /\ (r \in win[w].asked => r \in loose)
  OBVIOUS
<1>5. win[w].dropped \cup ({r} \cap hydrated(w)) \subseteq dropped
  OBVIOUS
<1> HIDE DEF loose, dropped
<1>6. win' = [win EXCEPT ![w].open = win[w].open \ {r}, ![w].asked = win[w].asked,
                        ![w].loose = loose, ![w].dropped = dropped]
  BY <1>1, <1>3 DEF Windows
<1>7. QED
  BY <1>2, <1>4, <1>5, <1>6

LEMMA ProjectsKeep ==
  ASSUME StoreInv, NEW w \in Labels, NEW r \in Roots,
         askProject(w, r) \/ addProject(w, r) \/ closeProjectReleased(w, r)
  PROVE  StoreInv'
<1>1. win[w] \in Windows /\ win \in [Labels -> Windows] /\ StoreTypeOK
  BY DEF StoreInv, StoreTypeOK
<1>2. ASSUME win' \in [Labels -> Windows], win'[w].phase = win[w].phase, win'[w].read = win[w].read,
             win'[w].save = win[w].save, win'[w].open = {} => win[w].open = {},
             \A x \in Labels \ {w} : win'[x] = win[x], Up(w),
             owner' \in [Roots -> Labels \cup {None}], UNCHANGED <<snap, cache, slots, main, closing>>
      PROVE  StoreInv'
  <2>1. StoreTypeOK'
    BY <1>1, <1>2 DEF StoreTypeOK
  <2>2. ReadIsTrue(w)' /\ Up(w)' /\ win[w].phase # "gone"
    BY <1>2 DEF StoreInv, ReadIsTrue, Up
  <2>3. QED
    BY <1>2, <2>1, <2>2, StepInMemory
<1>3. Up(w)
  BY <1>1 DEF StoreInv, askProject, addProject, closeProjectReleased, Rests, Down, Gone
<1>4. CASE askProject(w, r)
  <2>1. PICK claim \in Claims(r, w) :
          /\ owner' = claim.owner
          /\ win' = IF claim.granted THEN [win EXCEPT ![w].asked = @ \cup {r}, ![w].loose = claim.loose]
                    ELSE win
    BY <1>4 DEF askProject
  <2>2. claim.owner \in [Roots -> Labels \cup {None}] /\ claim.loose \in SUBSET Roots
    BY <1>1, ClaimsAre
  <2>3. CASE claim.granted
    <3>1. /\ win' \in [Labels -> Windows] /\ win'[w].phase = win[w].phase /\ win'[w].read = win[w].read
          /\ win'[w].save = win[w].save /\ win'[w].open = win[w].open
          /\ \A x \in Labels \ {w} : win'[x] = win[x]
      BY <1>1, <2>1, <2>2, <2>3 DEF Windows
    <3>2. QED
      BY <1>2, <1>3, <1>4, <2>1, <2>2, <3>1 DEF askProject
  <2>4. CASE ~claim.granted
    BY <1>1, <1>2, <1>3, <1>4, <2>1, <2>2, <2>4 DEF askProject
  <2>5. QED
    BY <2>3, <2>4
<1>5. CASE addProject(w, r)
  <2>1. /\ win' \in [Labels -> Windows] /\ win'[w].phase = win[w].phase /\ win'[w].read = win[w].read
        /\ win'[w].save = win[w].save /\ (win'[w].open = {} => win[w].open = {})
        /\ \A x \in Labels \ {w} : win'[x] = win[x]
    <3> DEFINE nowOpen == win[w].open \cup {r}
               nowAsked == win[w].asked \ {r}
               dropped == win[w].dropped \ {r}
    <3>1. /\ nowOpen \in SUBSET Roots /\ nowAsked \in SUBSET Roots /\ dropped \in SUBSET Roots
          /\ nowOpen # {}
      BY <1>1 DEF Windows
    <3>2. win' = [win EXCEPT ![w].asked = nowAsked, ![w].open = nowOpen, ![w].dropped = dropped]
      BY <1>5 DEF addProject
    <3> HIDE DEF nowOpen, nowAsked, dropped
    <3>3. QED
      BY <1>1, <3>1, <3>2 DEF Windows
  <2>2. QED
    BY <1>1, <1>2, <1>3, <1>5, <2>1 DEF addProject, StoreTypeOK
<1>6. CASE closeProjectReleased(w, r)
  <2>1. win[w].open \ {r} # {}
    <3>1. SUFFICES ASSUME win[w].open = {r} PROVE FALSE
      BY <1>6 DEF closeProjectReleased
    <3>2. Cardinality({r}) = 1
      BY FS_Singleton
    <3>3. QED
      BY <1>6, <3>1, <3>2 DEF closeProjectReleased
  <2>2. PICK loose \in SUBSET Roots, dropped \in SUBSET Roots :
          win' = [win EXCEPT ![w].open = win[w].open \ {r}, ![w].asked = win[w].asked,
                            ![w].loose = loose, ![w].dropped = dropped]
    <3>1. win' = Closed(w, r)
      BY <1>6 DEF closeProjectReleased
    <3>2. \E loose \in SUBSET Roots, dropped \in SUBSET Roots :
            /\ win' = [win EXCEPT ![w].open = win[w].open \ {r}, ![w].asked = win[w].asked,
                                  ![w].loose = loose, ![w].dropped = dropped]
            /\ win[w].loose \ {r} \subseteq loose /\ (r \in win[w].asked => r \in loose)
            /\ win[w].dropped \cup ({r} \cap hydrated(w)) \subseteq dropped
      <4> HIDE DEF hydrated
      <4>1. QED
        BY <1>1, <3>1, ClosedIs
    <3>3. QED
      BY <3>2, Zenon
  <2>3. owner' \in [Roots -> Labels \cup {None}]
    BY <1>1, <1>6 DEF closeProjectReleased, StoreTypeOK
  <2>4. /\ win' \in [Labels -> Windows] /\ win'[w].phase = win[w].phase /\ win'[w].read = win[w].read
        /\ win'[w].save = win[w].save /\ win'[w].open = win[w].open \ {r}
        /\ \A x \in Labels \ {w} : win'[x] = win[x]
    BY <1>1, <2>2 DEF Windows
  <2>5. QED
    BY <1>2, <1>3, <1>6, <2>1, <2>3, <2>4 DEF closeProjectReleased
<1>7. QED
  BY <1>4, <1>5, <1>6

LEMMA HydratedType ==
  ASSUME StoreTypeOK, NEW w \in Labels
  PROVE  /\ hydrated(w) \in SUBSET Roots /\ hydrated(w) # Absent
         /\ snap[w] # Absent => hydrated(w) = snap[w]
         /\ hydrated(w) = {} => snap[w] \in {Absent, {}}
BY StoreAssumption DEF StoreTypeOK, hydrated, Slots

\* What a window learns from the store it leaves there.
LEMMA Hydrating ==
  ASSUME StoreTypeOK, NEW w \in Labels, hydrate(w)
  PROVE  /\ snap' \in [Slots -> {Absent} \cup SUBSET Roots] /\ cache' \in [Labels -> SUBSET Roots]
         /\ \A x \in Slots \ {w} : snap'[x] = snap[x]
         /\ snap'[w] = IF hydrated(w) # {} THEN hydrated(w) ELSE snap[w]
         /\ snap[w] \notin {Absent, {}} => snap'[w] = snap[w]
<1>1. hydrated(w) \in SUBSET Roots /\ (snap[w] # Absent => hydrated(w) = snap[w])
  BY HydratedType
<1>2. snap' = IF hydrated(w) # {} THEN [snap EXCEPT ![w] = hydrated(w)] ELSE snap
  BY DEF hydrate
<1>3. cache' \in [Labels -> SUBSET Roots]
  BY DEF hydrate, StoreTypeOK
<1> HIDE DEF hydrated
<1>4. QED
  BY <1>1, <1>2, <1>3 DEF StoreTypeOK, Slots

LEMMA HydrateKeeps ==
  ASSUME StoreInv, NEW w \in Labels, hydrateSnapshot(w) PROVE StoreInv'
<1>1. win[w] \in Windows /\ win \in [Labels -> Windows] /\ StoreTypeOK
  BY DEF StoreInv, StoreTypeOK
<1>2. win[w].phase = "hydrate" /\ UNCHANGED <<slots, owner, main, closing>>
  BY DEF hydrateSnapshot
<1>3. CASE win' = [win EXCEPT ![w].phase = "live"] /\ UNCHANGED <<snap, cache>>
  <2>1. StoreTypeOK'
    BY <1>1, <1>2, <1>3 DEF StoreTypeOK, Windows
  <2>2. /\ win'[w].phase = "live" /\ win'[w].read = win[w].read
        /\ win'[w].save = win[w].save /\ win'[w].open = win[w].open
        /\ \A x \in Labels \ {w} : win'[x] = win[x]
    BY <1>1, <1>3 DEF Windows
  <2>3. ReadIsTrue(w)' /\ Up(w)'
    BY <1>2, <1>3, <2>2 DEF StoreInv, ReadIsTrue, Up
  <2>4. QED
    BY <1>2, <1>3, <2>1, <2>2, <2>3, StepInMemory
<1>4. CASE /\ hydrate(w)
           /\ \E phase \in IF hydrated(w) = {} THEN {"live"} ELSE {"live", "claim"} :
                win' = [win EXCEPT ![w].phase = phase,
                                   ![w].read = IF hydrated(w) = {} THEN "empty" ELSE "projects",
                                   ![w].left = IF phase = "claim" THEN hydrated(w) ELSE {},
                                   ![w].dropped = IF phase = "claim" THEN {} ELSE hydrated(w)]
  <2>1. /\ snap' \in [Slots -> {Absent} \cup SUBSET Roots] /\ cache' \in [Labels -> SUBSET Roots]
        /\ \A x \in Slots \ {w} : snap'[x] = snap[x]
        /\ snap'[w] = IF hydrated(w) # {} THEN hydrated(w) ELSE snap[w]
        /\ snap[w] \notin {Absent, {}} => snap'[w] = snap[w]
    BY <1>1, <1>4, Hydrating
  <2>2. /\ hydrated(w) \in SUBSET Roots /\ hydrated(w) # Absent
        /\ hydrated(w) = {} => snap[w] \in {Absent, {}}
    BY <1>1, HydratedType
  <2> HIDE DEF hydrated
  <2>3. PICK phase \in {"live", "claim"}, read \in {"empty", "projects"}, remain \in SUBSET Roots,
            dropped \in SUBSET Roots :
          /\ win' = [win EXCEPT ![w].phase = phase, ![w].read = read, ![w].left = remain, ![w].dropped = dropped]
          /\ read = "empty" => hydrated(w) = {}
    BY <1>4, <2>2
  <2>4. /\ win' \in [Labels -> Windows] /\ win'[w].phase = phase /\ win'[w].read = read
        /\ win'[w].save = win[w].save /\ win'[w].open = win[w].open
        /\ \A x \in Labels \ {w} : win'[x] = win[x]
    BY <1>1, <2>3 DEF Windows
  <2>5. StoreTypeOK'
    BY <1>1, <1>2, <2>1, <2>4 DEF StoreTypeOK
  <2>6. ReadIsTrue(w)'
    BY <1>2, <2>1, <2>2, <2>3, <2>4 DEF StoreInv, ReadIsTrue
  <2>7. Up(w)' /\ Rests(w)' /\ (Reopens(w) => Reopens(w)')
    BY <1>2, <2>1, <2>4 DEF Up, Rests, Reopens
  <2>8. QED
    BY <1>2, <2>1, <2>4, <2>5, <2>6, <2>7, StepOf
<1>5. QED
  BY <1>3, <1>4 DEF hydrateSnapshot

LEMMA SettleKeeps ==
  ASSUME StoreInv, NEW w \in Labels, settleUnread(w) PROVE StoreInv'
<1>1. win[w] \in Windows /\ win \in [Labels -> Windows] /\ StoreTypeOK
  BY DEF StoreInv, StoreTypeOK
<1>2. /\ win[w].phase = "live" /\ win[w].save = "idle" /\ win[w].read = "unread" /\ hydrate(w)
      /\ UNCHANGED <<slots, owner, main, closing>>
  BY DEF settleUnread
<1>3. /\ snap' \in [Slots -> {Absent} \cup SUBSET Roots] /\ cache' \in [Labels -> SUBSET Roots]
      /\ \A x \in Slots \ {w} : snap'[x] = snap[x]
      /\ snap'[w] = IF hydrated(w) # {} THEN hydrated(w) ELSE snap[w]
      /\ snap[w] \notin {Absent, {}} => snap'[w] = snap[w]
  BY <1>1, <1>2, Hydrating
<1>4. hydrated(w) = {} => snap[w] \in {Absent, {}}
  BY <1>1, HydratedType
<1>5. /\ win' \in [Labels -> Windows] /\ win'[w].phase = "live" /\ win'[w].save = "idle"
      /\ win'[w].read = (IF hydrated(w) = {} THEN "empty" ELSE "unread")
      /\ \A x \in Labels \ {w} : win'[x] = win[x]
  <2> HIDE DEF hydrated
  <2>1. win' = IF hydrated(w) = {} THEN [win EXCEPT ![w].read = "empty"] ELSE win
    BY DEF settleUnread
  <2>2. QED
    BY <1>1, <1>2, <2>1 DEF Windows
<1> HIDE DEF hydrated
<1>6. StoreTypeOK'
  BY <1>1, <1>2, <1>3, <1>5 DEF StoreTypeOK
<1>7. ReadIsTrue(w)' /\ Up(w)' /\ Rests(w)' /\ (Reopens(w) => Reopens(w)') /\ Up(w)
  BY <1>2, <1>3, <1>4, <1>5 DEF ReadIsTrue, Up, Rests, Reopens
<1>8. QED
  BY <1>2, <1>3, <1>5, <1>6, <1>7, StepOf

\* A window stores nothing over its projects but projects.
LEMMA PersistKeeps ==
  ASSUME StoreInv, NEW w \in Labels, persistOnce(w) PROVE StoreInv'
<1>1. win[w] \in Windows /\ win \in [Labels -> Windows] /\ StoreTypeOK /\ ReadIsTrue(w)
  BY DEF StoreInv, StoreTypeOK
<1>2. /\ win[w].phase = "live" /\ win[w].save = "idle" /\ mayPersist(w)
      /\ UNCHANGED <<slots, owner, main, closing>>
  BY DEF persistOnce
<1>3. win[w].open # Absent /\ win[w].open \in SUBSET Roots
  BY <1>1, StoreAssumption DEF Windows
<1>4. CASE /\ snap' = [snap EXCEPT ![w] = win[w].open]
           /\ cache' = [cache EXCEPT ![w] = {}]
           /\ win' = [win EXCEPT ![w].save = "slot", ![w].dropped = {}]
  <2>1. /\ StoreTypeOK' /\ snap'[w] = win[w].open
        /\ \A x \in Slots \ {w} : snap'[x] = snap[x]
    BY <1>1, <1>2, <1>3, <1>4 DEF StoreTypeOK, Windows, Slots
  <2>2. /\ win'[w].phase = "live" /\ win'[w].save = "slot"
        /\ win'[w].open = win[w].open /\ win'[w].read = win[w].read
        /\ \A x \in Labels \ {w} : win'[x] = win[x]
    BY <1>1, <1>2, <1>4 DEF Windows
  <2>3. ReadIsTrue(w)' /\ Up(w)' /\ Rests(w)' /\ Up(w)
    BY <1>2, <1>3, <2>1, <2>2 DEF ReadIsTrue, Up, Rests
  <2>4. Reopens(w) => Reopens(w)'
    BY <1>1, <1>2, <1>3, <2>1 DEF Reopens, mayPersist, ReadIsTrue
  <2>5. QED
    BY <1>2, <2>1, <2>2, <2>3, <2>4, StepOf
<1>5. CASE /\ cache' = IF snap[w] = Absent THEN [cache EXCEPT ![w] = win[w].open] ELSE cache
           /\ UNCHANGED <<snap, win>>
  <2>1. StoreTypeOK'
    BY <1>1, <1>2, <1>3, <1>5 DEF StoreTypeOK
  <2>2. Up(w)' /\ ReadIsTrue(w)'
    BY <1>1, <1>2, <1>5 DEF Up, ReadIsTrue
  <2>3. QED
    BY <1>2, <1>5, <2>1, <2>2, StepInMemory
<1>6. QED
  BY <1>4, <1>5 DEF persistOnce

LEMMA UpsertKeeps ==
  ASSUME StoreInv, NEW w \in Labels, upsertSlot(w) PROVE StoreInv'
<1>1. win[w] \in Windows /\ win \in [Labels -> Windows] /\ StoreTypeOK /\ ReadIsTrue(w)
  BY DEF StoreInv, StoreTypeOK
<1>2. /\ win[w].save = "slot" /\ win[w].phase = "live" /\ snap[w] # Absent
      /\ slots' \in {slots, IF snap[w] = {} THEN slots \ {w} ELSE slots \cup {w}}
      /\ win' = [win EXCEPT ![w].save = "idle"]
      /\ UNCHANGED <<snap, cache, owner, main, closing>>
  BY <1>1 DEF upsertSlot, ReadIsTrue
<1>3. /\ win' \in [Labels -> Windows] /\ win'[w].phase = "live" /\ win'[w].save = "idle"
      /\ win'[w].read = win[w].read /\ win'[w].open = win[w].open
      /\ \A x \in Labels \ {w} : win'[x] = win[x]
  BY <1>1, <1>2 DEF Windows
<1>4. slots' \subseteq slots \cup {w} /\ (w \in slots' \ slots => snap[w] # {})
  BY <1>2
<1>5. StoreTypeOK'
  BY <1>1, <1>2, <1>3, <1>4 DEF StoreTypeOK, Slots
<1>6. ReadIsTrue(w)' /\ Up(w)' /\ Rests(w)' /\ (Reopens(w) => Reopens(w)')
  BY <1>1, <1>2, <1>3 DEF ReadIsTrue, Up, Rests, Reopens
<1>7. w \in slots' \ slots => Reopens(w)'
  BY <1>2, <1>4 DEF Reopens
<1>8. QED
  BY <1>2, <1>3, <1>4, <1>5, <1>6, <1>7, StepOf

LEMMA WindowsKeep ==
  ASSUME StoreInv, NEW w \in Labels, reload(w) \/ destroy(w) \/ \E r \in Roots : openWindow(w, r)
  PROVE  StoreInv'
<1>1. win \in [Labels -> Windows] /\ StoreTypeOK
  BY DEF StoreInv, StoreTypeOK
<1>2. Gone \in Windows /\ \A init \in Roots \cup {None} : Fresh(init) \in Windows
  BY DEF Windows, Gone, Fresh, Down
<1>3. ASSUME NEW init \in Roots \cup {None}, win' = [win EXCEPT ![w] = Fresh(init)],
             UNCHANGED <<snap, cache, slots, owner, main, closing>>,
             Up(w) \/ win[w].phase = "down"
      PROVE  StoreInv'
  <2>1. StoreTypeOK' /\ win'[w] = Fresh(init) /\ \A x \in Labels \ {w} : win'[x] = win[x]
    BY <1>1, <1>2, <1>3 DEF StoreTypeOK
  <2>2. ReadIsTrue(w)' /\ Up(w)' /\ Rests(w)'
    BY <2>1 DEF ReadIsTrue, Up, Rests, Fresh, Down
  <2>3. win[w].phase # "gone"
    BY <1>3 DEF Up
  <2>4. QED
    BY <1>3, <2>1, <2>2, <2>3, StepInMemory
<1>4. CASE reload(w)
  BY <1>3, <1>4 DEF reload
<1>5. CASE \E r \in Roots : openWindow(w, r)
  <2>1. win[w].phase = "down"
    BY <1>5 DEF openWindow, New
  <2>2. QED
    BY <1>3, <1>5, <2>1 DEF openWindow
<1>6. CASE destroy(w)
  <2>1. /\ win'[w] = Gone /\ \A x \in Labels \ {w} : win'[x] = win[x]
        /\ \A x \in Slots \ {w} : snap'[x] = snap[x]
        /\ slots' = slots \ {w} /\ UNCHANGED <<main, closing>>
    BY <1>1, <1>6 DEF destroy, StoreTypeOK
  <2>2. StoreTypeOK'
    BY <1>1, <1>2, <1>6 DEF destroy, StoreTypeOK, Released
  <2>3. ReadIsTrue(w)' /\ Rests(w)' /\ Reopens(w)'
    BY <2>1 DEF ReadIsTrue, Rests, Reopens, Gone, Down
  <2>4. QED
    BY <2>1, <2>2, <2>3, StepOf
<1>7. QED
  BY <1>4, <1>5, <1>6

LEMMA ForgetKeeps ==
  ASSUME StoreInv, NEW w \in Labels, forgetRead(w) \/ forgetWrite(w) PROVE StoreInv'
<1>1. UNCHANGED <<snap, cache, owner, win, main>> /\ main.phase = "off"
  BY DEF forgetRead, forgetWrite, StoreInv, RespawnKnows
<1>2. slots' \subseteq Slots /\ closing' \in {None} \cup [label : Labels, manifest : SUBSET Slots]
  BY DEF forgetRead, forgetWrite, StoreInv, StoreTypeOK
<1>3. StoreTypeOK'
  BY <1>1, <1>2 DEF StoreInv, StoreTypeOK
<1>4. \A x \in Labels : Lists(x)' => Lists(x)
  BY <1>1 DEF forgetRead, forgetWrite, Lists
<1>5. QED
  BY <1>1, <1>3, <1>4 DEF StoreInv, SlotsAreStored, RespawnKnows, Reopens, ReadIsTrue, Rests, Up

LEMMA RestartKeeps == ASSUME StoreInv, restart PROVE StoreInv'
<1>1. /\ UNCHANGED <<snap, cache, slots>> /\ closing' = None /\ main'.phase = "manifest"
      /\ \A x \in Labels : win'[x] = IF win[x] = Gone THEN Gone ELSE Down
  BY DEF restart, Quiet
<1>2. StoreTypeOK'
  BY DEF restart, Quiet, Gone, Down, Windows, StoreInv, StoreTypeOK
<1>3. SlotsAreStored'
  <2>1. ASSUME NEW x \in Labels, Lists(x)' PROVE Reopens(x)'
    <3>1. Reopens(x) /\ Rests(x)
      BY <1>1, <2>1 DEF Lists, StoreInv, SlotsAreStored
    <3>2. win[x].phase = "gone" => win'[x].phase = "gone"
      BY <1>1, <3>1 DEF Rests, Up, Gone, Down
    <3>3. QED
      BY <1>1, <3>1, <3>2 DEF Reopens
  <2>2. QED
    BY <2>1 DEF SlotsAreStored
<1>4. \A x \in Labels : ReadIsTrue(x)' /\ Rests(x)'
  <2>1. ASSUME NEW x \in Labels, win'[x] = Gone \/ win'[x] = Down PROVE ReadIsTrue(x)' /\ Rests(x)'
    <3>1. Gone.read = "unread" /\ Gone.save = "idle" /\ Down.read = "unread" /\ Down.save = "idle"
      BY DEF Gone, Down
    <3>2. win'[x].read = "unread" /\ win'[x].save = "idle"
      BY <2>1, <3>1
    <3>3. QED
      BY <2>1, <3>2 DEF ReadIsTrue, Rests
  <2>2. QED
    BY <1>1, <2>1
<1>5. QED
  BY <1>1, <1>2, <1>3, <1>4 DEF StoreInv, RespawnKnows

LEMMA ListKeeps == ASSUME StoreInv, respawnList PROVE StoreInv'
<1>1. /\ UNCHANGED <<snap, cache, slots, owner, win, closing>> /\ closing = None
      /\ main' = Quiet \/ (main'.phase = "slots" /\ main'.manifest = slots)
  BY DEF respawnList, StoreInv, RespawnKnows, StoreTypeOK
<1>2. main' \in [phase : {"off", "manifest", "slots"}, manifest : SUBSET Slots,
                  todo : SUBSET Slots, pruned : BOOLEAN]
  <2>1. \/ main' = Quiet
        \/ \E todo \in SUBSET slots :
             main' = [main EXCEPT !.phase = "slots", !.manifest = slots, !.todo = todo]
    BY DEF respawnList
  <2>2. CASE main' = Quiet
    BY <2>2 DEF Quiet
  <2>3. ASSUME NEW todo \in SUBSET slots,
               main' = [main EXCEPT !.phase = "slots", !.manifest = slots, !.todo = todo]
        PROVE  main' \in [phase : {"off", "manifest", "slots"}, manifest : SUBSET Slots,
                          todo : SUBSET Slots, pruned : BOOLEAN]
    <3>1. slots \in SUBSET Slots /\ todo \in SUBSET Slots
      BY DEF StoreInv, StoreTypeOK
    <3>2. QED
      BY <2>3, <3>1 DEF StoreInv, StoreTypeOK
  <2>4. QED
    BY <2>1, <2>2, <2>3
<1>3. StoreTypeOK'
  BY <1>1, <1>2 DEF StoreInv, StoreTypeOK
<1>4. \A x \in Labels : Lists(x)' => Lists(x)
  BY <1>1 DEF Lists, Quiet
<1>5. RespawnKnows'
  BY <1>1 DEF RespawnKnows, Quiet
<1>6. QED
  BY <1>1, <1>3, <1>4, <1>5 DEF StoreInv, SlotsAreStored, Reopens, ReadIsTrue, Rests, Up

LEMMA SlotKeeps == ASSUME StoreInv, NEW w \in Slots, respawnSlot(w) PROVE StoreInv'
<1>1. main.phase = "slots" /\ closing = None /\ UNCHANGED <<snap, cache, slots, owner, closing>>
  BY DEF respawnSlot, StoreInv, RespawnKnows
<1>2. /\ main' \in [phase : {"off", "manifest", "slots"}, manifest : SUBSET Slots,
                     todo : SUBSET Slots, pruned : BOOLEAN]
      /\ main'.phase = "slots" /\ main'.manifest \subseteq main.manifest
      /\ \A x \in main.manifest \ main'.manifest : snap[x] = {}
  <2>1. main \in [phase : {"off", "manifest", "slots"}, manifest : SUBSET Slots,
                  todo : SUBSET Slots, pruned : BOOLEAN]
    BY DEF StoreInv, StoreTypeOK
  <2>2. \/ snap[w] = {} /\ main' = [main EXCEPT !.todo = @ \ {w}, !.manifest = @ \ {w}, !.pruned = TRUE]
        \/ main' = [main EXCEPT !.todo = @ \ {w}]
    BY DEF respawnSlot
  <2>3. QED
    BY <1>1, <2>1, <2>2
<1>3. \/ win' = win
      \/ w \in Labels /\ snap[w] \notin {Absent, {}} /\ win' = [win EXCEPT ![w] = Fresh(None)]
  BY DEF respawnSlot
<1>4. Fresh(None) \in Windows
  BY DEF Fresh, Down, Windows
<1>5. win' \in [Labels -> Windows]
  BY <1>3, <1>4 DEF StoreInv, StoreTypeOK
<1>6. \A x \in Labels : win'[x] = win[x] \/ (snap[x] \notin {Absent, {}} /\ win'[x] = Fresh(None))
  BY <1>3 DEF StoreInv, StoreTypeOK
<1>7. StoreTypeOK'
  BY <1>1, <1>2, <1>5 DEF StoreInv, StoreTypeOK
<1>8. \A x \in Labels : Lists(x)' => Lists(x)
  BY <1>1, <1>2 DEF Lists
<1>9. \A x \in Labels : ReadIsTrue(x)' /\ Rests(x)' /\ (Reopens(x) => Reopens(x)') /\ (Up(x) => Up(x)')
  <2>1. ASSUME NEW x \in Labels, win'[x] = win[x]
        PROVE  ReadIsTrue(x)' /\ Rests(x)' /\ (Reopens(x) => Reopens(x)') /\ (Up(x) => Up(x)')
    BY <1>1, <2>1 DEF StoreInv, ReadIsTrue, Rests, Reopens, Up
  <2>2. ASSUME NEW x \in Labels, snap[x] \notin {Absent, {}}, win'[x] = Fresh(None)
        PROVE  ReadIsTrue(x)' /\ Rests(x)' /\ (Reopens(x) => Reopens(x)') /\ (Up(x) => Up(x)')
    BY <1>1, <2>2 DEF ReadIsTrue, Rests, Reopens, Up, Fresh, Down
  <2>3. QED
    BY <1>6, <2>1, <2>2
<1>10. RespawnKnows'
  BY <1>1, <1>2, <1>9 DEF StoreInv, RespawnKnows
<1>11. QED
  BY <1>7, <1>8, <1>9, <1>10 DEF StoreInv, SlotsAreStored

LEMMA EndKeeps == ASSUME StoreInv, respawnEnd \/ respawnFails PROVE StoreInv'
<1>1. /\ main.phase = "slots" /\ closing = None /\ main' = Quiet
      /\ UNCHANGED <<snap, cache, owner, closing>> /\ slots' \in {slots, main.manifest}
  BY DEF respawnEnd, respawnFails, StoreInv, RespawnKnows
<1>2. \A r \in Roots : Fresh(r) \in Windows
  BY DEF Fresh, Down, Windows
<1>3. win' = win \/ \E x \in Labels, r \in Roots : New(x) /\ win' = [win EXCEPT ![x] = Fresh(r)]
  BY DEF respawnEnd, respawnFails
<1>4. win' \in [Labels -> Windows]
  BY <1>2, <1>3 DEF StoreInv, StoreTypeOK
<1>5. \A x \in Labels : win'[x] = win[x] \/ (win[x].phase = "down" /\ \E r \in Roots : win'[x] = Fresh(r))
  BY <1>3 DEF StoreInv, StoreTypeOK, New
<1>6. StoreTypeOK'
  <2>1. Quiet \in [phase : {"off", "manifest", "slots"}, manifest : SUBSET Slots,
                   todo : SUBSET Slots, pruned : BOOLEAN]
    BY DEF Quiet
  <2>2. slots' \subseteq Slots
    BY <1>1 DEF StoreInv, StoreTypeOK
  <2>3. QED
    BY <1>1, <1>4, <2>1, <2>2 DEF StoreInv, StoreTypeOK
<1>7. \A x \in Labels : Lists(x)' => Lists(x)
  BY <1>1 DEF Lists, Quiet
<1>8. \A x \in Labels : ReadIsTrue(x)' /\ Rests(x)' /\ (Reopens(x) => Reopens(x)')
  <2>1. ASSUME NEW x \in Labels, win'[x] = win[x]
        PROVE  ReadIsTrue(x)' /\ Rests(x)' /\ (Reopens(x) => Reopens(x)')
    BY <1>1, <2>1 DEF StoreInv, ReadIsTrue, Rests, Reopens, Up
  <2>2. ASSUME NEW x \in Labels, win[x].phase = "down", NEW r \in Roots, win'[x] = Fresh(r)
        PROVE  ReadIsTrue(x)' /\ Rests(x)' /\ (Reopens(x) => Reopens(x)')
    BY <1>1, <2>2 DEF ReadIsTrue, Rests, Reopens, Up, Fresh, Down
  <2>3. QED
    BY <1>5, <2>1, <2>2
<1>9. QED
  BY <1>1, <1>6, <1>7, <1>8 DEF StoreInv, SlotsAreStored, RespawnKnows, Quiet

LEMMA StoreSteps == StoreInv /\ [Next]_vars => StoreInv'
<1> SUFFICES ASSUME StoreInv, [Next]_vars PROVE StoreInv'
  OBVIOUS
<1>1. CASE UNCHANGED vars
  BY <1>1 DEF vars, StoreInv, StoreTypeOK, SlotsAreStored, Lists, Reopens, RespawnKnows, ReadIsTrue,
              Rests, Up
<1>2. ASSUME NEW w \in Labels,
             \/ claimInit(w) \/ hydrateSnapshot(w) \/ restoreProjects(w)
             \/ settleUnread(w) \/ persistOnce(w) \/ upsertSlot(w)
             \/ reload(w) \/ forgetRead(w) \/ forgetWrite(w) \/ destroy(w)
      PROVE  StoreInv'
  BY <1>2, BootsKeep, HydrateKeeps, SettleKeeps, PersistKeeps, UpsertKeeps, WindowsKeep, ForgetKeeps
<1>3. ASSUME NEW w \in Labels, NEW r \in Roots,
             \/ claimRoots(w, r) \/ askProject(w, r) \/ addProject(w, r)
             \/ closeProjectReleased(w, r) \/ openWindow(w, r)
      PROVE  StoreInv'
  BY <1>3, BootsKeep, ProjectsKeep, WindowsKeep
<1>4. CASE restart \/ respawnList \/ respawnEnd \/ respawnFails
  BY <1>4, RestartKeeps, ListKeeps, EndKeeps
<1>5. ASSUME NEW w \in Labels \cup OldLabels, respawnSlot(w) PROVE StoreInv'
  BY <1>5, SlotKeeps DEF Slots
<1>6. QED
  BY <1>1, <1>2, <1>3, <1>4, <1>5 DEF Next

\* Who ends the respawn.
LEMMA Respawns ==
  ASSUME StoreTypeOK, [Next]_vars, main' # main, main.phase = "slots", main'.phase # "slots", main'.phase # "manifest"
  PROVE  respawnEnd \/ respawnFails
<1>1. ASSUME NEW w \in Labels,
             \/ claimInit(w) \/ hydrateSnapshot(w) \/ restoreProjects(w)
             \/ settleUnread(w) \/ persistOnce(w) \/ upsertSlot(w)
             \/ reload(w) \/ forgetRead(w) \/ forgetWrite(w) \/ destroy(w)
      PROVE  FALSE
  BY <1>1 DEF claimInit, hydrateSnapshot, restoreProjects, settleUnread, persistOnce, upsertSlot, reload,
              forgetRead, forgetWrite, destroy
<1>2. ASSUME NEW w \in Labels, NEW r \in Roots,
             \/ claimRoots(w, r) \/ askProject(w, r) \/ addProject(w, r)
             \/ closeProjectReleased(w, r) \/ openWindow(w, r)
      PROVE  FALSE
  BY <1>2 DEF claimRoots, askProject, addProject, closeProjectReleased, openWindow
<1>3. ASSUME restart \/ respawnList PROVE FALSE
  BY <1>3 DEF restart, respawnList, Quiet
<1>4. ASSUME NEW w \in Labels \cup OldLabels, respawnSlot(w) PROVE FALSE
  <2>1. \/ main' = [main EXCEPT !.todo = @ \ {w}, !.manifest = @ \ {w}, !.pruned = TRUE]
        \/ main' = [main EXCEPT !.todo = @ \ {w}]
    BY <1>4 DEF respawnSlot
  <2>2. main'.phase = main.phase
    BY <2>1 DEF StoreTypeOK
  <2>3. QED
    BY <2>2
<1>5. QED
  BY <1>1, <1>2, <1>3, <1>4 DEF Next, vars

\* The manifest never runs ahead of the snapshots: a live window that it lists has projects
\* stored, in whatever step the application ends, whoever edits the manifest meanwhile
\* (persistWindow, forgetWindowSlot, the respawn).
THEOREM TheSlotsAreStored == Spec => [](StoreTypeOK /\ SlotHasSnapshot)
<1>1. StoreInv => StoreTypeOK /\ SlotHasSnapshot
  BY DEF StoreInv, SlotsAreStored, Lists, Reopens, SlotHasSnapshot, Up
<1>2. QED
  BY <1>1, StoreStarts, StoreSteps, PTL DEF Spec

------------------------------------------------------------------------------
(* What is known. *)

\* Of what is stored for it a renderer that read it has every project, or is about to
\* restore it, or knows why it has it not.
Accounts(w) ==
  /\ win[w].phase # "claim" => win[w].left = {} /\ win[w].granted = {}
  /\ win[w].read # "unread" =>
       hydrated(w) \subseteq win[w].open \cup win[w].left \cup win[w].granted \cup win[w].dropped
KnownInv == \A w \in Labels : Accounts(w)

LEMMA KnownStarts == Init => KnownInv
BY DEF Init, KnownInv, Accounts, Down

\* What a window moves between its store and its cache it leaves as it is.
LEMMA HydrateMoves ==
  ASSUME StoreTypeOK, NEW w \in Labels, hydrate(w)
  PROVE  /\ hydrated(w)' = hydrated(w)
         /\ \A x \in Labels \ {w} : snap'[x] = snap[x] /\ cache'[x] = cache[x]
<1>1. /\ snap \in [Slots -> {Absent} \cup SUBSET Roots] /\ cache \in [Labels -> SUBSET Roots]
      /\ w \in Slots /\ Absent \notin SUBSET Roots
  BY StoreAssumption DEF StoreTypeOK, Slots
<1>2. cache' = [cache EXCEPT ![w] = {}]
  BY DEF hydrate
<1>3. CASE hydrated(w) # {}
  <2>1. snap' = [snap EXCEPT ![w] = hydrated(w)]
    BY <1>3 DEF hydrate
  <2>2. hydrated(w) # Absent
    BY <1>1 DEF hydrated
  <2>3. snap'[w] = hydrated(w)
    BY <1>1, <2>1
  <2>4. QED
    BY <1>1, <1>2, <2>1, <2>2, <2>3 DEF hydrated, Slots
<1>4. CASE hydrated(w) = {}
  <2>1. snap' = snap
    BY <1>4 DEF hydrate
  <2>2. QED
    BY <1>1, <1>2, <1>4, <2>1 DEF hydrated
<1>5. QED
  BY <1>3, <1>4

\* A step of one window.
LEMMA KnownStep ==
  ASSUME KnownInv, NEW w \in Labels, Accounts(w)',
         \A x \in Labels \ {w} : win'[x] = win[x] /\ snap'[x] = snap[x] /\ cache'[x] = cache[x]
  PROVE  KnownInv'
BY DEF KnownInv, Accounts, hydrated

\* A step that stores nothing: windows keep what they have, or start over.
LEMMA KnownRest ==
  ASSUME KnownInv, UNCHANGED <<snap, cache>>,
         \A x \in Labels : \/ /\ win'[x].phase = win[x].phase /\ win'[x].read = win[x].read
                              /\ win'[x].open = win[x].open /\ win'[x].left = win[x].left
                              /\ win'[x].granted = win[x].granted /\ win'[x].dropped = win[x].dropped
                           \/ \E init \in Roots \cup {None} : win'[x] = Fresh(init)
                           \/ win'[x] = Down \/ win'[x] = Gone
  PROVE  KnownInv'
<1> SUFFICES ASSUME NEW x \in Labels PROVE Accounts(x)'
  BY DEF KnownInv
<1>1. hydrated(x)' = hydrated(x) /\ Accounts(x)
  BY DEF hydrated, KnownInv
<1> HIDE DEF hydrated
<1>2. CASE /\ win'[x].phase = win[x].phase /\ win'[x].read = win[x].read
           /\ win'[x].open = win[x].open /\ win'[x].left = win[x].left
           /\ win'[x].granted = win[x].granted /\ win'[x].dropped = win[x].dropped
  BY <1>1, <1>2 DEF Accounts
<1>3. CASE (\E init \in Roots \cup {None} : win'[x] = Fresh(init)) \/ win'[x] = Down \/ win'[x] = Gone
  <2>1. /\ Down.read = "unread" /\ Down.left = {} /\ Down.granted = {}
        /\ Gone.read = "unread" /\ Gone.left = {} /\ Gone.granted = {}
    BY DEF Down, Gone
  <2>2. \A init : Fresh(init).read = "unread" /\ Fresh(init).left = {} /\ Fresh(init).granted = {}
    BY DEF Fresh, Down
  <2>3. win'[x].read = "unread" /\ win'[x].left = {} /\ win'[x].granted = {}
    BY <1>3, <2>1, <2>2
  <2>4. QED
    BY <2>3 DEF Accounts
<1>4. QED
  BY <1>2, <1>3

LEMMA KnownBoots ==
  ASSUME StoreInv, KnownInv, NEW w \in Labels,
         claimInit(w) \/ hydrateSnapshot(w) \/ restoreProjects(w) \/ \E r \in Roots : claimRoots(w, r)
  PROVE  KnownInv'
<1>1. win[w] \in Windows /\ win \in [Labels -> Windows] /\ StoreTypeOK /\ Accounts(w)
  BY DEF StoreInv, StoreTypeOK, KnownInv
<1>2. hydrated(w) \in SUBSET Roots
  BY <1>1, HydratedType
<1>3. ASSUME UNCHANGED <<snap, cache>> PROVE hydrated(w)' = hydrated(w)
  BY <1>3 DEF hydrated
<1> HIDE DEF hydrated
<1>4. CASE claimInit(w)
  <2>1. /\ UNCHANGED <<snap, cache>> /\ win[w].phase = "directed" /\ win'[w].phase = "hydrate"
        /\ win'[w].read = win[w].read /\ win'[w].left = win[w].left /\ win'[w].granted = win[w].granted
        /\ win'[w].dropped = win[w].dropped /\ win[w].open \subseteq win'[w].open
        /\ \A x \in Labels \ {w} : win'[x] = win[x]
    <3>1. CASE win[w].init = None
      BY <1>1, <1>4, <3>1 DEF claimInit, Windows
    <3>2. CASE win[w].init # None
      <4>1. PICK claim \in Claims(win[w].init, w) :
              win' = [win EXCEPT ![w].phase = "hydrate", ![w].init = None, ![w].loose = claim.loose,
                                 ![w].open = IF claim.granted /\ @ = {} THEN {win[w].init} ELSE @]
        BY <1>4, <3>2 DEF claimInit
      <4>2. UNCHANGED <<snap, cache>> /\ win[w].phase = "directed"
        BY <1>4 DEF claimInit
      <4>3. QED
        BY <1>1, <4>1, <4>2 DEF Windows
    <3>3. QED
      BY <3>1, <3>2
  <2>2. Accounts(w)'
    BY <1>1, <1>3, <2>1 DEF Accounts
  <2>3. QED
    BY <2>1, <2>2, KnownStep
<1>5. CASE hydrateSnapshot(w)
  <2>1. win[w].phase = "hydrate" /\ win[w].left = {} /\ win[w].granted = {}
    BY <1>1, <1>5 DEF hydrateSnapshot, Accounts
  <2>2. CASE win' = [win EXCEPT ![w].phase = "live"] /\ UNCHANGED <<snap, cache>>
    <3>1. /\ win'[w].phase = "live" /\ win'[w].read = win[w].read /\ win'[w].open = win[w].open
          /\ win'[w].left = {} /\ win'[w].granted = {} /\ win'[w].dropped = win[w].dropped
          /\ \A x \in Labels \ {w} : win'[x] = win[x]
      BY <1>1, <2>1, <2>2 DEF Windows
    <3>2. Accounts(w)'
      BY <1>1, <1>3, <2>1, <2>2, <3>1 DEF Accounts
    <3>3. QED
      BY <2>2, <3>1, <3>2, KnownStep
  <2>3. CASE /\ hydrate(w)
             /\ \E phase \in IF hydrated(w) = {} THEN {"live"} ELSE {"live", "claim"} :
                  win' = [win EXCEPT ![w].phase = phase,
                                     ![w].read = IF hydrated(w) = {} THEN "empty" ELSE "projects",
                                     ![w].left = IF phase = "claim" THEN hydrated(w) ELSE {},
                                     ![w].dropped = IF phase = "claim" THEN {} ELSE hydrated(w)]
    <3>1. PICK phase \in {"live", "claim"}, read \in {"empty", "projects"}, remain \in SUBSET Roots,
              dropped \in SUBSET Roots :
            /\ win' = [win EXCEPT ![w].phase = phase, ![w].read = read, ![w].left = remain, ![w].dropped = dropped]
            /\ hydrated(w) \subseteq remain \cup dropped /\ (phase # "claim" => remain = {})
      <4>1. PICK phase \in {"live", "claim"} :
              win' = [win EXCEPT ![w].phase = phase,
                                 ![w].read = IF hydrated(w) = {} THEN "empty" ELSE "projects",
                                 ![w].left = IF phase = "claim" THEN hydrated(w) ELSE {},
                                 ![w].dropped = IF phase = "claim" THEN {} ELSE hydrated(w)]
        BY <2>3
      <4> DEFINE read == IF hydrated(w) = {} THEN "empty" ELSE "projects"
                 remain == IF phase = "claim" THEN hydrated(w) ELSE {}
                 dropped == IF phase = "claim" THEN {} ELSE hydrated(w)
      <4>2. /\ read \in {"empty", "projects"} /\ remain \in SUBSET Roots /\ dropped \in SUBSET Roots
            /\ hydrated(w) \subseteq remain \cup dropped /\ (phase # "claim" => remain = {})
        BY <1>2
      <4>3. win' = [win EXCEPT ![w].phase = phase, ![w].read = read, ![w].left = remain, ![w].dropped = dropped]
        BY <4>1
      <4> HIDE DEF read, remain, dropped
      <4>4. QED
        BY <4>2, <4>3, Zenon
    <3>2. /\ win'[w].phase = phase /\ win'[w].open = win[w].open
          /\ win'[w].left = remain /\ win'[w].granted = {} /\ win'[w].dropped = dropped
          /\ \A x \in Labels \ {w} : win'[x] = win[x]
      BY <1>1, <2>1, <3>1 DEF Windows
    <3>3. hydrated(w)' = hydrated(w) /\ \A x \in Labels \ {w} : snap'[x] = snap[x] /\ cache'[x] = cache[x]
      BY <1>1, <2>3, HydrateMoves
    <3>4. Accounts(w)'
      BY <3>1, <3>2, <3>3 DEF Accounts
    <3>5. QED
      BY <3>2, <3>3, <3>4, KnownStep
  <2>4. QED
    BY <1>5, <2>2, <2>3 DEF hydrateSnapshot
<1>6. CASE restoreProjects(w)
  <2>1. /\ win'[w].phase = "live" /\ win'[w].read = win[w].read /\ win'[w].left = {} /\ win'[w].granted = {}
        /\ win[w].left = {}
        /\ win[w].open \cup win[w].granted \cup win[w].dropped \subseteq win'[w].open \cup win'[w].dropped
        /\ UNCHANGED <<snap, cache>> /\ \A x \in Labels \ {w} : win'[x] = win[x]
    BY <1>1, <1>6 DEF restoreProjects, Windows
  <2>2. Accounts(w)'
    BY <1>1, <1>3, <2>1 DEF Accounts
  <2>3. QED
    BY <2>1, <2>2, KnownStep
<1>7. ASSUME NEW r \in Roots, claimRoots(w, r) PROVE KnownInv'
  <2>1. PICK claim \in Claims(r, w) :
          win' = [win EXCEPT ![w].left = @ \ {r}, ![w].loose = claim.loose,
                             ![w].granted = IF claim.granted THEN @ \cup {r} ELSE @,
                             ![w].dropped = IF claim.granted THEN @ ELSE @ \cup {r}]
    BY <1>7 DEF claimRoots
  <2>2. /\ win[w].phase = "claim" /\ UNCHANGED <<snap, cache>>
    BY <1>7 DEF claimRoots
  <2>3. /\ win'[w].phase = "claim" /\ win'[w].read = win[w].read /\ win'[w].open = win[w].open
        /\ win[w].left \cup win[w].granted \cup win[w].dropped
             \subseteq win'[w].left \cup win'[w].granted \cup win'[w].dropped
        /\ \A x \in Labels \ {w} : win'[x] = win[x]
    BY <1>1, <2>1, <2>2 DEF Windows
  <2>4. Accounts(w)'
    BY <1>1, <1>3, <2>2, <2>3 DEF Accounts
  <2>5. QED
    BY <2>2, <2>3, <2>4, KnownStep
<1>8. QED
  BY <1>4, <1>5, <1>6, <1>7

LEMMA KnownProjects ==
  ASSUME StoreInv, KnownInv, NEW w \in Labels, NEW r \in Roots,
         askProject(w, r) \/ addProject(w, r) \/ closeProjectReleased(w, r)
  PROVE  KnownInv'
<1>1. win[w] \in Windows /\ win \in [Labels -> Windows] /\ StoreTypeOK /\ Accounts(w)
  BY DEF StoreInv, StoreTypeOK, KnownInv
<1>2. hydrated(w)' = hydrated(w) /\ UNCHANGED <<snap, cache>>
  BY DEF hydrated, askProject, addProject, closeProjectReleased
<1> HIDE DEF hydrated
<1>3. ASSUME win'[w].phase = win[w].phase, win'[w].read = win[w].read, win'[w].left = win[w].left,
             win'[w].granted = win[w].granted, \A x \in Labels \ {w} : win'[x] = win[x],
             (win[w].open \cup win[w].dropped) \cap hydrated(w) \subseteq win'[w].open \cup win'[w].dropped
      PROVE  KnownInv'
  <2>1. Accounts(w)'
    BY <1>1, <1>2, <1>3 DEF Accounts
  <2>2. QED
    BY <1>2, <1>3, <2>1, KnownStep
<1>4. CASE askProject(w, r)
  <2>1. PICK claim \in Claims(r, w) :
          win' = IF claim.granted THEN [win EXCEPT ![w].asked = @ \cup {r}, ![w].loose = claim.loose] ELSE win
    BY <1>4 DEF askProject
  <2>2. /\ win'[w].phase = win[w].phase /\ win'[w].read = win[w].read /\ win'[w].left = win[w].left
        /\ win'[w].granted = win[w].granted /\ win'[w].open = win[w].open /\ win'[w].dropped = win[w].dropped
        /\ \A x \in Labels \ {w} : win'[x] = win[x]
    BY <1>1, <2>1 DEF Windows
  <2>3. QED
    BY <1>3, <2>2
<1>5. CASE addProject(w, r)
  <2>1. /\ win'[w].phase = win[w].phase /\ win'[w].read = win[w].read /\ win'[w].left = win[w].left
        /\ win'[w].granted = win[w].granted /\ win'[w].open = win[w].open \cup {r}
        /\ win'[w].dropped = win[w].dropped \ {r}
        /\ \A x \in Labels \ {w} : win'[x] = win[x]
    BY <1>1, <1>5 DEF addProject, Windows
  <2>2. QED
    BY <1>3, <2>1
<1>6. CASE closeProjectReleased(w, r)
  <2>1. win' = Closed(w, r)
    BY <1>6 DEF closeProjectReleased
  <2>2. PICK loose \in SUBSET Roots, dropped \in SUBSET Roots :
          /\ win' = [win EXCEPT ![w].open = win[w].open \ {r}, ![w].asked = win[w].asked,
                                ![w].loose = loose, ![w].dropped = dropped]
          /\ win[w].loose \ {r} \subseteq loose /\ (r \in win[w].asked => r \in loose)
          /\ win[w].dropped \cup ({r} \cap hydrated(w)) \subseteq dropped
    BY <1>1, <2>1, ClosedIs
  <2>3. /\ win'[w].phase = win[w].phase /\ win'[w].read = win[w].read /\ win'[w].left = win[w].left
        /\ win'[w].granted = win[w].granted /\ win'[w].open = win[w].open \ {r}
        /\ win'[w].dropped = dropped
        /\ \A x \in Labels \ {w} : win'[x] = win[x]
    BY <1>1, <2>2 DEF Windows
  <2>4. QED
    BY <1>3, <2>2, <2>3
<1>7. QED
  BY <1>4, <1>5, <1>6

\* A save replaces what is stored by what is open.
LEMMA PersistStores ==
  ASSUME StoreInv, NEW w \in Labels, persistOnce(w)
  PROVE  /\ hydrated(w)' \in {hydrated(w), win[w].open}
         /\ \A x \in Labels \ {w} : snap'[x] = snap[x] /\ cache'[x] = cache[x] /\ win'[x] = win[x]
         /\ \/ hydrated(w)' = win[w].open
            \/ hydrated(w)' = hydrated(w) /\ win' = win
         /\ /\ win'[w].phase = "live" /\ win'[w].read = win[w].read /\ win'[w].open = win[w].open
            /\ win'[w].left = win[w].left /\ win'[w].granted = win[w].granted
         /\ win[w].phase = "live" /\ mayPersist(w)
<1>1. /\ win[w] \in Windows /\ win \in [Labels -> Windows]
      /\ snap \in [Slots -> {Absent} \cup SUBSET Roots] /\ cache \in [Labels -> SUBSET Roots]
      /\ w \in Slots /\ win[w].open # Absent
  BY StoreAssumption DEF StoreInv, StoreTypeOK, Slots, Windows
<1>2. win[w].phase = "live" /\ mayPersist(w)
  BY DEF persistOnce
<1>3. CASE /\ snap' = [snap EXCEPT ![w] = win[w].open] /\ cache' = [cache EXCEPT ![w] = {}]
           /\ win' = [win EXCEPT ![w].save = "slot", ![w].dropped = {}]
  <2>1. snap'[w] = win[w].open
    BY <1>1, <1>3
  <2>2. hydrated(w)' = win[w].open
    BY <1>1, <2>1 DEF hydrated
  <2>3. \A x \in Labels \ {w} : snap'[x] = snap[x] /\ cache'[x] = cache[x] /\ win'[x] = win[x]
    BY <1>1, <1>3 DEF Slots
  <2>4. /\ win'[w].phase = "live" /\ win'[w].read = win[w].read /\ win'[w].open = win[w].open
        /\ win'[w].left = win[w].left /\ win'[w].granted = win[w].granted
    BY <1>1, <1>2, <1>3 DEF Windows
  <2> HIDE DEF hydrated
  <2>5. QED
    BY <1>2, <2>2, <2>3, <2>4
<1>4. CASE /\ cache' = IF snap[w] = Absent THEN [cache EXCEPT ![w] = win[w].open] ELSE cache
           /\ UNCHANGED <<snap, win>>
  <2>1. hydrated(w)' = IF snap[w] = Absent THEN win[w].open ELSE hydrated(w)
    BY <1>1, <1>4 DEF hydrated
  <2>2. \A x \in Labels \ {w} : snap'[x] = snap[x] /\ cache'[x] = cache[x] /\ win'[x] = win[x]
    BY <1>1, <1>4
  <2> HIDE DEF hydrated
  <2>3. QED
    BY <1>2, <1>4, <2>1, <2>2
<1>5. QED
  BY <1>3, <1>4 DEF persistOnce

LEMMA KnownSaves ==
  ASSUME StoreInv, KnownInv, NEW w \in Labels, settleUnread(w) \/ persistOnce(w) PROVE KnownInv'
<1>1. win[w] \in Windows /\ win \in [Labels -> Windows] /\ StoreTypeOK /\ Accounts(w)
  BY DEF StoreInv, StoreTypeOK, KnownInv
<1> HIDE DEF hydrated
<1>2. CASE settleUnread(w)
  <2>1. hydrate(w) /\ win' = IF hydrated(w) = {} THEN [win EXCEPT ![w].read = "empty"] ELSE win
    BY <1>2 DEF settleUnread
  <2>2. hydrated(w)' = hydrated(w) /\ \A x \in Labels \ {w} : snap'[x] = snap[x] /\ cache'[x] = cache[x]
    BY <1>1, <2>1, HydrateMoves
  <2>3. /\ win'[w].phase = win[w].phase /\ win'[w].left = win[w].left /\ win'[w].granted = win[w].granted
        /\ win'[w].open = win[w].open /\ win'[w].dropped = win[w].dropped
        /\ win'[w].read = win[w].read \/ hydrated(w) = {}
        /\ \A x \in Labels \ {w} : win'[x] = win[x]
    BY <1>1, <2>1 DEF Windows
  <2>4. Accounts(w)'
    BY <1>1, <2>2, <2>3 DEF Accounts
  <2>5. QED
    BY <2>2, <2>3, <2>4, KnownStep
<1>3. CASE persistOnce(w)
  <2>1. /\ \A x \in Labels \ {w} : snap'[x] = snap[x] /\ cache'[x] = cache[x] /\ win'[x] = win[x]
        /\ \/ hydrated(w)' = win[w].open
           \/ hydrated(w)' = hydrated(w) /\ win' = win
        /\ win'[w].phase = "live" /\ win'[w].read = win[w].read /\ win'[w].open = win[w].open
        /\ win'[w].left = win[w].left /\ win'[w].granted = win[w].granted
        /\ win[w].phase = "live"
    BY <1>3, PersistStores
  <2>2. Accounts(w)'
    BY <1>1, <2>1 DEF Accounts
  <2>3. QED
    BY <2>1, <2>2, KnownStep
<1>4. QED
  BY <1>2, <1>3

LEMMA KnownSteps == StoreInv /\ KnownInv /\ [Next]_vars => KnownInv'
<1> SUFFICES ASSUME StoreInv, KnownInv, [Next]_vars PROVE KnownInv'
  OBVIOUS
<1>1. StoreTypeOK /\ win \in [Labels -> Windows]
  BY DEF StoreInv, StoreTypeOK
<1>2. CASE UNCHANGED vars
  BY <1>2, KnownRest DEF vars
<1>3. ASSUME NEW w \in Labels, upsertSlot(w) PROVE KnownInv'
  <2>1. win' = [win EXCEPT ![w].save = "idle"] /\ UNCHANGED <<snap, cache>>
    BY <1>3 DEF upsertSlot
  <2>2. \A x \in Labels : /\ win'[x].phase = win[x].phase /\ win'[x].read = win[x].read
                          /\ win'[x].open = win[x].open /\ win'[x].left = win[x].left
                          /\ win'[x].granted = win[x].granted /\ win'[x].dropped = win[x].dropped
    BY <1>1, <2>1 DEF Windows
  <2>3. QED
    BY <2>1, <2>2, KnownRest
<1>4. ASSUME NEW w \in Labels, forgetRead(w) \/ forgetWrite(w) PROVE KnownInv'
  BY <1>4, KnownRest DEF forgetRead, forgetWrite
<1>5. ASSUME NEW w \in Labels, reload(w) \/ \E r \in Roots : openWindow(w, r) PROVE KnownInv'
  <2>1. UNCHANGED <<snap, cache>> /\ \E init \in Roots \cup {None} : win' = [win EXCEPT ![w] = Fresh(init)]
    BY <1>5 DEF reload, openWindow
  <2>2. \A x \in Labels : win'[x] = win[x] \/ \E init \in Roots \cup {None} : win'[x] = Fresh(init)
    BY <1>1, <2>1
  <2>3. QED
    BY <2>1, <2>2, KnownRest
<1>6. ASSUME NEW w \in Labels, destroy(w) PROVE KnownInv'
  <2>1. /\ win'[w] = Gone
        /\ \A x \in Labels \ {w} : win'[x] = win[x] /\ snap'[x] = snap[x] /\ cache'[x] = cache[x]
    BY <1>1, <1>6 DEF destroy, StoreTypeOK, Slots
  <2>2. Gone.read = "unread" /\ Gone.left = {} /\ Gone.granted = {}
    BY DEF Gone, Down
  <2>3. win'[w].read = "unread" /\ win'[w].left = {} /\ win'[w].granted = {}
    BY <2>1, <2>2
  <2>4. Accounts(w)'
    BY <2>3 DEF Accounts
  <2>5. QED
    BY <2>1, <2>4, KnownStep
<1>7. CASE respawnList \/ respawnFails
  BY <1>7, KnownRest DEF respawnList, respawnFails
<1>8. CASE respawnEnd \/ \E w \in Labels \cup OldLabels : respawnSlot(w)
  <2>1. /\ UNCHANGED <<snap, cache>>
        /\ win' = win \/ \E x \in Labels, init \in Roots \cup {None} : win' = [win EXCEPT ![x] = Fresh(init)]
    <3>1. ASSUME NEW w \in Labels \cup OldLabels, respawnSlot(w)
          PROVE  /\ UNCHANGED <<snap, cache>>
                 /\ win' = win \/ (w \in Labels /\ win' = [win EXCEPT ![w] = Fresh(None)])
      BY <3>1 DEF respawnSlot
    <3>2. CASE respawnEnd
      BY <3>2 DEF respawnEnd
    <3>3. QED
      BY <1>8, <3>1, <3>2
  <2>2. \A x \in Labels : win'[x] = win[x] \/ \E init \in Roots \cup {None} : win'[x] = Fresh(init)
    BY <1>1, <2>1
  <2>3. QED
    BY <2>1, <2>2, KnownRest
<1>9. CASE restart
  <2>1. UNCHANGED <<snap, cache>> /\ \A x \in Labels : win'[x] = Gone \/ win'[x] = Down
    BY <1>9 DEF restart
  <2>2. QED
    BY <2>1, KnownRest
<1>10. QED
  BY <1>2, <1>3, <1>4, <1>5, <1>6, <1>7, <1>8, <1>9, KnownBoots, KnownProjects, KnownSaves DEF Next

\* Who changes what is stored of a window, in the store or in its cache.
LEMMA Caches ==
  ASSUME [Next]_vars, ~UNCHANGED <<snap, cache>>
  PROVE  \E x \in Labels : hydrateSnapshot(x) \/ settleUnread(x) \/ persistOnce(x) \/ destroy(x)
<1>1. ASSUME NEW w \in Labels,
             \/ claimInit(w) \/ restoreProjects(w) \/ upsertSlot(w)
             \/ reload(w) \/ forgetRead(w) \/ forgetWrite(w)
      PROVE  FALSE
  BY <1>1 DEF claimInit, restoreProjects, upsertSlot, reload, forgetRead, forgetWrite
<1>2. ASSUME NEW w \in Labels, NEW r \in Roots,
             \/ claimRoots(w, r) \/ askProject(w, r) \/ addProject(w, r)
             \/ closeProjectReleased(w, r) \/ openWindow(w, r)
      PROVE  FALSE
  BY <1>2 DEF claimRoots, askProject, addProject, closeProjectReleased, openWindow
<1>3. ASSUME restart \/ respawnList \/ respawnEnd \/ respawnFails PROVE FALSE
  BY <1>3 DEF restart, respawnList, respawnEnd, respawnFails
<1>4. ASSUME NEW w \in Labels \cup OldLabels, respawnSlot(w) PROVE FALSE
  BY <1>4 DEF respawnSlot
<1>5. QED
  BY <1>1, <1>2, <1>3, <1>4 DEF Next, vars

\* A project that is stored is missing from what is stored next only if the renderer that writes
\* closed it, was denied it or gave it up in its boot, so a snapshot that could not be read is
\* never overwritten; and the respawn takes the slot of no window that is not there and could
\* have been reopened.
THEOREM WhatIsKnownIsKept == Spec => NothingKnownIsLost
<1>1. StoreInv /\ KnownInv /\ [Next]_vars
        => [\A w \in Labels : win'[w] # Gone => hydrated(w) \ hydrated(w)' \subseteq win[w].dropped]_vars
  <2> SUFFICES ASSUME StoreInv, KnownInv, [Next]_vars, NEW w \in Labels, win'[w] # Gone
               PROVE  hydrated(w) \ hydrated(w)' \subseteq win[w].dropped
    OBVIOUS
  <2>1. ASSUME snap'[w] = snap[w], cache'[w] = cache[w] PROVE hydrated(w)' = hydrated(w)
    BY <2>1 DEF hydrated
  <2> HIDE DEF hydrated
  <2>2. CASE UNCHANGED <<snap, cache>>
    BY <2>1, <2>2
  <2>3. CASE ~UNCHANGED <<snap, cache>>
    <3>1. PICK x \in Labels : hydrateSnapshot(x) \/ settleUnread(x) \/ persistOnce(x) \/ destroy(x)
      BY <2>3, Caches
    <3>2. CASE hydrate(x)
      <4>1. /\ hydrated(x)' = hydrated(x)
            /\ \A y \in Labels \ {x} : snap'[y] = snap[y] /\ cache'[y] = cache[y]
        BY <3>2, HydrateMoves DEF StoreInv
      <4>2. QED
        BY <2>1, <4>1
    <3>3. CASE destroy(x)
      <4>1. win'[x] = Gone /\ \A y \in Labels \ {x} : snap'[y] = snap[y] /\ cache'[y] = cache[y]
        BY <3>3 DEF destroy, StoreInv, StoreTypeOK, Slots
      <4>2. QED
        BY <2>1, <4>1
    <3>4. CASE persistOnce(x)
      <4>1. /\ \A y \in Labels \ {x} : snap'[y] = snap[y] /\ cache'[y] = cache[y]
            /\ hydrated(x)' \in {hydrated(x), win[x].open}
            /\ win[x].phase = "live" /\ mayPersist(x)
        BY <3>4, PersistStores
      <4>2. hydrated(x) \subseteq win[x].open \cup win[x].dropped
        BY <4>1 DEF KnownInv, Accounts, mayPersist
      <4>3. QED
        BY <2>1, <4>1, <4>2
    <3>5. QED
      <4>1. UNCHANGED <<snap, cache>> \/ hydrate(x) \/ persistOnce(x) \/ destroy(x)
        BY <3>1 DEF hydrateSnapshot, settleUnread
      <4>2. QED
        BY <2>3, <3>2, <3>3, <3>4, <4>1
  <2>4. QED
    BY <2>2, <2>3
<1>2. StoreInv /\ [Next]_vars
        => [main.phase = "slots" /\ main' = Quiet
              => \A w \in slots \ slots' : snap[w] = {} \/ (w \in Labels /\ Up(w))]_vars
  <2> SUFFICES ASSUME StoreInv, [Next]_vars, main.phase = "slots", main' = Quiet,
                      NEW w \in slots \ slots'
               PROVE  snap[w] = {} \/ (w \in Labels /\ Up(w))
    OBVIOUS
  <2>1. main' # main
    BY DEF Quiet
  <2>2. respawnEnd \/ respawnFails
    <3>1. main'.phase = "off" /\ StoreTypeOK
      BY DEF Quiet, StoreInv
    <3>2. QED
      BY <2>1, <3>1, Respawns
  <2>3. w \notin main.manifest
    BY <2>2 DEF respawnEnd, respawnFails
  <2>4. QED
    BY <2>3 DEF StoreInv, RespawnKnows
<1>3. QED
  BY <1>1, <1>2, StoreStarts, StoreSteps, KnownStarts, KnownSteps, PTL
     DEF Spec, NothingKnownIsLost, KnownIsKept, RespawnKeepsSlots

------------------------------------------------------------------------------
(* The roots. *)

\* What a window has open, or was granted and will open, the registry gives to it, but for
\* what the window holds without its word.
OwnsIts(w) ==
  /\ \A r \in (win[w].open \cup win[w].asked) \ win[w].loose : owner[r] = w
  /\ win[w].open = {} => \A r \in win[w].granted \ win[w].loose : owner[r] = w

RootInv == \A w \in Labels : OwnsIts(w)

LEMMA RootsStart == Init => RootInv
BY DEF Init, RootInv, OwnsIts, Down

\* A step of one window takes no root from another one.
LEMMA RootStep ==
  ASSUME RootInv, NEW w \in Labels, \A x \in Labels \ {w} : win'[x] = win[x],
         \A x \in Labels \ {w} : \A r \in Roots : owner[r] = x => owner'[r] = x,
         OwnsIts(w)', StoreTypeOK
  PROVE  RootInv'
<1>1. ASSUME NEW x \in Labels \ {w} PROVE OwnsIts(x)'
  BY DEF RootInv, OwnsIts, StoreTypeOK, Windows
<1>2. QED
  BY <1>1 DEF RootInv

\* A step that touches no root leaves the windows theirs, or starts them with none.
LEMMA NoRoots ==
  ASSUME RootInv, owner' = owner,
         \A x \in Labels : \/ /\ win'[x].open = win[x].open /\ win'[x].asked = win[x].asked
                              /\ win'[x].granted = win[x].granted /\ win'[x].loose = win[x].loose
                           \/ \E r \in Roots \cup {None} : win'[x] = Fresh(r)
  PROVE  RootInv'
<1>1. ASSUME NEW x \in Labels PROVE OwnsIts(x)'
  <2>1. CASE /\ win'[x].open = win[x].open /\ win'[x].asked = win[x].asked
             /\ win'[x].granted = win[x].granted /\ win'[x].loose = win[x].loose
    BY <2>1 DEF RootInv, OwnsIts
  <2>2. ASSUME NEW r \in Roots \cup {None}, win'[x] = Fresh(r) PROVE OwnsIts(x)'
    <3>1. Fresh(r).open = {} /\ Fresh(r).asked = {} /\ Fresh(r).granted = {}
      BY DEF Fresh, Down
    <3>2. win'[x].open = {} /\ win'[x].asked = {} /\ win'[x].granted = {}
      BY <2>2, <3>1
    <3>3. QED
      BY <3>2 DEF OwnsIts
  <2>3. QED
    BY <2>1, <2>2
<1>2. QED
  BY <1>1 DEF RootInv

\* A claim leaves a window what it has, and what it is granted is its own or loose.
LEMMA ClaimKeepsRoots ==
  ASSUME StoreInv, RootInv, NEW w \in Labels, NEW r \in Roots, NEW claim \in Claims(r, w),
         owner' = claim.owner, \A x \in Labels \ {w} : win'[x] = win[x], win'[w].loose = claim.loose,
         \A s \in (win'[w].open \cup win'[w].asked) \ (win[w].open \cup win[w].asked) : s = r /\ claim.granted,
         \A s \in win'[w].granted \ win[w].granted : s = r /\ claim.granted,
         win'[w].open = {} => win[w].open = {}
  PROVE  RootInv'
<1>1. /\ \A x \in Labels : \A s \in Roots : owner[s] = x => claim.owner[s] = x
      /\ claim.granted => r \in claim.loose \/ claim.owner[r] = w
      /\ \A s \in win[w].loose \ claim.loose : claim.owner[s] = w
  BY ClaimsAre DEF StoreInv
<1>2. OwnsIts(w) /\ win[w] \in Windows /\ StoreTypeOK
  BY DEF RootInv, StoreInv, StoreTypeOK
<1>3. OwnsIts(w)'
  <2>1. ASSUME NEW s \in (win'[w].open \cup win'[w].asked) \ win'[w].loose PROVE owner'[s] = w
    <3>1. CASE s \in win[w].open \cup win[w].asked
      BY <1>1, <1>2, <2>1, <3>1 DEF OwnsIts, Windows
    <3>2. CASE s \notin win[w].open \cup win[w].asked
      BY <1>1, <2>1, <3>2
    <3>3. QED
      BY <3>1, <3>2
  <2>2. ASSUME win'[w].open = {}, NEW s \in win'[w].granted \ win'[w].loose PROVE owner'[s] = w
    <3>1. CASE s \in win[w].granted
      BY <1>1, <1>2, <2>2, <3>1 DEF OwnsIts, Windows
    <3>2. CASE s \notin win[w].granted
      BY <1>1, <2>2, <3>2
    <3>3. QED
      BY <3>1, <3>2
  <2>3. QED
    BY <2>1, <2>2 DEF OwnsIts
<1>4. QED
  BY <1>1, <1>2, <1>3, RootStep

LEMMA RootsClaimed ==
  ASSUME StoreInv, RootInv, NEW w \in Labels,
         claimInit(w) \/ \E r \in Roots : claimRoots(w, r) \/ askProject(w, r)
  PROVE  RootInv'
<1>1. win[w] \in Windows /\ win \in [Labels -> Windows]
  BY DEF StoreInv, StoreTypeOK
<1>2. CASE claimInit(w)
  <2>1. CASE win[w].init = None
    <3>1. win' = [win EXCEPT ![w].phase = "hydrate"] /\ owner' = owner
      BY <1>2, <2>1 DEF claimInit
    <3>2. \A x \in Labels : /\ win'[x].open = win[x].open /\ win'[x].asked = win[x].asked
                            /\ win'[x].granted = win[x].granted /\ win'[x].loose = win[x].loose
      BY <1>1, <3>1 DEF Windows
    <3>3. QED
      BY <3>1, <3>2, NoRoots
  <2>2. CASE win[w].init # None
    <3>1. PICK claim \in Claims(win[w].init, w) :
            /\ owner' = claim.owner
            /\ win' = [win EXCEPT ![w].phase = "hydrate", ![w].init = None, ![w].loose = claim.loose,
                                  ![w].open = IF claim.granted /\ @ = {} THEN {win[w].init} ELSE @]
      BY <1>2, <2>2 DEF claimInit
    <3>2. win[w].init \in Roots
      BY <1>1, <2>2 DEF Windows
    <3>3. /\ win'[w].loose = claim.loose /\ win'[w].asked = win[w].asked /\ win'[w].granted = win[w].granted
          /\ win'[w].open = {} => win[w].open = {}
          /\ \A s \in win'[w].open \ win[w].open : s = win[w].init /\ claim.granted
          /\ \A x \in Labels \ {w} : win'[x] = win[x]
      BY <1>1, <3>1 DEF Windows
    <3>4. QED
      BY <3>1, <3>2, <3>3, ClaimKeepsRoots
  <2>3. QED
    BY <2>1, <2>2
<1>3. ASSUME NEW r \in Roots, claimRoots(w, r) PROVE RootInv'
  <2>1. PICK claim \in Claims(r, w) :
          /\ owner' = claim.owner
          /\ win' = [win EXCEPT ![w].left = @ \ {r}, ![w].loose = claim.loose,
                                ![w].granted = IF claim.granted THEN @ \cup {r} ELSE @,
                                ![w].dropped = IF claim.granted THEN @ ELSE @ \cup {r}]
    BY <1>3 DEF claimRoots
  <2>2. /\ win'[w].loose = claim.loose /\ win'[w].asked = win[w].asked /\ win'[w].open = win[w].open
        /\ \A s \in win'[w].granted \ win[w].granted : s = r /\ claim.granted
        /\ \A x \in Labels \ {w} : win'[x] = win[x]
    BY <1>1, <2>1 DEF Windows
  <2>3. QED
    BY <2>1, <2>2, ClaimKeepsRoots
<1>4. ASSUME NEW r \in Roots, askProject(w, r) PROVE RootInv'
  <2>1. PICK claim \in Claims(r, w) :
          /\ owner' = claim.owner
          /\ win' = IF claim.granted THEN [win EXCEPT ![w].asked = @ \cup {r}, ![w].loose = claim.loose]
                    ELSE win
    BY <1>4 DEF askProject
  <2>2. CASE claim.granted
    <3>1. /\ win'[w].loose = claim.loose /\ win'[w].open = win[w].open /\ win'[w].granted = win[w].granted
          /\ \A s \in win'[w].asked \ win[w].asked : s = r
          /\ \A x \in Labels \ {w} : win'[x] = win[x]
      BY <1>1, <2>1, <2>2 DEF Windows
    <3>2. QED
      BY <2>1, <2>2, <3>1, ClaimKeepsRoots
  <2>3. CASE ~claim.granted
    <3>1. \A x \in Labels : \A s \in Roots : owner[s] = x => owner'[s] = x
      BY <2>1, ClaimsAre DEF StoreInv
    <3>2. OwnsIts(w)'
      BY <1>1, <2>1, <2>3, <3>1 DEF RootInv, OwnsIts, Windows
    <3>3. QED
      BY <2>1, <2>3, <3>1, <3>2, RootStep DEF StoreInv
  <2>4. QED
    BY <2>2, <2>3
<1>5. QED
  BY <1>2, <1>3, <1>4

LEMMA RootsMoved ==
  ASSUME StoreInv, RootInv, NEW w \in Labels,
         \/ restoreProjects(w) \/ destroy(w)
         \/ \E r \in Roots : addProject(w, r) \/ closeProjectReleased(w, r)
  PROVE  RootInv'
<1>1. win[w] \in Windows /\ win \in [Labels -> Windows] /\ StoreTypeOK /\ OwnsIts(w)
  BY DEF StoreInv, StoreTypeOK, RootInv
<1>2. CASE restoreProjects(w)
  <2>1. /\ win'[w].asked = win[w].asked /\ win'[w].granted = {} /\ owner' = owner
        /\ win'[w].loose = win[w].loose
        /\ \/ win[w].open = {} /\ win'[w].open = win[w].granted
           \/ win'[w].open = win[w].open
        /\ \A x \in Labels \ {w} : win'[x] = win[x]
    BY <1>1, <1>2 DEF restoreProjects, Windows
  <2>2. OwnsIts(w)'
    BY <1>1, <2>1 DEF OwnsIts, Windows
  <2>3. QED
    BY <1>1, <2>1, <2>2, RootStep
<1>3. CASE destroy(w)
  <2>1. win'[w] = Gone /\ owner' = Released(w) /\ \A x \in Labels \ {w} : win'[x] = win[x]
    BY <1>1, <1>3 DEF destroy
  <2>2. Gone.open = {} /\ Gone.asked = {} /\ Gone.granted = {}
    BY DEF Gone, Down
  <2>3. win'[w].open = {} /\ win'[w].asked = {} /\ win'[w].granted = {}
    BY <2>1, <2>2
  <2>4. OwnsIts(w)'
    BY <2>3 DEF OwnsIts
  <2>5. \A x \in Labels \ {w} : \A s \in Roots : owner[s] = x => owner'[s] = x
    BY <2>1 DEF Released
  <2>6. QED
    BY <1>1, <2>1, <2>4, <2>5, RootStep
<1>4. ASSUME NEW r \in Roots, addProject(w, r) PROVE RootInv'
  <2>1. /\ r \in win[w].asked /\ win'[w].asked = win[w].asked \ {r} /\ owner' = owner
        /\ win'[w].open = win[w].open \cup {r} /\ win'[w].granted = win[w].granted
        /\ win'[w].loose = win[w].loose
        /\ \A x \in Labels \ {w} : win'[x] = win[x]
    BY <1>1, <1>4 DEF addProject, Windows
  <2>2. OwnsIts(w)'
    BY <1>1, <2>1 DEF OwnsIts, Windows
  <2>3. QED
    BY <1>1, <2>1, <2>2, RootStep
<1>5. ASSUME NEW r \in Roots, closeProjectReleased(w, r) PROVE RootInv'
  <2>1. win[w].open \ {r} # {}
    <3>1. SUFFICES ASSUME win[w].open = {r} PROVE FALSE
      BY <1>5 DEF closeProjectReleased
    <3>2. Cardinality({r}) = 1
      BY FS_Singleton
    <3>3. QED
      BY <1>5, <3>1, <3>2 DEF closeProjectReleased
  <2>2. win' = Closed(w, r)
    BY <1>5 DEF closeProjectReleased
  <2>3. PICK loose \in SUBSET Roots, dropped \in SUBSET Roots :
          /\ win' = [win EXCEPT ![w].open = win[w].open \ {r}, ![w].asked = win[w].asked,
                                ![w].loose = loose, ![w].dropped = dropped]
          /\ win[w].loose \ {r} \subseteq loose /\ (r \in win[w].asked => r \in loose)
          /\ win[w].dropped \cup ({r} \cap hydrated(w)) \subseteq dropped
    <3> HIDE DEF hydrated
    <3>1. QED
      BY <1>1, <2>2, ClosedIs
  <2>4. /\ win'[w].asked = win[w].asked /\ win'[w].open = win[w].open \ {r} /\ win'[w].loose = loose
        /\ \A x \in Labels \ {w} : win'[x] = win[x]
    BY <1>1, <2>3 DEF Windows
  <2>5. owner' = owner \/ (owner[r] = w /\ owner' = [owner EXCEPT ![r] = None])
    BY <1>5 DEF closeProjectReleased
  <2>6. \A s \in Roots \ {r} : owner'[s] = owner[s]
    BY <1>1, <2>5 DEF StoreTypeOK
  <2>7. OwnsIts(w)'
    <3>1. ASSUME NEW s \in (win'[w].open \cup win'[w].asked) \ win'[w].loose PROVE owner'[s] = w
      <4>1. s # r /\ s \in Roots /\ s \in (win[w].open \cup win[w].asked) \ win[w].loose
        BY <1>1, <2>3, <2>4, <3>1 DEF Windows
      <4>2. QED
        BY <1>1, <2>6, <4>1 DEF OwnsIts
    <3>2. QED
      BY <2>1, <2>4, <3>1 DEF OwnsIts
  <2>8. \A x \in Labels \ {w} : \A s \in Roots : owner[s] = x => owner'[s] = x
    BY <2>5, <2>6
  <2>9. QED
    BY <1>1, <2>4, <2>7, <2>8, RootStep
<1>6. QED
  BY <1>2, <1>3, <1>4, <1>5

LEMMA RootSteps == StoreInv /\ RootInv /\ [Next]_vars => RootInv'
<1> SUFFICES ASSUME StoreInv, RootInv, [Next]_vars PROVE RootInv'
  OBVIOUS
<1>1. StoreTypeOK /\ win \in [Labels -> Windows]
  BY DEF StoreInv, StoreTypeOK
<1>2. CASE UNCHANGED vars
  BY <1>2 DEF vars, RootInv, OwnsIts
<1>3. ASSUME NEW w \in Labels, hydrateSnapshot(w) \/ settleUnread(w) \/ persistOnce(w) \/ upsertSlot(w)
      PROVE  RootInv'
  <2>1. owner' = owner /\ \A x \in Labels : /\ win'[x].open = win[x].open /\ win'[x].asked = win[x].asked
                                        /\ win'[x].granted = win[x].granted /\ win'[x].loose = win[x].loose
    <3>1. CASE hydrateSnapshot(w)
      <4> HIDE DEF hydrated
      <4>1. ASSUME win' = [win EXCEPT ![w].phase = "live"]
            PROVE  \A x \in Labels : /\ win'[x].open = win[x].open /\ win'[x].asked = win[x].asked
                                    /\ win'[x].granted = win[x].granted /\ win'[x].loose = win[x].loose
        BY <1>1, <4>1 DEF Windows
      <4>2. ASSUME NEW phase \in IF hydrated(w) = {} THEN {"live"} ELSE {"live", "claim"},
                   win' = [win EXCEPT ![w].phase = phase,
                                      ![w].read = IF hydrated(w) = {} THEN "empty" ELSE "projects",
                                      ![w].left = IF phase = "claim" THEN hydrated(w) ELSE {},
                                      ![w].dropped = IF phase = "claim" THEN {} ELSE hydrated(w)]
            PROVE  \A x \in Labels : /\ win'[x].open = win[x].open /\ win'[x].asked = win[x].asked
                                    /\ win'[x].granted = win[x].granted /\ win'[x].loose = win[x].loose
        <5> DEFINE read == IF hydrated(w) = {} THEN "empty" ELSE "projects"
                   remain == IF phase = "claim" THEN hydrated(w) ELSE {}
                   dropped == IF phase = "claim" THEN {} ELSE hydrated(w)
        <5>1. win' = [win EXCEPT ![w].phase = phase, ![w].read = read, ![w].left = remain, ![w].dropped = dropped]
          BY <4>2
        <5> HIDE DEF read, remain, dropped
        <5>2. QED
          BY <1>1, <5>1 DEF Windows
      <4>3. owner' = owner
        BY <3>1 DEF hydrateSnapshot
      <4>4. QED
        BY <3>1, <4>1, <4>2, <4>3 DEF hydrateSnapshot
    <3>2. CASE settleUnread(w)
      <4> HIDE DEF hydrated
      <4>1. win' = IF hydrated(w) = {} THEN [win EXCEPT ![w].read = "empty"] ELSE win
        BY <3>2 DEF settleUnread
      <4>2. QED
        BY <1>1, <3>2, <4>1 DEF settleUnread, Windows
    <3>3. CASE persistOnce(w)
      BY <1>1, <3>3 DEF persistOnce, Windows
    <3>4. CASE upsertSlot(w)
      BY <1>1, <3>4 DEF upsertSlot, Windows
    <3>5. QED
      BY <1>3, <3>1, <3>2, <3>3, <3>4
  <2>2. QED
    BY <2>1, NoRoots
<1>4. ASSUME NEW w \in Labels, forgetRead(w) \/ forgetWrite(w) PROVE RootInv'
  BY <1>4, NoRoots DEF forgetRead, forgetWrite
<1>5. ASSUME NEW w \in Labels, reload(w) \/ \E r \in Roots : openWindow(w, r) PROVE RootInv'
  <2>1. owner' = owner /\ \E r \in Roots \cup {None} : win' = [win EXCEPT ![w] = Fresh(r)]
    BY <1>5 DEF reload, openWindow
  <2>2. \A x \in Labels : win'[x] = win[x] \/ \E r \in Roots \cup {None} : win'[x] = Fresh(r)
    BY <1>1, <2>1
  <2>3. QED
    BY <2>1, <2>2, NoRoots
<1>6. CASE respawnList \/ respawnFails
  BY <1>6, NoRoots DEF respawnList, respawnFails
<1>7. CASE respawnEnd \/ \E w \in Labels \cup OldLabels : respawnSlot(w)
  <2>1. owner' = owner /\ (win' = win \/ \E x \in Labels, r \in Roots \cup {None} :
                                          win' = [win EXCEPT ![x] = Fresh(r)])
    <3>1. ASSUME NEW w \in Labels \cup OldLabels, respawnSlot(w)
          PROVE  owner' = owner /\ (win' = win \/ (w \in Labels /\ win' = [win EXCEPT ![w] = Fresh(None)]))
      BY <3>1 DEF respawnSlot
    <3>2. CASE respawnEnd
      BY <3>2 DEF respawnEnd
    <3>3. QED
      BY <1>7, <3>1, <3>2
  <2>2. \A x \in Labels : win'[x] = win[x] \/ \E r \in Roots \cup {None} : win'[x] = Fresh(r)
    BY <1>1, <2>1
  <2>3. QED
    BY <2>1, <2>2, NoRoots
<1>8. CASE restart
  <2>1. \A x \in Labels : win'[x] = Gone \/ win'[x] = Down
    BY <1>8 DEF restart
  <2>2. /\ Gone.open = {} /\ Gone.asked = {} /\ Gone.granted = {}
        /\ Down.open = {} /\ Down.asked = {} /\ Down.granted = {}
    BY DEF Gone, Down
  <2>3. \A x \in Labels : win'[x].open = {} /\ win'[x].asked = {} /\ win'[x].granted = {}
    BY <2>1, <2>2
  <2>4. QED
    BY <2>3 DEF RootInv, OwnsIts
<1>9. QED
  BY <1>2, <1>3, <1>4, <1>5, <1>6, <1>7, <1>8, RootsClaimed, RootsMoved DEF Next

\* A root is open in one window at most, the one the registry names, whatever boots, reloads,
\* closes, crashes and is reopened beside it, but for the roots a window took while the registry
\* did not answer, or closed while it was opening them (projectRegistry.ts, windowBoot.ts).
THEOREM RootsAreOwned == Spec => []RootOpenOnce
<1>1. RootInv => RootOpenOnce
  BY DEF RootInv, OwnsIts, RootOpenOnce
<1>2. QED
  BY <1>1, RootsStart, RootSteps, StoreStarts, StoreSteps, PTL DEF Spec

-----------------------------------------------------------------------------
(* The content view. *)

Spots == SlotPlaces \cup {Midway}
Frames == Anywhere \cup {NoPlace}
VisSteps == {"idle", "hiding", "showing", "alive", "restoring", "drained", "geometry"}
Marks == {"resize", "mutation", "restored"}

SurfaceState == [opened : BOOLEAN, desiredVisible : Wishes \cup {Unset},
                 appliedVisible : Wishes \cup {Unset}, precommitting : BOOLEAN,
                 precommitTarget : Frames, lastRect : Frames, requested : BOOLEAN,
                 force : BOOLEAN, draining : BOOLEAN, visibilityRequested : BOOLEAN,
                 vis : VisSteps, returning : BOOLEAN, opening : BOOLEAN, closed : BOOLEAN]
NativeChild == [exists : BOOLEAN, at : Anywhere, visible : BOOLEAN]
NativeCall == [by : {"drain", "commit", "land"}, at : Spots]
                \cup [by : {"vis"}, on : Wishes] \cup [by : {"vis"}, alive : BOOLEAN]
                \cup [by : {"open"}, for : {"client", "vis"}, ok : BOOLEAN,
                      desired : Wishes, at : Spots]
                \cup [by : {"opened-client", "opened-vis"}, on : Wishes]
                \cup [by : {"prepare"}, ok : BOOLEAN, at : SlotPlaces]
                \cup [by : {"cancel"}]
Worlds == [sf : SurfaceState, nat : NativeChild, calls : Seq(NativeCall), deaf : SUBSET Marks]
SlotType == [present : BOOLEAN, at : SlotPlaces, moving : BOOLEAN, shown : BOOLEAN]
MoveType == [pc : {"idle", "asked", "preparing", "prepared", "committing"}, glide : BOOLEAN,
             before : Frames, target : SlotPlaces \cup {NoPlace}]

-----------------------------------------------------------------------------
(* Which frame the calls under way end with. *)

\* An answer that records its frame as the last.
IsFrame(c) == c.by \in {"drain", "commit"} \/ (c.by \in {"open", "prepare"} /\ c.ok)

\* When all is answered, p is the last frame.
Settles(q, rect, p) ==
    \/ rect = p /\ \A i \in DOMAIN q : ~IsFrame(q[i])
    \/ \E i \in DOMAIN q : /\ IsFrame(q[i]) /\ q[i].at = p
                           /\ \A j \in DOMAIN q : j > i => ~IsFrame(q[j])

LEMMA FrameSettles ==
    ASSUME NEW q \in Seq(NativeCall), NEW c \in NativeCall, IsFrame(c), NEW rect
    PROVE  Settles(Append(q, c), rect, c.at)
<1> DEFINE r == Append(q, c)
<1>1. /\ r \in Seq(NativeCall) /\ Len(r) = Len(q) + 1 /\ r[Len(q) + 1] = c
      /\ DOMAIN r = 1..(Len(q) + 1) /\ Len(q) \in Nat
  OBVIOUS
<1> HIDE DEF r
<1>2. /\ Len(q) + 1 \in DOMAIN r /\ IsFrame(r[Len(q) + 1]) /\ r[Len(q) + 1].at = c.at
      /\ \A j \in DOMAIN r : ~(j > Len(q) + 1)
  BY <1>1
<1>3. Settles(r, rect, c.at)
  BY <1>2 DEF Settles
<1> QED
  BY <1>3 DEF r

LEMMA OtherSettles ==
    ASSUME NEW q \in Seq(NativeCall), NEW c \in NativeCall, ~IsFrame(c), NEW rect, NEW p,
           Settles(q, rect, p)
    PROVE  Settles(Append(q, c), rect, p)
<1> DEFINE r == Append(q, c)
<1>1. /\ r \in Seq(NativeCall) /\ Len(r) = Len(q) + 1 /\ r[Len(q) + 1] = c
      /\ DOMAIN r = 1..(Len(q) + 1) /\ Len(q) \in Nat /\ DOMAIN q = 1..Len(q)
      /\ \A i \in DOMAIN q : r[i] = q[i]
  OBVIOUS
<1> HIDE DEF r
<1>2. \A i \in DOMAIN r : i \in DOMAIN q \/ i = Len(q) + 1
  BY <1>1
<1>3. DOMAIN q \subseteq DOMAIN r
  BY <1>1
<1>4. CASE rect = p /\ \A i \in DOMAIN q : ~IsFrame(q[i])
  <2>1. \A i \in DOMAIN r : ~IsFrame(r[i])
    BY <1>4, <1>1, <1>2
  <2> QED
    BY <2>1, <1>4 DEF Settles, r
<1>5. CASE \E i \in DOMAIN q : /\ IsFrame(q[i]) /\ q[i].at = p
                               /\ \A j \in DOMAIN q : j > i => ~IsFrame(q[j])
  <2>1. PICK i \in DOMAIN q : /\ IsFrame(q[i]) /\ q[i].at = p
                              /\ \A j \in DOMAIN q : j > i => ~IsFrame(q[j])
    BY <1>5
  <2>2. \A j \in DOMAIN r : j > i => ~IsFrame(r[j])
    BY <2>1, <1>1, <1>2
  <2>3. i \in DOMAIN r /\ IsFrame(r[i]) /\ r[i].at = p
    BY <2>1, <1>1, <1>3
  <2> QED
    BY <2>2, <2>3 DEF Settles, r
<1> QED
  BY <1>4, <1>5 DEF Settles

\* An answer that is a frame sets the last frame, any other leaves it.
LEMMA AnswerSettles ==
    ASSUME NEW q \in Seq(NativeCall), q # <<>>, NEW rect, NEW p, Settles(q, rect, p)
    PROVE  Settles(Tail(q), IF IsFrame(Head(q)) THEN Head(q).at ELSE rect, p)
<1> DEFINE r == Tail(q)
           a == IF IsFrame(Head(q)) THEN Head(q).at ELSE rect
<1>1. /\ r \in Seq(NativeCall) /\ Len(q) \in Nat \ {0} /\ Len(r) = Len(q) - 1 /\ Head(q) = q[1]
      /\ DOMAIN r = 1..(Len(q) - 1) /\ DOMAIN q = 1..Len(q)
      /\ \A i \in DOMAIN r : r[i] = q[i + 1] /\ i + 1 \in DOMAIN q
  OBVIOUS
<1> HIDE DEF r
<1>2. CASE rect = p /\ \A i \in DOMAIN q : ~IsFrame(q[i])
  <2>1. \A i \in DOMAIN r : ~IsFrame(r[i])
    BY <1>2, <1>1
  <2>2. a = p
    BY <1>2, <1>1
  <2> QED
    BY <2>1, <2>2 DEF Settles, r
<1>3. CASE \E i \in DOMAIN q : /\ IsFrame(q[i]) /\ q[i].at = p
                               /\ \A j \in DOMAIN q : j > i => ~IsFrame(q[j])
  <2>1. PICK i \in DOMAIN q : /\ IsFrame(q[i]) /\ q[i].at = p
                              /\ \A j \in DOMAIN q : j > i => ~IsFrame(q[j])
    BY <1>3
  <2>2. CASE i = 1
    <3>1. \A j \in DOMAIN r : ~IsFrame(r[j])
      <4> SUFFICES ASSUME NEW j \in DOMAIN r PROVE ~IsFrame(r[j])
        OBVIOUS
      <4>1. j + 1 \in DOMAIN q /\ j + 1 > 1 /\ r[j] = q[j + 1]
        BY <1>1
      <4> QED
        BY <4>1, <2>1, <2>2
    <3>2. a = p
      BY <2>1, <2>2, <1>1
    <3> QED
      BY <3>1, <3>2 DEF Settles, r
  <2>3. CASE i # 1
    <3>1. i - 1 \in DOMAIN r /\ r[i - 1] = q[i]
      <4>1. i - 1 \in DOMAIN r
        BY <2>3, <1>1
      <4>2. r[i - 1] = q[(i - 1) + 1] /\ (i - 1) + 1 = i
        BY <4>1, <1>1
      <4> QED
        BY <4>1, <4>2
    <3>2. \A j \in DOMAIN r : j > i - 1 => ~IsFrame(r[j])
      <4> SUFFICES ASSUME NEW j \in DOMAIN r, j > i - 1 PROVE ~IsFrame(r[j])
        OBVIOUS
      <4>1. j + 1 \in DOMAIN q /\ j + 1 > i /\ r[j] = q[j + 1]
        BY <1>1
      <4> QED
        BY <4>1, <2>1
    <3> QED
      BY <3>1, <3>2, <2>1 DEF Settles, r
  <2> QED
    BY <2>2, <2>3
<1> QED
  BY <1>2, <1>3 DEF Settles

LEMMA NoFrames ==
    ASSUME NEW q \in Seq(NativeCall), \A i \in DOMAIN q : ~IsFrame(q[i]), NEW rect, NEW p
    PROVE  Settles(q, rect, p) <=> rect = p
BY DEF Settles

-----------------------------------------------------------------------------
(* Which calls can be under way together. *)

OpenCalls == {"open", "opened-client", "opened-vis"}
MoveCalls == {"prepare", "commit", "land"}
Kinds == {{"drain"}, {"vis"}, OpenCalls, MoveCalls}

NoCall(q, K) == \A i \in DOMAIN q : q[i].by \notin K
OneCall(q, K) == \A i, j \in DOMAIN q : q[i].by \in K /\ q[j].by \in K => i = j

\* One call of a kind at a time; the loop's calls come after those of a client's open,
\* and an open sent after a transaction has prepared found the surface locked.
Orderly(q, d) ==
    /\ \A K \in Kinds : OneCall(q, K)
    /\ \A i, j \in DOMAIN q : q[i].by = "vis" /\ q[j].by = "opened-client" => j < i
    /\ \A i, j \in DOMAIN q : q[i].by = "prepare" /\ q[j].by = "open" /\ i < j => "restored" \in d

\* A call under way tells where the coroutine that sent it is.
Fitting(st, n, m, c) ==
    /\ c.by = "drain" => st.draining
    /\ c.by = "vis" =>
         /\ st.vis \in {"hiding", "showing", "alive"}
         /\ st.vis = "hiding" => c = [by |-> "vis", on |-> "hidden"]
         /\ st.vis = "showing" => c = [by |-> "vis", on |-> "shown"]
         /\ st.vis = "alive" => c \in [by : {"vis"}, alive : BOOLEAN] /\ (~c.alive => ~n.exists)
    /\ c.by = "open" =>
         /\ st.opening /\ ~st.opened
         /\ ~c.ok => ~n.exists
         /\ st.vis = IF c.for = "client" THEN "idle" ELSE "restoring"
    /\ c.by \in {"opened-client", "opened-vis"} => st.opening /\ st.opened
    /\ c.by = "opened-client" =>
         /\ st.vis \in {"idle", "hiding", "alive"}
         /\ st.vis = "idle" => c.on = st.desiredVisible
    /\ c.by = "opened-vis" =>
         /\ st.vis = "restoring" /\ (c.on = st.desiredVisible \/ st.visibilityRequested)
         /\ n.exists => n.visible = (c.on = "shown")
    /\ c.by = "prepare" => m.pc = "preparing" /\ c.at = m.target
    /\ c.by \in {"commit", "land"} => m.pc = "committing"

Fits(w, m) == \A i \in DOMAIN w.calls : Fitting(w.sf, w.nat, m, w.calls[i])

LEMMA SentOne ==
    ASSUME NEW q \in Seq(NativeCall), NEW c \in NativeCall
    PROVE  LET r == Append(q, c) IN
           /\ r \in Seq(NativeCall) /\ Len(q) \in Nat /\ Len(r) = Len(q) + 1
           /\ DOMAIN q = 1..Len(q) /\ DOMAIN r = 1..(Len(q) + 1)
           /\ r[Len(q) + 1] = c /\ \A i \in DOMAIN q : r[i] = q[i]
           /\ \A i \in DOMAIN r : i \in DOMAIN q \/ i = Len(q) + 1
<1> DEFINE r == Append(q, c)
<1>1. /\ r \in Seq(NativeCall) /\ Len(r) = Len(q) + 1 /\ r[Len(q) + 1] = c
      /\ DOMAIN r = 1..(Len(q) + 1) /\ Len(q) \in Nat /\ DOMAIN q = 1..Len(q)
      /\ \A i \in DOMAIN q : r[i] = q[i]
  OBVIOUS
<1>2. \A i \in DOMAIN r : i \in DOMAIN q \/ i = Len(q) + 1
  BY <1>1
<1> QED
  BY <1>1, <1>2

LEMMA TailIs ==
    ASSUME NEW q \in Seq(NativeCall), q # <<>>
    PROVE  LET r == Tail(q) IN
           /\ r \in Seq(NativeCall) /\ Len(q) \in Nat \ {0} /\ Len(r) = Len(q) - 1
           /\ Head(q) = q[1] /\ 1 \in DOMAIN q /\ Head(q) \in NativeCall
           /\ DOMAIN q = 1..Len(q) /\ DOMAIN r = 1..(Len(q) - 1)
           /\ \A i \in DOMAIN r : r[i] = q[i + 1] /\ i + 1 \in DOMAIN q /\ i \in Nat \ {0}
OBVIOUS

LEMMA StaysOrderly ==
    ASSUME NEW q \in Seq(NativeCall), NEW c \in NativeCall, NEW d, Orderly(q, d),
           \A K \in Kinds : c.by \in K => NoCall(q, K),
           c.by = "opened-client" => NoCall(q, {"vis"}),
           c.by = "open" => "restored" \in d \/ NoCall(q, {"prepare"})
    PROVE  Orderly(Append(q, c), d)
<1> DEFINE r == Append(q, c)
<1>1. /\ r \in Seq(NativeCall) /\ Len(q) \in Nat /\ Len(r) = Len(q) + 1
      /\ DOMAIN q = 1..Len(q) /\ DOMAIN r = 1..(Len(q) + 1)
      /\ r[Len(q) + 1] = c /\ \A i \in DOMAIN q : r[i] = q[i]
      /\ \A i \in DOMAIN r : i \in DOMAIN q \/ i = Len(q) + 1
  BY SentOne
<1> HIDE DEF r
<1>2. \A K \in Kinds : OneCall(r, K)
  <2> SUFFICES ASSUME NEW K \in Kinds, NEW i \in DOMAIN r, NEW j \in DOMAIN r,
                      r[i].by \in K, r[j].by \in K
               PROVE  i = j
    BY DEF OneCall
  <2>1. CASE i \in DOMAIN q /\ j \in DOMAIN q
    BY <2>1, <1>1 DEF Orderly, OneCall
  <2>2. CASE i \in DOMAIN q /\ j = Len(q) + 1
    BY <2>2, <1>1 DEF NoCall
  <2>3. CASE j \in DOMAIN q /\ i = Len(q) + 1
    BY <2>3, <1>1 DEF NoCall
  <2> QED
    BY <2>1, <2>2, <2>3, <1>1
<1>3. \A i, j \in DOMAIN r : r[i].by = "vis" /\ r[j].by = "opened-client" => j < i
  <2> SUFFICES ASSUME NEW i \in DOMAIN r, NEW j \in DOMAIN r,
                      r[i].by = "vis", r[j].by = "opened-client"
               PROVE  j < i
    OBVIOUS
  <2>1. CASE i \in DOMAIN q /\ j \in DOMAIN q
    BY <2>1, <1>1 DEF Orderly
  <2>2. CASE i \in DOMAIN q /\ j = Len(q) + 1
    BY <2>2, <1>1 DEF NoCall
  <2>3. CASE j \in DOMAIN q /\ i = Len(q) + 1
    BY <2>3, <1>1
  <2> QED
    BY <2>1, <2>2, <2>3, <1>1
<1>4. \A i, j \in DOMAIN r : r[i].by = "prepare" /\ r[j].by = "open" /\ i < j => "restored" \in d
  <2> SUFFICES ASSUME NEW i \in DOMAIN r, NEW j \in DOMAIN r,
                      r[i].by = "prepare", r[j].by = "open", i < j
               PROVE  "restored" \in d
    OBVIOUS
  <2>1. i \in DOMAIN q
    BY <1>1
  <2>2. CASE j \in DOMAIN q
    BY <2>1, <2>2, <1>1 DEF Orderly
  <2>3. CASE j = Len(q) + 1
    BY <2>1, <2>3, <1>1 DEF NoCall
  <2> QED
    BY <2>2, <2>3, <1>1
<1> QED
  BY <1>2, <1>3, <1>4 DEF Orderly, r

LEMMA TailOrderly ==
    ASSUME NEW q \in Seq(NativeCall), q # <<>>, NEW d, Orderly(q, d)
    PROVE  /\ Orderly(Tail(q), d)
           /\ \A K \in Kinds : Head(q).by \in K => NoCall(Tail(q), K)
           /\ Head(q).by = "vis" => NoCall(Tail(q), {"opened-client"})
           /\ Head(q).by = "prepare" => "restored" \in d \/ NoCall(Tail(q), {"open"})
<1> DEFINE r == Tail(q)
<1>1. /\ r \in Seq(NativeCall) /\ Len(q) \in Nat \ {0} /\ Len(r) = Len(q) - 1
      /\ Head(q) = q[1] /\ 1 \in DOMAIN q
      /\ DOMAIN q = 1..Len(q) /\ DOMAIN r = 1..(Len(q) - 1)
      /\ \A i \in DOMAIN r : r[i] = q[i + 1] /\ i + 1 \in DOMAIN q /\ i \in Nat \ {0}
  BY TailIs
<1> HIDE DEF r
<1>2. \A K \in Kinds : OneCall(r, K)
  <2> SUFFICES ASSUME NEW K \in Kinds, NEW i \in DOMAIN r, NEW j \in DOMAIN r,
                      r[i].by \in K, r[j].by \in K
               PROVE  i = j
    BY DEF OneCall
  <2>1. i + 1 \in DOMAIN q /\ j + 1 \in DOMAIN q /\ q[i + 1].by \in K /\ q[j + 1].by \in K
    BY <1>1
  <2>2. i + 1 = j + 1
    BY <2>1 DEF Orderly, OneCall
  <2> QED
    BY <2>2, <1>1
<1>3. \A i, j \in DOMAIN r : r[i].by = "vis" /\ r[j].by = "opened-client" => j < i
  <2> SUFFICES ASSUME NEW i \in DOMAIN r, NEW j \in DOMAIN r,
                      r[i].by = "vis", r[j].by = "opened-client"
               PROVE  j < i
    OBVIOUS
  <2>1. i + 1 \in DOMAIN q /\ j + 1 \in DOMAIN q /\ q[i + 1].by = "vis" /\ q[j + 1].by = "opened-client"
    BY <1>1
  <2>2. j + 1 < i + 1
    BY <2>1 DEF Orderly
  <2> QED
    BY <2>2, <1>1
<1>4. \A i, j \in DOMAIN r : r[i].by = "prepare" /\ r[j].by = "open" /\ i < j => "restored" \in d
  <2> SUFFICES ASSUME NEW i \in DOMAIN r, NEW j \in DOMAIN r,
                      r[i].by = "prepare", r[j].by = "open", i < j
               PROVE  "restored" \in d
    OBVIOUS
  <2>1. /\ i + 1 \in DOMAIN q /\ j + 1 \in DOMAIN q /\ q[i + 1].by = "prepare" /\ q[j + 1].by = "open"
        /\ i + 1 < j + 1
    BY <1>1
  <2> QED
    BY <2>1 DEF Orderly
<1>5. \A K \in Kinds : Head(q).by \in K => NoCall(r, K)
  <2> SUFFICES ASSUME NEW K \in Kinds, q[1].by \in K, NEW i \in DOMAIN r, r[i].by \in K
               PROVE  FALSE
    BY <1>1 DEF NoCall
  <2>1. i + 1 \in DOMAIN q /\ q[i + 1].by \in K
    BY <1>1
  <2>2. i + 1 = 1
    BY <2>1, <1>1 DEF Orderly, OneCall
  <2> QED
    BY <2>2, <1>1
<1>6. Head(q).by = "vis" => NoCall(r, {"opened-client"})
  <2> SUFFICES ASSUME q[1].by = "vis", NEW i \in DOMAIN r, r[i].by = "opened-client"
               PROVE  FALSE
    BY <1>1 DEF NoCall
  <2>1. i + 1 \in DOMAIN q /\ q[i + 1].by = "opened-client"
    BY <1>1
  <2>2. i + 1 < 1
    BY <2>1, <1>1 DEF Orderly
  <2> QED
    BY <2>2, <1>1
<1>7. Head(q).by = "prepare" => "restored" \in d \/ NoCall(r, {"open"})
  <2> SUFFICES ASSUME q[1].by = "prepare", NEW i \in DOMAIN r, r[i].by = "open"
               PROVE  "restored" \in d
    BY <1>1 DEF NoCall
  <2>1. i + 1 \in DOMAIN q /\ q[i + 1].by = "open" /\ 1 < i + 1
    BY <1>1
  <2> QED
    BY <2>1, <1>1 DEF Orderly
<1> QED
  BY <1>2, <1>3, <1>4, <1>5, <1>6, <1>7 DEF Orderly, r

LEMMA OrderlyDeaf ==
    ASSUME NEW q, NEW d, NEW e, Orderly(q, d),
           ("restored" \in d => "restored" \in e) \/ NoCall(q, {"open"})
    PROVE  Orderly(q, e)
BY DEF Orderly, NoCall

\* A call that is sent fits if it does and the others still do.
LEMMA SentFits ==
    ASSUME NEW q \in Seq(NativeCall), NEW c \in NativeCall, NEW st, NEW n, NEW m,
           \A i \in DOMAIN q : Fitting(st, n, m, q[i]), Fitting(st, n, m, c)
    PROVE  \A i \in DOMAIN Append(q, c) : Fitting(st, n, m, Append(q, c)[i])
<1> DEFINE r == Append(q, c)
<1>1. /\ \A i \in DOMAIN q : r[i] = q[i]
      /\ r[Len(q) + 1] = c
      /\ \A i \in DOMAIN r : i \in DOMAIN q \/ i = Len(q) + 1
  BY SentOne
<1> HIDE DEF r
<1>2. \A i \in DOMAIN r : Fitting(st, n, m, r[i])
  <2> SUFFICES ASSUME NEW i \in DOMAIN r PROVE Fitting(st, n, m, r[i])
    OBVIOUS
  <2>1. CASE i \in DOMAIN q
    BY <2>1, <1>1
  <2>2. CASE i = Len(q) + 1
    BY <2>2, <1>1
  <2> QED
    BY <2>1, <2>2, <1>1
<1> QED
  BY <1>2 DEF r

-----------------------------------------------------------------------------
(* The invariant, of a world, a slot, a transaction and what the browser owes.  The *)
(* adapter's functions turn one world into another; the proof follows them.          *)

\* What the visibility loop knows: the wish it applies, or that it will go round again.
WishIsServed(st, n) ==
    /\ st.opened => st.desiredVisible \in Wishes
    /\ n.exists => st.opened \/ st.opening
    /\ n.visible => n.exists
    /\ st.closed => ~st.opened /\ ~st.opening
    /\ st.vis \in {"alive", "showing", "geometry", "drained"} /\ st.desiredVisible # "shown"
         => st.visibilityRequested
    /\ st.vis = "alive" => st.opened
    /\ st.vis = "restoring" => st.opening
    /\ st.vis = "hiding" => ~n.visible
    /\ st.vis = "showing" /\ n.exists => n.visible
    /\ st.vis = "idle" /\ st.opened =>
         /\ n.exists => n.visible = (st.desiredVisible = "shown")
         /\ ~st.opening => st.appliedVisible = st.desiredVisible

\* The lock of a transaction: no frame is being written when it is taken, and what was
\* committed is where the child is, or will be.
LockHolds(w, m) ==
    /\ w.sf.precommitting => ~w.sf.draining
    /\ m.pc \in {"preparing", "prepared"} =>
         w.sf.precommitting /\ w.sf.precommitTarget = m.target
    /\ m.pc = "preparing" => m.glide
    /\ m.pc = "prepared" /\ m.glide => "restored" \in w.deaf \/ NoCall(w.calls, {"open"})
    /\ /\ w.sf.precommitting /\ m.pc \notin {"preparing", "prepared"} /\ w.deaf = {}
       /\ w.sf.opened \/ ~NoCall(w.calls, {"open"})
       => Settles(w.calls, w.sf.lastRect, w.sf.precommitTarget)

\* The slot is not where it is prepared to go, until the arrangement is committed.
SlotAway(s, m) ==
    m.pc \in {"asked", "preparing", "prepared"} =>
        s.at # m.target /\ m.target \in SlotPlaces /\ m.before \in Anywhere

\* The child is where the last frame puts it, unless that frame will be written again (x).
Tracked(w, o, x) ==
    w.nat.exists /\ "resize" \notin o /\ w.deaf \cap {"resize", "restored"} = {} /\ ~x
    => Settles(w.calls, w.sf.lastRect, w.nat.at)

\* A hidden surface whose return will force a frame.
OwesForce(st) ==
    /\ ~st.opening
    /\ \/ st.appliedVisible = "hidden" /\ st.vis \in {"idle", "hiding"}
       \/ st.vis \in {"alive", "drained"} /\ st.returning

\* The last frame is the slot's, unless the slot will be looked at again (x).
Followed(w, s, x) ==
    /\ w.sf.opened /\ w.deaf = {} /\ ~w.sf.precommitting /\ s.present
    /\ w.sf.desiredVisible # "hidden" /\ ~x
    => Settles(w.calls, w.sf.lastRect, slotRect(s))

LooksAgain(st, o) ==
    \/ st.vis \in {"alive", "drained"}
    \/ st.vis # "idle" /\ st.visibilityRequested
    \/ st.vis # "geometry" /\ o # {}

\* The drain under way will look again, and write in any case.
DrainLooks(st) == st.draining /\ st.requested
DrainForces(st) == DrainLooks(st) /\ st.force

Formed(w, m) ==
    /\ w \in Worlds /\ Orderly(w.calls, w.deaf) /\ Fits(w, m)
    /\ WishIsServed(w.sf, w.nat) /\ LockHolds(w, m)

Sound(w, s, m, o) ==
    /\ Formed(w, m) /\ SlotAway(s, m)
    /\ Tracked(w, o, OwesForce(w.sf) \/ DrainForces(w.sf))
    /\ Followed(w, s, LooksAgain(w.sf, o) \/ DrainLooks(w.sf))

SurfaceInv ==
    /\ slot \in SlotType /\ mv \in MoveType /\ owed \subseteq {"resize", "observe"}
    /\ Sound(World, slot, mv, owed)

LEMMA PlacesDiffer == /\ 0 \notin SlotPlaces /\ Midway \notin SlotPlaces /\ Adrift \notin SlotPlaces
                      /\ Midway # Adrift /\ NoPlace \notin Anywhere /\ Spots \subseteq Anywhere
                      /\ Anywhere \subseteq Frames
BY PlacesAssumption DEF Midway, Adrift, NoPlace, Anywhere, Spots, Frames

LEMMA BoundsFacts ==
    ASSUME NEW w \in Worlds, NEW by \in {"drain", "commit", "land"}, NEW at \in Spots
    PROVE  LET v == webview_bounds(w, by, at)
               c == [by |-> by, at |-> at]
           IN /\ v \in Worlds /\ c \in NativeCall /\ v.sf = w.sf /\ v.calls = Append(w.calls, c)
              /\ v.nat.exists = w.nat.exists /\ v.nat.visible = w.nat.visible
              /\ v.nat.at = IF w.nat.exists THEN at ELSE w.nat.at
              /\ v.deaf = IF w.nat.exists /\ ~(w.sf.opening /\ ~w.sf.opened) THEN {} ELSE w.deaf
<1> DEFINE c == [by |-> by, at |-> at]
           u == Placed(w, at)
<1>1. c \in NativeCall
  BY DEF NativeCall
<1>2. /\ u \in Worlds /\ u.sf = w.sf /\ u.calls = w.calls
      /\ u.nat.exists = w.nat.exists /\ u.nat.visible = w.nat.visible
      /\ u.nat.at = IF w.nat.exists THEN at ELSE w.nat.at
      /\ u.deaf = IF w.nat.exists /\ ~(w.sf.opening /\ ~w.sf.opened) THEN {} ELSE w.deaf
  BY PlacesDiffer DEF Worlds, NativeChild, Placed
<1>3. webview_bounds(w, by, at) = [u EXCEPT !.calls = Append(@, c)]
  BY DEF webview_bounds, Sent
<1> HIDE DEF c, u
<1>4. /\ Append(u.calls, c) \in Seq(NativeCall)
  BY <1>1, <1>2 DEF Worlds
<1> QED
  BY <1>1, <1>2, <1>3, <1>4 DEF Worlds, c

LEMMA VisibleFacts ==
    ASSUME NEW w \in Worlds, NEW by \in {"vis", "opened-client", "opened-vis"}, NEW on \in Wishes
    PROVE  LET v == webview_visible(w, by, on)
               c == [by |-> by, on |-> on]
           IN /\ v \in Worlds /\ c \in NativeCall /\ v.sf = w.sf /\ v.calls = Append(w.calls, c)
              /\ v.nat.exists = w.nat.exists /\ v.nat.at = w.nat.at
              /\ v.nat.visible = (w.nat.exists /\ on = "shown")
              /\ v.deaf = w.deaf
<1> DEFINE c == [by |-> by, on |-> on]
           u == [w EXCEPT !.nat.visible = w.nat.exists /\ on = "shown"]
<1>1. c \in NativeCall
  BY DEF NativeCall
<1>2. /\ u \in Worlds /\ u.sf = w.sf /\ u.calls = w.calls /\ u.deaf = w.deaf
      /\ u.nat.exists = w.nat.exists /\ u.nat.at = w.nat.at
      /\ u.nat.visible = (w.nat.exists /\ on = "shown")
  BY DEF Worlds, NativeChild
<1>3. webview_visible(w, by, on) = [u EXCEPT !.calls = Append(@, c)]
  BY DEF webview_visible, Sent
<1> HIDE DEF c, u
<1>4. /\ Append(u.calls, c) \in Seq(NativeCall)
  BY <1>1, <1>2 DEF Worlds
<1> QED
  BY <1>1, <1>2, <1>3, <1>4 DEF Worlds, c

LEMMA UnheardFacts ==
    ASSUME NEW w \in Worlds, NEW force \in BOOLEAN
    PROVE  LET v == Unheard(w, force)
           IN /\ v \in Worlds /\ v.sf = w.sf /\ v.nat = w.nat /\ v.calls = w.calls
              /\ w.deaf \subseteq v.deaf
              /\ "restored" \in v.deaf => "restored" \in w.deaf
              /\ force => \/ "resize" \in v.deaf
                          \/ ~w.sf.precommitting /\ ~w.sf.opening /\ ReturnsForced(w)
              /\ w.sf.precommitting /\ mv.pc \in {"preparing", "prepared"} => v.deaf # {}
              /\ ~w.sf.precommitting /\ mv.pc = "committing" => v.deaf # {}
BY DEF Worlds, Unheard, Marks

\* What a drain leaves alone.
SameSurface(w, v) ==
    /\ \A k \in {"opened", "desiredVisible", "appliedVisible", "precommitting", "precommitTarget",
                 "lastRect", "visibilityRequested", "vis", "returning", "opening", "closed"} :
          v.sf[k] = w.sf[k]
    /\ v.nat.exists = w.nat.exists /\ v.nat.visible = w.nat.visible

LEMMA SameSurfaceMeans ==
    ASSUME NEW w, NEW v, SameSurface(w, v)
    PROVE  /\ v.sf.opened = w.sf.opened /\ v.sf.desiredVisible = w.sf.desiredVisible
           /\ v.sf.appliedVisible = w.sf.appliedVisible
           /\ v.sf.precommitting = w.sf.precommitting
           /\ v.sf.precommitTarget = w.sf.precommitTarget
           /\ v.sf.lastRect = w.sf.lastRect
           /\ v.sf.visibilityRequested = w.sf.visibilityRequested
           /\ v.sf.vis = w.sf.vis /\ v.sf.returning = w.sf.returning
           /\ v.sf.opening = w.sf.opening /\ v.sf.closed = w.sf.closed
           /\ v.nat.exists = w.nat.exists /\ v.nat.visible = w.nat.visible
           /\ WishIsServed(w.sf, w.nat) => WishIsServed(v.sf, v.nat)
           /\ OwesForce(v.sf) = OwesForce(w.sf)
           /\ \A o : LooksAgain(v.sf, o) = LooksAgain(w.sf, o)
<1>1. /\ v.sf.opened = w.sf.opened /\ v.sf.desiredVisible = w.sf.desiredVisible
      /\ v.sf.appliedVisible = w.sf.appliedVisible
      /\ v.sf.precommitting = w.sf.precommitting
      /\ v.sf.precommitTarget = w.sf.precommitTarget
      /\ v.sf.lastRect = w.sf.lastRect
      /\ v.sf.visibilityRequested = w.sf.visibilityRequested
      /\ v.sf.vis = w.sf.vis /\ v.sf.returning = w.sf.returning
      /\ v.sf.opening = w.sf.opening /\ v.sf.closed = w.sf.closed
      /\ v.nat.exists = w.nat.exists /\ v.nat.visible = w.nat.visible
  BY DEF SameSurface
<1> QED
  BY <1>1 DEF WishIsServed, OwesForce, LooksAgain

Writes(w, s) == /\ w.sf.requested /\ Following(w) /\ s.present
                /\ w.sf.force \/ slotRect(s) # w.sf.lastRect

LEMMA DrainWrites ==
    ASSUME NEW w \in Worlds, NEW s \in SlotType, Writes(w, s)
    PROVE  LET v == DrainOn(w, s)
               c == [by |-> "drain", at |-> slotRect(s)]
           IN /\ v \in Worlds /\ c \in NativeCall /\ v.calls = Append(w.calls, c)
              /\ SameSurface(w, v) /\ ~v.sf.requested /\ ~v.sf.force /\ v.sf.draining
              /\ v.nat.at = IF w.nat.exists THEN slotRect(s) ELSE w.nat.at
              /\ v.deaf = IF w.nat.exists /\ ~(w.sf.opening /\ ~w.sf.opened) THEN {} ELSE w.deaf
<1> DEFINE u == [w EXCEPT !.sf.requested = FALSE, !.sf.force = FALSE]
           t == [u EXCEPT !.sf.draining = TRUE]
           v == webview_bounds(t, "drain", slotRect(s))
<1>1. DrainOn(w, s) = v
  BY DEF DrainOn, Writes
<1>2. slotRect(s) \in Spots
  BY DEF slotRect, SlotType, Spots
<1>3. /\ t \in Worlds /\ t.calls = w.calls /\ t.deaf = w.deaf /\ t.nat = w.nat
      /\ SameSurface(w, t) /\ ~t.sf.requested /\ ~t.sf.force /\ t.sf.draining
  BY DEF Worlds, SurfaceState, SameSurface
<1> HIDE DEF t
<1>4. /\ v \in Worlds /\ [by |-> "drain", at |-> slotRect(s)] \in NativeCall /\ v.sf = t.sf
      /\ v.calls = Append(t.calls, [by |-> "drain", at |-> slotRect(s)])
      /\ v.nat.exists = t.nat.exists /\ v.nat.visible = t.nat.visible
      /\ v.nat.at = IF t.nat.exists THEN slotRect(s) ELSE t.nat.at
      /\ v.deaf = IF t.nat.exists /\ ~(t.sf.opening /\ ~t.sf.opened) THEN {} ELSE t.deaf
  BY <1>2, <1>3, BoundsFacts
<1>5. SameSurface(w, v)
  BY <1>3, <1>4 DEF SameSurface
<1>6. t.sf.opening = w.sf.opening /\ t.sf.opened = w.sf.opened
  BY <1>3, SameSurfaceMeans
<1> QED
  BY <1>1, <1>3, <1>4, <1>5, <1>6

LEMMA DrainSkips ==
    ASSUME NEW w \in Worlds, NEW s \in SlotType, ~Writes(w, s)
    PROVE  LET v == DrainOn(w, s)
           IN /\ v \in Worlds /\ v.calls = w.calls /\ v.nat = w.nat
              /\ SameSurface(w, v) /\ ~v.sf.requested /\ ~v.sf.force /\ ~v.sf.draining
              /\ w.deaf \subseteq v.deaf
              /\ "restored" \in v.deaf => "restored" \in w.deaf
              /\ w.sf.requested /\ w.sf.force
                   => \/ "resize" \in v.deaf
                      \/ ~w.sf.precommitting /\ ~w.sf.opening /\ ReturnsForced(w)
              /\ w.sf.requested /\ ~w.sf.precommitting /\ mv.pc = "committing" => v.deaf # {}
<1> DEFINE t == [w EXCEPT !.sf.requested = FALSE, !.sf.force = FALSE, !.sf.draining = FALSE]
<1>1. /\ t \in Worlds /\ t.calls = w.calls /\ t.deaf = w.deaf /\ t.nat = w.nat
      /\ SameSurface(w, t) /\ ~t.sf.requested /\ ~t.sf.force /\ ~t.sf.draining
  BY DEF Worlds, SurfaceState, SameSurface
<1>2. DrainOn(w, s) = IF w.sf.requested THEN Unheard(t, w.sf.force) ELSE t
  BY DEF DrainOn, Writes
<1> HIDE DEF t
<1>3. ReturnsForced(t) => ReturnsForced(w)
  BY <1>1, SameSurfaceMeans DEF ReturnsForced
<1>4. t.sf.opening = w.sf.opening /\ t.sf.precommitting = w.sf.precommitting
  BY <1>1, SameSurfaceMeans
<1>5. CASE w.sf.requested
  <2> DEFINE v == Unheard(t, w.sf.force)
  <2>1. w.sf.force \in BOOLEAN
    BY DEF Worlds, SurfaceState
  <2>2. /\ v \in Worlds /\ v.sf = t.sf /\ v.nat = t.nat /\ v.calls = t.calls
        /\ t.deaf \subseteq v.deaf
        /\ "restored" \in v.deaf => "restored" \in t.deaf
        /\ w.sf.force => \/ "resize" \in v.deaf
                         \/ ~t.sf.precommitting /\ ~t.sf.opening /\ ReturnsForced(t)
        /\ ~t.sf.precommitting /\ mv.pc = "committing" => v.deaf # {}
    BY <1>1, <2>1, UnheardFacts
  <2>3. SameSurface(w, v)
    BY <1>1, <2>2 DEF SameSurface
  <2> HIDE DEF v
  <2>4. DrainOn(w, s) = v
    BY <1>2, <1>5 DEF v
  <2> QED
    BY <2>2, <2>3, <2>4, <1>1, <1>3, <1>4
<1>6. CASE ~w.sf.requested
  BY <1>1, <1>2, <1>6
<1> QED
  BY <1>5, <1>6

LEMMA SameFits ==
    ASSUME NEW w, NEW v, NEW m, NEW c, SameSurface(w, v), Fitting(w.sf, w.nat, m, c),
           c.by = "drain" => v.sf.draining
    PROVE  Fitting(v.sf, v.nat, m, c)
<1>1. /\ v.sf.opened = w.sf.opened /\ v.sf.desiredVisible = w.sf.desiredVisible
      /\ v.sf.visibilityRequested = w.sf.visibilityRequested
      /\ v.sf.vis = w.sf.vis /\ v.sf.opening = w.sf.opening
      /\ v.nat.exists = w.nat.exists /\ v.nat.visible = w.nat.visible
  BY SameSurfaceMeans
<1> QED
  BY <1>1 DEF Fitting

\* No open is under way once the surface is opened, no drain if there is none, and so on.
LEMMA NotUnderWay ==
    ASSUME NEW w \in Worlds, NEW m, Fits(w, m)
    PROVE  /\ ~w.sf.draining => NoCall(w.calls, {"drain"})
           /\ w.sf.vis \notin {"hiding", "showing", "alive"} => NoCall(w.calls, {"vis"})
           /\ ~(w.sf.opening /\ ~w.sf.opened) => NoCall(w.calls, {"open"})
           /\ ~w.sf.opening => NoCall(w.calls, OpenCalls)
           /\ m.pc # "preparing" => NoCall(w.calls, {"prepare"})
           /\ m.pc # "committing" => NoCall(w.calls, {"commit", "land"})
           /\ m.pc \notin {"preparing", "committing"} => NoCall(w.calls, MoveCalls)
BY DEF Fits, Fitting, NoCall, OpenCalls, MoveCalls

\* So there is no frame under way.
LEMMA Framed ==
    ASSUME NEW q, NoCall(q, {"drain"}), NoCall(q, {"commit"}), NoCall(q, {"open"}), NoCall(q, {"prepare"})
    PROVE  \A i \in DOMAIN q : ~IsFrame(q[i])
BY DEF NoCall, IsFrame

LEMMA DrainKeeps ==
    ASSUME NEW w \in Worlds, NEW s \in SlotType, NEW m, NEW o, Formed(w, m),
           NoCall(w.calls, {"drain"})
    PROVE  LET v == DrainOn(w, s)
           IN /\ Formed(v, m) /\ SameSurface(w, v) /\ ~v.sf.requested /\ ~v.sf.force
              /\ ~v.sf.draining => v.calls = w.calls /\ v.nat = w.nat /\ w.deaf \subseteq v.deaf
              /\ \A K : "drain" \notin K /\ NoCall(w.calls, K) => NoCall(v.calls, K)
              /\ w.sf.requested /\ w.sf.force => Tracked(v, o, ReturnsForced(w) /\ ~w.sf.opening)
              /\ \A x : Tracked(w, o, x) => Tracked(v, o, x)
              /\ (m = mv \/ ~s.present) /\ (w.sf.requested \/ Followed(w, s, FALSE))
                   => Followed(v, s, FALSE)
<1> DEFINE v == DrainOn(w, s)
           c == [by |-> "drain", at |-> slotRect(s)]
<1>a. /\ w.calls \in Seq(NativeCall) /\ Orderly(w.calls, w.deaf) /\ Fits(w, m)
      /\ WishIsServed(w.sf, w.nat) /\ LockHolds(w, m) /\ w.nat.at \in Anywhere
  BY DEF Formed, Worlds, NativeChild
<1>1. CASE Writes(w, s)
  <2>1. /\ v \in Worlds /\ c \in NativeCall /\ v.calls = Append(w.calls, c)
        /\ SameSurface(w, v) /\ ~v.sf.requested /\ ~v.sf.force /\ v.sf.draining
        /\ v.nat.at = IF w.nat.exists THEN slotRect(s) ELSE w.nat.at
        /\ v.deaf = IF w.nat.exists /\ ~(w.sf.opening /\ ~w.sf.opened) THEN {} ELSE w.deaf
    BY <1>1, DrainWrites
  <2> HIDE DEF v
  <2>2. /\ v.sf.opened = w.sf.opened /\ v.sf.precommitting = w.sf.precommitting
        /\ v.sf.opening = w.sf.opening /\ v.nat.exists = w.nat.exists
        /\ WishIsServed(v.sf, v.nat)
    BY <2>1, <1>a, SameSurfaceMeans
  <2>3. w.sf.opened /\ ~w.sf.precommitting
    BY <1>1 DEF Writes, Following
  <2>4. NoCall(w.calls, {"open"})
    BY <2>3, <1>a, NotUnderWay
  <2>5. Orderly(v.calls, v.deaf)
    <3>1. \A K \in Kinds : c.by \in K => NoCall(w.calls, K)
      BY DEF Kinds, OpenCalls, MoveCalls
    <3>2. Orderly(v.calls, w.deaf)
      BY <2>1, <3>1, <1>a, StaysOrderly
    <3>3. NoCall(v.calls, {"open"})
      BY <2>1, <2>4, <1>a, SentOne DEF NoCall
    <3> QED
      BY <3>2, <3>3, OrderlyDeaf
  <2>6. Fits(v, m)
    <3>1. \A i \in DOMAIN w.calls : Fitting(v.sf, v.nat, m, w.calls[i])
      BY <2>1, <1>a, SameFits DEF Fits
    <3>2. Fitting(v.sf, v.nat, m, c)
      BY <2>1 DEF Fitting
    <3> QED
      BY <2>1, <3>1, <3>2, <1>a, SentFits DEF Fits
  <2>7. LockHolds(v, m)
    BY <2>2, <2>3, <1>a DEF LockHolds
  <2>8. \A p \in {slotRect(s)} : Settles(v.calls, v.sf.lastRect, p)
    BY <2>1, <1>a, FrameSettles DEF IsFrame
  <2>9. \A K : "drain" \notin K /\ NoCall(w.calls, K) => NoCall(v.calls, K)
    BY <2>1, <1>a, SentOne DEF NoCall
  <2>10. \A x : Tracked(v, o, x)
    BY <2>1, <2>2, <2>8 DEF Tracked
  <2>11. Followed(v, s, FALSE)
    BY <2>8 DEF Followed
  <2> QED
    BY <2>1, <2>2, <2>5, <2>6, <2>7, <2>9, <2>10, <2>11 DEF Formed, v
<1>2. CASE ~Writes(w, s)
  <2>1. /\ v \in Worlds /\ v.calls = w.calls /\ v.nat = w.nat
        /\ SameSurface(w, v) /\ ~v.sf.requested /\ ~v.sf.force /\ ~v.sf.draining
        /\ w.deaf \subseteq v.deaf
        /\ "restored" \in v.deaf => "restored" \in w.deaf
        /\ w.sf.requested /\ w.sf.force
             => \/ "resize" \in v.deaf
                \/ ~w.sf.precommitting /\ ~w.sf.opening /\ ReturnsForced(w)
        /\ w.sf.requested /\ ~w.sf.precommitting /\ mv.pc = "committing" => v.deaf # {}
    BY <1>2, DrainSkips
  <2> HIDE DEF v
  <2>2. /\ v.sf.opened = w.sf.opened /\ v.sf.precommitting = w.sf.precommitting
        /\ v.sf.precommitTarget = w.sf.precommitTarget /\ v.sf.lastRect = w.sf.lastRect
        /\ v.sf.opening = w.sf.opening /\ v.sf.desiredVisible = w.sf.desiredVisible
        /\ WishIsServed(v.sf, v.nat)
    BY <2>1, <1>a, SameSurfaceMeans
  <2>3. Orderly(v.calls, v.deaf)
    BY <2>1, <1>a, OrderlyDeaf
  <2>4. Fits(v, m)
    <3> SUFFICES ASSUME NEW i \in DOMAIN v.calls PROVE Fitting(v.sf, v.nat, m, v.calls[i])
      BY DEF Fits
    <3>1. w.calls[i].by # "drain" /\ Fitting(w.sf, w.nat, m, w.calls[i]) /\ v.calls[i] = w.calls[i]
      BY <2>1, <1>a DEF Fits, NoCall
    <3> QED
      BY <3>1, <2>1, SameFits
  <2>5. LockHolds(v, m)
    BY <2>1, <2>2, <1>a DEF LockHolds
  <2>6. w.sf.requested /\ w.sf.force => Tracked(v, o, ReturnsForced(w) /\ ~w.sf.opening)
    BY <2>1 DEF Tracked
  <2>7. \A x : Tracked(w, o, x) => Tracked(v, o, x)
    BY <2>1, <2>2 DEF Tracked
  <2>8. ASSUME m = mv \/ ~s.present, w.sf.requested \/ Followed(w, s, FALSE)
        PROVE  Followed(v, s, FALSE)
    <3>1. CASE Followed(w, s, FALSE)
      BY <3>1, <2>1, <2>2 DEF Followed
    <3>2. CASE w.sf.requested
      <4> SUFFICES ASSUME v.sf.opened, v.deaf = {}, ~v.sf.precommitting, s.present,
                          v.sf.desiredVisible # "hidden"
                   PROVE  Settles(v.calls, v.sf.lastRect, slotRect(s))
        BY DEF Followed
      <4>1. slotRect(s) = w.sf.lastRect
        BY <1>2, <3>2, <2>2 DEF Writes, Following
      <4>2. mv.pc # "committing" /\ mv.pc # "preparing"
        BY <2>1, <2>2, <2>8, <3>2, <1>a DEF LockHolds
      <4>3. \A i \in DOMAIN w.calls : ~IsFrame(w.calls[i])
        <5>1. NoCall(w.calls, {"open"}) /\ NoCall(w.calls, MoveCalls)
          BY <2>2, <2>8, <4>2, <1>a, NotUnderWay
        <5>2. NoCall(w.calls, {"commit"}) /\ NoCall(w.calls, {"prepare"})
          BY <5>1 DEF NoCall, MoveCalls
        <5> QED
          BY <5>1, <5>2, Framed
      <4> QED
        BY <4>1, <4>3, <2>1, <2>2, <1>a, NoFrames
    <3> QED
      BY <3>1, <3>2, <2>8
  <2> QED
    BY <2>1, <2>2, <2>3, <2>4, <2>5, <2>6, <2>7, <2>8 DEF Formed, v
<1> QED
  BY <1>1, <1>2

\* requestSlotSync: the slot is followed from here on, and a resize is made good, will be,
\* or is known not to be.
LEMMA SyncKeeps ==
    ASSUME NEW w \in Worlds, NEW s \in SlotType, NEW m, NEW o, NEW force \in BOOLEAN,
           Formed(w, m), m = mv \/ ~s.present
    PROVE  LET v == requestSlotSync(w, s, force)
           IN /\ Formed(v, m) /\ SameSurface(w, v)
              /\ ~v.sf.draining => v.calls = w.calls /\ v.nat = w.nat /\ w.deaf \subseteq v.deaf
              /\ v.sf.draining => w.sf.draining \/ Following(w)
              /\ \A K : "drain" \notin K /\ NoCall(w.calls, K) => NoCall(v.calls, K)
              /\ force => Tracked(v, o, (ReturnsForced(w) /\ ~w.sf.opening) \/ DrainForces(v.sf))
              /\ \A x : Tracked(w, o, x \/ DrainForces(w.sf)) => Tracked(v, o, x \/ DrainForces(v.sf))
              /\ Followed(v, s, DrainLooks(v.sf))
<1> DEFINE v == requestSlotSync(w, s, force)
           u == [w EXCEPT !.sf.requested = TRUE, !.sf.force = @ \/ force]
<1>a. /\ w.calls \in Seq(NativeCall) /\ Orderly(w.calls, w.deaf) /\ Fits(w, m)
      /\ WishIsServed(w.sf, w.nat) /\ LockHolds(w, m)
  BY DEF Formed, Worlds
<1>1. CASE ~Following(w)
  <2>1. v = Unheard(w, force)
    BY <1>1 DEF requestSlotSync
  <2>2. /\ v \in Worlds /\ v.sf = w.sf /\ v.nat = w.nat /\ v.calls = w.calls
        /\ w.deaf \subseteq v.deaf
        /\ "restored" \in v.deaf => "restored" \in w.deaf
        /\ force => \/ "resize" \in v.deaf
                    \/ ~w.sf.precommitting /\ ~w.sf.opening /\ ReturnsForced(w)
    BY <2>1, UnheardFacts
  <2> HIDE DEF v
  <2>3. Formed(v, m)
    <3>1. Orderly(v.calls, v.deaf)
      BY <2>2, <1>a, OrderlyDeaf
    <3>2. Fits(v, m) /\ WishIsServed(v.sf, v.nat)
      BY <2>2, <1>a DEF Fits
    <3>3. LockHolds(v, m)
      BY <2>2, <1>a DEF LockHolds
    <3> QED
      BY <2>2, <3>1, <3>2, <3>3 DEF Formed
  <2>4. force => Tracked(v, o, (ReturnsForced(w) /\ ~w.sf.opening) \/ DrainForces(v.sf))
    BY <2>2 DEF Tracked
  <2>5. \A x : Tracked(w, o, x \/ DrainForces(w.sf)) => Tracked(v, o, x \/ DrainForces(v.sf))
    BY <2>2 DEF Tracked
  <2>6. Followed(v, s, DrainLooks(v.sf))
    BY <2>2, <1>1 DEF Followed, Following
  <2> QED
    BY <2>2, <2>3, <2>4, <2>5, <2>6 DEF SameSurface, v
<1>b. /\ u \in Worlds /\ u.calls = w.calls /\ u.nat = w.nat /\ u.deaf = w.deaf
      /\ SameSurface(w, u) /\ u.sf.requested /\ u.sf.force = (w.sf.force \/ force)
      /\ u.sf.draining = w.sf.draining
  BY DEF Worlds, SurfaceState, SameSurface
<1>c. Formed(u, m)
  <2> HIDE DEF u
  <2>1. Fits(u, m)
    BY <1>b, <1>a, SameFits DEF Fits, Fitting
  <2>2. /\ u.sf.opened = w.sf.opened /\ u.sf.precommitting = w.sf.precommitting
        /\ u.sf.precommitTarget = w.sf.precommitTarget /\ u.sf.lastRect = w.sf.lastRect
        /\ u.sf.opening = w.sf.opening
        /\ WishIsServed(u.sf, u.nat)
    BY <1>b, <1>a, SameSurfaceMeans
  <2>3. LockHolds(u, m)
    BY <1>b, <2>2, <1>a DEF LockHolds
  <2> QED
    BY <1>b, <2>1, <2>2, <2>3, <1>a DEF Formed
<1>2. CASE Following(w) /\ w.sf.draining
  <2>1. v = u
    BY <1>2 DEF requestSlotSync
  <2> HIDE DEF u, v
  <2>2. DrainLooks(v.sf) /\ (force => DrainForces(v.sf)) /\ (DrainForces(w.sf) => DrainForces(v.sf))
    BY <1>b, <1>2, <2>1 DEF DrainLooks, DrainForces
  <2>3. v.sf.lastRect = w.sf.lastRect
    BY <1>b, <2>1, SameSurfaceMeans
  <2>4. force => Tracked(v, o, (ReturnsForced(w) /\ ~w.sf.opening) \/ DrainForces(v.sf))
    BY <2>2 DEF Tracked
  <2>5. \A x : Tracked(w, o, x \/ DrainForces(w.sf)) => Tracked(v, o, x \/ DrainForces(v.sf))
    BY <1>b, <2>1, <2>2, <2>3 DEF Tracked
  <2>6. Followed(v, s, DrainLooks(v.sf))
    BY <2>2 DEF Followed
  <2>7. v.sf.draining
    BY <1>b, <1>2, <2>1
  <2> QED
    BY <1>b, <1>c, <2>1, <2>4, <2>5, <2>6, <2>7 DEF v
<1>3. CASE Following(w) /\ ~w.sf.draining
  <2>1. v = DrainOn(u, s)
    BY <1>3 DEF requestSlotSync
  <2>2. NoCall(u.calls, {"drain"})
    BY <1>b, <1>3, <1>a, NotUnderWay
  <2> HIDE DEF u, v
  <2>3. /\ Formed(v, m) /\ SameSurface(u, v) /\ ~v.sf.requested /\ ~v.sf.force
        /\ ~v.sf.draining => v.calls = u.calls /\ v.nat = u.nat /\ u.deaf \subseteq v.deaf
        /\ \A K : "drain" \notin K /\ NoCall(u.calls, K) => NoCall(v.calls, K)
        /\ u.sf.requested /\ u.sf.force => Tracked(v, o, ReturnsForced(u) /\ ~u.sf.opening)
        /\ \A x : Tracked(u, o, x) => Tracked(v, o, x)
        /\ Followed(v, s, FALSE)
    BY <1>b, <1>c, <2>1, <2>2, DrainKeeps
  <2>4. SameSurface(w, v)
    BY <1>b, <2>3 DEF SameSurface
  <2>5. /\ u.sf.lastRect = w.sf.lastRect /\ ReturnsForced(u) = ReturnsForced(w)
        /\ u.sf.opening = w.sf.opening
    BY <1>b, SameSurfaceMeans DEF ReturnsForced
  <2>6. force => Tracked(v, o, (ReturnsForced(w) /\ ~w.sf.opening) \/ DrainForces(v.sf))
    BY <1>b, <2>3, <2>5 DEF Tracked
  <2>7. \A x : Tracked(w, o, x) => Tracked(v, o, x)
    BY <1>b, <2>3, <2>5 DEF Tracked
  <2>8. ~DrainForces(w.sf) /\ ~DrainForces(v.sf)
    BY <1>3, <2>3 DEF DrainForces, DrainLooks
  <2>9. \A x : Tracked(w, o, x \/ DrainForces(w.sf)) => Tracked(v, o, x \/ DrainForces(v.sf))
    BY <2>7, <2>8 DEF Tracked
  <2>10. Followed(v, s, DrainLooks(v.sf))
    BY <2>3 DEF Followed
  <2> QED
    BY <2>3, <2>4, <2>6, <2>9, <2>10, <1>b, <1>3 DEF v
<1> QED
  BY <1>1, <1>2, <1>3

-----------------------------------------------------------------------------
(* The visibility loop. *)

\* A call that fits whatever the loop does next.
Loose(st, n, m, c) ==
    /\ c.by \notin {"vis", "opened-vis"}
    /\ c.by = "drain" => st.draining
    /\ c.by = "open" => st.opening /\ ~st.opened /\ (~c.ok => ~n.exists) /\ c.for = "client"
    /\ c.by = "opened-client" => st.opening /\ st.opened /\ st.visibilityRequested
    /\ c.by = "prepare" => m.pc = "preparing" /\ c.at = m.target
    /\ c.by \in {"commit", "land"} => m.pc = "committing"

\* The head of the loop: the wish is served, or there is another round.
AtHead(w, m) ==
    /\ w \in Worlds /\ Orderly(w.calls, w.deaf) /\ LockHolds(w, m)
    /\ \A i \in DOMAIN w.calls : Loose(w.sf, w.nat, m, w.calls[i])
    /\ w.sf.opened => w.sf.desiredVisible \in Wishes
    /\ w.nat.exists => w.sf.opened \/ w.sf.opening
    /\ w.nat.visible => w.nat.exists
    /\ w.sf.closed => ~w.sf.opened /\ ~w.sf.opening
    /\ w.sf.opened /\ ~w.sf.visibilityRequested =>
         /\ w.nat.exists => w.nat.visible = (w.sf.desiredVisible = "shown")
         /\ ~w.sf.opening => w.sf.appliedVisible = w.sf.desiredVisible

Hidden(st) == st.appliedVisible = "hidden" /\ ~st.opening

LEMMA LoopKeeps ==
    ASSUME NEW w, NEW s, NEW m, NEW o, AtHead(w, m)
    PROVE  LET v == VisLoop(w)
           IN /\ Formed(v, m) /\ v.sf.vis \in {"idle", "hiding", "alive"}
              /\ Tracked(w, o, Hidden(w.sf) \/ DrainForces(w.sf))
                   => Tracked(v, o, OwesForce(v.sf) \/ DrainForces(v.sf))
              /\ Followed(w, s, w.sf.visibilityRequested \/ o # {} \/ DrainLooks(w.sf))
                   => Followed(v, s, LooksAgain(v.sf, o) \/ DrainLooks(v.sf))
<1> DEFINE v == VisLoop(w)
           t == [w EXCEPT !.sf.visibilityRequested = FALSE]
<1>a. /\ w \in Worlds /\ w.calls \in Seq(NativeCall) /\ Orderly(w.calls, w.deaf) /\ LockHolds(w, m)
      /\ \A i \in DOMAIN w.calls : Loose(w.sf, w.nat, m, w.calls[i])
  BY DEF AtHead, Worlds
<1>1. CASE ~w.sf.visibilityRequested \/ ~w.sf.opened \/ w.sf.desiredVisible = Unset
  <2>1. v = [t EXCEPT !.sf.vis = "idle"]
    BY <1>1 DEF VisLoop
  <2>2. /\ v \in Worlds /\ v.calls = w.calls /\ v.nat = w.nat /\ v.deaf = w.deaf
        /\ v.sf = [w.sf EXCEPT !.visibilityRequested = FALSE, !.vis = "idle"]
    <3> DEFINE r == [w.sf EXCEPT !.visibilityRequested = FALSE, !.vis = "idle"]
    <3>1. r \in SurfaceState
      BY <1>a DEF Worlds, SurfaceState, VisSteps
    <3>2. v = [w EXCEPT !.sf = r]
      BY <2>1, <1>a DEF Worlds, SurfaceState
    <3> QED
      BY <3>1, <3>2, <1>a DEF Worlds
  <2>3. /\ v.sf.opened = w.sf.opened /\ v.sf.opening = w.sf.opening
        /\ v.sf.desiredVisible = w.sf.desiredVisible /\ v.sf.appliedVisible = w.sf.appliedVisible
        /\ v.sf.precommitting = w.sf.precommitting /\ v.sf.precommitTarget = w.sf.precommitTarget
        /\ v.sf.lastRect = w.sf.lastRect /\ v.sf.draining = w.sf.draining
        /\ v.sf.requested = w.sf.requested /\ v.sf.force = w.sf.force
        /\ v.sf.closed = w.sf.closed /\ v.sf.vis = "idle" /\ ~v.sf.visibilityRequested
    BY <2>2, <1>a DEF Worlds, SurfaceState
  <2> HIDE DEF v, t
  <2>4. w.sf.opened => ~w.sf.visibilityRequested
    BY <1>1 DEF AtHead, Wishes, Unset
  <2>5. Fits(v, m)
    BY <2>2, <2>3, <2>4, <1>a DEF Fits, Fitting, Loose
  <2>6. WishIsServed(v.sf, v.nat)
    BY <2>2, <2>3, <2>4 DEF WishIsServed, AtHead
  <2>7. LockHolds(v, m)
    BY <2>2, <2>3, <1>a DEF LockHolds
  <2>8. w.sf.opened \/ w.sf.opening => OwesForce(v.sf) = Hidden(w.sf)
    BY <2>3, <2>4 DEF OwesForce, Hidden
  <2>9. DrainForces(v.sf) = DrainForces(w.sf) /\ DrainLooks(v.sf) = DrainLooks(w.sf)
    BY <2>3 DEF DrainForces, DrainLooks
  <2>10. Tracked(w, o, Hidden(w.sf) \/ DrainForces(w.sf))
           => Tracked(v, o, OwesForce(v.sf) \/ DrainForces(v.sf))
    BY <2>2, <2>3, <2>8, <2>9 DEF Tracked, AtHead
  <2>11. Followed(w, s, w.sf.visibilityRequested \/ o # {} \/ DrainLooks(w.sf))
           => Followed(v, s, LooksAgain(v.sf, o) \/ DrainLooks(v.sf))
    BY <2>2, <2>3, <2>4, <2>9 DEF Followed, LooksAgain
  <2> QED
    BY <2>2, <2>3, <2>5, <2>6, <2>7, <2>10, <2>11, <1>a DEF Formed, v
<1>2. CASE w.sf.visibilityRequested /\ w.sf.opened /\ w.sf.desiredVisible = "hidden"
  <2> DEFINE u == [t EXCEPT !.sf.vis = "hiding"]
             c == [by |-> "vis", on |-> "hidden"]
  <2>1. v = webview_visible(u, "vis", "hidden")
    BY <1>2 DEF VisLoop, Unset
  <2>2. /\ u \in Worlds /\ u.calls = w.calls /\ u.nat = w.nat /\ u.deaf = w.deaf
        /\ u.sf = [w.sf EXCEPT !.visibilityRequested = FALSE, !.vis = "hiding"]
    BY <1>a DEF Worlds, SurfaceState, VisSteps
  <2> HIDE DEF u, v, t
  <2>3. /\ v \in Worlds /\ c \in NativeCall /\ v.sf = u.sf /\ v.calls = Append(w.calls, c)
        /\ v.nat.exists = w.nat.exists /\ v.nat.at = w.nat.at /\ ~v.nat.visible
        /\ v.deaf = w.deaf
    <3>1. "hidden" \in Wishes /\ "vis" \in {"vis", "opened-client", "opened-vis"}
      BY DEF Wishes
    <3>2. /\ v \in Worlds /\ c \in NativeCall /\ v.sf = u.sf /\ v.calls = Append(u.calls, c)
          /\ v.nat.exists = u.nat.exists /\ v.nat.at = u.nat.at
          /\ v.nat.visible = (u.nat.exists /\ "hidden" = "shown")
          /\ v.deaf = u.deaf
      BY <2>1, <2>2, <3>1, VisibleFacts
    <3> QED
      BY <2>2, <3>2
  <2>4. /\ v.sf.opened = w.sf.opened /\ v.sf.opening = w.sf.opening
        /\ v.sf.desiredVisible = w.sf.desiredVisible /\ v.sf.appliedVisible = w.sf.appliedVisible
        /\ v.sf.precommitting = w.sf.precommitting /\ v.sf.precommitTarget = w.sf.precommitTarget
        /\ v.sf.lastRect = w.sf.lastRect /\ v.sf.draining = w.sf.draining
        /\ v.sf.requested = w.sf.requested /\ v.sf.force = w.sf.force
        /\ v.sf.closed = w.sf.closed /\ v.sf.vis = "hiding" /\ ~v.sf.visibilityRequested
    BY <2>2, <2>3, <1>a DEF Worlds, SurfaceState
  <2>5. Orderly(v.calls, v.deaf)
    <3>1. \A K \in Kinds : c.by \in K => NoCall(w.calls, K)
      BY <1>a DEF Kinds, OpenCalls, MoveCalls, NoCall, Loose
    <3> QED
      BY <3>1, <2>3, <1>a, StaysOrderly
  <2>6. Fits(v, m)
    <3>1. \A i \in DOMAIN w.calls : Fitting(v.sf, v.nat, m, w.calls[i])
      BY <2>3, <2>4, <1>2, <1>a DEF Fitting, Loose
    <3>2. Fitting(v.sf, v.nat, m, c)
      BY <2>4 DEF Fitting
    <3> QED
      BY <2>3, <3>1, <3>2, <1>a, SentFits DEF Fits
  <2>7. WishIsServed(v.sf, v.nat)
    BY <2>3, <2>4, <1>2 DEF WishIsServed, AtHead, Wishes
  <2>8. ~IsFrame(c)
    BY DEF IsFrame
  <2>9. \A p : Settles(w.calls, w.sf.lastRect, p) => Settles(v.calls, v.sf.lastRect, p)
    BY <2>3, <2>4, <2>8, <1>a, OtherSettles
  <2>10. NoCall(w.calls, {"open"}) => NoCall(v.calls, {"open"})
    BY <2>3, <1>a, SentOne DEF NoCall
  <2>11. LockHolds(v, m)
    BY <2>3, <2>4, <2>9, <2>10, <1>a DEF LockHolds
  <2>12. Tracked(w, o, Hidden(w.sf) \/ DrainForces(w.sf))
           => Tracked(v, o, OwesForce(v.sf) \/ DrainForces(v.sf))
    BY <2>3, <2>4, <2>9 DEF Tracked, Hidden, OwesForce, DrainForces, DrainLooks
  <2>13. Followed(v, s, LooksAgain(v.sf, o) \/ DrainLooks(v.sf))
    BY <2>4, <1>2 DEF Followed
  <2> QED
    BY <2>3, <2>4, <2>5, <2>6, <2>7, <2>11, <2>12, <2>13 DEF Formed, v
<1>3. CASE /\ w.sf.visibilityRequested /\ w.sf.opened
           /\ w.sf.desiredVisible # Unset /\ w.sf.desiredVisible # "hidden"
  <2> DEFINE u == [t EXCEPT !.sf.vis = "alive", !.sf.returning = w.sf.appliedVisible = "hidden"]
             c == [by |-> "vis", alive |-> t.nat.exists]
  <2>1. v = [u EXCEPT !.calls = Append(@, c)]
    BY <1>3 DEF VisLoop, Sent
  <2>2. /\ u \in Worlds /\ u.calls = w.calls /\ u.nat = w.nat /\ u.deaf = w.deaf
        /\ u.sf = [w.sf EXCEPT !.visibilityRequested = FALSE, !.vis = "alive",
                               !.returning = w.sf.appliedVisible = "hidden"]
        /\ c = [by |-> "vis", alive |-> w.nat.exists]
    BY <1>a DEF Worlds, SurfaceState, VisSteps
  <2>3. c \in NativeCall
    BY <2>2, <1>a DEF Worlds, NativeChild, NativeCall
  <2> HIDE DEF u, t, c
  <2>4. /\ v \in Worlds /\ v.sf = u.sf /\ v.calls = Append(w.calls, c)
        /\ v.nat = w.nat /\ v.deaf = w.deaf
    <3>1. Append(u.calls, c) \in Seq(NativeCall)
      BY <2>2, <2>3, <1>a
    <3> QED
      BY <2>1, <2>2, <3>1 DEF Worlds
  <2> HIDE DEF v
  <2>5. /\ v.sf.opened = w.sf.opened /\ v.sf.opening = w.sf.opening
        /\ v.sf.desiredVisible = w.sf.desiredVisible /\ v.sf.appliedVisible = w.sf.appliedVisible
        /\ v.sf.precommitting = w.sf.precommitting /\ v.sf.precommitTarget = w.sf.precommitTarget
        /\ v.sf.lastRect = w.sf.lastRect /\ v.sf.draining = w.sf.draining
        /\ v.sf.requested = w.sf.requested /\ v.sf.force = w.sf.force
        /\ v.sf.closed = w.sf.closed /\ v.sf.vis = "alive" /\ ~v.sf.visibilityRequested
        /\ v.sf.returning = (w.sf.appliedVisible = "hidden")
    BY <2>2, <2>4, <1>a DEF Worlds, SurfaceState
  <2>6. Orderly(v.calls, v.deaf)
    <3>1. \A K \in Kinds : c.by \in K => NoCall(w.calls, K)
      BY <2>2, <1>a DEF Kinds, OpenCalls, MoveCalls, NoCall, Loose
    <3> QED
      BY <3>1, <2>2, <2>3, <2>4, <1>a, StaysOrderly
  <2>7. Fits(v, m)
    <3>1. \A i \in DOMAIN w.calls : Fitting(v.sf, v.nat, m, w.calls[i])
      BY <2>4, <2>5, <1>3, <1>a DEF Fitting, Loose
    <3>2. Fitting(v.sf, v.nat, m, c)
      BY <2>2, <2>4, <2>5, <1>a DEF Fitting, Worlds, NativeChild
    <3> QED
      BY <2>3, <2>4, <3>1, <3>2, <1>a, SentFits DEF Fits
  <2>8. w.sf.desiredVisible = "shown"
    BY <1>3 DEF AtHead, Wishes
  <2>9. WishIsServed(v.sf, v.nat)
    BY <2>4, <2>5, <2>8, <1>3 DEF WishIsServed, AtHead
  <2>10. ~IsFrame(c)
    BY <2>2 DEF IsFrame
  <2>11. \A p : Settles(w.calls, w.sf.lastRect, p) => Settles(v.calls, v.sf.lastRect, p)
    BY <2>3, <2>4, <2>5, <2>10, <1>a, OtherSettles
  <2>12. NoCall(w.calls, {"open"}) => NoCall(v.calls, {"open"})
    BY <2>2, <2>3, <2>4, <1>a, SentOne DEF NoCall
  <2>13. LockHolds(v, m)
    BY <2>4, <2>5, <2>11, <2>12, <1>a DEF LockHolds
  <2>14. Tracked(w, o, Hidden(w.sf) \/ DrainForces(w.sf))
           => Tracked(v, o, OwesForce(v.sf) \/ DrainForces(v.sf))
    BY <2>4, <2>5, <2>11 DEF Tracked, Hidden, OwesForce, DrainForces, DrainLooks
  <2>15. Followed(v, s, LooksAgain(v.sf, o) \/ DrainLooks(v.sf))
    BY <2>5 DEF Followed, LooksAgain
  <2> QED
    BY <2>4, <2>5, <2>6, <2>7, <2>9, <2>13, <2>14, <2>15 DEF Formed, v
<1> QED
  BY <1>1, <1>2, <1>3

\* Nothing under way belongs to the loop: what is left fits whatever it does next.
LEMMA NowLoose ==
    ASSUME NEW w \in Worlds, NEW m, Fits(w, m),
           NoCall(w.calls, {"vis", "opened-vis", "opened-client"}),
           w.sf.vis # "restoring"
    PROVE  \A i \in DOMAIN w.calls : Loose(w.sf, w.nat, m, w.calls[i])
<1> SUFFICES ASSUME NEW i \in DOMAIN w.calls PROVE Loose(w.sf, w.nat, m, w.calls[i])
  OBVIOUS
<1>1. Fitting(w.sf, w.nat, m, w.calls[i])
  BY DEF Fits
<1>2. w.calls[i] \in NativeCall
  BY DEF Worlds
<1>3. w.calls[i].by \notin {"vis", "opened-vis", "opened-client"}
  BY DEF NoCall
<1>4. w.calls[i].by = "open" => w.calls[i].for = "client"
  BY <1>1, <1>2 DEF Fitting, NativeCall
<1> QED
  BY <1>1, <1>3, <1>4 DEF Fitting, Loose

LEMMA ShowKeeps ==
    ASSUME NEW w, NEW s, NEW m, NEW o, Formed(w, m), w.sf.vis \in {"alive", "drained", "geometry"},
           NoCall(w.calls, {"vis", "opened-client"}),
           Tracked(w, o, (w.sf.desiredVisible # "shown" /\ Hidden(w.sf)) \/ DrainForces(w.sf)),
           Followed(w, s, w.sf.visibilityRequested \/ o # {} \/ DrainLooks(w.sf))
    PROVE  LET v == ShowOrYield(w)
           IN /\ Formed(v, m)
              /\ Tracked(v, o, OwesForce(v.sf) \/ DrainForces(v.sf))
              /\ Followed(v, s, LooksAgain(v.sf, o) \/ DrainLooks(v.sf))
<1> DEFINE v == ShowOrYield(w)
<1>a. /\ w \in Worlds /\ w.calls \in Seq(NativeCall) /\ Orderly(w.calls, w.deaf) /\ LockHolds(w, m)
      /\ Fits(w, m) /\ WishIsServed(w.sf, w.nat)
  BY DEF Formed, Worlds
<1>b. NoCall(w.calls, {"vis", "opened-vis", "opened-client"})
  <2>1. NoCall(w.calls, {"opened-vis"})
    BY <1>a DEF Fits, Fitting, NoCall
  <2> QED
    BY <2>1 DEF NoCall
<1>1. CASE w.sf.desiredVisible = "shown"
  <2> DEFINE u == [w EXCEPT !.sf.vis = "showing"]
             c == [by |-> "vis", on |-> "shown"]
  <2>1. v = webview_visible(u, "vis", "shown")
    BY <1>1 DEF ShowOrYield
  <2>2. /\ u \in Worlds /\ u.calls = w.calls /\ u.nat = w.nat /\ u.deaf = w.deaf
        /\ u.sf = [w.sf EXCEPT !.vis = "showing"]
    BY <1>a DEF Worlds, SurfaceState, VisSteps
  <2> HIDE DEF u, v
  <2>3. /\ v \in Worlds /\ c \in NativeCall /\ v.sf = u.sf /\ v.calls = Append(w.calls, c)
        /\ v.nat.exists = w.nat.exists /\ v.nat.at = w.nat.at /\ v.nat.visible = w.nat.exists
        /\ v.deaf = w.deaf
    <3>1. "shown" \in Wishes /\ "vis" \in {"vis", "opened-client", "opened-vis"}
      BY DEF Wishes
    <3>2. /\ v \in Worlds /\ c \in NativeCall /\ v.sf = u.sf /\ v.calls = Append(u.calls, c)
          /\ v.nat.exists = u.nat.exists /\ v.nat.at = u.nat.at
          /\ v.nat.visible = (u.nat.exists /\ "shown" = "shown")
          /\ v.deaf = u.deaf
      BY <2>1, <2>2, <3>1, VisibleFacts
    <3>3. w.nat.exists \in BOOLEAN
      BY <1>a DEF Worlds, NativeChild
    <3> QED
      BY <2>2, <3>2, <3>3
  <2>4. /\ v.sf.opened = w.sf.opened /\ v.sf.opening = w.sf.opening
        /\ v.sf.desiredVisible = w.sf.desiredVisible /\ v.sf.appliedVisible = w.sf.appliedVisible
        /\ v.sf.precommitting = w.sf.precommitting /\ v.sf.precommitTarget = w.sf.precommitTarget
        /\ v.sf.lastRect = w.sf.lastRect /\ v.sf.draining = w.sf.draining
        /\ v.sf.requested = w.sf.requested /\ v.sf.force = w.sf.force
        /\ v.sf.closed = w.sf.closed /\ v.sf.vis = "showing"
        /\ v.sf.visibilityRequested = w.sf.visibilityRequested
    BY <2>2, <2>3, <1>a DEF Worlds, SurfaceState
  <2>5. Orderly(v.calls, v.deaf)
    <3>1. \A K \in Kinds : c.by \in K => NoCall(w.calls, K)
      BY <1>b DEF Kinds, OpenCalls, MoveCalls, NoCall
    <3> QED
      BY <3>1, <2>3, <1>a, StaysOrderly
  <2>6. Fits(v, m)
    <3>1. \A i \in DOMAIN w.calls : Fitting(v.sf, v.nat, m, w.calls[i])
      <4> SUFFICES ASSUME NEW i \in DOMAIN w.calls
                   PROVE  Fitting(v.sf, v.nat, m, w.calls[i])
        OBVIOUS
      <4>1. Fitting(w.sf, w.nat, m, w.calls[i])
        BY <1>a DEF Fits
      <4>2. w.calls[i].by \notin {"vis", "opened-vis", "opened-client"}
        BY <1>b DEF NoCall
      <4>3. w.calls[i].by # "open"
        <5>1. w.calls[i] \in NativeCall
          BY <1>a
        <5> QED
          BY <4>1, <5>1 DEF Fitting, NativeCall
      <4> QED
        BY <2>3, <2>4, <4>1, <4>2, <4>3 DEF Fitting
    <3>2. Fitting(v.sf, v.nat, m, c)
      BY <2>4 DEF Fitting
    <3> QED
      BY <2>3, <3>1, <3>2, <1>a, SentFits DEF Fits
  <2>7. WishIsServed(v.sf, v.nat)
    BY <2>3, <2>4, <1>1, <1>a DEF WishIsServed
  <2>8. ~IsFrame(c)
    BY DEF IsFrame
  <2>9. \A p : Settles(w.calls, w.sf.lastRect, p) => Settles(v.calls, v.sf.lastRect, p)
    BY <2>3, <2>4, <2>8, <1>a, OtherSettles
  <2>10. NoCall(w.calls, {"open"}) => NoCall(v.calls, {"open"})
    BY <2>3, <1>a, SentOne DEF NoCall
  <2>11. LockHolds(v, m)
    BY <2>3, <2>4, <2>9, <2>10, <1>a DEF LockHolds
  <2>12. Tracked(v, o, OwesForce(v.sf) \/ DrainForces(v.sf))
    BY <2>3, <2>4, <2>9, <1>1 DEF Tracked, DrainForces, DrainLooks
  <2>13. Followed(v, s, LooksAgain(v.sf, o) \/ DrainLooks(v.sf))
    BY <2>3, <2>4, <2>9 DEF Followed, LooksAgain, DrainLooks
  <2> QED
    BY <2>3, <2>5, <2>6, <2>7, <2>11, <2>12, <2>13 DEF Formed, v
<1>2. CASE w.sf.desiredVisible # "shown"
  <2>1. v = VisLoop(w)
    BY <1>2 DEF ShowOrYield
  <2>2. w.sf.visibilityRequested
    BY <1>2, <1>a DEF WishIsServed
  <2>3. AtHead(w, m)
    BY <2>2, <1>a, <1>b, NowLoose DEF AtHead, WishIsServed
  <2>4. Tracked(w, o, Hidden(w.sf) \/ DrainForces(w.sf))
    BY <1>2 DEF Tracked
  <2> QED
    BY <2>1, <2>3, <2>4, LoopKeeps
<1> QED
  BY <1>1, <1>2

LEMMA SettleKeepsShow ==
    ASSUME NEW w, NEW s \in SlotType, NEW m, NEW o, Formed(w, m), m = mv \/ ~s.present,
           w.sf.vis \in {"alive", "drained"}, ~w.sf.draining,
           NoCall(w.calls, {"vis", "opened-client"}),
           Tracked(w, o, OwesForce(w.sf) \/ DrainForces(w.sf))
    PROVE  LET v == SettleThenShow(w, s)
           IN /\ Formed(v, m)
              /\ Tracked(v, o, OwesForce(v.sf) \/ DrainForces(v.sf))
              /\ Followed(v, s, LooksAgain(v.sf, o) \/ DrainLooks(v.sf))
<1> DEFINE u == requestSlotSync(w, s, w.sf.returning)
           v == SettleThenShow(w, s)
<1>a. /\ w \in Worlds /\ w.calls \in Seq(NativeCall) /\ w.sf.returning \in BOOLEAN
  BY DEF Formed, Worlds, SurfaceState
<1>1. /\ Formed(u, m) /\ SameSurface(w, u)
      /\ u.sf.draining => w.sf.draining \/ Following(w)
      /\ \A K : "drain" \notin K /\ NoCall(w.calls, K) => NoCall(u.calls, K)
      /\ w.sf.returning
           => Tracked(u, o, (ReturnsForced(w) /\ ~w.sf.opening) \/ DrainForces(u.sf))
      /\ \A x : Tracked(w, o, x \/ DrainForces(w.sf)) => Tracked(u, o, x \/ DrainForces(u.sf))
      /\ Followed(u, s, DrainLooks(u.sf))
  BY <1>a, SyncKeeps
<1>2. v = IF u.sf.draining THEN [u EXCEPT !.sf.vis = "geometry"] ELSE ShowOrYield(u)
  BY DEF SettleThenShow
<1> HIDE DEF u, v
<1>3. /\ u.sf.opened = w.sf.opened /\ u.sf.desiredVisible = w.sf.desiredVisible
      /\ u.sf.appliedVisible = w.sf.appliedVisible
      /\ u.sf.vis = w.sf.vis /\ u.sf.opening = w.sf.opening
  BY <1>1, SameSurfaceMeans
<1>4. ~w.sf.returning => Tracked(u, o, DrainForces(u.sf))
  <2>1. ~w.sf.returning => OwesForce(w.sf) = FALSE
    BY DEF OwesForce
  <2>2. ~w.sf.returning => Tracked(w, o, FALSE \/ DrainForces(w.sf))
    BY <2>1 DEF Tracked
  <2>3. ~w.sf.returning => Tracked(u, o, FALSE \/ DrainForces(u.sf))
    BY <1>1, <2>2
  <2> QED
    BY <2>3 DEF Tracked
<1>5. NoCall(u.calls, {"vis", "opened-client"})
  BY <1>1
<1>6. CASE u.sf.draining
  <2>1. Following(w)
    BY <1>1, <1>6
  <2>2. ~ReturnsForced(w)
    BY <2>1 DEF Following, ReturnsForced
  <2>3. Tracked(u, o, DrainForces(u.sf))
    BY <1>1, <1>4, <2>2 DEF Tracked
  <2>4. /\ u \in Worlds /\ u.calls \in Seq(NativeCall) /\ Orderly(u.calls, u.deaf)
        /\ LockHolds(u, m) /\ Fits(u, m) /\ WishIsServed(u.sf, u.nat)
    BY <1>1 DEF Formed, Worlds
  <2>5. v = [u EXCEPT !.sf.vis = "geometry"]
    BY <1>2, <1>6
  <2>6. /\ v \in Worlds /\ v.calls = u.calls /\ v.nat = u.nat /\ v.deaf = u.deaf
        /\ v.sf = [u.sf EXCEPT !.vis = "geometry"]
    BY <2>4, <2>5 DEF Worlds, SurfaceState, VisSteps
  <2>7. /\ v.sf.opened = u.sf.opened /\ v.sf.opening = u.sf.opening
        /\ v.sf.desiredVisible = u.sf.desiredVisible /\ v.sf.appliedVisible = u.sf.appliedVisible
        /\ v.sf.precommitting = u.sf.precommitting /\ v.sf.precommitTarget = u.sf.precommitTarget
        /\ v.sf.lastRect = u.sf.lastRect /\ v.sf.draining = u.sf.draining
        /\ v.sf.requested = u.sf.requested /\ v.sf.force = u.sf.force
        /\ v.sf.closed = u.sf.closed /\ v.sf.vis = "geometry"
        /\ v.sf.visibilityRequested = u.sf.visibilityRequested
    BY <2>4, <2>6 DEF Worlds, SurfaceState
  <2>8. Fits(v, m)
    <3> SUFFICES ASSUME NEW i \in DOMAIN u.calls
                 PROVE  Fitting(v.sf, v.nat, m, u.calls[i])
      BY <2>6 DEF Fits
    <3>1. Fitting(u.sf, u.nat, m, u.calls[i]) /\ u.calls[i] \in NativeCall
      BY <2>4 DEF Fits
    <3>2. u.calls[i].by \notin {"vis", "opened-client"}
      BY <1>5 DEF NoCall
    <3>3. u.calls[i].by \notin {"open", "opened-vis"}
      BY <3>1, <1>3 DEF Fitting, NativeCall
    <3> QED
      BY <2>6, <2>7, <3>1, <3>2, <3>3 DEF Fitting
  <2>9. WishIsServed(v.sf, v.nat)
    BY <2>4, <2>6, <2>7, <1>3 DEF WishIsServed
  <2>10. LockHolds(v, m)
    BY <2>4, <2>6, <2>7 DEF LockHolds
  <2>11. Tracked(v, o, OwesForce(v.sf) \/ DrainForces(v.sf))
    BY <2>3, <2>6, <2>7 DEF Tracked, DrainForces, DrainLooks
  <2>12. Followed(v, s, LooksAgain(v.sf, o) \/ DrainLooks(v.sf))
    BY <1>1, <2>6, <2>7 DEF Followed, DrainLooks, slotRect
  <2> QED
    BY <2>4, <2>6, <2>8, <2>9, <2>10, <2>11, <2>12 DEF Formed, v
<1>7. CASE ~u.sf.draining
  <2>1. v = ShowOrYield(u)
    BY <1>2, <1>7
  <2>2. Tracked(u, o, (u.sf.desiredVisible # "shown" /\ Hidden(u.sf)) \/ DrainForces(u.sf))
    <3>1. ReturnsForced(w) /\ ~w.sf.opening => u.sf.desiredVisible # "shown" /\ Hidden(u.sf)
      BY <1>3 DEF ReturnsForced, Hidden
    <3> QED
      BY <3>1, <1>1, <1>4 DEF Tracked
  <2>3. Followed(u, s, u.sf.visibilityRequested \/ o # {} \/ DrainLooks(u.sf))
    BY <1>1 DEF Followed
  <2>4. u.sf.vis \in {"alive", "drained", "geometry"}
    BY <1>3
  <2> QED
    BY <2>1, <2>2, <2>3, <2>4, <1>1, <1>5, ShowKeeps DEF v
<1> QED
  BY <1>6, <1>7 DEF v

LEMMA AppliedKeeps ==
    ASSUME NEW w, NEW s, NEW m, NEW o, NEW on \in Wishes, Formed(w, m),
           \/ w.sf.vis = "hiding" /\ on = "hidden"
           \/ w.sf.vis = "showing" /\ on = "shown",
           NoCall(w.calls, {"vis", "opened-client"}),
           Tracked(w, o, OwesForce(w.sf) \/ DrainForces(w.sf)),
           Followed(w, s, LooksAgain(w.sf, o) \/ DrainLooks(w.sf))
    PROVE  LET v == Applied(w, on)
           IN /\ Formed(v, m) /\ v.sf.vis \in {"idle", "hiding", "alive"}
              /\ Tracked(v, o, OwesForce(v.sf) \/ DrainForces(v.sf))
              /\ Followed(v, s, LooksAgain(v.sf, o) \/ DrainLooks(v.sf))
<1> DEFINE u == [w EXCEPT !.sf.appliedVisible = on,
                          !.sf.visibilityRequested = @ \/ on # w.sf.desiredVisible]
<1>a. /\ w \in Worlds /\ w.calls \in Seq(NativeCall) /\ Orderly(w.calls, w.deaf) /\ LockHolds(w, m)
      /\ Fits(w, m) /\ WishIsServed(w.sf, w.nat)
  BY DEF Formed, Worlds
<1>1. Applied(w, on) = VisLoop(u)
  BY DEF Applied
<1>2. /\ u \in Worlds /\ u.calls = w.calls /\ u.nat = w.nat /\ u.deaf = w.deaf
      /\ u.sf = [w.sf EXCEPT !.appliedVisible = on,
                             !.visibilityRequested = @ \/ on # w.sf.desiredVisible]
  BY <1>a DEF Worlds, SurfaceState
<1> HIDE DEF u
<1>3. /\ u.sf.opened = w.sf.opened /\ u.sf.opening = w.sf.opening
      /\ u.sf.desiredVisible = w.sf.desiredVisible /\ u.sf.appliedVisible = on
      /\ u.sf.precommitting = w.sf.precommitting /\ u.sf.precommitTarget = w.sf.precommitTarget
      /\ u.sf.lastRect = w.sf.lastRect /\ u.sf.draining = w.sf.draining
      /\ u.sf.requested = w.sf.requested /\ u.sf.force = w.sf.force
      /\ u.sf.closed = w.sf.closed /\ u.sf.vis = w.sf.vis
      /\ u.sf.visibilityRequested = (w.sf.visibilityRequested \/ on # w.sf.desiredVisible)
  BY <1>2, <1>a DEF Worlds, SurfaceState
<1>4. \A i \in DOMAIN u.calls : Loose(u.sf, u.nat, m, u.calls[i])
  <2>1. NoCall(w.calls, {"vis", "opened-vis", "opened-client"})
    <3>1. NoCall(w.calls, {"opened-vis"})
      BY <1>a DEF Fits, Fitting, NoCall
    <3> QED
      BY <3>1 DEF NoCall
  <2>2. \A i \in DOMAIN w.calls : Loose(w.sf, w.nat, m, w.calls[i])
    BY <2>1, <1>a, NowLoose
  <2> SUFFICES ASSUME NEW i \in DOMAIN w.calls PROVE Loose(u.sf, u.nat, m, w.calls[i])
    BY <1>2
  <2>3. Loose(w.sf, w.nat, m, w.calls[i])
    BY <2>2
  <2>4. u.nat = w.nat
    BY <1>2
  <2>5. w.calls[i].by \notin {"vis", "opened-vis", "opened-client"}
    BY <2>1 DEF NoCall
  <2> QED
    BY <2>3, <2>4, <2>5, <1>3 DEF Loose
<1>5. LockHolds(u, m)
  BY <1>2, <1>3, <1>a DEF LockHolds
<1>6. AtHead(u, m)
  <2>1. u.sf.opened /\ ~u.sf.visibilityRequested => on = u.sf.desiredVisible
    BY <1>3
  <2>2. w.nat.visible \in BOOLEAN /\ w.nat.exists \in BOOLEAN
    BY <1>a DEF Worlds, NativeChild
  <2>3. u.nat.exists => u.nat.visible = (on = "shown")
    BY <2>2, <1>2, <1>a DEF WishIsServed
  <2> QED
    BY <2>1, <2>3, <1>2, <1>3, <1>4, <1>5, <1>a DEF AtHead, WishIsServed
<1>7. Tracked(u, o, Hidden(u.sf) \/ DrainForces(u.sf))
  BY <1>2, <1>3 DEF Tracked, Hidden, OwesForce, DrainForces, DrainLooks
<1>8. Followed(u, s, u.sf.visibilityRequested \/ o # {} \/ DrainLooks(u.sf))
  BY <1>2, <1>3 DEF Followed, LooksAgain, DrainLooks
<1> QED
  BY <1>1, <1>6, <1>7, <1>8, LoopKeeps

-----------------------------------------------------------------------------
(* Answers. *)

Answer1(w) == [w EXCEPT !.calls = Tail(@),
                        !.sf.lastRect = IF IsFrame(Head(w.calls)) THEN Head(w.calls).at ELSE @]

\* The head of the calls is answered; an answer that is a frame is recorded.
LEMMA AnswerKeeps ==
    ASSUME NEW w, NEW m, NEW s, NEW o, Formed(w, m), w.calls # <<>>
    PROVE  LET c == Head(w.calls)
               v == Answer1(w)
           IN /\ c \in NativeCall /\ Fitting(w.sf, w.nat, m, c)
              /\ Formed(v, m) /\ v.nat = w.nat /\ v.deaf = w.deaf /\ v.calls = Tail(w.calls)
              /\ v.sf = [w.sf EXCEPT !.lastRect = IF IsFrame(c) THEN c.at ELSE @]
              /\ v.sf.lastRect = IF IsFrame(c) THEN c.at ELSE w.sf.lastRect
              /\ \A k \in DOMAIN w.sf : k # "lastRect" => v.sf[k] = w.sf[k]
              /\ \A K : NoCall(w.calls, K) => NoCall(v.calls, K)
              /\ \A K \in Kinds : c.by \in K => NoCall(v.calls, K)
              /\ c.by = "vis" => NoCall(v.calls, {"opened-client"})
              /\ c.by = "prepare" => "restored" \in v.deaf \/ NoCall(v.calls, {"open"})
              /\ \A p : Settles(w.calls, w.sf.lastRect, p) => Settles(v.calls, v.sf.lastRect, p)
              /\ \A x : Tracked(w, o, x) => Tracked(v, o, x)
              /\ \A x : Followed(w, s, x) => Followed(v, s, x)
<1> DEFINE c == Head(w.calls)
           v == Answer1(w)
           r == [w.sf EXCEPT !.lastRect = IF IsFrame(c) THEN c.at ELSE @]
<1>a. /\ w \in Worlds /\ w.calls \in Seq(NativeCall) /\ Orderly(w.calls, w.deaf) /\ LockHolds(w, m)
      /\ Fits(w, m) /\ WishIsServed(w.sf, w.nat)
  BY DEF Formed, Worlds
<1>1. /\ Tail(w.calls) \in Seq(NativeCall) /\ c = w.calls[1] /\ 1 \in DOMAIN w.calls
      /\ c \in NativeCall
      /\ \A i \in DOMAIN Tail(w.calls) : Tail(w.calls)[i] = w.calls[i + 1] /\ i + 1 \in DOMAIN w.calls
  BY <1>a, TailIs
<1>2. Fitting(w.sf, w.nat, m, c)
  BY <1>1, <1>a DEF Fits
<1>3. IsFrame(c) => c.at \in Frames
  <2>1. IsFrame(c) => c.at \in Spots \cup SlotPlaces
    BY <1>1 DEF IsFrame, NativeCall
  <2> QED
    BY <2>1, PlacesDiffer DEF Spots, Frames, Anywhere
<1>4. r \in SurfaceState /\ w.sf \in SurfaceState
  BY <1>3, <1>a DEF Worlds, SurfaceState
<1>5. v = [[w EXCEPT !.sf = r] EXCEPT !.calls = Tail(w.calls)]
  BY <1>a, <1>4 DEF Answer1, Worlds, SurfaceState
<1>6. /\ v \in Worlds /\ v.nat = w.nat /\ v.deaf = w.deaf /\ v.calls = Tail(w.calls) /\ v.sf = r
  BY <1>1, <1>4, <1>5, <1>a DEF Worlds
<1>7. /\ r.lastRect = IF IsFrame(c) THEN c.at ELSE w.sf.lastRect
      /\ \A k \in DOMAIN w.sf : k # "lastRect" => r[k] = w.sf[k]
  BY <1>4 DEF SurfaceState
<1>8. /\ r.opened = w.sf.opened /\ r.opening = w.sf.opening
      /\ r.desiredVisible = w.sf.desiredVisible /\ r.appliedVisible = w.sf.appliedVisible
      /\ r.precommitting = w.sf.precommitting /\ r.precommitTarget = w.sf.precommitTarget
      /\ r.draining = w.sf.draining
      /\ r.closed = w.sf.closed /\ r.vis = w.sf.vis
      /\ r.visibilityRequested = w.sf.visibilityRequested
  BY <1>4 DEF SurfaceState
<1> HIDE DEF r, v
<1>9. /\ Orderly(v.calls, v.deaf)
      /\ \A K \in Kinds : c.by \in K => NoCall(v.calls, K)
      /\ c.by = "vis" => NoCall(v.calls, {"opened-client"})
      /\ c.by = "prepare" => "restored" \in v.deaf \/ NoCall(v.calls, {"open"})
  BY <1>6, <1>a, TailOrderly
<1>10. \A K : NoCall(w.calls, K) => NoCall(v.calls, K)
  BY <1>1, <1>6 DEF NoCall
<1>11. \A p : Settles(w.calls, w.sf.lastRect, p) => Settles(v.calls, v.sf.lastRect, p)
  BY <1>6, <1>7, <1>a, AnswerSettles
<1>12. Fits(v, m)
  <2> SUFFICES ASSUME NEW i \in DOMAIN v.calls PROVE Fitting(v.sf, v.nat, m, v.calls[i])
    BY DEF Fits
  <2>1. Fitting(w.sf, w.nat, m, v.calls[i])
    BY <1>1, <1>6, <1>a DEF Fits
  <2> QED
    BY <2>1, <1>6, <1>8 DEF Fitting
<1>13. WishIsServed(v.sf, v.nat)
  BY <1>6, <1>8, <1>a DEF WishIsServed
<1>14. LockHolds(v, m)
  BY <1>6, <1>8, <1>10, <1>11, <1>a DEF LockHolds
<1>15. \A x : Tracked(w, o, x) => Tracked(v, o, x)
  BY <1>6, <1>11 DEF Tracked
<1>16. \A x : Followed(w, s, x) => Followed(v, s, x)
  BY <1>6, <1>8, <1>11 DEF Followed
<1> QED
  BY <1>1, <1>2, <1>6, <1>7, <1>9, <1>10, <1>11, <1>12, <1>13, <1>14, <1>15, <1>16
     DEF Formed, v, r

\* An answer that is no frame, and one that is.
LEMMA AnsweredIs ==
    ASSUME World \in Worlds, inFlight # <<>>
    PROVE  /\ ~IsFrame(Answer) => Answered = Answer1(World)
           /\ IsFrame(Answer) => [Answered EXCEPT !.sf.lastRect = Answer.at] = Answer1(World)
BY ZenonT(60) DEF Answered, Answer1, Answer, World, Worlds, SurfaceState

\* A step that does not start to show the child.
Calm(v) == v.sf.vis = "showing" => sf.vis = "showing"

LEMMA DrainAnswerKeeps ==
    ASSUME SurfaceInv, DrainAnswer
    PROVE  \E v : Sound(v, slot, mv, owed) /\ Becomes(v)
<1> DEFINE a == Answer1(World)
           u == DrainOn(a, slot)
           v == DrainOver(u, slot)
<1>a. /\ Formed(World, mv) /\ World \in Worlds /\ World.calls # <<>> /\ World.calls = inFlight
      /\ slot \in SlotType /\ SlotAway(slot, mv) /\ World.sf = sf /\ Answer.by = "drain"
      /\ Answer = Head(World.calls)
      /\ Tracked(World, owed, OwesForce(sf) \/ DrainForces(sf))
      /\ Followed(World, slot, LooksAgain(sf, owed) \/ DrainLooks(sf))
  BY DEF SurfaceInv, Sound, Formed, DrainAnswer, AnswerOf, World, Answer
<1>1. IsFrame(Answer) /\ [Answered EXCEPT !.sf.lastRect = Answer.at] = a
  BY <1>a, AnsweredIs DEF IsFrame
<1>2. Becomes(v)
  BY <1>1 DEF DrainAnswer
<1>3. /\ Formed(a, mv) /\ a \in Worlds /\ a.nat = World.nat /\ a.deaf = World.deaf
      /\ \A k \in DOMAIN sf : k # "lastRect" => a.sf[k] = sf[k]
      /\ NoCall(a.calls, {"drain"})
      /\ \A x : Tracked(World, owed, x) => Tracked(a, owed, x)
      /\ \A x : Followed(World, slot, x) => Followed(a, slot, x)
  BY <1>a, AnswerKeeps DEF Kinds, Formed
<1> HIDE DEF a
<1>4. /\ a.sf.appliedVisible = sf.appliedVisible
      /\ a.sf.desiredVisible = sf.desiredVisible /\ a.sf.requested = sf.requested
      /\ a.sf.force = sf.force /\ a.sf.draining = sf.draining /\ a.sf.returning = sf.returning
      /\ a.sf.visibilityRequested = sf.visibilityRequested
      /\ a.sf.vis = sf.vis /\ a.sf.opening = sf.opening
  BY <1>3, <1>a DEF Worlds, SurfaceState
<1>5. /\ Formed(u, mv) /\ SameSurface(a, u) /\ ~u.sf.requested /\ ~u.sf.force
      /\ a.sf.requested /\ a.sf.force => Tracked(u, owed, ReturnsForced(a) /\ ~a.sf.opening)
      /\ \A x : Tracked(a, owed, x) => Tracked(u, owed, x)
      /\ a.sf.requested \/ Followed(a, slot, FALSE) => Followed(u, slot, FALSE)
  BY <1>3, <1>a, DrainKeeps
<1> HIDE DEF u
<1>6. /\ OwesForce(u.sf) = OwesForce(a.sf) /\ LooksAgain(u.sf, owed) = LooksAgain(a.sf, owed)
      /\ u.sf.vis = a.sf.vis /\ u.sf.visibilityRequested = a.sf.visibilityRequested
      /\ u.sf.opening = a.sf.opening /\ u.sf.desiredVisible = a.sf.desiredVisible
  BY <1>5, SameSurfaceMeans
<1>7. /\ OwesForce(a.sf) = OwesForce(sf) /\ LooksAgain(a.sf, owed) = LooksAgain(sf, owed)
      /\ DrainForces(a.sf) = DrainForces(sf) /\ DrainLooks(a.sf) = DrainLooks(sf)
  BY <1>4 DEF OwesForce, LooksAgain, DrainForces, DrainLooks
<1>8. Tracked(u, owed, OwesForce(u.sf))
  <2>1. CASE a.sf.requested /\ a.sf.force
    <3>1. ReturnsForced(a) /\ ~a.sf.opening => OwesForce(a.sf)
      BY DEF ReturnsForced, OwesForce
    <3> QED
      BY <3>1, <2>1, <1>5, <1>6 DEF Tracked
  <2>2. CASE ~(a.sf.requested /\ a.sf.force)
    <3>1. Tracked(World, owed, OwesForce(sf))
      BY <2>2, <1>a, <1>7 DEF Tracked, DrainForces, DrainLooks
    <3> QED
      BY <3>1, <1>3, <1>5, <1>6, <1>7
  <2> QED
    BY <2>1, <2>2
<1>9. Followed(u, slot, LooksAgain(u.sf, owed))
  <2>1. CASE a.sf.requested
    BY <2>1, <1>5 DEF Followed
  <2>2. CASE ~a.sf.requested /\ ~LooksAgain(sf, owed)
    <3>1. Followed(World, slot, FALSE)
      BY <2>2, <1>a, <1>7 DEF Followed, DrainLooks
    <3> QED
      BY <3>1, <1>3, <1>5 DEF Followed
  <2>3. CASE LooksAgain(sf, owed)
    BY <2>3, <1>6, <1>7 DEF Followed
  <2> QED
    BY <2>1, <2>2, <2>3
<1>10. Tracked(u, owed, OwesForce(u.sf) \/ DrainForces(u.sf))
  BY <1>8 DEF Tracked
<1>11. Followed(u, slot, LooksAgain(u.sf, owed) \/ DrainLooks(u.sf))
  BY <1>9 DEF Followed
<1>12. u.sf.vis \in {"drained", "geometry"} => NoCall(u.calls, {"vis", "opened-client"})
  BY <1>5 DEF Formed, Fits, Fitting, NoCall
<1>13. /\ Formed(v, mv)
       /\ Tracked(v, owed, OwesForce(v.sf) \/ DrainForces(v.sf))
       /\ Followed(v, slot, LooksAgain(v.sf, owed) \/ DrainLooks(v.sf))
  <2>1. CASE ~u.sf.draining /\ u.sf.vis = "drained"
    <3>1. v = SettleThenShow(u, slot)
      BY <2>1 DEF DrainOver
    <3>2. u.sf.vis \in {"alive", "drained"} /\ NoCall(u.calls, {"vis", "opened-client"})
      BY <2>1, <1>12
    <3> QED
      BY <3>1, <3>2, <2>1, <1>5, <1>10, <1>a, SettleKeepsShow
  <2>2. CASE ~u.sf.draining /\ u.sf.vis = "geometry"
    <3>1. v = ShowOrYield(u)
      BY <2>2 DEF DrainOver
    <3>2. u.sf.vis \in {"alive", "drained", "geometry"} /\ NoCall(u.calls, {"vis", "opened-client"})
      BY <2>2, <1>12
    <3>3. ~OwesForce(u.sf)
      BY <2>2 DEF OwesForce
    <3>4. Tracked(u, owed, (u.sf.desiredVisible # "shown" /\ Hidden(u.sf)) \/ DrainForces(u.sf))
      BY <3>3, <1>8 DEF Tracked
    <3>5. Followed(u, slot, u.sf.visibilityRequested \/ owed # {} \/ DrainLooks(u.sf))
      BY <2>2, <1>9 DEF Followed, LooksAgain
    <3> QED
      BY <3>1, <3>2, <3>4, <3>5, <1>5, ShowKeeps
  <2>3. CASE u.sf.draining \/ u.sf.vis \notin {"drained", "geometry"}
    <3>1. v = u
      BY <2>3 DEF DrainOver
    <3> QED
      BY <3>1, <1>5, <1>10, <1>11
  <2> QED
    BY <2>1, <2>2, <2>3
<1> QED
  BY <1>2, <1>13, <1>a DEF Sound

LEMMA VisibleAnswerKeeps ==
    ASSUME SurfaceInv, VisibleAnswer
    PROVE  \E v : Sound(v, slot, mv, owed) /\ Becomes(v) /\ Calm(v)
<1> DEFINE a == Answer1(World)
           v == Applied(a, Answer.on)
<1>a. /\ Formed(World, mv) /\ World \in Worlds /\ World.calls # <<>> /\ World.calls = inFlight
      /\ SlotAway(slot, mv) /\ World.sf = sf /\ Answer.by = "vis" /\ sf.vis \in {"hiding", "showing"}
      /\ Answer = Head(World.calls)
      /\ Tracked(World, owed, OwesForce(sf) \/ DrainForces(sf))
      /\ Followed(World, slot, LooksAgain(sf, owed) \/ DrainLooks(sf))
  BY DEF SurfaceInv, Sound, Formed, VisibleAnswer, AnswerOf, World, Answer
<1>1. Answered = a
  BY <1>a, AnsweredIs DEF IsFrame
<1>2. Becomes(v)
  BY <1>1 DEF VisibleAnswer
<1>3. /\ Formed(a, mv) /\ Fitting(sf, World.nat, mv, Answer)
      /\ \A k \in DOMAIN sf : k # "lastRect" => a.sf[k] = sf[k]
      /\ NoCall(a.calls, {"vis"}) /\ NoCall(a.calls, {"opened-client"})
      /\ \A x : Tracked(World, owed, x) => Tracked(a, owed, x)
      /\ \A x : Followed(World, slot, x) => Followed(a, slot, x)
  BY <1>a, AnswerKeeps DEF Kinds
<1> HIDE DEF a
<1>4. /\ a.sf.appliedVisible = sf.appliedVisible
      /\ a.sf.desiredVisible = sf.desiredVisible /\ a.sf.requested = sf.requested
      /\ a.sf.force = sf.force /\ a.sf.draining = sf.draining /\ a.sf.returning = sf.returning
      /\ a.sf.visibilityRequested = sf.visibilityRequested
      /\ a.sf.vis = sf.vis /\ a.sf.opening = sf.opening
  BY <1>3, <1>a DEF Worlds, SurfaceState
<1>5. /\ OwesForce(a.sf) = OwesForce(sf) /\ LooksAgain(a.sf, owed) = LooksAgain(sf, owed)
      /\ DrainForces(a.sf) = DrainForces(sf) /\ DrainLooks(a.sf) = DrainLooks(sf)
  BY <1>4 DEF OwesForce, LooksAgain, DrainForces, DrainLooks
<1>6. /\ \/ a.sf.vis = "hiding" /\ Answer.on = "hidden"
         \/ a.sf.vis = "showing" /\ Answer.on = "shown"
      /\ Answer.on \in Wishes
  BY <1>3, <1>4, <1>a DEF Fitting, Wishes
<1>7. NoCall(a.calls, {"vis", "opened-client"})
  BY <1>3 DEF NoCall
<1>8. /\ Tracked(a, owed, OwesForce(a.sf) \/ DrainForces(a.sf))
      /\ Followed(a, slot, LooksAgain(a.sf, owed) \/ DrainLooks(a.sf))
  BY <1>3, <1>5, <1>a
<1>9. /\ Formed(v, mv) /\ v.sf.vis \in {"idle", "hiding", "alive"}
      /\ Tracked(v, owed, OwesForce(v.sf) \/ DrainForces(v.sf))
      /\ Followed(v, slot, LooksAgain(v.sf, owed) \/ DrainLooks(v.sf))
  BY <1>3, <1>6, <1>7, <1>8, AppliedKeeps
<1> QED
  BY <1>2, <1>9, <1>a DEF Sound, Calm

\* An open changes nothing of the surface's state until it has answered.
LEMMA OpenLeaves ==
    ASSUME NEW w \in Worlds, NEW s, NEW by, NEW ok
    PROVE  openTrackedSurface(w, s, by, ok).sf = w.sf
BY DEF openTrackedSurface, Sent, Worlds

\* An open: a child that is created stands where its slot is found.
LEMMA OpenKeeps ==
    ASSUME NEW w \in Worlds, NEW s \in SlotType, NEW m, NEW o, NEW by \in {"client", "vis"},
           NEW ok \in BOOLEAN,
           w.sf.opening, ~w.sf.opened, ~w.sf.closed, ~w.nat.exists, ~w.nat.visible,
           w.sf.vis = IF by = "client" THEN "idle" ELSE "restoring",
           NoCall(w.calls, OpenCalls), Orderly(w.calls, w.deaf), Fits(w, m), LockHolds(w, m)
    PROVE  LET v == openTrackedSurface(w, s, by, ok)
           IN /\ Formed(v, m) /\ v.sf = w.sf
              /\ \A x : Tracked(v, o, x) /\ Followed(v, s, x)
<1> DEFINE desired == IF w.sf.desiredVisible = Unset THEN Wish(s.shown) ELSE w.sf.desiredVisible
           c == [by |-> "open", for |-> by, ok |-> ok, desired |-> desired, at |-> slotRect(s)]
           u == [w EXCEPT !.nat = IF ok THEN [exists |-> TRUE, at |-> slotRect(s), visible |-> TRUE] ELSE @,
                          !.deaf = IF w.sf.precommitting THEN @ \cup {"restored"} ELSE @]
           v == openTrackedSurface(w, s, by, ok)
<1>a. w.calls \in Seq(NativeCall)
  BY DEF Worlds
<1>1. slotRect(s) \in Spots /\ desired \in Wishes
  BY DEF slotRect, SlotType, Spots, Worlds, SurfaceState, Wish, Wishes, Unset
<1>2. c \in NativeCall
  BY <1>1 DEF NativeCall
<1>3. /\ u \in Worlds /\ u.sf = w.sf /\ u.calls = w.calls
      /\ u.nat = IF ok THEN [exists |-> TRUE, at |-> slotRect(s), visible |-> TRUE] ELSE w.nat
      /\ u.deaf = IF w.sf.precommitting THEN w.deaf \cup {"restored"} ELSE w.deaf
  BY <1>1, PlacesDiffer DEF Worlds, NativeChild, Marks
<1>4. v = [u EXCEPT !.calls = Append(@, c)]
  BY DEF openTrackedSurface, Sent
<1>5. c.by = "open" /\ c.for = by /\ c.ok = ok /\ c.at = slotRect(s)
  OBVIOUS
<1> HIDE DEF u, v, c
<1>6. /\ v \in Worlds /\ v.sf = w.sf /\ v.calls = Append(w.calls, c) /\ v.nat = u.nat /\ v.deaf = u.deaf
  <2>1. Append(u.calls, c) \in Seq(NativeCall)
    BY <1>2, <1>3, <1>a
  <2> QED
    BY <2>1, <1>3, <1>4 DEF Worlds
<1>7. /\ v.nat.exists = ok /\ (v.nat.visible => v.nat.exists) /\ (ok => v.nat.at = slotRect(s))
  <2>1. CASE ok
    BY <2>1, <1>3, <1>6
  <2>2. CASE ~ok
    BY <2>2, <1>3, <1>6 DEF Worlds, NativeChild
  <2> QED
    BY <2>1, <2>2
<1>8. NoCall(w.calls, {"open"}) /\ NoCall(w.calls, {"vis"})
  <2>1. NoCall(w.calls, {"vis"})
    BY NotUnderWay
  <2> QED
    BY <2>1 DEF NoCall, OpenCalls
<1>9. w.sf.precommitting => "restored" \in v.deaf
  BY <1>3, <1>6
<1>10. Orderly(v.calls, v.deaf)
  <2>1. Orderly(w.calls, v.deaf)
    BY <1>8, OrderlyDeaf
  <2>2. \A K \in Kinds : c.by \in K => NoCall(w.calls, K)
    BY <1>5 DEF Kinds, MoveCalls
  <2>3. "restored" \in v.deaf \/ NoCall(w.calls, {"prepare"})
    <3>1. m.pc = "preparing" => w.sf.precommitting
      BY DEF LockHolds
    <3> QED
      BY <3>1, <1>9, NotUnderWay
  <2>4. c.by # "opened-client"
    BY <1>5
  <2> QED
    BY <2>1, <2>2, <2>3, <2>4, <1>2, <1>6, <1>a, StaysOrderly
<1>11. Fits(v, m)
  <2>1. \A i \in DOMAIN w.calls : Fitting(v.sf, v.nat, m, w.calls[i])
    <3> SUFFICES ASSUME NEW i \in DOMAIN w.calls PROVE Fitting(v.sf, v.nat, m, w.calls[i])
      OBVIOUS
    <3>1. Fitting(w.sf, w.nat, m, w.calls[i])
      BY DEF Fits
    <3>2. w.calls[i].by \notin {"vis", "open", "opened-client", "opened-vis"}
      BY <1>8 DEF NoCall, OpenCalls
    <3> QED
      BY <3>1, <3>2, <1>6 DEF Fitting
  <2>2. Fitting(v.sf, v.nat, m, c)
    BY <1>5, <1>6, <1>7 DEF Fitting
  <2> QED
    BY <2>1, <2>2, <1>2, <1>6, <1>a, SentFits DEF Fits
<1>12. WishIsServed(v.sf, v.nat)
  BY <1>6, <1>7 DEF WishIsServed
<1>13. LockHolds(v, m)
  BY <1>6, <1>9 DEF LockHolds
<1>14. \A x : Tracked(v, o, x)
  <2>1. ok => Settles(v.calls, v.sf.lastRect, v.nat.at)
    BY <1>2, <1>5, <1>6, <1>7, <1>a, FrameSettles DEF IsFrame
  <2> QED
    BY <2>1, <1>7 DEF Tracked
<1>15. \A x : Followed(v, s, x)
  BY <1>6 DEF Followed
<1> QED
  BY <1>6, <1>10, <1>11, <1>12, <1>13, <1>14, <1>15 DEF Formed, v

LEMMA ClientOpenKeeps ==
    ASSUME SurfaceInv, open
    PROVE  \E v : Sound(v, slot, mv, owed) /\ Becomes(v) /\ Calm(v)
<1> DEFINE w == [World EXCEPT !.sf.opening = TRUE]
<1>a. /\ World \in Worlds /\ Orderly(inFlight, deaf) /\ Fits(World, mv) /\ World.calls = inFlight
      /\ WishIsServed(sf, nat) /\ LockHolds(World, mv) /\ slot \in SlotType /\ SlotAway(slot, mv)
      /\ World.sf = sf /\ World.nat = nat /\ World.deaf = deaf /\ sf \in SurfaceState
  BY DEF SurfaceInv, Sound, Formed, World, Worlds
<1>b. /\ ~sf.closed /\ ~sf.opened /\ ~sf.opening /\ ~nat.exists /\ sf.vis = "idle" /\ ~nat.visible
  BY <1>a DEF open, WishIsServed
<1>1. PICK ok \in BOOLEAN : Becomes(openTrackedSurface(w, slot, "client", ok))
  BY DEF open
<1>2. /\ w \in Worlds /\ w.calls = inFlight /\ w.nat = nat /\ w.deaf = deaf
      /\ w.sf = [sf EXCEPT !.opening = TRUE]
  <2>1. [sf EXCEPT !.opening = TRUE] \in SurfaceState
    BY <1>a DEF SurfaceState
  <2>2. w = [World EXCEPT !.sf = [sf EXCEPT !.opening = TRUE]]
    BY <1>a
  <2> QED
    BY <2>1, <2>2, <1>a DEF Worlds, World
<1>3. /\ w.sf.opening /\ ~w.sf.opened /\ ~w.sf.closed /\ w.sf.vis = "idle"
      /\ w.sf.draining = sf.draining /\ w.sf.precommitting = sf.precommitting
      /\ w.sf.precommitTarget = sf.precommitTarget /\ w.sf.lastRect = sf.lastRect
  BY <1>a, <1>b, <1>2 DEF SurfaceState
<1> HIDE DEF w
<1>4. NoCall(inFlight, OpenCalls)
  BY <1>a, <1>b, NotUnderWay
<1>5. Fits(w, mv)
  <2> SUFFICES ASSUME NEW i \in DOMAIN inFlight PROVE Fitting(w.sf, w.nat, mv, inFlight[i])
    BY <1>2 DEF Fits
  <2>1. Fitting(sf, nat, mv, inFlight[i])
    BY <1>a DEF Fits
  <2>2. inFlight[i].by \notin {"open", "opened-client", "opened-vis"}
    BY <1>4 DEF NoCall, OpenCalls
  <2> QED
    BY <2>1, <2>2, <1>2, <1>3, <1>b DEF Fitting
<1>6. LockHolds(w, mv)
  BY <1>2, <1>3, <1>a, <1>b DEF LockHolds
<1>7. "client" \in {"client", "vis"}
  OBVIOUS
<1> DEFINE v == openTrackedSurface(w, slot, "client", ok)
<1>8. /\ Formed(v, mv) /\ \A x : Tracked(v, owed, x) /\ Followed(v, slot, x)
  BY <1>2, <1>3, <1>4, <1>5, <1>6, <1>7, <1>a, <1>b, OpenKeeps
<1>8b. v.sf = w.sf
  BY <1>2, OpenLeaves
<1> HIDE DEF v
<1>9. Sound(v, slot, mv, owed)
  BY <1>8, <1>a DEF Sound
<1> QED
  BY <1>1, <1>3, <1>8b, <1>9 DEF v, Calm

LEMMA AliveAnswerKeeps ==
    ASSUME SurfaceInv, AliveAnswer
    PROVE  \E v : Sound(v, slot, mv, owed) /\ Becomes(v)
<1> DEFINE a == Answer1(World)
           lost == [a EXCEPT !.sf.opened = FALSE, !.sf.lastRect = NoPlace]
<1>a. /\ Formed(World, mv) /\ World \in Worlds /\ World.calls # <<>> /\ World.calls = inFlight
      /\ slot \in SlotType /\ SlotAway(slot, mv) /\ World.sf = sf /\ World.nat = nat
      /\ Answer.by = "vis" /\ sf.vis = "alive"
      /\ Answer = Head(World.calls) /\ WishIsServed(sf, nat) /\ sf \in SurfaceState
      /\ Tracked(World, owed, OwesForce(sf) \/ DrainForces(sf))
  BY DEF SurfaceInv, Sound, Formed, AliveAnswer, AnswerOf, World, Answer, Worlds
<1>1. Answered = a
  BY <1>a, AnsweredIs DEF IsFrame
<1>2. /\ Formed(a, mv) /\ a \in Worlds /\ Fitting(sf, nat, mv, Answer) /\ a.nat = nat
      /\ \A k \in DOMAIN sf : k # "lastRect" => a.sf[k] = sf[k]
      /\ NoCall(a.calls, {"vis"}) /\ NoCall(a.calls, {"opened-client"})
      /\ \A x : Tracked(World, owed, x) => Tracked(a, owed, x)
  BY <1>a, AnswerKeeps DEF Kinds, Formed
<1>3. \/ Answer.alive /\ Becomes(IF a.sf.draining THEN [a EXCEPT !.sf.vis = "drained"]
                                 ELSE SettleThenShow(a, slot))
      \/ /\ ~Answer.alive /\ slot.present
         /\ \E ok \in BOOLEAN :
               Becomes(openTrackedSurface([lost EXCEPT !.sf.opening = TRUE, !.sf.vis = "restoring"],
                                          slot, "vis", ok))
      \/ ~Answer.alive /\ ~slot.present /\ Becomes(VisLoop(lost))
  BY <1>1 DEF AliveAnswer
<1> HIDE DEF a
<1>4. /\ a.sf.appliedVisible = sf.appliedVisible /\ a.sf.closed = sf.closed
      /\ a.sf.desiredVisible = sf.desiredVisible /\ a.sf.requested = sf.requested
      /\ a.sf.force = sf.force /\ a.sf.draining = sf.draining /\ a.sf.returning = sf.returning
      /\ a.sf.visibilityRequested = sf.visibilityRequested /\ a.sf.opened = sf.opened
      /\ a.sf.vis = "alive" /\ a.sf.opening = sf.opening
  BY <1>2, <1>a DEF SurfaceState
<1>b. /\ a.calls \in Seq(NativeCall) /\ Orderly(a.calls, a.deaf) /\ Fits(a, mv)
      /\ WishIsServed(a.sf, a.nat) /\ LockHolds(a, mv) /\ a.sf \in SurfaceState
      /\ sf.opened /\ ~sf.closed
  BY <1>2, <1>a DEF Formed, Worlds, WishIsServed
<1>c. /\ NoCall(a.calls, {"open"}) /\ NoCall(a.calls, OpenCalls)
  <2>1. NoCall(a.calls, {"open"})
    BY <1>2, <1>4, <1>b, NotUnderWay
  <2>2. NoCall(a.calls, {"opened-vis"})
    BY <1>4, <1>b DEF Fits, Fitting, NoCall
  <2> QED
    BY <2>1, <2>2, <1>2 DEF NoCall, OpenCalls
<1>5. /\ OwesForce(a.sf) = OwesForce(sf)
      /\ DrainForces(a.sf) = DrainForces(sf) /\ DrainLooks(a.sf) = DrainLooks(sf)
  BY <1>4, <1>a DEF OwesForce, DrainForces, DrainLooks
<1>6. Tracked(a, owed, OwesForce(a.sf) \/ DrainForces(a.sf))
  BY <1>2, <1>5, <1>a
<1>7. NoCall(a.calls, {"vis", "opened-client"})
  BY <1>2 DEF NoCall
<1>8. CASE Answer.alive /\ a.sf.draining /\ Becomes([a EXCEPT !.sf.vis = "drained"])
  <2> DEFINE v == [a EXCEPT !.sf.vis = "drained"]
             r == [a.sf EXCEPT !.vis = "drained"]
  <2>1. r \in SurfaceState
    BY <1>b DEF SurfaceState, VisSteps
  <2>2. v = [a EXCEPT !.sf = r]
    OBVIOUS
  <2>3. v \in Worlds /\ v.sf = r /\ v.nat = a.nat /\ v.calls = a.calls /\ v.deaf = a.deaf
    BY <2>1, <2>2, <1>2 DEF Worlds
  <2>4. /\ v.sf.opened = a.sf.opened /\ v.sf.opening = a.sf.opening
        /\ v.sf.desiredVisible = a.sf.desiredVisible /\ v.sf.appliedVisible = a.sf.appliedVisible
        /\ v.sf.precommitting = a.sf.precommitting /\ v.sf.precommitTarget = a.sf.precommitTarget
        /\ v.sf.lastRect = a.sf.lastRect /\ v.sf.draining = a.sf.draining
        /\ v.sf.requested = a.sf.requested /\ v.sf.force = a.sf.force
        /\ v.sf.closed = a.sf.closed /\ v.sf.vis = "drained" /\ v.sf.returning = a.sf.returning
        /\ v.sf.visibilityRequested = a.sf.visibilityRequested
    BY <2>3, <1>b DEF SurfaceState
  <2> HIDE DEF v, r
  <2>5. Fits(v, mv)
    <3> SUFFICES ASSUME NEW i \in DOMAIN a.calls PROVE Fitting(v.sf, v.nat, mv, a.calls[i])
      BY <2>3 DEF Fits
    <3>1. Fitting(a.sf, a.nat, mv, a.calls[i])
      BY <1>b DEF Fits
    <3>2. a.calls[i].by \notin {"vis", "open", "opened-client", "opened-vis"}
      BY <1>7, <1>c DEF NoCall, OpenCalls
    <3> QED
      BY <3>1, <3>2, <2>3, <2>4 DEF Fitting
  <2>6. WishIsServed(v.sf, v.nat)
    BY <2>3, <2>4, <1>4, <1>b DEF WishIsServed
  <2>7. LockHolds(v, mv)
    BY <2>3, <2>4, <1>b DEF LockHolds
  <2>8. OwesForce(v.sf) = OwesForce(a.sf) /\ DrainForces(v.sf) = DrainForces(a.sf)
    BY <2>4, <1>4 DEF OwesForce, DrainForces, DrainLooks
  <2>9. Tracked(v, owed, OwesForce(v.sf) \/ DrainForces(v.sf))
    BY <2>3, <2>4, <2>8, <1>6 DEF Tracked
  <2>10. Followed(v, slot, LooksAgain(v.sf, owed) \/ DrainLooks(v.sf))
    BY <2>4 DEF Followed, LooksAgain
  <2>11. Sound(v, slot, mv, owed)
    BY <2>3, <2>5, <2>6, <2>7, <2>9, <2>10, <1>a, <1>b DEF Sound, Formed
  <2> QED
    BY <2>11, <1>8 DEF v
<1>9. CASE Answer.alive /\ ~a.sf.draining /\ Becomes(SettleThenShow(a, slot))
  <2> DEFINE v == SettleThenShow(a, slot)
  <2>1. a.sf.vis \in {"alive", "drained"}
    BY <1>4
  <2>2. /\ Formed(v, mv)
        /\ Tracked(v, owed, OwesForce(v.sf) \/ DrainForces(v.sf))
        /\ Followed(v, slot, LooksAgain(v.sf, owed) \/ DrainLooks(v.sf))
    BY <2>1, <1>2, <1>6, <1>7, <1>9, <1>a, SettleKeepsShow
  <2> HIDE DEF v
  <2>3. Sound(v, slot, mv, owed)
    BY <2>2, <1>a DEF Sound
  <2> QED
    BY <2>3, <1>9 DEF v
<1>d. ~Answer.alive => ~nat.exists /\ ~nat.visible
  BY <1>2, <1>a DEF Fitting, WishIsServed
<1>10. CASE /\ ~Answer.alive
            /\ \E ok \in BOOLEAN :
                  Becomes(openTrackedSurface([lost EXCEPT !.sf.opening = TRUE, !.sf.vis = "restoring"],
                                             slot, "vis", ok))
  <2> DEFINE w == [lost EXCEPT !.sf.opening = TRUE, !.sf.vis = "restoring"]
             r == [a.sf EXCEPT !.opened = FALSE, !.lastRect = NoPlace, !.opening = TRUE, !.vis = "restoring"]
  <2>1. PICK ok \in BOOLEAN : Becomes(openTrackedSurface(w, slot, "vis", ok))
    BY <1>10
  <2>2. r \in SurfaceState
    BY <1>b DEF SurfaceState, VisSteps, Frames
  <2>3. w = [a EXCEPT !.sf = r]
    BY <1>2, <1>b DEF Worlds, SurfaceState
  <2>4. w \in Worlds /\ w.sf = r /\ w.nat = a.nat /\ w.calls = a.calls /\ w.deaf = a.deaf
    BY <2>2, <2>3, <1>2 DEF Worlds
  <2>5. /\ r.opening /\ ~r.opened /\ r.closed = a.sf.closed /\ r.vis = "restoring"
        /\ r.draining = a.sf.draining /\ r.precommitting = a.sf.precommitting
        /\ r.precommitTarget = a.sf.precommitTarget
    BY <1>b DEF SurfaceState
  <2> HIDE DEF w, r
  <2>6. Fits(w, mv)
    <3> SUFFICES ASSUME NEW i \in DOMAIN a.calls PROVE Fitting(w.sf, w.nat, mv, a.calls[i])
      BY <2>4 DEF Fits
    <3>1. Fitting(a.sf, a.nat, mv, a.calls[i])
      BY <1>b DEF Fits
    <3>2. a.calls[i].by \notin {"vis", "open", "opened-client", "opened-vis"}
      BY <1>7, <1>c DEF NoCall, OpenCalls
    <3> QED
      BY <3>1, <3>2, <2>4, <2>5 DEF Fitting
  <2>7. LockHolds(w, mv)
    BY <2>4, <2>5, <1>b, <1>c DEF LockHolds
  <2>8. "vis" \in {"client", "vis"} /\ ~w.sf.closed /\ ~w.nat.exists /\ ~w.nat.visible
    BY <2>4, <2>5, <1>2, <1>4, <1>b, <1>d, <1>10
  <2> DEFINE v == openTrackedSurface(w, slot, "vis", ok)
  <2>9. /\ Formed(v, mv) /\ \A x : Tracked(v, owed, x) /\ Followed(v, slot, x)
    BY <2>4, <2>5, <2>6, <2>7, <2>8, <1>a, <1>b, <1>c, OpenKeeps
  <2> HIDE DEF v
  <2>10. Sound(v, slot, mv, owed)
    BY <2>9, <1>a DEF Sound
  <2> QED
    BY <2>1, <2>10 DEF v
<1>11. CASE ~Answer.alive /\ Becomes(VisLoop(lost))
  <2> DEFINE r == [a.sf EXCEPT !.opened = FALSE, !.lastRect = NoPlace]
  <2>2. r \in SurfaceState
    BY <1>b DEF SurfaceState, Frames
  <2>3. lost = [a EXCEPT !.sf = r]
    BY <1>2, <1>b DEF Worlds, SurfaceState
  <2>4. /\ lost \in Worlds /\ lost.sf = r /\ lost.nat = a.nat /\ lost.calls = a.calls
        /\ lost.deaf = a.deaf
    BY <2>2, <2>3, <1>2 DEF Worlds
  <2>5. /\ r.opening = a.sf.opening /\ ~r.opened /\ r.closed = a.sf.closed
        /\ r.draining = a.sf.draining /\ r.precommitting = a.sf.precommitting
        /\ r.precommitTarget = a.sf.precommitTarget
    BY <1>b DEF SurfaceState
  <2> HIDE DEF lost, r
  <2>6. \A i \in DOMAIN lost.calls : Loose(lost.sf, lost.nat, mv, lost.calls[i])
    <3> SUFFICES ASSUME NEW i \in DOMAIN a.calls PROVE Loose(lost.sf, lost.nat, mv, a.calls[i])
      BY <2>4
    <3>1. Fitting(a.sf, a.nat, mv, a.calls[i])
      BY <1>b DEF Fits
    <3>2. a.calls[i].by \notin {"vis", "open", "opened-client", "opened-vis"}
      BY <1>7, <1>c DEF NoCall, OpenCalls
    <3> QED
      BY <3>1, <3>2, <2>4, <2>5 DEF Fitting, Loose
  <2>7. LockHolds(lost, mv)
    BY <2>4, <2>5, <1>b, <1>c DEF LockHolds
  <2>8. AtHead(lost, mv)
    BY <2>4, <2>5, <2>6, <2>7, <1>2, <1>4, <1>b, <1>d, <1>11 DEF AtHead
  <2>9. Tracked(lost, owed, Hidden(lost.sf) \/ DrainForces(lost.sf))
    BY <2>4, <1>2, <1>d, <1>11 DEF Tracked
  <2>10. Followed(lost, slot, lost.sf.visibilityRequested \/ owed # {} \/ DrainLooks(lost.sf))
    BY <2>4, <2>5 DEF Followed
  <2> DEFINE v == VisLoop(lost)
  <2>11. /\ Formed(v, mv)
         /\ Tracked(v, owed, OwesForce(v.sf) \/ DrainForces(v.sf))
         /\ Followed(v, slot, LooksAgain(v.sf, owed) \/ DrainLooks(v.sf))
    BY <2>8, <2>9, <2>10, LoopKeeps
  <2> HIDE DEF v
  <2>12. Sound(v, slot, mv, owed)
    BY <2>11, <1>a DEF Sound
  <2> QED
    BY <2>12, <1>11 DEF v
<1> QED
  BY <1>3, <1>8, <1>9, <1>10, <1>11

LEMMA OpenAnswerKeeps ==
    ASSUME SurfaceInv, OpenAnswer
    PROVE  \E v : Sound(v, slot, mv, owed') /\ Becomes(v) /\ Calm(v)
<1> DEFINE a == Answer1(World)
<1>a. /\ Formed(World, mv) /\ World \in Worlds /\ World.calls # <<>> /\ World.calls = inFlight
      /\ slot \in SlotType /\ SlotAway(slot, mv) /\ World.sf = sf /\ World.nat = nat
      /\ World.deaf = deaf /\ inFlight \in Seq(NativeCall)
      /\ Answer.by = "open" /\ Answer = Head(World.calls)
      /\ WishIsServed(sf, nat) /\ sf \in SurfaceState
      /\ Tracked(World, owed, OwesForce(sf) \/ DrainForces(sf)) /\ LockHolds(World, mv)
  BY DEF SurfaceInv, Sound, Formed, OpenAnswer, AnswerOf, World, Answer, Worlds
<1>1. /\ IsFrame(Answer) <=> Answer.ok
      /\ Answer.ok => [Answered EXCEPT !.sf.lastRect = Answer.at] = a
      /\ ~Answer.ok => Answered = a
  BY <1>a, AnsweredIs DEF IsFrame
<1>2. /\ Formed(a, mv) /\ a \in Worlds /\ Fitting(sf, nat, mv, Answer) /\ a.nat = nat
      /\ a.deaf = deaf /\ Answer \in NativeCall
      /\ \A k \in DOMAIN sf : k # "lastRect" => a.sf[k] = sf[k]
      /\ NoCall(a.calls, OpenCalls)
      /\ \A p : Settles(inFlight, sf.lastRect, p) => Settles(a.calls, a.sf.lastRect, p)
      /\ \A x : Tracked(World, owed, x) => Tracked(a, owed, x)
  BY <1>a, AnswerKeeps DEF Kinds, Formed, OpenCalls
<1>3. /\ Answer.ok \in BOOLEAN /\ Answer.desired \in Wishes /\ Answer.for \in {"client", "vis"}
  BY <1>2, <1>a DEF NativeCall
<1>4. /\ a.sf.appliedVisible = sf.appliedVisible /\ a.sf.closed = sf.closed
      /\ a.sf.desiredVisible = sf.desiredVisible /\ a.sf.requested = sf.requested
      /\ a.sf.force = sf.force /\ a.sf.draining = sf.draining /\ a.sf.returning = sf.returning
      /\ a.sf.visibilityRequested = sf.visibilityRequested /\ ~a.sf.opened
      /\ a.sf.vis = (IF Answer.for = "client" THEN "idle" ELSE "restoring") /\ a.sf.opening
      /\ a.sf.precommitting = sf.precommitting /\ a.sf.precommitTarget = sf.precommitTarget
      /\ sf.opening
  BY <1>2, <1>a DEF SurfaceState, Fitting
<1>b. /\ a.calls \in Seq(NativeCall) /\ Orderly(a.calls, a.deaf) /\ Fits(a, mv)
      /\ LockHolds(a, mv) /\ a.sf \in SurfaceState
      /\ ~a.sf.closed
  BY <1>2, <1>4, <1>a DEF Formed, Worlds, WishIsServed
<1>c. NoCall(a.calls, {"vis"}) /\ NoCall(a.calls, {"open"})
  <2>1. NoCall(a.calls, {"vis"})
    BY <1>2, <1>4, <1>b, NotUnderWay
  <2> QED
    BY <2>1, <1>2 DEF NoCall, OpenCalls
<1>d. ~OwesForce(a.sf) /\ ~OwesForce(sf) /\ DrainForces(a.sf) = DrainForces(sf)
  BY <1>4 DEF OwesForce, DrainForces, DrainLooks
<1>e. Tracked(a, owed, DrainForces(a.sf))
  <2>1. Tracked(World, owed, DrainForces(sf))
    BY <1>a, <1>d DEF Tracked
  <2> QED
    BY <2>1, <1>2, <1>d
<1>5. CASE Answer.ok
  <2> DEFINE w == [a EXCEPT !.sf.opened = TRUE, !.sf.desiredVisible = Answer.desired]
             r == [a.sf EXCEPT !.opened = TRUE, !.desiredVisible = Answer.desired]
             by == Opened[Answer.for]
             c == [by |-> by, on |-> Answer.desired]
             v == webview_visible(w, by, Answer.desired)
  <2>1. Becomes(v) /\ owed' = owed \cup {"observe"}
    <3>1. /\ Becomes(webview_visible([Answered EXCEPT !.sf.opened = TRUE,
                                              !.sf.desiredVisible = Answer.desired,
                                              !.sf.lastRect = Answer.at], by, Answer.desired))
          /\ owed' = owed \cup {"observe"}
      BY <1>5 DEF OpenAnswer
    <3>2. [Answered EXCEPT !.sf.opened = TRUE, !.sf.desiredVisible = Answer.desired,
                           !.sf.lastRect = Answer.at]
            = [[Answered EXCEPT !.sf.lastRect = Answer.at]
                  EXCEPT !.sf.opened = TRUE, !.sf.desiredVisible = Answer.desired]
      <4> DEFINE st == [sf EXCEPT !.opened = TRUE, !.desiredVisible = Answer.desired,
                                 !.lastRect = Answer.at]
                 g == [sf EXCEPT !.lastRect = Answer.at]
                 h == [g EXCEPT !.opened = TRUE, !.desiredVisible = Answer.desired]
                 b == Answered
      <4>1. st = h
        BY <1>a DEF SurfaceState
      <4>2. b.sf = sf /\ DOMAIN b = {"sf", "nat", "calls", "deaf"}
        BY DEF Answered, World
      <4> HIDE DEF b
      <4>3. [b EXCEPT !.sf.opened = TRUE, !.sf.desiredVisible = Answer.desired,
                      !.sf.lastRect = Answer.at] = [b EXCEPT !.sf = st]
        BY <4>2, <1>a DEF SurfaceState
      <4>4. [b EXCEPT !.sf.lastRect = Answer.at] = [b EXCEPT !.sf = g]
        BY <4>2
      <4>5. [[b EXCEPT !.sf = g] EXCEPT !.sf.opened = TRUE, !.sf.desiredVisible = Answer.desired]
              = [b EXCEPT !.sf = h]
        BY <4>2, <1>a DEF SurfaceState
      <4> QED
        BY <4>1, <4>3, <4>4, <4>5 DEF b
    <3> QED
      BY <3>1, <3>2, <1>1, <1>5
  <2>2. r \in SurfaceState
    BY <1>b, <1>3 DEF SurfaceState
  <2>3. w = [a EXCEPT !.sf = r]
    BY <1>2, <1>b DEF Worlds, SurfaceState
  <2>4. w \in Worlds /\ w.sf = r /\ w.nat = a.nat /\ w.calls = a.calls /\ w.deaf = a.deaf
    BY <2>2, <2>3, <1>2 DEF Worlds
  <2>5. /\ r.opening /\ r.opened /\ r.closed = a.sf.closed /\ r.vis = a.sf.vis
        /\ r.desiredVisible = Answer.desired
        /\ r.draining = a.sf.draining /\ r.precommitting = a.sf.precommitting
        /\ r.precommitTarget = a.sf.precommitTarget /\ r.lastRect = a.sf.lastRect
        /\ r.requested = a.sf.requested /\ r.force = a.sf.force
    BY <1>b, <1>4 DEF SurfaceState
  <2>6. /\ by \in {"vis", "opened-client", "opened-vis"}
        /\ by = IF Answer.for = "client" THEN "opened-client" ELSE "opened-vis"
    BY <1>3 DEF Opened
  <2> HIDE DEF w, r, by
  <2>7. /\ v \in Worlds /\ c \in NativeCall /\ v.sf = w.sf /\ v.calls = Append(w.calls, c)
        /\ v.nat.exists = w.nat.exists /\ v.nat.at = w.nat.at
        /\ v.nat.visible = (w.nat.exists /\ Answer.desired = "shown")
        /\ v.deaf = w.deaf
    BY <2>4, <2>6, <1>3, VisibleFacts, SMTT(30)
  <2>8. c.by = by /\ c.on = Answer.desired
    OBVIOUS
  <2> HIDE DEF v, c
  <2>9. Orderly(v.calls, v.deaf)
    <3>1. \A K \in Kinds : c.by \in K => NoCall(a.calls, K)
      BY <2>6, <2>8, <1>2 DEF Kinds, MoveCalls
    <3> QED
      BY <3>1, <2>4, <2>6, <2>7, <2>8, <1>b, <1>c, StaysOrderly
  <2>10. Fits(v, mv)
    <3>1. \A i \in DOMAIN a.calls : Fitting(v.sf, v.nat, mv, a.calls[i])
      <4> SUFFICES ASSUME NEW i \in DOMAIN a.calls PROVE Fitting(v.sf, v.nat, mv, a.calls[i])
        OBVIOUS
      <4>1. Fitting(a.sf, a.nat, mv, a.calls[i])
        BY <1>b DEF Fits
      <4>2. a.calls[i].by \notin {"vis", "open", "opened-client", "opened-vis"}
        BY <1>2, <1>c DEF NoCall, OpenCalls
      <4> QED
        BY <4>1, <4>2, <2>4, <2>5, <2>7 DEF Fitting
    <3>2. Fitting(v.sf, v.nat, mv, c)
      BY <2>4, <2>5, <2>6, <2>7, <2>8, <1>3, <1>4 DEF Fitting
    <3> QED
      BY <3>1, <3>2, <2>4, <2>7, <1>b, SentFits DEF Fits
  <2>11. WishIsServed(v.sf, v.nat)
    <3>1. /\ v.sf.opened /\ v.sf.opening /\ ~v.sf.closed /\ v.sf.desiredVisible = Answer.desired
          /\ v.sf.vis \in {"idle", "restoring"}
      BY <2>4, <2>5, <2>7, <1>4, <1>b
    <3>2. v.nat.visible => v.nat.exists
      BY <2>7
    <3>3. v.nat.exists => v.nat.visible = (Answer.desired = "shown")
      BY <2>7
    <3> QED
      BY <3>1, <3>2, <3>3, <1>3 DEF WishIsServed
  <2>12. ~IsFrame(c)
    BY <2>6, <2>8 DEF IsFrame
  <2>13. \A p : Settles(a.calls, a.sf.lastRect, p) => Settles(v.calls, v.sf.lastRect, p)
    BY <2>4, <2>5, <2>7, <2>12, <1>b, OtherSettles
  <2>14. NoCall(v.calls, {"open"})
    BY <2>4, <2>6, <2>7, <2>8, <1>b, <1>c, SentOne DEF NoCall
  <2>15. LockHolds(v, mv)
    <3>1. ~NoCall(inFlight, {"open"})
      <4>1. 1 \in DOMAIN inFlight /\ Head(inFlight) = inFlight[1]
        BY <1>a, TailIs
      <4> QED
        BY <4>1, <1>a DEF NoCall
    <3>2. /\ sf.precommitting /\ mv.pc \notin {"preparing", "prepared"} /\ deaf = {}
          => Settles(inFlight, sf.lastRect, sf.precommitTarget)
      BY <3>1, <1>a DEF LockHolds
    <3>3. /\ sf.precommitting /\ mv.pc \notin {"preparing", "prepared"} /\ deaf = {}
          => Settles(v.calls, v.sf.lastRect, sf.precommitTarget)
      BY <3>2, <2>13, <1>2
    <3> QED
      BY <3>3, <2>4, <2>5, <2>7, <2>14, <1>2, <1>4, <1>b DEF LockHolds
  <2>16. Tracked(v, owed', OwesForce(v.sf) \/ DrainForces(v.sf))
    <3>1. DrainForces(v.sf) = DrainForces(a.sf)
      BY <2>4, <2>5, <2>7 DEF DrainForces, DrainLooks
    <3>2. "resize" \in owed' <=> "resize" \in owed
      BY <2>1
    <3> QED
      BY <3>1, <3>2, <2>4, <2>7, <2>13, <1>e DEF Tracked
  <2>17. Followed(v, slot, LooksAgain(v.sf, owed') \/ DrainLooks(v.sf))
    <3>1. v.sf.vis # "geometry" /\ owed' # {}
      BY <2>1, <2>4, <2>5, <2>7, <1>4
    <3> QED
      BY <3>1 DEF Followed, LooksAgain
  <2>18. Sound(v, slot, mv, owed')
    BY <2>7, <2>9, <2>10, <2>11, <2>15, <2>16, <2>17, <1>a DEF Sound, Formed
  <2> QED
    BY <2>1, <2>4, <2>5, <2>7, <2>18, <1>4 DEF Calm
<1>6. CASE ~Answer.ok
  <2> DEFINE w == [a EXCEPT !.sf.opening = FALSE]
             r == [a.sf EXCEPT !.opening = FALSE]
             v == Failed(w)
  <2>1. Becomes(v) /\ owed' = owed
    BY <1>1, <1>6 DEF OpenAnswer
  <2>2. r \in SurfaceState
    BY <1>b, <1>3 DEF SurfaceState
  <2>3. w = [a EXCEPT !.sf = r]
    OBVIOUS
  <2>4. w \in Worlds /\ w.sf = r /\ w.nat = a.nat /\ w.calls = a.calls /\ w.deaf = a.deaf
    BY <2>2, <2>3, <1>2 DEF Worlds
  <2>5. /\ ~r.opening /\ ~r.opened /\ ~r.closed /\ r.vis = a.sf.vis
        /\ r.draining = a.sf.draining /\ r.precommitting = a.sf.precommitting
        /\ r.precommitTarget = a.sf.precommitTarget /\ r.lastRect = a.sf.lastRect
    BY <1>b, <1>4 DEF SurfaceState
  <2> HIDE DEF w, r
  <2>6. ~nat.exists /\ ~nat.visible
    BY <1>2, <1>6, <1>a DEF Fitting, WishIsServed
  <2>7. \A i \in DOMAIN a.calls : a.calls[i].by \notin {"vis", "open", "opened-client", "opened-vis"}
    BY <1>2, <1>c DEF NoCall, OpenCalls
  <2>8. LockHolds(w, mv)
    BY <2>4, <2>5, <1>b, <1>c DEF LockHolds
  <2>9. Tracked(w, owed, Hidden(w.sf) \/ DrainForces(w.sf)) /\ \A x : Tracked(w, owed, x)
    BY <2>4, <2>6, <1>2 DEF Tracked
  <2>10. \A x : Followed(w, slot, x)
    BY <2>4, <2>5 DEF Followed
  <2>11. CASE Answer.for = "vis"
    <3>1. v = VisLoop(w)
      BY <2>11 DEF Failed
    <3>2. \A i \in DOMAIN w.calls : Loose(w.sf, w.nat, mv, w.calls[i])
      <4> SUFFICES ASSUME NEW i \in DOMAIN a.calls PROVE Loose(w.sf, w.nat, mv, a.calls[i])
        BY <2>4
      <4>1. Fitting(a.sf, a.nat, mv, a.calls[i])
        BY <1>b DEF Fits
      <4> QED
        BY <4>1, <2>4, <2>5, <2>7 DEF Fitting, Loose
    <3>3. AtHead(w, mv)
      BY <3>2, <2>4, <2>5, <2>6, <2>8, <1>2, <1>b DEF AtHead
    <3>4. /\ Formed(v, mv) /\ v.sf.vis \in {"idle", "hiding", "alive"}
          /\ Tracked(v, owed, OwesForce(v.sf) \/ DrainForces(v.sf))
          /\ Followed(v, slot, LooksAgain(v.sf, owed) \/ DrainLooks(v.sf))
      BY <3>1, <3>3, <2>9, <2>10, LoopKeeps
    <3> HIDE DEF v
    <3>5. Sound(v, slot, mv, owed)
      BY <3>4, <1>a DEF Sound
    <3> QED
      BY <3>4, <3>5, <2>1 DEF Calm
  <2>12. CASE Answer.for # "vis"
    <3>1. v = w
      BY <2>12 DEF Failed
    <3>2. Fits(w, mv)
      <4> SUFFICES ASSUME NEW i \in DOMAIN a.calls PROVE Fitting(w.sf, w.nat, mv, a.calls[i])
        BY <2>4 DEF Fits
      <4>1. Fitting(a.sf, a.nat, mv, a.calls[i])
        BY <1>b DEF Fits
      <4> QED
        BY <4>1, <2>4, <2>5, <2>7 DEF Fitting
    <3>3. WishIsServed(w.sf, w.nat)
      BY <2>4, <2>5, <2>6, <2>12, <1>2, <1>3, <1>4 DEF WishIsServed
    <3>4. Sound(w, slot, mv, owed)
      BY <3>2, <3>3, <2>4, <2>8, <2>9, <2>10, <1>a, <1>b DEF Sound, Formed
    <3> QED
      BY <3>1, <3>4, <2>1, <2>4, <2>5, <1>4 DEF Calm
  <2> QED
    BY <2>11, <2>12
<1> QED
  BY <1>3, <1>5, <1>6

LEMMA OpenedAnswerKeeps ==
    ASSUME SurfaceInv, OpenedAnswer
    PROVE  \E v : Sound(v, slot, mv, owed) /\ Becomes(v) /\ Calm(v)
<1> DEFINE a == Answer1(World)
           w == [a EXCEPT !.sf.appliedVisible = Answer.on, !.sf.opening = FALSE]
           r == [a.sf EXCEPT !.appliedVisible = Answer.on, !.opening = FALSE]
<1>a. /\ Formed(World, mv) /\ World \in Worlds /\ World.calls # <<>> /\ World.calls = inFlight
      /\ slot \in SlotType /\ SlotAway(slot, mv) /\ World.sf = sf /\ World.nat = nat
      /\ Answer.by \in {"opened-client", "opened-vis"} /\ Answer = Head(World.calls)
      /\ sf \in SurfaceState
      /\ Tracked(World, owed, OwesForce(sf) \/ DrainForces(sf))
      /\ Followed(World, slot, LooksAgain(sf, owed) \/ DrainLooks(sf))
  BY DEF SurfaceInv, Sound, Formed, OpenedAnswer, AnswerOf, World, Answer, Worlds
<1>1. Answered = a
  BY <1>a, AnsweredIs DEF IsFrame
<1>2. /\ Formed(a, mv) /\ a \in Worlds /\ Fitting(sf, nat, mv, Answer) /\ a.nat = nat
      /\ Answer \in NativeCall
      /\ \A k \in DOMAIN sf : k # "lastRect" => a.sf[k] = sf[k]
      /\ NoCall(a.calls, OpenCalls)
      /\ \A x : Tracked(World, owed, x) => Tracked(a, owed, x)
      /\ \A x : Followed(World, slot, x) => Followed(a, slot, x)
  BY <1>a, AnswerKeeps DEF Kinds, Formed, OpenCalls
<1>3. Answer.on \in Wishes
  BY <1>2, <1>a DEF NativeCall
<1> HIDE DEF a
<1>4. /\ a.sf.appliedVisible = sf.appliedVisible /\ a.sf.closed = sf.closed
      /\ a.sf.desiredVisible = sf.desiredVisible /\ a.sf.requested = sf.requested
      /\ a.sf.force = sf.force /\ a.sf.draining = sf.draining /\ a.sf.returning = sf.returning
      /\ a.sf.visibilityRequested = sf.visibilityRequested /\ a.sf.opened
      /\ a.sf.vis = sf.vis /\ a.sf.opening /\ sf.opening
  BY <1>2, <1>a DEF SurfaceState, Fitting
<1>b. /\ a.calls \in Seq(NativeCall) /\ Orderly(a.calls, a.deaf) /\ Fits(a, mv)
      /\ LockHolds(a, mv) /\ a.sf \in SurfaceState /\ WishIsServed(a.sf, a.nat)
  BY <1>2 DEF Formed, Worlds
<1>5. r \in SurfaceState
  BY <1>b, <1>3 DEF SurfaceState
<1>6. w = [a EXCEPT !.sf = r]
  BY <1>2, <1>b DEF Worlds, SurfaceState
<1>7. w \in Worlds /\ w.sf = r /\ w.nat = a.nat /\ w.calls = a.calls /\ w.deaf = a.deaf
  BY <1>5, <1>6, <1>2 DEF Worlds
<1>8. /\ ~r.opening /\ r.opened /\ r.closed = a.sf.closed /\ r.vis = a.sf.vis
      /\ r.desiredVisible = a.sf.desiredVisible /\ r.appliedVisible = Answer.on
      /\ r.draining = a.sf.draining /\ r.precommitting = a.sf.precommitting
      /\ r.precommitTarget = a.sf.precommitTarget /\ r.lastRect = a.sf.lastRect
      /\ r.requested = a.sf.requested /\ r.force = a.sf.force
      /\ r.visibilityRequested = a.sf.visibilityRequested
  BY <1>b, <1>4 DEF SurfaceState
<1>9. \/ Answer.by = "opened-client" /\ Becomes(w)
      \/ Answer.by = "opened-vis" /\ Becomes(VisLoop(w))
  BY <1>1 DEF OpenedAnswer, AnswerOf
<1> HIDE DEF w, r
<1>10. LockHolds(w, mv)
  BY <1>4, <1>7, <1>8, <1>b DEF LockHolds
<1>11. /\ DrainForces(w.sf) = DrainForces(sf) /\ DrainLooks(w.sf) = DrainLooks(sf)
       /\ LooksAgain(w.sf, owed) = LooksAgain(sf, owed)
  BY <1>4, <1>7, <1>8 DEF LooksAgain, DrainForces, DrainLooks
<1>12. \A x : Tracked(w, owed, x \/ DrainForces(w.sf))
  <2>1. ~OwesForce(sf)
    BY <1>4 DEF OwesForce
  <2>2. Tracked(World, owed, DrainForces(sf))
    BY <2>1, <1>a DEF Tracked
  <2>3. Tracked(a, owed, DrainForces(sf))
    BY <2>2, <1>2
  <2> QED
    BY <2>3, <1>7, <1>8, <1>11 DEF Tracked
<1>13. Followed(w, slot, LooksAgain(w.sf, owed) \/ DrainLooks(w.sf))
  <2>1. Followed(a, slot, LooksAgain(sf, owed) \/ DrainLooks(sf))
    BY <1>2, <1>a
  <2> QED
    BY <2>1, <1>4, <1>7, <1>8, <1>11 DEF Followed
<1>14. CASE Answer.by = "opened-client" /\ Becomes(w)
  <2>1. Fits(w, mv)
    <3> SUFFICES ASSUME NEW i \in DOMAIN a.calls PROVE Fitting(w.sf, w.nat, mv, a.calls[i])
      BY <1>7 DEF Fits
    <3>1. Fitting(a.sf, a.nat, mv, a.calls[i])
      BY <1>b DEF Fits
    <3>2. a.calls[i].by \notin OpenCalls
      BY <1>2 DEF NoCall
    <3> QED
      BY <3>1, <3>2, <1>7, <1>8 DEF Fitting, OpenCalls
  <2>2. WishIsServed(w.sf, w.nat)
    <3>1. /\ a.sf.vis \in {"idle", "hiding", "alive"}
          /\ a.sf.vis = "idle" => Answer.on = a.sf.desiredVisible
      BY <1>2, <1>4, <1>14 DEF Fitting
    <3> QED
      BY <3>1, <1>4, <1>7, <1>8, <1>b DEF WishIsServed
  <2>3. Tracked(w, owed, OwesForce(w.sf) \/ DrainForces(w.sf))
    BY <1>12
  <2>4. Sound(w, slot, mv, owed)
    BY <2>1, <2>2, <2>3, <1>7, <1>10, <1>13, <1>a, <1>b DEF Sound, Formed
  <2> QED
    BY <2>4, <1>4, <1>7, <1>8, <1>14 DEF Calm
<1>15. CASE Answer.by = "opened-vis" /\ Becomes(VisLoop(w))
  <2>1. /\ sf.vis = "restoring" /\ (Answer.on = sf.desiredVisible \/ sf.visibilityRequested)
        /\ nat.exists => nat.visible = (Answer.on = "shown")
    BY <1>2, <1>15 DEF Fitting
  <2>2. NoCall(a.calls, {"vis"})
    BY <2>1, <1>2, <1>4, <1>b, NotUnderWay
  <2>3. \A i \in DOMAIN w.calls : Loose(w.sf, w.nat, mv, w.calls[i])
    <3> SUFFICES ASSUME NEW i \in DOMAIN a.calls PROVE Loose(w.sf, w.nat, mv, a.calls[i])
      BY <1>7
    <3>1. Fitting(a.sf, a.nat, mv, a.calls[i])
      BY <1>b DEF Fits
    <3>2. a.calls[i].by \notin OpenCalls /\ a.calls[i].by # "vis"
      BY <2>2, <1>2 DEF NoCall
    <3> QED
      BY <3>1, <3>2, <1>7, <1>8 DEF Fitting, Loose, OpenCalls
  <2>4. AtHead(w, mv)
    BY <2>1, <2>3, <1>2, <1>4, <1>7, <1>8, <1>10, <1>b DEF AtHead, WishIsServed
  <2>5. Tracked(w, owed, Hidden(w.sf) \/ DrainForces(w.sf))
    BY <1>12
  <2>6. Followed(w, slot, w.sf.visibilityRequested \/ owed # {} \/ DrainLooks(w.sf))
    <3>1. LooksAgain(w.sf, owed) => w.sf.visibilityRequested \/ owed # {}
      BY <2>1, <1>4, <1>7, <1>8 DEF LooksAgain
    <3> QED
      BY <3>1, <1>13 DEF Followed
  <2> DEFINE v == VisLoop(w)
  <2>7. /\ Formed(v, mv) /\ v.sf.vis \in {"idle", "hiding", "alive"}
        /\ Tracked(v, owed, OwesForce(v.sf) \/ DrainForces(v.sf))
        /\ Followed(v, slot, LooksAgain(v.sf, owed) \/ DrainLooks(v.sf))
    BY <2>4, <2>5, <2>6, LoopKeeps
  <2> HIDE DEF v
  <2>8. Sound(v, slot, mv, owed)
    BY <2>7, <1>a DEF Sound
  <2> QED
    BY <2>7, <2>8, <1>15 DEF v, Calm
<1> QED
  BY <1>9, <1>14, <1>15

-----------------------------------------------------------------------------
(* The layout transaction. *)

\* The lock is released where the slot stands where it was committed.
LEMMA SettleFrameKeeps ==
    ASSUME NEW w, NEW s \in SlotType, NEW m \in MoveType, NEW o, Formed(w, m), SlotAway(s, m),
           w.sf.precommitting
    PROVE  LET v == settlePreparedFrame(w, s)
           IN /\ Formed(v, m) /\ v.sf.vis = w.sf.vis
              /\ Tracked(w, o, OwesForce(w.sf) \/ DrainForces(w.sf))
                   => Tracked(v, o, OwesForce(v.sf) \/ DrainForces(v.sf))
              /\ \A x : Followed(v, s, x)
<1> DEFINE v == settlePreparedFrame(w, s)
           r == [w.sf EXCEPT !.precommitting = FALSE, !.precommitTarget = NoPlace]
<1>a. /\ w \in Worlds /\ Orderly(w.calls, w.deaf) /\ LockHolds(w, m) /\ w.sf \in SurfaceState
      /\ Fits(w, m) /\ WishIsServed(w.sf, w.nat)
  BY DEF Formed, Worlds
<1>1. CASE ~(s.present /\ slotRect(s) = w.sf.precommitTarget)
  <2>1. v = w
    BY <1>1 DEF settlePreparedFrame
  <2> QED
    BY <2>1 DEF Followed
<1>2. CASE s.present /\ slotRect(s) = w.sf.precommitTarget
  <2>1. v = Unlocked(w)
    BY <1>2 DEF settlePreparedFrame
  <2>2. r \in SurfaceState
    BY <1>a DEF SurfaceState, Frames
  <2>3. v = [w EXCEPT !.sf = r]
    BY <2>1, <1>a DEF Unlocked, Worlds, SurfaceState
  <2>4. v \in Worlds /\ v.sf = r /\ v.nat = w.nat /\ v.calls = w.calls /\ v.deaf = w.deaf
    BY <2>2, <2>3, <1>a DEF Worlds
  <2>5. /\ r.opened = w.sf.opened /\ r.opening = w.sf.opening
        /\ r.desiredVisible = w.sf.desiredVisible /\ r.appliedVisible = w.sf.appliedVisible
        /\ ~r.precommitting /\ r.lastRect = w.sf.lastRect /\ r.draining = w.sf.draining
        /\ r.requested = w.sf.requested /\ r.force = w.sf.force
        /\ r.closed = w.sf.closed /\ r.vis = w.sf.vis /\ r.returning = w.sf.returning
        /\ r.visibilityRequested = w.sf.visibilityRequested
    BY <1>a DEF SurfaceState
  <2> HIDE DEF v, r
  <2>6. m.pc \notin {"preparing", "prepared"}
    <3> SUFFICES ASSUME m.pc \in {"preparing", "prepared"} PROVE FALSE
      OBVIOUS
    <3>1. slotRect(s) = m.target /\ s.at # m.target /\ m.target \in SlotPlaces
      BY <1>2, <1>a DEF LockHolds, SlotAway
    <3> QED
      BY <3>1, PlacesDiffer DEF slotRect
  <2>7. Fits(v, m)
    BY <2>4, <2>5, <1>a DEF Fits, Fitting
  <2>8. WishIsServed(v.sf, v.nat)
    BY <2>4, <2>5, <1>a DEF WishIsServed
  <2>9. LockHolds(v, m)
    BY <2>4, <2>5, <2>6 DEF LockHolds
  <2>10. OwesForce(v.sf) = OwesForce(w.sf) /\ DrainForces(v.sf) = DrainForces(w.sf)
    BY <2>4, <2>5 DEF OwesForce, DrainForces, DrainLooks
  <2>11. Tracked(w, o, OwesForce(w.sf) \/ DrainForces(w.sf))
           => Tracked(v, o, OwesForce(v.sf) \/ DrainForces(v.sf))
    BY <2>4, <2>5, <2>10 DEF Tracked
  <2>12. \A x : Followed(v, s, x)
    BY <2>4, <2>5, <2>6, <1>2, <1>a DEF Followed, LockHolds
  <2> QED
    BY <2>4, <2>5, <2>7, <2>8, <2>9, <2>11, <2>12, <1>a DEF Formed, v
<1> QED
  BY <1>1, <1>2

\* A transaction that is given up: its slot is where the last frame is, or that is noted.
LEMMA GivenUpKeeps ==
    ASSUME NEW w, NEW s \in SlotType, NEW m, NEW o, Formed(w, m), m.pc \in {"preparing", "prepared"},
           NoCall(w.calls, MoveCalls)
    PROVE  LET v == GivenUp(w, s)
           IN /\ Formed(v, NoMove) /\ v.sf.vis = w.sf.vis /\ v.nat = w.nat /\ v.calls = w.calls
              /\ Tracked(w, o, OwesForce(w.sf) \/ DrainForces(w.sf))
                   => Tracked(v, o, OwesForce(v.sf) \/ DrainForces(v.sf))
              /\ \A x : Followed(v, s, x)
<1> DEFINE v == GivenUp(w, s)
           r == [w.sf EXCEPT !.precommitting = FALSE, !.precommitTarget = NoPlace]
           d == w.deaf \cup IF slotRect(s) = w.sf.lastRect THEN {} ELSE {"mutation"}
<1>a. /\ w \in Worlds /\ Orderly(w.calls, w.deaf) /\ LockHolds(w, m) /\ w.sf \in SurfaceState
      /\ Fits(w, m) /\ WishIsServed(w.sf, w.nat) /\ w.deaf \in SUBSET Marks
      /\ w.calls \in Seq(NativeCall)
  BY DEF Formed, Worlds
<1>1. w.sf.precommitting /\ ~w.sf.draining
  BY <1>a DEF LockHolds
<1>2. r \in SurfaceState /\ d \in SUBSET Marks
  BY <1>a DEF SurfaceState, Frames, Marks
<1>3. v = [[w EXCEPT !.sf = r] EXCEPT !.deaf = d]
  <2>1. Unlocked(w) = [w EXCEPT !.sf = r]
    BY <1>a DEF Unlocked, Worlds, SurfaceState
  <2> QED
    BY <2>1, <1>a DEF GivenUp, Worlds
<1>4. v \in Worlds /\ v.sf = r /\ v.nat = w.nat /\ v.calls = w.calls /\ v.deaf = d
  BY <1>2, <1>3, <1>a DEF Worlds
<1>5. /\ r.opened = w.sf.opened /\ r.opening = w.sf.opening
      /\ r.desiredVisible = w.sf.desiredVisible /\ r.appliedVisible = w.sf.appliedVisible
      /\ ~r.precommitting /\ r.lastRect = w.sf.lastRect /\ r.draining = w.sf.draining
      /\ r.requested = w.sf.requested /\ r.force = w.sf.force
      /\ r.closed = w.sf.closed /\ r.vis = w.sf.vis /\ r.returning = w.sf.returning
      /\ r.visibilityRequested = w.sf.visibilityRequested
  BY <1>a DEF SurfaceState
<1>6. /\ w.deaf \subseteq d /\ ("restored" \in d => "restored" \in w.deaf)
      /\ ("resize" \in d => "resize" \in w.deaf)
      /\ d = {} => slotRect(s) = w.sf.lastRect
  OBVIOUS
<1> HIDE DEF v, r, d
<1>7. Orderly(v.calls, v.deaf)
  BY <1>4, <1>6, <1>a, OrderlyDeaf
<1>8. Fits(v, NoMove)
  <2> SUFFICES ASSUME NEW i \in DOMAIN w.calls PROVE Fitting(v.sf, v.nat, NoMove, w.calls[i])
    BY <1>4 DEF Fits
  <2>1. Fitting(w.sf, w.nat, m, w.calls[i])
    BY <1>a DEF Fits
  <2>2. w.calls[i].by \notin {"prepare", "commit", "land"}
    BY DEF NoCall, MoveCalls
  <2> QED
    BY <2>1, <2>2, <1>4, <1>5 DEF Fitting
<1>9. WishIsServed(v.sf, v.nat)
  BY <1>4, <1>5, <1>a DEF WishIsServed
<1>10. LockHolds(v, NoMove)
  BY <1>4, <1>5 DEF LockHolds, NoMove
<1>11. OwesForce(v.sf) = OwesForce(w.sf) /\ DrainForces(v.sf) = DrainForces(w.sf)
  BY <1>4, <1>5 DEF OwesForce, DrainForces, DrainLooks
<1>12. Tracked(w, o, OwesForce(w.sf) \/ DrainForces(w.sf))
         => Tracked(v, o, OwesForce(v.sf) \/ DrainForces(v.sf))
  BY <1>4, <1>5, <1>6, <1>11 DEF Tracked
<1>13. \A x : Followed(v, s, x)
  <2> SUFFICES ASSUME v.sf.opened, v.deaf = {}
               PROVE  Settles(v.calls, v.sf.lastRect, slotRect(s))
    BY DEF Followed
  <2>1. NoCall(w.calls, {"drain"}) /\ NoCall(w.calls, {"open"})
    BY <1>1, <1>4, <1>5, <1>a, NotUnderWay
  <2>2. NoCall(w.calls, {"commit"}) /\ NoCall(w.calls, {"prepare"})
    BY DEF NoCall, MoveCalls
  <2>3. \A i \in DOMAIN w.calls : ~IsFrame(w.calls[i])
    BY <2>1, <2>2, Framed
  <2> QED
    BY <2>3, <1>4, <1>5, <1>6, <1>a, NoFrames
<1> QED
  BY <1>4, <1>5, <1>7, <1>8, <1>9, <1>10, <1>12, <1>13 DEF Formed, v

LEMMA NoMoveIs == /\ NoMove \in MoveType /\ NoMove.pc = "idle"
                  /\ \A s : SlotAway(s, NoMove)
BY DEF NoMove, MoveType, SlotAway, NoPlace, Frames

LEMMA PrepareAnswerKeeps ==
    ASSUME SurfaceInv, PrepareAnswer
    PROVE  /\ mv' \in MoveType
           /\ \E v : Sound(v, slot, mv', owed) /\ Becomes(v) /\ Calm(v)
<1> DEFINE a == Answer1(World)
<1>a. /\ Formed(World, mv) /\ World \in Worlds /\ World.calls # <<>> /\ World.calls = inFlight
      /\ slot \in SlotType /\ SlotAway(slot, mv) /\ World.sf = sf /\ World.nat = nat
      /\ Answer.by = "prepare" /\ Answer = Head(World.calls)
      /\ sf \in SurfaceState /\ mv \in MoveType
      /\ Tracked(World, owed, OwesForce(sf) \/ DrainForces(sf))
  BY DEF SurfaceInv, Sound, Formed, PrepareAnswer, AnswerOf, World, Answer, Worlds
<1>1. /\ IsFrame(Answer) <=> Answer.ok
      /\ Answer.ok => [Answered EXCEPT !.sf.lastRect = Answer.at] = a
      /\ ~Answer.ok => Answered = a
  BY <1>a, AnsweredIs DEF IsFrame
<1>2. /\ Formed(a, mv) /\ a \in Worlds /\ Fitting(sf, nat, mv, Answer)
      /\ \A k \in DOMAIN sf : k # "lastRect" => a.sf[k] = sf[k]
      /\ NoCall(a.calls, MoveCalls)
      /\ "restored" \in a.deaf \/ NoCall(a.calls, {"open"})
      /\ \A x : Tracked(World, owed, x) => Tracked(a, owed, x)
  BY <1>a, AnswerKeeps DEF Kinds, Formed, MoveCalls
<1> HIDE DEF a
<1>4. /\ a.sf.appliedVisible = sf.appliedVisible /\ a.sf.requested = sf.requested
      /\ a.sf.force = sf.force /\ a.sf.draining = sf.draining /\ a.sf.returning = sf.returning
      /\ a.sf.vis = sf.vis /\ a.sf.opening = sf.opening
      /\ a.sf.precommitting = sf.precommitting
  BY <1>2, <1>a DEF SurfaceState
<1>5. OwesForce(a.sf) = OwesForce(sf) /\ DrainForces(a.sf) = DrainForces(sf)
  BY <1>4 DEF OwesForce, DrainForces, DrainLooks
<1>6. Tracked(a, owed, OwesForce(a.sf) \/ DrainForces(a.sf))
  BY <1>2, <1>5, <1>a
<1>b. /\ a.calls \in Seq(NativeCall) /\ Orderly(a.calls, a.deaf) /\ Fits(a, mv)
      /\ LockHolds(a, mv) /\ a.sf \in SurfaceState /\ WishIsServed(a.sf, a.nat)
  BY <1>2 DEF Formed, Worlds
<1>7. mv.pc = "preparing"
  BY <1>2, <1>a DEF Fitting
<1>8. CASE Answer.ok
  <2> DEFINE m == [mv EXCEPT !.pc = "prepared"]
  <2>1. mv' = m /\ Becomes(a)
    BY <1>1, <1>8 DEF PrepareAnswer
  <2>2. /\ m \in MoveType /\ m.pc = "prepared" /\ m.target = mv.target /\ m.before = mv.before
        /\ m.glide = mv.glide
    BY <1>a DEF MoveType
  <2> HIDE DEF m
  <2>3. Fits(a, m)
    <3> SUFFICES ASSUME NEW i \in DOMAIN a.calls PROVE Fitting(a.sf, a.nat, m, a.calls[i])
      BY DEF Fits
    <3>1. Fitting(a.sf, a.nat, mv, a.calls[i])
      BY <1>b DEF Fits
    <3>2. a.calls[i].by \notin {"prepare", "commit", "land"}
      BY <1>2 DEF NoCall, MoveCalls
    <3> QED
      BY <3>1, <3>2 DEF Fitting
  <2>4. LockHolds(a, m)
    BY <2>2, <1>2, <1>7, <1>b DEF LockHolds
  <2>5. SlotAway(slot, m)
    BY <2>2, <1>7, <1>a DEF SlotAway
  <2>6. a.sf.precommitting
    BY <1>7, <1>b DEF LockHolds
  <2>7. Followed(a, slot, LooksAgain(a.sf, owed) \/ DrainLooks(a.sf))
    BY <2>6 DEF Followed
  <2>8. Sound(a, slot, m, owed)
    BY <2>3, <2>4, <2>5, <2>7, <1>2, <1>6, <1>b DEF Sound, Formed
  <2> QED
    BY <2>1, <2>2, <2>8, <1>4 DEF Calm
<1>9. CASE ~Answer.ok
  <2> DEFINE v == GivenUp(a, slot)
  <2>1. mv' = NoMove /\ Becomes(v)
    BY <1>1, <1>9 DEF PrepareAnswer
  <2>2. /\ Formed(v, NoMove) /\ v.sf.vis = a.sf.vis
        /\ Tracked(v, owed, OwesForce(v.sf) \/ DrainForces(v.sf))
        /\ \A x : Followed(v, slot, x)
    BY <1>2, <1>6, <1>7, <1>a, GivenUpKeeps
  <2> HIDE DEF v
  <2>3. Sound(v, slot, NoMove, owed)
    BY <2>2, NoMoveIs DEF Sound
  <2> QED
    BY <2>1, <2>2, <2>3, <1>4, NoMoveIs DEF Calm
<1> QED
  BY <1>8, <1>9

LEMMA CommitAnswerKeeps ==
    ASSUME SurfaceInv, CommitAnswer
    PROVE  \E v : Sound(v, slot, NoMove, owed) /\ Becomes(v) /\ Calm(v)
<1> DEFINE a == Answer1(World)
<1>a. /\ Formed(World, mv) /\ World \in Worlds /\ World.calls # <<>> /\ World.calls = inFlight
      /\ slot \in SlotType /\ World.sf = sf /\ World.nat = nat
      /\ Answer.by \in {"commit", "land"} /\ Answer = Head(World.calls)
      /\ sf \in SurfaceState
      /\ Tracked(World, owed, OwesForce(sf) \/ DrainForces(sf))
      /\ Followed(World, slot, LooksAgain(sf, owed) \/ DrainLooks(sf))
  BY DEF SurfaceInv, Sound, Formed, CommitAnswer, AnswerOf, World, Answer, Worlds
<1>1. (IF Answer.by = "land" THEN Answered ELSE [Answered EXCEPT !.sf.lastRect = Answer.at]) = a
  BY <1>a, AnsweredIs DEF IsFrame
<1>2. /\ Formed(a, mv) /\ a \in Worlds /\ Fitting(sf, nat, mv, Answer)
      /\ \A k \in DOMAIN sf : k # "lastRect" => a.sf[k] = sf[k]
      /\ NoCall(a.calls, MoveCalls)
      /\ \A x : Tracked(World, owed, x) => Tracked(a, owed, x)
      /\ \A x : Followed(World, slot, x) => Followed(a, slot, x)
  BY <1>a, AnswerKeeps DEF Kinds, Formed, MoveCalls
<1>3. Becomes(IF a.sf.precommitting THEN settlePreparedFrame(a, slot) ELSE a)
  BY <1>1 DEF CommitAnswer
<1> HIDE DEF a
<1>4. /\ a.sf.appliedVisible = sf.appliedVisible /\ a.sf.requested = sf.requested
      /\ a.sf.force = sf.force /\ a.sf.draining = sf.draining /\ a.sf.returning = sf.returning
      /\ a.sf.vis = sf.vis /\ a.sf.opening = sf.opening
      /\ a.sf.visibilityRequested = sf.visibilityRequested
  BY <1>2, <1>a DEF SurfaceState
<1>5. /\ OwesForce(a.sf) = OwesForce(sf) /\ DrainForces(a.sf) = DrainForces(sf)
      /\ LooksAgain(a.sf, owed) = LooksAgain(sf, owed) /\ DrainLooks(a.sf) = DrainLooks(sf)
  BY <1>4 DEF OwesForce, DrainForces, DrainLooks, LooksAgain
<1>6. /\ Tracked(a, owed, OwesForce(a.sf) \/ DrainForces(a.sf))
      /\ Followed(a, slot, LooksAgain(a.sf, owed) \/ DrainLooks(a.sf))
  BY <1>2, <1>5, <1>a
<1>7. mv.pc = "committing"
  BY <1>2, <1>a DEF Fitting
<1>8. Formed(a, NoMove)
  <2>1. /\ Orderly(a.calls, a.deaf) /\ Fits(a, mv) /\ LockHolds(a, mv) /\ WishIsServed(a.sf, a.nat)
    BY <1>2 DEF Formed
  <2>2. Fits(a, NoMove)
    <3> SUFFICES ASSUME NEW i \in DOMAIN a.calls PROVE Fitting(a.sf, a.nat, NoMove, a.calls[i])
      BY DEF Fits
    <3>1. Fitting(a.sf, a.nat, mv, a.calls[i])
      BY <2>1 DEF Fits
    <3>2. a.calls[i].by \notin {"prepare", "commit", "land"}
      BY <1>2 DEF NoCall, MoveCalls
    <3> QED
      BY <3>1, <3>2 DEF Fitting
  <2>3. LockHolds(a, NoMove)
    BY <2>1, <1>7, NoMoveIs DEF LockHolds
  <2> QED
    BY <2>1, <2>2, <2>3, <1>2 DEF Formed
<1>9. CASE a.sf.precommitting
  <2> DEFINE v == settlePreparedFrame(a, slot)
  <2>1. /\ Formed(v, NoMove) /\ v.sf.vis = a.sf.vis
        /\ Tracked(v, owed, OwesForce(v.sf) \/ DrainForces(v.sf))
        /\ \A x : Followed(v, slot, x)
    BY <1>6, <1>8, <1>9, <1>a, NoMoveIs, SettleFrameKeeps
  <2>2. Becomes(v)
    BY <1>3, <1>9
  <2> HIDE DEF v
  <2>3. Sound(v, slot, NoMove, owed)
    BY <2>1, NoMoveIs DEF Sound
  <2> QED
    BY <2>1, <2>2, <2>3, <1>4 DEF Calm
<1>10. CASE ~a.sf.precommitting
  <2>1. Sound(a, slot, NoMove, owed)
    BY <1>6, <1>8, NoMoveIs DEF Sound
  <2> QED
    BY <2>1, <1>3, <1>4, <1>10 DEF Calm
<1> QED
  BY <1>9, <1>10

LEMMA CancelAnswerKeeps ==
    ASSUME SurfaceInv, CancelAnswer
    PROVE  \E v : Sound(v, slot, mv, owed) /\ Becomes(v) /\ Calm(v)
<1> DEFINE a == Answer1(World)
<1>a. /\ Formed(World, mv) /\ World \in Worlds /\ World.calls # <<>> /\ World.calls = inFlight
      /\ SlotAway(slot, mv) /\ World.sf = sf
      /\ Answer.by = "cancel" /\ Answer = Head(World.calls) /\ sf \in SurfaceState
      /\ Tracked(World, owed, OwesForce(sf) \/ DrainForces(sf))
      /\ Followed(World, slot, LooksAgain(sf, owed) \/ DrainLooks(sf))
  BY DEF SurfaceInv, Sound, Formed, CancelAnswer, AnswerOf, World, Answer, Worlds
<1>1. Answered = a
  BY <1>a, AnsweredIs DEF IsFrame
<1>2. /\ Formed(a, mv)
      /\ \A k \in DOMAIN sf : k # "lastRect" => a.sf[k] = sf[k]
      /\ \A x : Tracked(World, owed, x) => Tracked(a, owed, x)
      /\ \A x : Followed(World, slot, x) => Followed(a, slot, x)
  BY <1>a, AnswerKeeps
<1> HIDE DEF a
<1>4. /\ a.sf.appliedVisible = sf.appliedVisible /\ a.sf.requested = sf.requested
      /\ a.sf.force = sf.force /\ a.sf.draining = sf.draining /\ a.sf.returning = sf.returning
      /\ a.sf.vis = sf.vis /\ a.sf.opening = sf.opening
      /\ a.sf.visibilityRequested = sf.visibilityRequested
  BY <1>2, <1>a DEF SurfaceState
<1>5. /\ OwesForce(a.sf) = OwesForce(sf) /\ DrainForces(a.sf) = DrainForces(sf)
      /\ LooksAgain(a.sf, owed) = LooksAgain(sf, owed) /\ DrainLooks(a.sf) = DrainLooks(sf)
  BY <1>4 DEF OwesForce, DrainForces, DrainLooks, LooksAgain
<1>6. Sound(a, slot, mv, owed)
  BY <1>2, <1>5, <1>a DEF Sound
<1> QED
  BY <1>1, <1>4, <1>6 DEF CancelAnswer, Calm

LEMMA PlacedFacts ==
    ASSUME NEW w \in Worlds, NEW at \in Anywhere, NEW m, Fits(w, m)
    PROVE  LET v == Placed(w, at)
           IN /\ v \in Worlds /\ v.sf = w.sf /\ v.calls = w.calls
              /\ v.nat.exists = w.nat.exists /\ v.nat.visible = w.nat.visible
              /\ v.nat.at = IF w.nat.exists THEN at ELSE w.nat.at
              /\ v.deaf \subseteq w.deaf
              /\ ("restored" \in w.deaf => "restored" \in v.deaf) \/ NoCall(w.calls, {"open"})
<1> DEFINE v == Placed(w, at)
<1>1. /\ v \in Worlds /\ v.sf = w.sf /\ v.calls = w.calls
      /\ v.nat.exists = w.nat.exists /\ v.nat.visible = w.nat.visible
      /\ v.nat.at = IF w.nat.exists THEN at ELSE w.nat.at
      /\ v.deaf = IF w.nat.exists /\ ~(w.sf.opening /\ ~w.sf.opened) THEN {} ELSE w.deaf
  BY DEF Worlds, NativeChild, Placed
<1> HIDE DEF v
<1>2. ~(w.sf.opening /\ ~w.sf.opened) => NoCall(w.calls, {"open"})
  BY NotUnderWay
<1> QED
  BY <1>1, <1>2 DEF v

LEMMA MoveAskedKeeps ==
    ASSUME SurfaceInv, MoveAsked
    PROVE  /\ mv' \in MoveType /\ Sound(World, slot, mv', owed)
           /\ UNCHANGED <<slot, sf, nat, inFlight, owed, deaf>>
<1>a. /\ Formed(World, mv) /\ World \in Worlds /\ World.sf = sf /\ sf \in SurfaceState
      /\ Orderly(World.calls, World.deaf) /\ Fits(World, mv) /\ LockHolds(World, mv)
      /\ WishIsServed(sf, World.nat)
      /\ Tracked(World, owed, OwesForce(sf) \/ DrainForces(sf))
      /\ Followed(World, slot, LooksAgain(sf, owed) \/ DrainLooks(sf))
  BY DEF SurfaceInv, Sound, Formed, World, Worlds
<1>1. PICK t \in SlotPlaces \ {slot.at} :
         mv' = [NoMove EXCEPT !.pc = "asked", !.before = sf.lastRect, !.target = t]
  BY DEF MoveAsked
<1>2. mv.pc = "idle" /\ sf.lastRect # NoPlace /\ UNCHANGED <<slot, sf, nat, inFlight, owed, deaf>>
  BY DEF MoveAsked
<1> DEFINE m == mv'
<1>3. /\ m.pc = "asked" /\ m.target = t /\ m.before = sf.lastRect
      /\ m = [pc |-> "asked", glide |-> FALSE, before |-> sf.lastRect, target |-> t]
  BY <1>1 DEF NoMove
<1>4. sf.lastRect \in Anywhere /\ sf.lastRect \in Frames
  BY <1>2, <1>a DEF SurfaceState, Frames
<1>5. m \in MoveType
  BY <1>3, <1>4 DEF MoveType
<1> HIDE DEF m
<1>6. SlotAway(slot, m)
  BY <1>3, <1>4 DEF SlotAway
<1>7. NoCall(World.calls, MoveCalls)
  BY <1>2, <1>a, NotUnderWay
<1>8. Fits(World, m)
  <2> SUFFICES ASSUME NEW i \in DOMAIN World.calls
               PROVE  Fitting(World.sf, World.nat, m, World.calls[i])
    BY DEF Fits
  <2>1. Fitting(World.sf, World.nat, mv, World.calls[i])
    BY <1>a DEF Fits
  <2>2. World.calls[i].by \notin {"prepare", "commit", "land"}
    BY <1>7 DEF NoCall, MoveCalls
  <2> QED
    BY <2>1, <2>2 DEF Fitting
<1>9. LockHolds(World, m)
  BY <1>2, <1>3, <1>a DEF LockHolds
<1>10. Sound(World, slot, m, owed)
  BY <1>6, <1>8, <1>9, <1>a DEF Sound, Formed
<1> QED
  BY <1>2, <1>5, <1>10 DEF m

LEMMA MoveLockKeeps ==
    ASSUME SurfaceInv, NEW glide \in BOOLEAN, NEW ok \in BOOLEAN, MoveLock(glide, ok)
    PROVE  /\ mv' \in MoveType
           /\ \E v : Sound(v, slot, mv', owed) /\ Becomes(v) /\ Calm(v)
<1> DEFINE w == Locked(World, mv.target)
           r == [sf EXCEPT !.precommitting = TRUE, !.precommitTarget = mv.target]
           m == [mv EXCEPT !.pc = IF glide THEN "preparing" ELSE "prepared", !.glide = glide]
<1>a. /\ Formed(World, mv) /\ World \in Worlds /\ World.sf = sf /\ sf \in SurfaceState
      /\ World.nat = nat /\ World.deaf = deaf /\ World.calls = inFlight
      /\ inFlight \in Seq(NativeCall)
      /\ Orderly(inFlight, deaf) /\ Fits(World, mv) /\ LockHolds(World, mv)
      /\ WishIsServed(sf, nat) /\ SlotAway(slot, mv) /\ mv \in MoveType
      /\ Tracked(World, owed, OwesForce(sf) \/ DrainForces(sf))
  BY DEF SurfaceInv, Sound, Formed, World, Worlds
<1>b. mv.pc = "asked" /\ ~sf.draining /\ (ok => nat.exists) /\ mv' = m
  BY DEF MoveLock
<1>c. /\ mv.target \in SlotPlaces /\ mv.target \in Frames /\ mv.target \in Anywhere
      /\ mv.before \in Anywhere /\ slot.at # mv.target
  BY <1>a, <1>b DEF SlotAway, Frames, Anywhere
<1>1. /\ m \in MoveType /\ m.target = mv.target /\ m.before = mv.before /\ m.glide = glide
      /\ m.pc = IF glide THEN "preparing" ELSE "prepared"
  BY <1>a DEF MoveType
<1>2. r \in SurfaceState
  BY <1>a, <1>c DEF SurfaceState
<1>3. w = [World EXCEPT !.sf = r]
  BY <1>a DEF Locked, World, SurfaceState
<1>4. w \in Worlds /\ w.sf = r /\ w.nat = nat /\ w.calls = inFlight /\ w.deaf = deaf
  BY <1>2, <1>3, <1>a DEF Worlds, World
<1>5. /\ r.opened = sf.opened /\ r.opening = sf.opening
      /\ r.desiredVisible = sf.desiredVisible /\ r.appliedVisible = sf.appliedVisible
      /\ r.precommitting /\ r.precommitTarget = mv.target /\ r.lastRect = sf.lastRect
      /\ r.draining = sf.draining
      /\ r.requested = sf.requested /\ r.force = sf.force
      /\ r.closed = sf.closed /\ r.vis = sf.vis /\ r.returning = sf.returning
      /\ r.visibilityRequested = sf.visibilityRequested
  BY <1>a DEF SurfaceState
<1>6. Becomes(IF ~glide THEN w
              ELSE Sent(IF ok THEN Placed(w, mv.target) ELSE w,
                        [by |-> "prepare", ok |-> ok, at |-> mv.target]))
  BY DEF MoveLock
<1> HIDE DEF w, r, m
<1>7. NoCall(inFlight, MoveCalls)
  BY <1>a, <1>b, NotUnderWay
<1>8. \A n : (n.exists = nat.exists /\ n.visible = nat.visible)
         => \A i \in DOMAIN inFlight : Fitting(w.sf, n, m, inFlight[i])
  <2> SUFFICES ASSUME NEW n, n.exists = nat.exists, n.visible = nat.visible, NEW i \in DOMAIN inFlight
               PROVE  Fitting(w.sf, n, m, inFlight[i])
    OBVIOUS
  <2>1. Fitting(sf, nat, mv, inFlight[i])
    BY <1>a DEF Fits
  <2>2. inFlight[i].by \notin {"prepare", "commit", "land"}
    BY <1>7 DEF NoCall, MoveCalls
  <2> QED
    BY <2>1, <2>2, <1>4, <1>5 DEF Fitting
<1>9. SlotAway(slot, m)
  BY <1>1, <1>c DEF SlotAway
<1>10. /\ OwesForce(w.sf) = OwesForce(sf) /\ DrainForces(w.sf) = DrainForces(sf)
  BY <1>4, <1>5 DEF OwesForce, DrainForces, DrainLooks
<1>11. CASE ~glide
  <2>1. LockHolds(w, m)
    BY <1>1, <1>4, <1>5, <1>b, <1>11 DEF LockHolds
  <2>2. WishIsServed(w.sf, w.nat)
    BY <1>4, <1>5, <1>a DEF WishIsServed
  <2>3. Tracked(w, owed, OwesForce(w.sf) \/ DrainForces(w.sf))
    BY <1>4, <1>5, <1>10, <1>a DEF Tracked
  <2>4. Followed(w, slot, LooksAgain(w.sf, owed) \/ DrainLooks(w.sf))
    BY <1>4, <1>5 DEF Followed
  <2>5. Fits(w, m)
    BY <1>4, <1>8 DEF Fits
  <2>6. Sound(w, slot, m, owed)
    BY <2>1, <2>2, <2>3, <2>4, <2>5, <1>4, <1>9, <1>a DEF Sound, Formed
  <2> QED
    BY <2>6, <1>1, <1>4, <1>5, <1>6, <1>11, <1>b DEF Calm
<1>12. CASE glide
  <2> DEFINE c == [by |-> "prepare", ok |-> ok, at |-> mv.target]
             u == IF ok THEN Placed(w, mv.target) ELSE w
             v == Sent(u, c)
  <2>1. Becomes(v)
    BY <1>6, <1>12
  <2>2. Fits(w, m)
    BY <1>4, <1>8 DEF Fits
  <2>3. /\ u \in Worlds /\ u.sf = w.sf /\ u.calls = inFlight
        /\ u.nat.exists = nat.exists /\ u.nat.visible = nat.visible
        /\ ok => u.nat.at = mv.target
        /\ ~ok => u.nat = nat /\ u.deaf = deaf
        /\ u.deaf \subseteq deaf
        /\ ("restored" \in deaf => "restored" \in u.deaf) \/ NoCall(inFlight, {"open"})
    <3>1. CASE ok
      BY <3>1, <2>2, <1>4, <1>b, <1>c, PlacedFacts
    <3>2. CASE ~ok
      BY <3>2, <1>4
    <3> QED
      BY <3>1, <3>2
  <2>4. c \in NativeCall /\ c.by = "prepare" /\ c.ok = ok /\ c.at = mv.target
    BY <1>c DEF NativeCall
  <2>5. v = [u EXCEPT !.calls = Append(@, c)]
    BY DEF Sent
  <2> HIDE DEF u, v, c
  <2>6. /\ v \in Worlds /\ v.sf = w.sf /\ v.calls = Append(inFlight, c)
        /\ v.nat = u.nat /\ v.deaf = u.deaf
    <3>1. Append(u.calls, c) \in Seq(NativeCall)
      BY <2>3, <2>4, <1>a
    <3> QED
      BY <3>1, <2>3, <2>5 DEF Worlds
  <2>7. Orderly(v.calls, v.deaf)
    <3>1. Orderly(inFlight, v.deaf)
      BY <2>3, <2>6, <1>a, OrderlyDeaf
    <3>2. \A K \in Kinds : c.by \in K => NoCall(inFlight, K)
      BY <2>4, <1>7 DEF Kinds, OpenCalls
    <3> QED
      BY <3>1, <3>2, <2>4, <2>6, <1>a, StaysOrderly
  <2>8. Fits(v, m)
    <3>1. \A i \in DOMAIN inFlight : Fitting(v.sf, v.nat, m, inFlight[i])
      BY <2>3, <2>6, <1>8
    <3>2. Fitting(v.sf, v.nat, m, c)
      BY <2>4, <1>1, <1>12 DEF Fitting
    <3> QED
      BY <3>1, <3>2, <2>4, <2>6, <1>a, SentFits DEF Fits
  <2>9. WishIsServed(v.sf, v.nat)
    BY <2>3, <2>6, <1>4, <1>5, <1>a DEF WishIsServed
  <2>10. LockHolds(v, m)
    BY <2>6, <1>1, <1>4, <1>5, <1>b, <1>12 DEF LockHolds
  <2>11. Tracked(v, owed, OwesForce(v.sf) \/ DrainForces(v.sf))
    <3>1. CASE ok
      <4>1. Settles(v.calls, v.sf.lastRect, v.nat.at)
        BY <3>1, <2>3, <2>4, <2>6, <1>a, FrameSettles DEF IsFrame
      <4> QED
        BY <4>1 DEF Tracked
    <3>2. CASE ~ok
      <4>1. ~IsFrame(c)
        BY <3>2, <2>4 DEF IsFrame
      <4>2. \A p : Settles(inFlight, sf.lastRect, p) => Settles(v.calls, v.sf.lastRect, p)
        BY <4>1, <2>4, <2>6, <1>4, <1>5, <1>a, OtherSettles
      <4> QED
        BY <4>2, <3>2, <2>3, <2>6, <1>4, <1>10, <1>a DEF Tracked
    <3> QED
      BY <3>1, <3>2
  <2>12. Followed(v, slot, LooksAgain(v.sf, owed) \/ DrainLooks(v.sf))
    BY <2>6, <1>4, <1>5 DEF Followed
  <2>13. Sound(v, slot, m, owed)
    BY <2>6, <2>7, <2>8, <2>9, <2>10, <2>11, <2>12, <1>9 DEF Sound, Formed
  <2> QED
    BY <2>1, <2>6, <2>13, <1>1, <1>4, <1>5, <1>b DEF Calm
<1> QED
  BY <1>11, <1>12

LEMMA MoveCancelKeeps ==
    ASSUME SurfaceInv, MoveCancel
    PROVE  \E v : Sound(v, slot, NoMove, owed) /\ Becomes(v) /\ Calm(v)
<1>a. /\ Formed(World, mv) /\ World \in Worlds /\ World.sf = sf /\ sf \in SurfaceState
      /\ World.nat = nat /\ World.deaf = deaf /\ World.calls = inFlight
      /\ inFlight \in Seq(NativeCall) /\ slot \in SlotType
      /\ Orderly(inFlight, deaf) /\ Fits(World, mv) /\ LockHolds(World, mv)
      /\ WishIsServed(sf, nat) /\ SlotAway(slot, mv) /\ mv \in MoveType
      /\ Tracked(World, owed, OwesForce(sf) \/ DrainForces(sf))
  BY DEF SurfaceInv, Sound, Formed, World, Worlds
<1>b. mv.pc = "prepared" /\ mv.before \in Anywhere /\ mv.before \in Frames
  BY <1>a, PlacesDiffer DEF MoveCancel, SlotAway
<1>c. NoCall(inFlight, MoveCalls) /\ sf.precommitting /\ ~sf.draining
  BY <1>a, <1>b, NotUnderWay DEF LockHolds
<1>1. CASE ~mv.glide
  <2> DEFINE v == GivenUp(World, slot)
  <2>1. Becomes(v)
    BY <1>1 DEF MoveCancel
  <2>2. /\ Formed(v, NoMove) /\ v.sf.vis = sf.vis /\ Tracked(v, owed, OwesForce(v.sf) \/ DrainForces(v.sf))
        /\ \A x : Followed(v, slot, x)
    BY <1>a, <1>b, <1>c, GivenUpKeeps
  <2> HIDE DEF v
  <2>3. Sound(v, slot, NoMove, owed)
    BY <2>2, NoMoveIs DEF Sound
  <2> QED
    BY <2>1, <2>2, <2>3 DEF Calm
<1>2. CASE mv.glide
  <2> DEFINE w == [World EXCEPT !.sf.lastRect = mv.before]
             r == [sf EXCEPT !.lastRect = mv.before]
             back == Placed(w, mv.before)
             u == GivenUp(back, slot)
             c == [by |-> "cancel"]
             v == Sent(u, c)
  <2>1. Becomes(v)
    BY <1>2 DEF MoveCancel
  <2>2. r \in SurfaceState
    BY <1>a, <1>b DEF SurfaceState
  <2>3. w = [World EXCEPT !.sf = r]
    BY <1>a DEF World
  <2>4. w \in Worlds /\ w.sf = r /\ w.nat = nat /\ w.calls = inFlight /\ w.deaf = deaf
    BY <2>2, <2>3, <1>a DEF Worlds, World
  <2>5. /\ r.opened = sf.opened /\ r.opening = sf.opening
        /\ r.desiredVisible = sf.desiredVisible /\ r.appliedVisible = sf.appliedVisible
        /\ r.precommitting = sf.precommitting /\ r.precommitTarget = sf.precommitTarget
        /\ r.lastRect = mv.before /\ r.draining = sf.draining
        /\ r.requested = sf.requested /\ r.force = sf.force
        /\ r.closed = sf.closed /\ r.vis = sf.vis /\ r.returning = sf.returning
        /\ r.visibilityRequested = sf.visibilityRequested
    BY <1>a DEF SurfaceState
  <2> HIDE DEF w, r
  <2>6. Fits(w, mv)
    BY <2>4, <2>5, <1>a DEF Fits, Fitting
  <2>7. /\ back \in Worlds /\ back.sf = w.sf /\ back.calls = inFlight
        /\ back.nat.exists = nat.exists /\ back.nat.visible = nat.visible
        /\ back.nat.at = IF nat.exists THEN mv.before ELSE nat.at
        /\ back.deaf \subseteq deaf
        /\ ("restored" \in deaf => "restored" \in back.deaf) \/ NoCall(inFlight, {"open"})
    BY <2>4, <2>6, <1>b, PlacedFacts
  <2> HIDE DEF back
  <2>8. "restored" \in back.deaf \/ NoCall(inFlight, {"open"})
    BY <2>7, <1>2, <1>a, <1>b DEF LockHolds
  <2>9. Formed(back, mv)
    <3>1. Orderly(back.calls, back.deaf)
      BY <2>7, <1>a, OrderlyDeaf
    <3>2. Fits(back, mv)
      BY <2>4, <2>6, <2>7 DEF Fits, Fitting
    <3>3. WishIsServed(back.sf, back.nat)
      BY <2>4, <2>5, <2>7, <1>a DEF WishIsServed
    <3>4. LockHolds(back, mv)
      BY <2>4, <2>5, <2>7, <2>8, <1>a, <1>b DEF LockHolds
    <3> QED
      BY <3>1, <3>2, <3>3, <3>4, <2>7 DEF Formed
  <2>10. \A x : Tracked(back, owed, x)
    <3> SUFFICES ASSUME nat.exists, "restored" \notin back.deaf
                 PROVE  Settles(back.calls, back.sf.lastRect, back.nat.at)
      BY <2>7 DEF Tracked
    <3>1. NoCall(inFlight, {"drain"}) /\ NoCall(inFlight, {"open"})
      BY <2>8, <1>a, <1>c, NotUnderWay
    <3>2. NoCall(inFlight, {"commit"}) /\ NoCall(inFlight, {"prepare"})
      BY <1>c DEF NoCall, MoveCalls
    <3>3. \A i \in DOMAIN inFlight : ~IsFrame(inFlight[i])
      BY <3>1, <3>2, Framed
    <3> QED
      BY <3>3, <2>4, <2>5, <2>7, <1>a, NoFrames
  <2>11. /\ Formed(u, NoMove) /\ u.sf.vis = back.sf.vis /\ u.nat = back.nat /\ u.calls = inFlight
         /\ Tracked(u, owed, OwesForce(u.sf) \/ DrainForces(u.sf))
         /\ \A x : Followed(u, slot, x)
    BY <2>7, <2>9, <2>10, <1>a, <1>b, <1>c, GivenUpKeeps
  <2>12. c \in NativeCall /\ c.by = "cancel"
    BY DEF NativeCall
  <2>13. v = [u EXCEPT !.calls = Append(@, c)]
    BY DEF Sent
  <2> HIDE DEF u, v, c
  <2>14. /\ u \in Worlds /\ Orderly(u.calls, u.deaf) /\ Fits(u, NoMove) /\ LockHolds(u, NoMove)
         /\ WishIsServed(u.sf, u.nat)
    BY <2>11 DEF Formed
  <2>15. /\ v \in Worlds /\ v.sf = u.sf /\ v.calls = Append(inFlight, c)
         /\ v.nat = u.nat /\ v.deaf = u.deaf
    <3>1. Append(u.calls, c) \in Seq(NativeCall)
      BY <2>11, <2>12, <1>a
    <3> QED
      BY <3>1, <2>11, <2>13, <2>14 DEF Worlds
  <2>16. ~IsFrame(c)
    BY <2>12 DEF IsFrame
  <2>17. \A p : Settles(u.calls, u.sf.lastRect, p) => Settles(v.calls, v.sf.lastRect, p)
    BY <2>11, <2>12, <2>15, <2>16, <1>a, OtherSettles
  <2>18. Orderly(v.calls, v.deaf)
    <3>1. \A K \in Kinds : c.by \in K => NoCall(inFlight, K)
      BY <2>12 DEF Kinds, OpenCalls, MoveCalls
    <3> QED
      BY <3>1, <2>11, <2>12, <2>14, <2>15, <1>a, StaysOrderly
  <2>19. Fits(v, NoMove)
    <3>1. Fitting(v.sf, v.nat, NoMove, c)
      BY <2>12 DEF Fitting
    <3> QED
      BY <3>1, <2>11, <2>12, <2>14, <2>15, <1>a, SentFits DEF Fits
  <2>20. LockHolds(v, NoMove)
    <3>1. NoCall(u.calls, {"open"}) => NoCall(v.calls, {"open"})
      BY <2>11, <2>12, <2>15, <1>a, SentOne DEF NoCall
    <3> QED
      BY <3>1, <2>14, <2>15, <2>17 DEF LockHolds
  <2>21. /\ Tracked(v, owed, OwesForce(v.sf) \/ DrainForces(v.sf))
         /\ Followed(v, slot, LooksAgain(v.sf, owed) \/ DrainLooks(v.sf))
    BY <2>11, <2>15, <2>17 DEF Tracked, Followed
  <2>22. Sound(v, slot, NoMove, owed)
    BY <2>14, <2>15, <2>18, <2>19, <2>20, <2>21, NoMoveIs DEF Sound, Formed
  <2> QED
    BY <2>1, <2>4, <2>5, <2>7, <2>11, <2>15, <2>22 DEF Calm
<1> QED
  BY <1>1, <1>2

LEMMA MoveCommitKeeps ==
    ASSUME SurfaceInv, NEW s \in SlotType, MoveCommit(s)
    PROVE  /\ mv' \in MoveType
           /\ \E v : Sound(v, s, mv', owed) /\ Becomes(v) /\ Calm(v)
<1> DEFINE heard == [World EXCEPT !.deaf = @ \ {"mutation"}]
           at == s.at
           locked == [heard EXCEPT !.sf.precommitTarget = at]
           r == [sf EXCEPT !.precommitTarget = at]
<1>a. /\ Formed(World, mv) /\ World \in Worlds /\ World.sf = sf /\ sf \in SurfaceState
      /\ World.nat = nat /\ World.deaf = deaf /\ World.calls = inFlight
      /\ inFlight \in Seq(NativeCall)
      /\ Orderly(inFlight, deaf) /\ Fits(World, mv) /\ LockHolds(World, mv)
      /\ WishIsServed(sf, nat) /\ SlotAway(slot, mv) /\ mv \in MoveType
      /\ Tracked(World, owed, OwesForce(sf) \/ DrainForces(sf))
  BY DEF SurfaceInv, Sound, Formed, World, Worlds
<1>b. mv.pc = "prepared"
  BY DEF MoveCommit
<1>c. /\ NoCall(inFlight, MoveCalls) /\ sf.precommitting /\ ~sf.draining
      /\ mv.glide => "restored" \in deaf \/ NoCall(inFlight, {"open"})
  BY <1>a, <1>b, NotUnderWay DEF LockHolds
<1>d. at \in SlotPlaces /\ at \in Frames /\ at \in Spots
  BY DEF SlotType, Frames, Spots, Anywhere
<1>e. "restored" \notin deaf /\ mv.glide => \A i \in DOMAIN inFlight : ~IsFrame(inFlight[i])
  <2> SUFFICES ASSUME "restored" \notin deaf, mv.glide
               PROVE  \A i \in DOMAIN inFlight : ~IsFrame(inFlight[i])
    OBVIOUS
  <2>1. NoCall(inFlight, {"drain"}) /\ NoCall(inFlight, {"open"})
    BY <1>a, <1>c, NotUnderWay
  <2>2. NoCall(inFlight, {"commit"}) /\ NoCall(inFlight, {"prepare"})
    BY <1>c DEF NoCall, MoveCalls
  <2> QED
    BY <2>1, <2>2, Framed
<1>1. /\ heard \in Worlds /\ heard.sf = sf /\ heard.nat = nat /\ heard.calls = inFlight
      /\ heard.deaf = deaf \ {"mutation"}
  BY <1>a DEF Worlds
<1>2. Orderly(inFlight, heard.deaf)
  BY <1>1, <1>a, OrderlyDeaf
<1>3. /\ \/ /\ s.present /\ CommitWrites(at)
            /\ LET w == IF mv.glide
                        THEN webview_bounds([locked EXCEPT !.sf.lastRect = at], "land", at)
                        ELSE webview_bounds(locked, "commit", at)
               IN Becomes(settlePreparedFrame(w, s))
            /\ mv' = [mv EXCEPT !.pc = "committing", !.target = at]
         \/ /\ s.present /\ ~CommitWrites(at)
            /\ Becomes(settlePreparedFrame(
                 [locked EXCEPT !.deaf = IF at = sf.lastRect THEN @ ELSE @ \cup {"mutation"}], s))
            /\ mv' = NoMove
         \/ /\ ~s.present
            /\ Becomes(IF mv.glide THEN requestSlotSync(Unlocked(heard), s, TRUE) ELSE Unlocked(heard))
            /\ mv' = NoMove
  BY DEF MoveCommit
<1> HIDE DEF heard
<1>4. r \in SurfaceState
  BY <1>a, <1>d DEF SurfaceState
<1>5. /\ locked \in Worlds /\ locked.sf = r /\ locked.nat = nat /\ locked.calls = inFlight
      /\ locked.deaf = deaf \ {"mutation"}
  <2>1. locked = [heard EXCEPT !.sf = r]
    BY <1>1
  <2> QED
    BY <2>1, <1>1, <1>4 DEF Worlds
<1>6. /\ r.opened = sf.opened /\ r.opening = sf.opening
      /\ r.desiredVisible = sf.desiredVisible /\ r.appliedVisible = sf.appliedVisible
      /\ r.precommitting /\ r.precommitTarget = at /\ r.lastRect = sf.lastRect
      /\ ~r.draining /\ r.requested = sf.requested /\ r.force = sf.force
      /\ r.closed = sf.closed /\ r.vis = sf.vis /\ r.returning = sf.returning
      /\ r.visibilityRequested = sf.visibilityRequested
  BY <1>a, <1>c DEF SurfaceState
<1> HIDE DEF locked, r
<1>st. \A st, n, m : /\ n.exists = nat.exists /\ n.visible = nat.visible
                   /\ st.opened = sf.opened /\ st.opening = sf.opening
                   /\ st.desiredVisible = sf.desiredVisible /\ st.vis = sf.vis /\ (st.draining <=> sf.draining)
                   /\ st.visibilityRequested = sf.visibilityRequested
                   => \A i \in DOMAIN inFlight : Fitting(st, n, m, inFlight[i])
  <2> SUFFICES ASSUME NEW st, NEW n, NEW m, n.exists = nat.exists, n.visible = nat.visible,
                      st.opened = sf.opened, st.opening = sf.opening,
                      st.desiredVisible = sf.desiredVisible, st.vis = sf.vis, st.draining <=> sf.draining,
                      st.visibilityRequested = sf.visibilityRequested,
                      NEW i \in DOMAIN inFlight
               PROVE  Fitting(st, n, m, inFlight[i])
    OBVIOUS
  <2>1. Fitting(sf, nat, mv, inFlight[i])
    BY <1>a DEF Fits
  <2>2. inFlight[i].by \notin {"prepare", "commit", "land"}
    BY <1>c DEF NoCall, MoveCalls
  <2> QED
    BY <2>1, <2>2 DEF Fitting
<1>7. ASSUME s.present, NEW w, mv' = [mv EXCEPT !.pc = "committing", !.target = at],
             w = (IF mv.glide THEN webview_bounds([locked EXCEPT !.sf.lastRect = at], "land", at)
                              ELSE webview_bounds(locked, "commit", at)),
             Becomes(settlePreparedFrame(w, s))
      PROVE  /\ mv' \in MoveType
             /\ \E v : Sound(v, s, mv', owed) /\ Becomes(v) /\ Calm(v)
  <2> DEFINE m == [mv EXCEPT !.pc = "committing", !.target = at]
             x == IF mv.glide THEN [locked EXCEPT !.sf.lastRect = at] ELSE locked
             by == IF mv.glide THEN "land" ELSE "commit"
             c == [by |-> by, at |-> at]
  <2>1. w = webview_bounds(x, by, at)
    BY <1>7
  <2>2. m \in MoveType /\ m.pc = "committing" /\ mv' = m
    BY <1>a, <1>d, <1>7 DEF MoveType
  <2>3. /\ x \in Worlds /\ x.nat = nat /\ x.calls = inFlight /\ x.deaf = deaf \ {"mutation"}
        /\ x.sf = IF mv.glide THEN [r EXCEPT !.lastRect = at] ELSE r
        /\ x.sf.lastRect = IF mv.glide THEN at ELSE sf.lastRect
    <3>1. CASE mv.glide
      <4> DEFINE q == [r EXCEPT !.lastRect = at]
      <4>1. q \in SurfaceState /\ q.lastRect = at
        BY <1>4, <1>d DEF SurfaceState
      <4>2. x = [locked EXCEPT !.sf = q]
        BY <3>1, <1>5
      <4> QED
        BY <4>1, <4>2, <3>1, <1>5 DEF Worlds
    <3>2. CASE ~mv.glide
      BY <3>2, <1>5, <1>6
    <3> QED
      BY <3>1, <3>2
  <2>4. /\ x.sf.opened = sf.opened /\ x.sf.opening = sf.opening
        /\ x.sf.desiredVisible = sf.desiredVisible /\ x.sf.appliedVisible = sf.appliedVisible
        /\ x.sf.precommitting /\ x.sf.precommitTarget = at
        /\ ~x.sf.draining /\ x.sf.requested = sf.requested /\ x.sf.force = sf.force
        /\ x.sf.closed = sf.closed /\ x.sf.vis = sf.vis /\ x.sf.returning = sf.returning
        /\ x.sf.visibilityRequested = sf.visibilityRequested
    BY <2>3, <1>4, <1>6 DEF SurfaceState
  <2>5. by \in {"drain", "commit", "land"} /\ (mv.glide => by = "land") /\ (~mv.glide => by = "commit")
    OBVIOUS
  <2> HIDE DEF m, x, by
  <2>6. /\ w \in Worlds /\ c \in NativeCall /\ w.sf = x.sf /\ w.calls = Append(inFlight, c)
        /\ w.nat.exists = nat.exists /\ w.nat.visible = nat.visible
        /\ w.nat.at = IF nat.exists THEN at ELSE nat.at
        /\ w.deaf = IF nat.exists /\ ~(sf.opening /\ ~sf.opened) THEN {} ELSE deaf \ {"mutation"}
    <3> DEFINE b == webview_bounds(x, by, at)
    <3>1. /\ b \in Worlds /\ [by |-> by, at |-> at] \in NativeCall /\ b.sf = x.sf
          /\ b.calls = Append(x.calls, [by |-> by, at |-> at])
          /\ b.nat.exists = x.nat.exists /\ b.nat.visible = x.nat.visible
          /\ b.nat.at = IF x.nat.exists THEN at ELSE x.nat.at
          /\ b.deaf = IF x.nat.exists /\ ~(x.sf.opening /\ ~x.sf.opened) THEN {} ELSE x.deaf
      <4>1. x \in Worlds /\ by \in {"drain", "commit", "land"} /\ at \in Spots
        BY <2>3, <2>5, <1>d
      <4> HIDE DEF at
      <4> QED
        BY <4>1, BoundsFacts
    <3> HIDE DEF b
    <3>2. w = b
      BY <2>1 DEF b
    <3> QED
      BY <3>1, <3>2, <2>3, <2>4
  <2>7. c.by = by /\ c.at = at
    OBVIOUS
  <2> HIDE DEF c
  <2>8. ("restored" \in deaf => "restored" \in w.deaf) \/ NoCall(inFlight, {"open"})
    <3>1. ~(sf.opening /\ ~sf.opened) => NoCall(inFlight, {"open"})
      BY <1>a, NotUnderWay
    <3> QED
      BY <3>1, <2>6
  <2>9. Settles(w.calls, w.sf.lastRect, at) \/ "restored" \in w.deaf
    <3>1. CASE mv.glide
      <4>1. ~IsFrame(c)
        BY <3>1, <2>5, <2>7 DEF IsFrame
      <4>2. ASSUME "restored" \notin w.deaf
            PROVE  \A i \in DOMAIN inFlight : ~IsFrame(inFlight[i])
        <5>1. NoCall(inFlight, {"drain"}) /\ NoCall(inFlight, {"open"})
          BY <4>2, <3>1, <2>8, <1>a, <1>c, NotUnderWay
        <5>2. NoCall(inFlight, {"commit"}) /\ NoCall(inFlight, {"prepare"})
          BY <1>c DEF NoCall, MoveCalls
        <5> QED
          BY <5>1, <5>2, Framed
      <4>3. "restored" \notin w.deaf => Settles(inFlight, w.sf.lastRect, at)
        BY <4>2, <3>1, <2>3, <2>6, <1>a, NoFrames
      <4> QED
        BY <4>1, <4>3, <2>6, <1>a, OtherSettles
    <3>2. CASE ~mv.glide
      <4>1. IsFrame(c)
        BY <3>2, <2>5, <2>7 DEF IsFrame
      <4> QED
        BY <4>1, <2>6, <2>7, <1>a, FrameSettles
    <3> QED
      BY <3>1, <3>2
  <2>10. Orderly(w.calls, w.deaf)
    <3>1. Orderly(inFlight, w.deaf)
      BY <2>8, <1>a, OrderlyDeaf
    <3>2. \A K \in Kinds : c.by \in K => NoCall(inFlight, K)
      BY <2>5, <2>7, <1>c DEF Kinds, OpenCalls
    <3> QED
      BY <3>1, <3>2, <2>5, <2>6, <2>7, <1>a, StaysOrderly
  <2>11. Fits(w, m)
    <3>1. \A i \in DOMAIN inFlight : Fitting(w.sf, w.nat, m, inFlight[i])
      BY <2>4, <2>6, <1>c, <1>st
    <3>2. Fitting(w.sf, w.nat, m, c)
      BY <2>2, <2>5, <2>7 DEF Fitting
    <3> QED
      BY <3>1, <3>2, <2>6, <1>a, SentFits DEF Fits
  <2>12. WishIsServed(w.sf, w.nat)
    BY <2>4, <2>6, <1>a DEF WishIsServed
  <2>13. LockHolds(w, m)
    BY <2>2, <2>4, <2>6, <2>9 DEF LockHolds
  <2>14. \A y : Tracked(w, owed, y)
    BY <2>6, <2>9 DEF Tracked
  <2>15. SlotAway(s, m)
    BY <2>2 DEF SlotAway
  <2>16. Formed(w, m) /\ w.sf.precommitting
    BY <2>4, <2>6, <2>10, <2>11, <2>12, <2>13 DEF Formed
  <2> DEFINE v == settlePreparedFrame(w, s)
  <2>17. /\ Formed(v, m) /\ v.sf.vis = w.sf.vis /\ Tracked(v, owed, OwesForce(v.sf) \/ DrainForces(v.sf))
         /\ \A y : Followed(v, s, y)
    BY <2>2, <2>14, <2>15, <2>16, SettleFrameKeeps
  <2> HIDE DEF v
  <2>18. Sound(v, s, m, owed)
    BY <2>15, <2>17 DEF Sound
  <2> QED
    BY <2>2, <2>4, <2>6, <2>17, <2>18, <1>7 DEF v, Calm
<1>8. ASSUME s.present, ~CommitWrites(at), mv' = NoMove,
             Becomes(settlePreparedFrame(
                 [locked EXCEPT !.deaf = IF at = sf.lastRect THEN @ ELSE @ \cup {"mutation"}], s))
      PROVE  /\ mv' \in MoveType
             /\ \E v : Sound(v, s, mv', owed) /\ Becomes(v) /\ Calm(v)
  <2> DEFINE w == [locked EXCEPT !.deaf = IF at = sf.lastRect THEN @ ELSE @ \cup {"mutation"}]
  <2>1. /\ w \in Worlds /\ w.sf = r /\ w.nat = nat /\ w.calls = inFlight
        /\ w.deaf = IF at = sf.lastRect THEN deaf \ {"mutation"} ELSE deaf \cup {"mutation"}
    BY <1>5, <1>a DEF Worlds, Marks
  <2> HIDE DEF w
  <2>2. mv.glide
    BY <1>8 DEF CommitWrites
  <2>3. Orderly(w.calls, w.deaf)
    BY <2>1, <1>a, OrderlyDeaf
  <2>4. Fits(w, NoMove)
    BY <2>1, <1>6, <1>c, <1>st DEF Fits
  <2>5. WishIsServed(w.sf, w.nat)
    BY <2>1, <1>6, <1>a DEF WishIsServed
  <2>6. w.deaf = {} => Settles(w.calls, w.sf.lastRect, at)
    <3> SUFFICES ASSUME w.deaf = {} PROVE Settles(w.calls, w.sf.lastRect, at)
      OBVIOUS
    <3>1. at = sf.lastRect /\ "restored" \notin deaf
      BY <2>1
    <3>2. \A i \in DOMAIN inFlight : ~IsFrame(inFlight[i])
      BY <3>1, <2>2, <1>e
    <3> QED
      BY <3>1, <3>2, <2>1, <1>6, <1>a, NoFrames
  <2>7. LockHolds(w, NoMove)
    BY <2>1, <2>6, <1>6, NoMoveIs DEF LockHolds
  <2>8. Tracked(w, owed, OwesForce(w.sf) \/ DrainForces(w.sf))
    <3>1. OwesForce(w.sf) = OwesForce(sf) /\ DrainForces(w.sf) = FALSE /\ DrainForces(sf) = FALSE
      BY <2>1, <1>6, <1>c DEF OwesForce, DrainForces, DrainLooks
    <3> QED
      BY <3>1, <2>1, <1>6, <1>a DEF Tracked
  <2>9. Formed(w, NoMove) /\ w.sf.precommitting
    BY <2>1, <2>3, <2>4, <2>5, <2>7, <1>6 DEF Formed
  <2> DEFINE v == settlePreparedFrame(w, s)
  <2>10. /\ Formed(v, NoMove) /\ v.sf.vis = w.sf.vis /\ Tracked(v, owed, OwesForce(v.sf) \/ DrainForces(v.sf))
         /\ \A y : Followed(v, s, y)
    BY <2>8, <2>9, NoMoveIs, SettleFrameKeeps
  <2> HIDE DEF v
  <2>11. Sound(v, s, NoMove, owed)
    BY <2>10, NoMoveIs DEF Sound
  <2> QED
    BY <2>1, <2>10, <2>11, <1>6, <1>8, NoMoveIs DEF v, w, Calm
<1>9. ASSUME ~s.present, mv' = NoMove,
             Becomes(IF mv.glide THEN requestSlotSync(Unlocked(heard), s, TRUE) ELSE Unlocked(heard))
      PROVE  /\ mv' \in MoveType
             /\ \E v : Sound(v, s, mv', owed) /\ Becomes(v) /\ Calm(v)
  <2> DEFINE w == Unlocked(heard)
             q == [sf EXCEPT !.precommitting = FALSE, !.precommitTarget = NoPlace]
  <2>1. q \in SurfaceState
    BY <1>a DEF SurfaceState, Frames
  <2>2. w = [heard EXCEPT !.sf = q]
    BY <1>1, <1>a DEF Unlocked, SurfaceState, Worlds
  <2>3. /\ w \in Worlds /\ w.sf = q /\ w.nat = nat /\ w.calls = inFlight
        /\ w.deaf = deaf \ {"mutation"}
    BY <2>1, <2>2, <1>1 DEF Worlds
  <2>4. /\ q.opened = sf.opened /\ q.opening = sf.opening
        /\ q.desiredVisible = sf.desiredVisible /\ q.appliedVisible = sf.appliedVisible
        /\ ~q.precommitting /\ q.lastRect = sf.lastRect
        /\ q.draining = sf.draining /\ q.requested = sf.requested /\ q.force = sf.force
        /\ q.closed = sf.closed /\ q.vis = sf.vis /\ q.returning = sf.returning
        /\ q.visibilityRequested = sf.visibilityRequested
    BY <1>a DEF SurfaceState
  <2> HIDE DEF w, q
  <2>5. Orderly(w.calls, w.deaf)
    BY <2>3, <1>a, OrderlyDeaf
  <2>6. Fits(w, NoMove)
    BY <2>3, <2>4, <1>st DEF Fits
  <2>7. WishIsServed(w.sf, w.nat)
    BY <2>3, <2>4, <1>a DEF WishIsServed
  <2>8. LockHolds(w, NoMove)
    BY <2>3, <2>4, NoMoveIs DEF LockHolds
  <2>9. Formed(w, NoMove)
    BY <2>3, <2>5, <2>6, <2>7, <2>8 DEF Formed
  <2>10. CASE ~mv.glide
    <3>1. Tracked(w, owed, OwesForce(w.sf) \/ DrainForces(w.sf))
      <4>1. OwesForce(w.sf) = OwesForce(sf) /\ DrainForces(w.sf) = DrainForces(sf)
        BY <2>3, <2>4 DEF OwesForce, DrainForces, DrainLooks
      <4> QED
        BY <4>1, <2>3, <2>4, <1>a DEF Tracked
    <3>2. Followed(w, s, LooksAgain(w.sf, owed) \/ DrainLooks(w.sf))
      BY <1>9 DEF Followed
    <3>3. Sound(w, s, NoMove, owed)
      BY <3>1, <3>2, <2>9, NoMoveIs DEF Sound
    <3> QED
      BY <3>3, <2>3, <2>4, <2>10, <1>9, NoMoveIs DEF w, Calm
  <2>11. CASE mv.glide
    <3> DEFINE v == requestSlotSync(w, s, TRUE)
    <3>1. /\ Formed(v, NoMove) /\ SameSurface(w, v)
          /\ Tracked(v, owed, (ReturnsForced(w) /\ ~w.sf.opening) \/ DrainForces(v.sf))
          /\ Followed(v, s, DrainLooks(v.sf))
      BY <2>3, <2>9, <1>9, SyncKeeps
    <3> HIDE DEF v
    <3>2. OwesForce(v.sf) = OwesForce(w.sf) /\ v.sf.vis = w.sf.vis
      BY <3>1, SameSurfaceMeans
    <3>3. ReturnsForced(w) /\ ~w.sf.opening => OwesForce(w.sf)
      BY DEF ReturnsForced, OwesForce
    <3>4. /\ Tracked(v, owed, OwesForce(v.sf) \/ DrainForces(v.sf))
          /\ Followed(v, s, LooksAgain(v.sf, owed) \/ DrainLooks(v.sf))
      BY <3>1, <3>2, <3>3 DEF Tracked, Followed
    <3>5. Sound(v, s, NoMove, owed)
      BY <3>1, <3>4, NoMoveIs DEF Sound
    <3> QED
      BY <3>2, <3>5, <2>3, <2>4, <2>11, <1>9, NoMoveIs DEF v, w, Calm
  <2> QED
    BY <2>10, <2>11
<1> QED
  BY <1>3, <1>7, <1>8, <1>9

-----------------------------------------------------------------------------
(* What the adapter hears of. *)

LEMMA WorldFacts ==
    ASSUME SurfaceInv
    PROVE  /\ World \in Worlds /\ World.sf = sf /\ sf \in SurfaceState /\ World.nat = nat
           /\ nat \in NativeChild /\ World.deaf = deaf /\ World.calls = inFlight
           /\ inFlight \in Seq(NativeCall) /\ slot \in SlotType /\ mv \in MoveType
           /\ Formed(World, mv) /\ Orderly(inFlight, deaf) /\ Fits(World, mv) /\ LockHolds(World, mv)
           /\ WishIsServed(sf, nat) /\ SlotAway(slot, mv)
           /\ Tracked(World, owed, OwesForce(sf) \/ DrainForces(sf))
           /\ Followed(World, slot, LooksAgain(sf, owed) \/ DrainLooks(sf))
BY DEF SurfaceInv, Sound, Formed, World, Worlds

\* A request to look at the slot, of whatever origin.
LEMMA HeardKeeps ==
    ASSUME SurfaceInv, NEW s \in SlotType, SlotAway(s, mv), NEW o, NEW force \in BOOLEAN,
           force \/ ("resize" \in owed => "resize" \in o)
    PROVE  /\ Sound(requestSlotSync(World, s, force), s, mv, o)
           /\ Calm(requestSlotSync(World, s, force))
<1> DEFINE v == requestSlotSync(World, s, force)
<1>1. /\ Formed(v, mv) /\ SameSurface(World, v)
      /\ force => Tracked(v, o, (ReturnsForced(World) /\ ~sf.opening) \/ DrainForces(v.sf))
      /\ \A x : Tracked(World, o, x \/ DrainForces(sf)) => Tracked(v, o, x \/ DrainForces(v.sf))
      /\ Followed(v, s, DrainLooks(v.sf))
  BY WorldFacts, SyncKeeps
<1> HIDE DEF v
<1>2. OwesForce(v.sf) = OwesForce(sf) /\ v.sf.vis = sf.vis
  BY <1>1, WorldFacts, SameSurfaceMeans
<1>3. Tracked(v, o, OwesForce(v.sf) \/ DrainForces(v.sf))
  <2>1. CASE force
    <3>1. ReturnsForced(World) /\ ~sf.opening => OwesForce(sf)
      BY WorldFacts DEF ReturnsForced, OwesForce
    <3> QED
      BY <2>1, <3>1, <1>1, <1>2 DEF Tracked
  <2>2. CASE ~force
    <3>1. Tracked(World, o, OwesForce(sf) \/ DrainForces(sf))
      BY <2>2, WorldFacts DEF Tracked
    <3> QED
      BY <3>1, <1>1, <1>2
  <2> QED
    BY <2>1, <2>2
<1>4. Followed(v, s, LooksAgain(v.sf, o) \/ DrainLooks(v.sf))
  BY <1>1 DEF Followed
<1> QED
  BY <1>1, <1>2, <1>3, <1>4 DEF Sound, v, Calm

\* The slot of a closed surface may be anywhere, and so may its child, which is gone.
LEMMA ClosedKeeps ==
    ASSUME SurfaceInv, NEW s \in SlotType, SlotAway(s, mv), NEW o, sf.closed
    PROVE  Sound(World, s, mv, o) /\ Calm(World)
<1>1. ~sf.opened /\ ~nat.exists
  BY WorldFacts DEF WishIsServed
<1> QED
  BY <1>1, WorldFacts DEF Sound, Tracked, Followed, Calm

LEMMA DomChangeKeeps ==
    ASSUME SurfaceInv, NEW s \in SlotType, DomChange(s)
    PROVE  \E v : Sound(v, s, mv, owed) /\ Becomes(v) /\ Calm(v)
<1>1. SlotAway(s, mv)
  BY WorldFacts DEF DomChange, Unprepared, SlotAway
<1>2. Becomes(Mutated(World, s))
  BY DEF DomChange
<1>3. CASE sf.closed
  <2>1. Mutated(World, s) = World
    BY <1>3, WorldFacts DEF Mutated
  <2> QED
    BY <2>1, <1>1, <1>2, <1>3, ClosedKeeps
<1>4. CASE ~sf.closed /\ sf.precommitting
  <2> DEFINE u == Unheard(World, FALSE)
             v == settlePreparedFrame(u, s)
  <2>1. Mutated(World, s) = v
    BY <1>4, WorldFacts DEF Mutated
  <2>2. /\ u \in Worlds /\ u.sf = sf /\ u.nat = nat /\ u.calls = inFlight
        /\ deaf \subseteq u.deaf /\ ("restored" \in u.deaf => "restored" \in deaf)
    BY WorldFacts, UnheardFacts
  <2> HIDE DEF u
  <2>3. Orderly(u.calls, u.deaf)
    BY <2>2, WorldFacts, OrderlyDeaf
  <2>4. Fits(u, mv) /\ WishIsServed(u.sf, u.nat) /\ LockHolds(u, mv)
    BY <2>2, WorldFacts DEF Fits, LockHolds
  <2>5. Formed(u, mv) /\ u.sf.precommitting
    BY <2>2, <2>3, <2>4, <1>4 DEF Formed
  <2>6. Tracked(u, owed, OwesForce(u.sf) \/ DrainForces(u.sf))
    BY <2>2, WorldFacts DEF Tracked
  <2>7. /\ Formed(v, mv) /\ v.sf.vis = sf.vis /\ Tracked(v, owed, OwesForce(v.sf) \/ DrainForces(v.sf))
        /\ \A x : Followed(v, s, x)
    BY <2>2, <2>5, <2>6, <1>1, WorldFacts, SettleFrameKeeps
  <2> HIDE DEF v
  <2>8. Sound(v, s, mv, owed)
    BY <2>7, <1>1 DEF Sound
  <2> QED
    BY <2>1, <2>7, <2>8, <1>2 DEF Calm
<1>5. CASE ~sf.closed /\ ~sf.precommitting
  <2>1. Mutated(World, s) = requestSlotSync(World, s, FALSE)
    BY <1>5, WorldFacts DEF Mutated
  <2>2. /\ Sound(requestSlotSync(World, s, FALSE), s, mv, owed)
        /\ Calm(requestSlotSync(World, s, FALSE))
    BY <1>1, HeardKeeps
  <2> QED
    BY <2>1, <2>2, <1>2
<1> QED
  BY <1>3, <1>4, <1>5

LEMMA AnimationEndKeeps ==
    ASSUME SurfaceInv, AnimationEnd
    PROVE  slot' \in SlotType /\ \E v : Sound(v, slot', mv, owed) /\ Becomes(v) /\ Calm(v)
<1> DEFINE s == [slot EXCEPT !.moving = FALSE]
<1>1. s \in SlotType /\ s.at = slot.at /\ slot' = s
  BY WorldFacts DEF SlotType, AnimationEnd
<1>2. Becomes(IF sf.closed THEN World
              ELSE IF sf.precommitting THEN settlePreparedFrame(World, s)
              ELSE requestSlotSync(World, s, FALSE))
  BY DEF AnimationEnd
<1> HIDE DEF s
<1>3. SlotAway(s, mv)
  BY <1>1, WorldFacts DEF SlotAway
<1>4. CASE sf.closed
  BY <1>1, <1>2, <1>3, <1>4, ClosedKeeps
<1>5. CASE ~sf.closed /\ sf.precommitting
  <2> DEFINE v == settlePreparedFrame(World, s)
  <2>1. /\ Formed(v, mv) /\ v.sf.vis = sf.vis /\ Tracked(v, owed, OwesForce(v.sf) \/ DrainForces(v.sf))
        /\ \A x : Followed(v, s, x)
    BY <1>1, <1>3, <1>5, WorldFacts, SettleFrameKeeps
  <2> HIDE DEF v
  <2>2. Sound(v, s, mv, owed)
    BY <2>1, <1>3 DEF Sound
  <2> QED
    BY <2>1, <2>2, <1>1, <1>2, <1>5 DEF v, Calm
<1>6. CASE ~sf.closed /\ ~sf.precommitting
  <2>1. /\ Sound(requestSlotSync(World, s, FALSE), s, mv, owed)
        /\ Calm(requestSlotSync(World, s, FALSE))
    BY <1>1, <1>3, HeardKeeps
  <2> QED
    BY <2>1, <1>1, <1>2, <1>6
<1> QED
  BY <1>4, <1>5, <1>6

LEMMA OnWindowResizeKeeps ==
    ASSUME SurfaceInv, NEW at \in SlotPlaces, onWindowResize(at)
    PROVE  slot' \in SlotType /\ \E v : Sound(v, slot', mv, owed') /\ Becomes(v) /\ Calm(v)
<1> DEFINE s == [slot EXCEPT !.at = at]
<1>1. s \in SlotType /\ s.at = at /\ slot' = s
  BY WorldFacts DEF SlotType, onWindowResize
<1>2. Becomes(IF sf.closed THEN World ELSE requestSlotSync(World, s, TRUE))
  BY DEF onWindowResize
<1> HIDE DEF s
<1>3. SlotAway(s, mv)
  BY <1>1, WorldFacts DEF SlotAway, onWindowResize, Unprepared
<1>4. CASE sf.closed
  <2>1. Sound(World, s, mv, owed') /\ Calm(World)
    BY <1>1, <1>3, <1>4, ClosedKeeps
  <2> QED
    BY <2>1, <1>1, <1>2, <1>4
<1>5. CASE ~sf.closed
  <2>1. /\ Sound(requestSlotSync(World, s, TRUE), s, mv, owed')
        /\ Calm(requestSlotSync(World, s, TRUE))
    BY <1>1, <1>3, HeardKeeps
  <2> QED
    BY <2>1, <1>1, <1>2, <1>5
<1> QED
  BY <1>4, <1>5

LEMMA SlotObservedKeeps ==
    ASSUME SurfaceInv, SlotObserved
    PROVE  \E v : Sound(v, slot, mv, owed') /\ Becomes(v) /\ Calm(v)
<1>1. Becomes(requestSlotSync(World, slot, FALSE)) /\ owed' = owed \ {"observe"}
  BY DEF SlotObserved
<1>2. /\ Sound(requestSlotSync(World, slot, FALSE), slot, mv, owed')
      /\ Calm(requestSlotSync(World, slot, FALSE))
  BY <1>1, WorldFacts, HeardKeeps
<1> QED
  BY <1>1, <1>2

LEMMA WindowResizeKeeps ==
    ASSUME SurfaceInv, WindowResize
    PROVE  \E v : Sound(v, slot, mv, owed') /\ Becomes(v) /\ Calm(v)
<1> DEFINE n == [nat EXCEPT !.at = IF nat.exists THEN Adrift ELSE @]
           v == [World EXCEPT !.nat = n]
<1>1. nat' = n /\ owed' = owed \cup {"resize"} /\ UNCHANGED <<slot, sf, inFlight, mv, deaf>>
  BY DEF WindowResize
<1>2. n \in NativeChild /\ n.exists = nat.exists /\ n.visible = nat.visible
  BY WorldFacts DEF NativeChild, Anywhere
<1>3. v \in Worlds /\ v.sf = sf /\ v.nat = n /\ v.calls = inFlight /\ v.deaf = deaf
  BY <1>2, WorldFacts DEF Worlds
<1> HIDE DEF n, v
<1>4. Fits(v, mv)
  BY <1>2, <1>3, WorldFacts DEF Fits, Fitting
<1>5. WishIsServed(v.sf, v.nat) /\ LockHolds(v, mv)
  BY <1>2, <1>3, WorldFacts DEF WishIsServed, LockHolds
<1>6. Tracked(v, owed', OwesForce(v.sf) \/ DrainForces(v.sf))
  BY <1>1 DEF Tracked
<1>7. Followed(v, slot, LooksAgain(v.sf, owed') \/ DrainLooks(v.sf))
  <2>1. LooksAgain(sf, owed) => LooksAgain(sf, owed')
    BY <1>1 DEF LooksAgain
  <2> QED
    BY <2>1, <1>3, WorldFacts DEF Followed
<1>8. Sound(v, slot, mv, owed')
  BY <1>3, <1>4, <1>5, <1>6, <1>7, WorldFacts DEF Sound, Formed
<1> QED
  BY <1>1, <1>3, <1>8 DEF Becomes, Calm

LEMMA DetachKeeps ==
    ASSUME SurfaceInv, Detach
    PROVE  \E v : Sound(v, slot, mv, owed) /\ Becomes(v) /\ Calm(v)
<1> DEFINE n == [nat EXCEPT !.exists = FALSE, !.visible = FALSE]
           v == [World EXCEPT !.nat = n]
<1>1. nat' = n /\ UNCHANGED <<slot, sf, inFlight, mv, owed, deaf>>
  BY DEF Detach
<1>2. n \in NativeChild /\ ~n.exists /\ ~n.visible
  BY WorldFacts DEF NativeChild
<1>3. v \in Worlds /\ v.sf = sf /\ v.nat = n /\ v.calls = inFlight /\ v.deaf = deaf
  BY <1>2, WorldFacts DEF Worlds
<1> HIDE DEF n, v
<1>4. Fits(v, mv)
  BY <1>2, <1>3, WorldFacts DEF Fits, Fitting
<1>5. WishIsServed(v.sf, v.nat) /\ LockHolds(v, mv)
  BY <1>2, <1>3, WorldFacts DEF WishIsServed, LockHolds
<1>6. Tracked(v, owed, OwesForce(v.sf) \/ DrainForces(v.sf))
  BY <1>2, <1>3 DEF Tracked
<1>7. Followed(v, slot, LooksAgain(v.sf, owed) \/ DrainLooks(v.sf))
  BY <1>3, WorldFacts DEF Followed
<1>8. Sound(v, slot, mv, owed)
  BY <1>3, <1>4, <1>5, <1>6, <1>7, WorldFacts DEF Sound, Formed
<1> QED
  BY <1>1, <1>3, <1>8 DEF Becomes, Calm

LEMMA CloseKeeps ==
    ASSUME SurfaceInv, close
    PROVE  \E v : Sound(v, slot, mv, owed') /\ Becomes(v) /\ Calm(v)
<1> DEFINE n == [nat EXCEPT !.exists = FALSE, !.visible = FALSE]
           r == [sf EXCEPT !.opened = FALSE, !.closed = TRUE]
           v == [World EXCEPT !.sf.opened = FALSE, !.sf.closed = TRUE,
                              !.nat.exists = FALSE, !.nat.visible = FALSE]
<1>1. Becomes(v) /\ ~sf.opening /\ sf.vis # "alive"
  BY DEF close
<1>2. n \in NativeChild /\ ~n.exists /\ ~n.visible /\ r \in SurfaceState
  BY WorldFacts DEF NativeChild, SurfaceState
<1>3. v = [[World EXCEPT !.sf = r] EXCEPT !.nat = n]
  BY WorldFacts DEF World, SurfaceState, NativeChild
<1>4. v \in Worlds /\ v.sf = r /\ v.nat = n /\ v.calls = inFlight /\ v.deaf = deaf
  BY <1>2, <1>3, WorldFacts DEF Worlds
<1>5. /\ ~r.opened /\ r.closed /\ ~r.opening /\ r.desiredVisible = sf.desiredVisible
      /\ r.vis = sf.vis /\ r.draining = sf.draining /\ r.precommitting = sf.precommitting
      /\ r.precommitTarget = sf.precommitTarget /\ r.visibilityRequested = sf.visibilityRequested
  BY <1>1, WorldFacts DEF SurfaceState
<1> HIDE DEF n, r, v
<1>6. NoCall(inFlight, {"open"}) /\ NoCall(inFlight, OpenCalls)
  BY <1>1, WorldFacts, NotUnderWay
<1>7. Fits(v, mv)
  <2> SUFFICES ASSUME NEW i \in DOMAIN inFlight PROVE Fitting(v.sf, v.nat, mv, inFlight[i])
    BY <1>4 DEF Fits
  <2>1. Fitting(sf, nat, mv, inFlight[i])
    BY WorldFacts DEF Fits
  <2>2. inFlight[i].by \notin {"open", "opened-client", "opened-vis"}
    BY <1>6 DEF NoCall, OpenCalls
  <2> QED
    BY <2>1, <2>2, <1>2, <1>4, <1>5 DEF Fitting
<1>8. WishIsServed(v.sf, v.nat)
  BY <1>1, <1>2, <1>4, <1>5, WorldFacts DEF WishIsServed
<1>9. LockHolds(v, mv)
  BY <1>4, <1>5, <1>6, WorldFacts DEF LockHolds
<1>10. /\ Tracked(v, owed', OwesForce(v.sf) \/ DrainForces(v.sf))
       /\ Followed(v, slot, LooksAgain(v.sf, owed') \/ DrainLooks(v.sf))
  BY <1>2, <1>4, <1>5 DEF Tracked, Followed
<1>11. Sound(v, slot, mv, owed')
  BY <1>4, <1>7, <1>8, <1>9, <1>10, WorldFacts DEF Sound, Formed
<1> QED
  BY <1>1, <1>4, <1>5, <1>11 DEF Calm

LEMMA VisibleKeeps ==
    ASSUME SurfaceInv, NEW on \in Wishes, visible(on)
    PROVE  \E v : Sound(v, slot, mv, owed) /\ Becomes(v) /\ Calm(v)
<1> DEFINE w == [World EXCEPT !.sf.desiredVisible = on, !.sf.visibilityRequested = TRUE]
           r == [sf EXCEPT !.desiredVisible = on, !.visibilityRequested = TRUE]
<1>1. Becomes(IF sf.vis = "idle" THEN VisLoop(w) ELSE w)
  BY DEF visible
<1>2. r \in SurfaceState
  BY WorldFacts DEF SurfaceState
<1>3. w = [World EXCEPT !.sf = r]
  BY WorldFacts DEF World, SurfaceState
<1>4. w \in Worlds /\ w.sf = r /\ w.nat = nat /\ w.calls = inFlight /\ w.deaf = deaf
  BY <1>2, <1>3, WorldFacts DEF Worlds
<1>5. /\ r.opened = sf.opened /\ r.opening = sf.opening
      /\ r.desiredVisible = on /\ r.appliedVisible = sf.appliedVisible
      /\ r.precommitting = sf.precommitting /\ r.precommitTarget = sf.precommitTarget
      /\ r.lastRect = sf.lastRect /\ r.draining = sf.draining
      /\ r.requested = sf.requested /\ r.force = sf.force
      /\ r.closed = sf.closed /\ r.vis = sf.vis /\ r.returning = sf.returning
      /\ r.visibilityRequested
  BY WorldFacts DEF SurfaceState
<1> HIDE DEF w, r
<1>6. LockHolds(w, mv)
  BY <1>4, <1>5, WorldFacts DEF LockHolds
<1>7. OwesForce(w.sf) = OwesForce(sf) /\ DrainForces(w.sf) = DrainForces(sf)
  BY <1>4, <1>5 DEF OwesForce, DrainForces, DrainLooks
<1>8. Tracked(w, owed, OwesForce(w.sf) \/ DrainForces(w.sf))
  BY <1>4, <1>5, <1>7, WorldFacts DEF Tracked
<1>9. CASE sf.vis = "idle"
  <2>1. \A i \in DOMAIN w.calls : Loose(w.sf, w.nat, mv, w.calls[i])
    <3> SUFFICES ASSUME NEW i \in DOMAIN inFlight PROVE Loose(w.sf, w.nat, mv, inFlight[i])
      BY <1>4
    <3>1. Fitting(sf, nat, mv, inFlight[i]) /\ inFlight[i] \in NativeCall
      BY WorldFacts DEF Fits
    <3>2. inFlight[i].by = "open" => inFlight[i].for = "client"
      BY <3>1, <1>9 DEF Fitting, NativeCall
    <3> QED
      BY <3>1, <3>2, <1>4, <1>5, <1>9 DEF Fitting, Loose
  <2>2. AtHead(w, mv)
    BY <2>1, <1>4, <1>5, <1>6, WorldFacts DEF AtHead, WishIsServed
  <2>3. Tracked(w, owed, Hidden(w.sf) \/ DrainForces(w.sf))
    <3>1. OwesForce(w.sf) = Hidden(w.sf)
      BY <1>4, <1>5, <1>9 DEF OwesForce, Hidden
    <3> QED
      BY <3>1, <1>8
  <2>4. Followed(w, slot, w.sf.visibilityRequested \/ owed # {} \/ DrainLooks(w.sf))
    BY <1>4, <1>5 DEF Followed
  <2> DEFINE v == VisLoop(w)
  <2>5. /\ Formed(v, mv) /\ v.sf.vis \in {"idle", "hiding", "alive"}
        /\ Tracked(v, owed, OwesForce(v.sf) \/ DrainForces(v.sf))
        /\ Followed(v, slot, LooksAgain(v.sf, owed) \/ DrainLooks(v.sf))
    BY <2>2, <2>3, <2>4, LoopKeeps
  <2> HIDE DEF v
  <2>6. Sound(v, slot, mv, owed)
    BY <2>5, WorldFacts DEF Sound
  <2> QED
    BY <2>5, <2>6, <1>1, <1>9 DEF v, Calm
<1>10. CASE sf.vis # "idle"
  <2>1. Fits(w, mv)
    <3> SUFFICES ASSUME NEW i \in DOMAIN inFlight PROVE Fitting(w.sf, w.nat, mv, inFlight[i])
      BY <1>4 DEF Fits
    <3>1. Fitting(sf, nat, mv, inFlight[i])
      BY WorldFacts DEF Fits
    <3> QED
      BY <3>1, <1>4, <1>5, <1>10 DEF Fitting
  <2>2. WishIsServed(w.sf, w.nat)
    BY <1>4, <1>5, <1>10, WorldFacts DEF WishIsServed
  <2>3. Followed(w, slot, LooksAgain(w.sf, owed) \/ DrainLooks(w.sf))
    BY <1>4, <1>5, <1>10 DEF Followed, LooksAgain
  <2>4. Sound(w, slot, mv, owed)
    BY <2>1, <2>2, <2>3, <1>4, <1>6, <1>8, WorldFacts DEF Sound, Formed
  <2> QED
    BY <2>4, <1>1, <1>4, <1>5, <1>10 DEF Calm
<1> QED
  BY <1>9, <1>10

-----------------------------------------------------------------------------
(* The theorem. *)

LEMMA SurfaceInitIsSound == SurfaceInit => SurfaceInv
<1> SUFFICES ASSUME SurfaceInit PROVE SurfaceInv
  OBVIOUS
<1>1. /\ slot \in SlotType /\ mv \in MoveType /\ mv = NoMove /\ owed = {}
      /\ inFlight = <<>> /\ deaf = {}
  BY NoMoveIs DEF SurfaceInit, SlotStates, SlotType
<1>2. sf \in SurfaceState
  BY DEF SurfaceInit, SurfaceState, VisSteps, Frames
<1>3. nat \in NativeChild
  BY DEF SurfaceInit, NativeChild, Anywhere
<1>4. /\ ~sf.opened /\ ~sf.opening /\ sf.vis = "idle" /\ ~sf.precommitting /\ ~sf.closed
      /\ ~nat.exists /\ ~nat.visible
  BY DEF SurfaceInit
<1>5. World.sf = sf /\ World.nat = nat /\ World.calls = <<>> /\ World.deaf = {}
  BY <1>1 DEF World
<1>6. World \in Worlds
  <2>1. <<>> \in Seq(NativeCall)
    OBVIOUS
  <2> QED
    BY <2>1, <1>1, <1>2, <1>3 DEF World, Worlds
<1>7. Orderly(World.calls, World.deaf) /\ Fits(World, mv)
  BY <1>5 DEF Orderly, OneCall, Fits
<1>8. WishIsServed(sf, nat) /\ LockHolds(World, mv)
  BY <1>1, <1>4, <1>5, NoMoveIs DEF WishIsServed, LockHolds
<1>9. /\ Tracked(World, owed, OwesForce(sf) \/ DrainForces(sf))
      /\ Followed(World, slot, LooksAgain(sf, owed) \/ DrainLooks(sf))
  BY <1>4, <1>5 DEF Tracked, Followed
<1> QED
  BY <1>1, <1>5, <1>6, <1>7, <1>8, <1>9, NoMoveIs DEF SurfaceInv, Sound, Formed

\* The world that a step leaves behind.
LEMMA LeftBehind ==
    ASSUME NEW v, slot' \in SlotType, mv' \in MoveType, owed' \subseteq {"resize", "observe"},
           Sound(v, slot', mv', owed'), Becomes(v)
    PROVE  SurfaceInv'
<1>1. v \in Worlds
  BY DEF Sound, Formed
<1>2. v = [sf |-> sf', nat |-> nat', calls |-> inFlight', deaf |-> deaf']
  BY <1>1 DEF Becomes, Worlds
<1>3. World' = v
  BY <1>2 DEF World
<1>4. Sound(World', slot', mv', owed')
  BY <1>3
<1> QED
  BY <1>4 DEF SurfaceInv

LEMMA SurfaceStep == SurfaceInv /\ [SurfaceNext]_surfaceVars => SurfaceInv'
<1> SUFFICES ASSUME SurfaceInv, [SurfaceNext]_surfaceVars PROVE SurfaceInv'
  OBVIOUS
<1>a. slot \in SlotType /\ mv \in MoveType /\ owed \subseteq {"resize", "observe"}
  BY DEF SurfaceInv
<1>1. CASE open
  <2>1. UNCHANGED <<slot, mv, owed>>
    BY <1>1 DEF open
  <2> QED
    BY <2>1, <1>1, <1>a, ClientOpenKeeps, LeftBehind
<1>2. CASE close
  <2>1. UNCHANGED <<slot, mv>> /\ owed' \subseteq owed
    BY <1>2 DEF close
  <2> QED
    BY <2>1, <1>2, <1>a, CloseKeeps, LeftBehind
<1>3. CASE DrainAnswer
  <2>1. UNCHANGED <<slot, mv, owed>>
    BY <1>3 DEF DrainAnswer
  <2> QED
    BY <2>1, <1>3, <1>a, DrainAnswerKeeps, LeftBehind
<1>4. CASE VisibleAnswer
  <2>1. UNCHANGED <<slot, mv, owed>>
    BY <1>4 DEF VisibleAnswer
  <2> QED
    BY <2>1, <1>4, <1>a, VisibleAnswerKeeps, LeftBehind
<1>5. CASE AliveAnswer
  <2>1. UNCHANGED <<slot, mv, owed>>
    BY <1>5 DEF AliveAnswer
  <2> QED
    BY <2>1, <1>5, <1>a, AliveAnswerKeeps, LeftBehind
<1>6. CASE OpenAnswer
  <2>1. UNCHANGED <<slot, mv>> /\ owed' \subseteq owed \cup {"observe"}
    BY <1>6 DEF OpenAnswer
  <2> QED
    BY <2>1, <1>6, <1>a, OpenAnswerKeeps, LeftBehind
<1>7. CASE OpenedAnswer
  <2>1. UNCHANGED <<slot, mv, owed>>
    BY <1>7 DEF OpenedAnswer
  <2> QED
    BY <2>1, <1>7, <1>a, OpenedAnswerKeeps, LeftBehind
<1>8. CASE PrepareAnswer
  <2>1. UNCHANGED <<slot, owed>>
    BY <1>8 DEF PrepareAnswer
  <2> QED
    BY <2>1, <1>8, <1>a, PrepareAnswerKeeps, LeftBehind
<1>9. CASE CommitAnswer
  <2>1. UNCHANGED <<slot, owed>> /\ mv' = NoMove
    BY <1>9 DEF CommitAnswer
  <2> QED
    BY <2>1, <1>9, <1>a, CommitAnswerKeeps, NoMoveIs, LeftBehind
<1>10. CASE CancelAnswer
  <2>1. UNCHANGED <<slot, mv, owed>>
    BY <1>10 DEF CancelAnswer
  <2> QED
    BY <2>1, <1>10, <1>a, CancelAnswerKeeps, LeftBehind
<1>11. ASSUME NEW on \in Wishes, visible(on) PROVE SurfaceInv'
  <2>1. UNCHANGED <<slot, mv, owed>>
    BY <1>11 DEF visible
  <2> QED
    BY <2>1, <1>11, <1>a, VisibleKeeps, LeftBehind
<1>12. CASE MoveAsked
  <2>1. /\ mv' \in MoveType /\ Sound(World, slot, mv', owed)
        /\ UNCHANGED <<slot, sf, nat, inFlight, owed, deaf>>
    BY <1>12, MoveAskedKeeps
  <2>2. Becomes(World)
    BY <2>1, WorldFacts DEF Becomes
  <2> QED
    BY <2>1, <2>2, <1>a, LeftBehind
<1>13. CASE MoveCancel
  <2>1. UNCHANGED <<slot, owed>> /\ mv' = NoMove
    BY <1>13 DEF MoveCancel
  <2> QED
    BY <2>1, <1>13, <1>a, MoveCancelKeeps, NoMoveIs, LeftBehind
<1>14. ASSUME NEW glide \in BOOLEAN, NEW ok \in BOOLEAN, MoveLock(glide, ok) PROVE SurfaceInv'
  <2>1. UNCHANGED <<slot, owed>>
    BY <1>14 DEF MoveLock
  <2> QED
    BY <2>1, <1>14, <1>a, MoveLockKeeps, LeftBehind
<1>15. ASSUME NEW s \in Arranged, MoveCommit(s) PROVE SurfaceInv'
  <2>1. slot' = s /\ owed' = owed
    BY <1>15 DEF MoveCommit
  <2>3. s \in SlotType
    BY <1>15 DEF Arranged, SlotType
  <2> QED
    BY <2>1, <2>3, <1>15, <1>a, MoveCommitKeeps, LeftBehind
<1>16. ASSUME NEW p \in BOOLEAN, NEW at \in SlotPlaces,
              DomChange([slot EXCEPT !.present = p, !.at = at])
       PROVE  SurfaceInv'
  <2> DEFINE s == [slot EXCEPT !.present = p, !.at = at]
  <2>1. slot' = s /\ UNCHANGED <<mv, owed>>
    BY <1>16 DEF DomChange
  <2>2. s \in SlotType
    BY <1>a DEF SlotType
  <2> HIDE DEF s
  <2>3. DomChange(s)
    BY <1>16 DEF s
  <2> QED
    BY <2>1, <2>2, <2>3, <1>a, DomChangeKeeps, LeftBehind
<1>17. CASE AnimationEnd
  <2>1. UNCHANGED <<mv, owed>>
    BY <1>17 DEF AnimationEnd
  <2> QED
    BY <2>1, <1>17, <1>a, AnimationEndKeeps, LeftBehind
<1>18. CASE WindowResize
  <2>1. UNCHANGED <<slot, mv>> /\ owed' = owed \cup {"resize"}
    BY <1>18 DEF WindowResize
  <2> QED
    BY <2>1, <1>18, <1>a, WindowResizeKeeps, LeftBehind
<1>19. CASE SlotObserved
  <2>1. UNCHANGED <<slot, mv>> /\ owed' \subseteq owed
    BY <1>19 DEF SlotObserved
  <2> QED
    BY <2>1, <1>19, <1>a, SlotObservedKeeps, LeftBehind
<1>20. CASE Detach
  <2>1. UNCHANGED <<slot, mv, owed>>
    BY <1>20 DEF Detach
  <2> QED
    BY <2>1, <1>20, <1>a, DetachKeeps, LeftBehind
<1>21. ASSUME NEW at \in SlotPlaces, onWindowResize(at) PROVE SurfaceInv'
  <2>1. UNCHANGED mv /\ owed' \subseteq owed
    BY <1>21 DEF onWindowResize
  <2> QED
    BY <2>1, <1>21, <1>a, OnWindowResizeKeeps, LeftBehind
<1>22. CASE UNCHANGED surfaceVars
  <2>1. UNCHANGED <<slot, sf, nat, inFlight, mv, owed, deaf>>
    BY <1>22 DEF surfaceVars
  <2>2. World' = World
    BY <2>1 DEF World
  <2> QED
    BY <2>1, <2>2 DEF SurfaceInv
<1> QED
  BY <1>1, <1>2, <1>3, <1>4, <1>5, <1>6, <1>7, <1>8, <1>9, <1>10, <1>11, <1>12, <1>13, <1>14,
     <1>15, <1>16, <1>17, <1>18, <1>19, <1>20, <1>21, <1>22 DEF SurfaceNext, Answers

\* At rest nothing is under way: the last frame is where the child is, and where its slot is.
LEMMA SoundIsTrue == SurfaceInv => SurfaceIsTrue
<1> SUFFICES ASSUME SurfaceInv PROVE SurfaceIsTrue
  OBVIOUS
<1>1. SurfaceTypeOK
  <2>1. sf.lastRect \in Frames /\ nat.at \in Anywhere /\ sf.vis \in VisSteps
        /\ sf.desiredVisible \in Wishes \cup {Unset} /\ sf.appliedVisible \in Wishes \cup {Unset}
    BY WorldFacts DEF SurfaceState, NativeChild
  <2> QED
    BY <2>1, WorldFacts DEF SurfaceTypeOK, SlotType, Frames, VisSteps
<1>2. sf.closed => ~nat.exists
  BY WorldFacts DEF WishIsServed
<1>3. AtRest /\ nat.exists /\ sf.opened => nat.visible = (sf.desiredVisible = "shown")
  BY WorldFacts DEF AtRest, WishIsServed
<1>4. ASSUME AtRest, nat.exists, sf.opened, nat.visible, slot.present, ~sf.precommitting, deaf = {}
      PROVE  nat.at = slot.at
  <2>1. sf.desiredVisible = "shown" /\ sf.appliedVisible = "shown"
    BY <1>4, WorldFacts DEF AtRest, WishIsServed
  <2>2. ~OwesForce(sf) /\ ~DrainForces(sf) /\ ~DrainLooks(sf) /\ ~LooksAgain(sf, owed)
    BY <2>1, <1>4 DEF AtRest, OwesForce, DrainForces, DrainLooks, LooksAgain
  <2>3. Settles(inFlight, sf.lastRect, nat.at)
    BY <2>2, <1>4, WorldFacts DEF Tracked, AtRest
  <2>4. Settles(inFlight, sf.lastRect, slotRect(slot))
    BY <2>1, <2>2, <1>4, WorldFacts DEF Followed
  <2>5. inFlight = <<>> /\ slotRect(slot) = slot.at
    BY <1>4 DEF AtRest, slotRect
  <2> QED
    BY <2>3, <2>4, <2>5 DEF Settles
<1> QED
  BY <1>1, <1>2, <1>3, <1>4 DEF SurfaceIsTrue

\* Whatever is asked of a surface, however the window and the document move, and however the
\* child is lost and restored meanwhile: when nothing is under way, the child is visible as it
\* is wanted and stands where its slot is, and a closed label has none.
THEOREM TheSurfaceIsTrue == SurfaceSpec => []SurfaceIsTrue
<1>1. SurfaceSpec => []SurfaceInv
  BY SurfaceInitIsSound, SurfaceStep, PTL DEF SurfaceSpec
<1> QED
  BY <1>1, SoundIsTrue, PTL

-----------------------------------------------------------------------------
(* A surface is shown where its slot is. *)

LEMMA LoopDoesNotShow == ASSUME NEW w \in Worlds PROVE VisLoop(w).sf.vis # "showing"
<1> DEFINE u == [w EXCEPT !.sf.visibilityRequested = FALSE]
<1>1. u \in Worlds
  BY DEF Worlds, SurfaceState
<1> HIDE DEF u
<1>2. /\ [u EXCEPT !.sf.vis = "idle"].sf.vis = "idle"
      /\ webview_visible([u EXCEPT !.sf.vis = "hiding"], "vis", "hidden").sf.vis = "hiding"
      /\ \A b, c : Sent([u EXCEPT !.sf.vis = "alive", !.sf.returning = b], c).sf.vis = "alive"
  BY <1>1 DEF webview_visible, Sent, Worlds, SurfaceState
<1> QED
  BY <1>2 DEF VisLoop, u

\* Whoever shows wants to, and leaves the child in its place.
LEMMA ShowsInPlace ==
    ASSUME NEW w \in Worlds, ShowOrYield(w).sf.vis = "showing"
    PROVE  w.sf.desiredVisible = "shown" /\ ShowOrYield(w).nat.at = w.nat.at
<1>1. w.sf.desiredVisible = "shown"
  BY LoopDoesNotShow DEF ShowOrYield
<1>2. webview_visible([w EXCEPT !.sf.vis = "showing"], "vis", "shown").nat.at = w.nat.at
  BY DEF webview_visible, Sent, Worlds, NativeChild
<1> QED
  BY <1>1, <1>2 DEF ShowOrYield

\* A synchronisation that writes nothing was not forced and found the last frame right.
LEMMA SyncSkips ==
    ASSUME NEW w \in Worlds, NEW s \in SlotType, NEW force \in BOOLEAN,
           ~w.sf.draining, Following(w), s.present, ~requestSlotSync(w, s, force).sf.draining
    PROVE  ~force /\ w.sf.lastRect = slotRect(s)
<1> DEFINE u == [w EXCEPT !.sf.requested = TRUE, !.sf.force = @ \/ force]
<1>1. requestSlotSync(w, s, force) = DrainOn(u, s)
  BY DEF requestSlotSync
<1>2. /\ u \in Worlds /\ u.sf.requested /\ u.sf.force = (w.sf.force \/ force)
      /\ u.sf.lastRect = w.sf.lastRect /\ u.sf.opened = w.sf.opened
      /\ u.sf.precommitting = w.sf.precommitting /\ u.sf.desiredVisible = w.sf.desiredVisible
  BY DEF Worlds, SurfaceState
<1> HIDE DEF u
<1>3. ~Writes(u, s)
  BY <1>1, <1>2, DrainWrites
<1>4. Following(u)
  BY <1>2 DEF Following
<1>5. ~u.sf.force /\ slotRect(s) = u.sf.lastRect
  BY <1>2, <1>3, <1>4 DEF Writes
<1> QED
  BY <1>2, <1>5

LEMMA SettlesBeforeItShows ==
    ASSUME NEW w, NEW s \in SlotType, Formed(w, mv), ~w.sf.draining, w.sf.opened,
           ~w.sf.precommitting, s.present, SettleThenShow(w, s).sf.vis = "showing",
           w.sf.vis # "showing"
    PROVE  /\ ~w.sf.returning /\ w.sf.desiredVisible = "shown"
           /\ w.sf.lastRect = slotRect(s) /\ SettleThenShow(w, s).nat.at = w.nat.at
<1> DEFINE u == requestSlotSync(w, s, w.sf.returning)
<1>1. w \in Worlds /\ w.sf.returning \in BOOLEAN
  BY DEF Formed, Worlds, SurfaceState
<1>2. Formed(u, mv) /\ SameSurface(w, u) /\ (~u.sf.draining => u.nat = w.nat)
  BY <1>1, SyncKeeps
<1>3. SettleThenShow(w, s) = IF u.sf.draining THEN [u EXCEPT !.sf.vis = "geometry"] ELSE ShowOrYield(u)
  BY DEF SettleThenShow
<1>4. /\ u \in Worlds /\ u.sf.desiredVisible = w.sf.desiredVisible
  BY <1>2, SameSurfaceMeans DEF Formed
<1>5. ~u.sf.draining
  <2>1. [u EXCEPT !.sf.vis = "geometry"].sf.vis = "geometry"
    BY <1>4 DEF Worlds, SurfaceState
  <2> QED
    BY <2>1, <1>3
<1>6. u.sf.desiredVisible = "shown" /\ ShowOrYield(u).nat.at = u.nat.at
  BY <1>3, <1>4, <1>5, ShowsInPlace
<1>7. Following(w)
  BY <1>4, <1>6 DEF Following
<1>8. ~w.sf.returning /\ w.sf.lastRect = slotRect(s)
  BY <1>1, <1>5, <1>7, SyncSkips
<1> QED
  BY <1>2, <1>3, <1>4, <1>5, <1>6, <1>8

\* With no frame under way the last one is what the calls settle on.
LEMMA NoneUnderWay ==
    ASSUME NEW w, NEW m, Formed(w, m), m.pc = "idle", w.sf.opened, NoCall(w.calls, {"drain"})
    PROVE  \A p : Settles(w.calls, w.sf.lastRect, p) <=> w.sf.lastRect = p
<1>1. w \in Worlds /\ Fits(w, m) /\ w.calls \in Seq(NativeCall)
  BY DEF Formed, Worlds
<1>2. NoCall(w.calls, {"open"}) /\ NoCall(w.calls, MoveCalls)
  BY <1>1, NotUnderWay
<1>3. NoCall(w.calls, {"commit"}) /\ NoCall(w.calls, {"prepare"})
  BY <1>2 DEF NoCall, MoveCalls
<1> QED
  BY <1>1, <1>2, <1>3, Framed, NoFrames

\* What the property grants when a surface is shown.
Granted == /\ sf.vis # "showing" /\ sf'.vis = "showing"
           /\ nat.exists /\ sf.opened /\ slot.present
           /\ mv.pc = "idle" /\ ~sf.precommitting /\ deaf = {} /\ "resize" \notin owed
           /\ ~sf.visibilityRequested

LEMMA AliveShows ==
    ASSUME SurfaceInv, AliveAnswer, Granted
    PROVE  nat'.at = slotRect(slot)
<1> DEFINE a == Answer1(World)
           lost == [a EXCEPT !.sf.opened = FALSE, !.sf.lastRect = NoPlace]
<1>a. /\ Formed(World, mv) /\ World \in Worlds /\ World.calls # <<>> /\ World.calls = inFlight
      /\ slot \in SlotType /\ World.sf = sf /\ World.nat = nat /\ World.deaf = deaf
      /\ Answer.by = "vis" /\ sf.vis = "alive" /\ sf \in SurfaceState
      /\ Answer = Head(World.calls)
      /\ Tracked(World, owed, OwesForce(sf) \/ DrainForces(sf))
  BY DEF SurfaceInv, Sound, Formed, AliveAnswer, AnswerOf, World, Answer, Worlds
<1>1. Answered = a
  BY <1>a, AnsweredIs DEF IsFrame
<1>2. /\ Formed(a, mv) /\ a \in Worlds /\ Fitting(sf, nat, mv, Answer) /\ a.nat = nat
      /\ \A k \in DOMAIN sf : k # "lastRect" => a.sf[k] = sf[k]
      /\ \A p : Settles(World.calls, World.sf.lastRect, p) => Settles(a.calls, a.sf.lastRect, p)
  BY <1>a, AnswerKeeps DEF Formed
<1>3. \/ Answer.alive /\ Becomes(IF a.sf.draining THEN [a EXCEPT !.sf.vis = "drained"]
                                 ELSE SettleThenShow(a, slot))
      \/ ~Answer.alive
  BY <1>1 DEF AliveAnswer
<1>4. Answer.alive
  BY <1>2, <1>a DEF Fitting, Granted
<1> HIDE DEF a
<1>5. /\ a.sf.opened = sf.opened /\ a.sf.draining = sf.draining /\ a.sf.returning = sf.returning
      /\ a.sf.precommitting = sf.precommitting /\ a.sf.vis = "alive"
  BY <1>2, <1>a DEF SurfaceState
<1>6. ~a.sf.draining /\ Becomes(SettleThenShow(a, slot))
  <2>1. [a EXCEPT !.sf.vis = "drained"].sf.vis = "drained"
    BY <1>2 DEF Worlds, SurfaceState
  <2> QED
    BY <2>1, <1>3, <1>4 DEF Becomes, Granted
<1>7. SettleThenShow(a, slot).sf.vis = "showing" /\ nat' = SettleThenShow(a, slot).nat
  BY <1>6 DEF Becomes, Granted
<1>8. /\ ~a.sf.returning /\ a.sf.lastRect = slotRect(slot) /\ SettleThenShow(a, slot).nat.at = a.nat.at
  <2>1. a.sf.opened /\ ~a.sf.precommitting /\ slot.present /\ slot \in SlotType /\ a.sf.vis # "showing"
    BY <1>5, <1>a DEF Granted
  <2> QED
    BY <2>1, <1>2, <1>6, <1>7, SettlesBeforeItShows
<1>9. ~OwesForce(sf) /\ ~DrainForces(sf)
  BY <1>5, <1>6, <1>8, <1>a DEF OwesForce, DrainForces, DrainLooks
<1>10. Settles(World.calls, World.sf.lastRect, World.nat.at)
  BY <1>9, <1>a DEF Tracked, Granted
<1>11. NoCall(a.calls, {"drain"})
  BY <1>2, <1>6, NotUnderWay DEF Formed
<1>12. a.sf.lastRect = nat.at
  <2>1. Settles(a.calls, a.sf.lastRect, nat.at)
    BY <1>2, <1>10, <1>a
  <2>2. a.sf.opened /\ mv.pc = "idle"
    BY <1>5 DEF Granted
  <2>3. \A p : Settles(a.calls, a.sf.lastRect, p) <=> a.sf.lastRect = p
    BY <2>2, <1>2, <1>11, NoneUnderWay
  <2> QED
    BY <2>1, <2>3
<1> QED
  BY <1>2, <1>7, <1>8, <1>12

LEMMA DrainShows ==
    ASSUME SurfaceInv, DrainAnswer, Granted
    PROVE  nat'.at = slotRect(slot)
<1> DEFINE a == Answer1(World)
           u == DrainOn(a, slot)
           v == DrainOver(u, slot)
<1>a. /\ Formed(World, mv) /\ World \in Worlds /\ World.calls # <<>> /\ World.calls = inFlight
      /\ slot \in SlotType /\ World.sf = sf /\ World.nat = nat /\ World.deaf = deaf
      /\ Answer.by = "drain" /\ sf \in SurfaceState
      /\ Answer = Head(World.calls)
      /\ Tracked(World, owed, OwesForce(sf) \/ DrainForces(sf))
      /\ Followed(World, slot, LooksAgain(sf, owed) \/ DrainLooks(sf))
  BY DEF SurfaceInv, Sound, Formed, DrainAnswer, AnswerOf, World, Answer, Worlds
<1>1. IsFrame(Answer) /\ [Answered EXCEPT !.sf.lastRect = Answer.at] = a
  BY <1>a, AnsweredIs DEF IsFrame
<1>2. sf' = v.sf /\ nat' = v.nat
  BY <1>1 DEF DrainAnswer, Becomes
<1>3. /\ Formed(a, mv) /\ a \in Worlds /\ a.nat = nat
      /\ \A k \in DOMAIN sf : k # "lastRect" => a.sf[k] = sf[k]
      /\ NoCall(a.calls, {"drain"})
      /\ \A p : Settles(World.calls, World.sf.lastRect, p) => Settles(a.calls, a.sf.lastRect, p)
  BY <1>a, AnswerKeeps DEF Kinds, Formed
<1> HIDE DEF a
<1>4. /\ a.sf.desiredVisible = sf.desiredVisible /\ a.sf.requested = sf.requested
      /\ a.sf.force = sf.force /\ a.sf.opened = sf.opened /\ a.sf.returning = sf.returning
      /\ a.sf.precommitting = sf.precommitting /\ a.sf.vis = sf.vis
  BY <1>3, <1>a DEF SurfaceState
<1>5. /\ Formed(u, mv) /\ SameSurface(a, u) /\ (~u.sf.draining => u.nat = a.nat)
  BY <1>3, <1>a, DrainKeeps
<1>6. Writes(a, slot) => u.sf.draining
  BY <1>3, <1>a, DrainWrites
<1> HIDE DEF u
<1>7. /\ u \in Worlds /\ u.sf.vis = sf.vis /\ u.sf.desiredVisible = sf.desiredVisible
      /\ u.sf.opened = sf.opened /\ u.sf.precommitting = sf.precommitting
      /\ u.sf.lastRect = a.sf.lastRect /\ u.sf.returning = sf.returning
  BY <1>4, <1>5, SameSurfaceMeans DEF Formed
<1>8. v.sf.vis = "showing" /\ u.sf.vis # "showing"
  BY <1>2, <1>7 DEF Granted
<1>9. /\ ~u.sf.draining
      /\ \/ u.sf.vis = "drained" /\ v = SettleThenShow(u, slot)
         \/ u.sf.vis = "geometry" /\ v = ShowOrYield(u)
  BY <1>8 DEF DrainOver
<1>10. /\ u.sf.desiredVisible = "shown" /\ v.nat.at = nat.at
       /\ u.sf.vis = "drained" => ~u.sf.returning /\ u.sf.lastRect = slotRect(slot)
  <2>1. CASE u.sf.vis = "drained"
    <3>1. v = SettleThenShow(u, slot)
      BY <2>1, <1>9
    <3>2. SettleThenShow(u, slot).sf.vis = "showing"
      BY <3>1, <1>8
    <3>3. u.sf.opened /\ ~u.sf.precommitting /\ slot.present /\ slot \in SlotType
      BY <1>7, <1>a DEF Granted
    <3>4. /\ ~u.sf.returning /\ u.sf.desiredVisible = "shown" /\ u.sf.lastRect = slotRect(slot)
          /\ SettleThenShow(u, slot).nat.at = u.nat.at
      BY <3>2, <3>3, <1>5, <1>8, <1>9, SettlesBeforeItShows
    <3> QED
      BY <3>1, <3>4, <1>3, <1>5, <1>9
  <2>2. CASE u.sf.vis = "geometry"
    <3>1. v = ShowOrYield(u)
      BY <2>2, <1>9
    <3>2. u.sf.desiredVisible = "shown" /\ ShowOrYield(u).nat.at = u.nat.at
      BY <3>1, <1>7, <1>8, ShowsInPlace
    <3> QED
      BY <3>1, <3>2, <2>2, <1>3, <1>5, <1>9
  <2> QED
    BY <2>1, <2>2, <1>9
<1>11. Following(a)
  BY <1>4, <1>7, <1>10 DEF Following, Granted
<1>12. a.sf.requested => ~a.sf.force /\ slotRect(slot) = a.sf.lastRect
  BY <1>6, <1>9, <1>11 DEF Writes, Granted
<1>13. ~OwesForce(sf) /\ ~DrainForces(sf)
  BY <1>4, <1>7, <1>9, <1>10, <1>12 DEF OwesForce, DrainForces, DrainLooks
<1>14. \A p : Settles(a.calls, a.sf.lastRect, p) <=> a.sf.lastRect = p
  BY <1>3, <1>4, NoneUnderWay DEF Granted
<1>15. a.sf.lastRect = nat.at
  <2>1. Settles(World.calls, World.sf.lastRect, World.nat.at)
    BY <1>13, <1>a DEF Tracked, Granted
  <2> QED
    BY <2>1, <1>3, <1>14, <1>a
<1>16. a.sf.lastRect = slotRect(slot)
  <2>1. CASE u.sf.vis = "drained" \/ a.sf.requested
    BY <2>1, <1>7, <1>10, <1>12
  <2>2. CASE u.sf.vis = "geometry" /\ ~a.sf.requested
    <3>1. ~LooksAgain(sf, owed) /\ ~DrainLooks(sf)
      BY <2>2, <1>4, <1>7 DEF LooksAgain, DrainLooks, Granted
    <3>2. sf.desiredVisible # "hidden"
      BY <1>7, <1>10
    <3>3. Settles(World.calls, World.sf.lastRect, slotRect(slot))
      BY <3>1, <3>2, <1>a DEF Followed, Granted
    <3> QED
      BY <3>3, <1>3, <1>14
  <2> QED
    BY <2>1, <2>2, <1>9
<1> QED
  BY <1>2, <1>10, <1>15, <1>16

LEMMA ShowStep ==
    SurfaceInv /\ [SurfaceNext]_surfaceVars
      => [Granted => nat'.at = slotRect(slot)]_surfaceVars
<1> SUFFICES ASSUME SurfaceInv, SurfaceNext, Granted
             PROVE  nat'.at = slotRect(slot)
  OBVIOUS
<1>1. ASSUME NEW v, Becomes(v), Calm(v) PROVE FALSE
  BY <1>1 DEF Becomes, Calm, Granted
<1>2. sf' # sf
  BY DEF Granted
<1>a. slot \in SlotType
  BY DEF SurfaceInv
<1>3. ~open
  BY <1>1, ClientOpenKeeps
<1>4. ~close
  BY <1>1, CloseKeeps
<1>5. ~VisibleAnswer
  BY <1>1, VisibleAnswerKeeps
<1>6. ~OpenAnswer
  BY <1>1, OpenAnswerKeeps
<1>7. ~OpenedAnswer
  BY <1>1, OpenedAnswerKeeps
<1>8. ~PrepareAnswer
  BY <1>1, PrepareAnswerKeeps
<1>9. ~CommitAnswer
  BY <1>1, CommitAnswerKeeps
<1>10. ~CancelAnswer
  BY <1>1, CancelAnswerKeeps
<1>11. \A on \in Wishes : ~visible(on)
  BY <1>1, VisibleKeeps
<1>12. ~MoveAsked
  BY <1>2 DEF MoveAsked
<1>13. ~MoveCancel
  BY <1>1, MoveCancelKeeps
<1>14. \A glide, ok \in BOOLEAN : ~MoveLock(glide, ok)
  BY <1>1, MoveLockKeeps
<1>15. \A s \in Arranged : ~MoveCommit(s)
  BY <1>1, MoveCommitKeeps DEF Arranged, SlotType
<1>16. ASSUME NEW p \in BOOLEAN, NEW at \in SlotPlaces
       PROVE  ~DomChange([slot EXCEPT !.present = p, !.at = at])
  <2> DEFINE s == [slot EXCEPT !.present = p, !.at = at]
  <2>1. s \in SlotType
    BY <1>a DEF SlotType
  <2> HIDE DEF s
  <2>2. ~DomChange(s)
    BY <2>1, <1>1, DomChangeKeeps
  <2> QED
    BY <2>2 DEF s
<1>17. ~AnimationEnd
  BY <1>1, AnimationEndKeeps
<1>18. ~WindowResize
  BY <1>2 DEF WindowResize
<1>19. ~SlotObserved
  BY <1>1, SlotObservedKeeps
<1>20. ~Detach
  BY <1>2 DEF Detach
<1>21. \A at \in SlotPlaces : ~onWindowResize(at)
  BY <1>1, OnWindowResizeKeeps
<1>22. AliveAnswer \/ DrainAnswer
  BY <1>3, <1>4, <1>5, <1>6, <1>7, <1>8, <1>9, <1>10, <1>11, <1>12, <1>13, <1>14, <1>15, <1>16,
     <1>17, <1>18, <1>19, <1>20, <1>21 DEF SurfaceNext, Answers
<1> QED
  BY <1>22, AliveShows, DrainShows

\* The visibility loop shows a child only where its slot is.
THEOREM TheSurfaceIsShownInPlace == SurfaceSpec => ShownWhereItBelongs
<1>1. SurfaceSpec => []SurfaceInv
  BY SurfaceInitIsSound, SurfaceStep, PTL DEF SurfaceSpec
<1>2. [Granted => nat'.at = slotRect(slot)]_surfaceVars
        => [ /\ sf.vis # "showing" /\ sf'.vis = "showing"
             /\ nat.exists /\ sf.opened /\ slot.present
             /\ mv.pc = "idle" /\ ~sf.precommitting /\ deaf = {} /\ "resize" \notin owed
             /\ ~sf.visibilityRequested
             => nat'.at = slotRect(slot) ]_surfaceVars
  BY DEF Granted
<1> QED
  BY <1>1, <1>2, ShowStep, PTL DEF SurfaceSpec, ShownWhereItBelongs
==============================================================================
