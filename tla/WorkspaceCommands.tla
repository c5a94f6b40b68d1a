-------------------------- MODULE WorkspaceCommands --------------------------
(***************************************************************************)
(* The commands on the workspace (src/src/commands/catalog.ts).  A caller  *)
(* names its target, or leaves it out and means the place its own terminal *)
(* tab is in, or else the chain in focus.  A command resolves the target,  *)
(* runs store operations and answers the ids of what it did.  Commands     *)
(* interleave with the window's own steps: clicks, plugin intents, views   *)
(* that register and go.                                                   *)
(***************************************************************************)
EXTENDS Workspace

CONSTANTS Keys,            \* sidebar view keys a registry can hold, in its order
          Stations,        \* rail stations a pin may ask for
          MaxWeight        \* bound: the weights of a resized split

VARIABLES store,           \* projects, activeId and focusHistory
          truthful,        \* history: every answer so far was true
          registered,      \* the registry's rail views
          leftLayout       \* the left sidebar of the first project

vars == <<store, truthful, registered, leftLayout>>

Init ==
    /\ \E root \in Roots : store = bootstrapFirstProject(root)
    /\ truthful = TRUE
    /\ registered = << >>
    /\ leftLayout = initialSidebarLayout(<< >>)

-----------------------------------------------------------------------------
(* Resolving a target. *)

ActiveOr1st(g) == IF g.activeTabId # NoId THEN g.activeTabId ELSE FirstTab(g)

locateTab(v) ==
    LET p == CHOOSE p \in ToSet(store.projects) : v \in TabsOf(p)
        c == contentOfView(p, v)
    IN At(p.id, c.id, findGroupOfView(c, v).id, v)
locatePane(g) ==
    LET p == CHOOSE p \in ToSet(store.projects) : g \in PanesOf(p)
        c == contentOfGroup(p, g)
    IN At(p.id, c.id, g, ActiveOr1st(paneOf(c, g)))
activeChain ==
    LET p == Project(store, store.activeId)
        c == activeContentOf(p)
    IN At(p.id, c.id, activePaneOf(c).id, ActiveOr1st(activePaneOf(c)))

\* A caller whose tab is gone is as good as none.
resolveCtx(caller) == IF caller \in AllTabs(store) THEN locateTab(caller) ELSE activeChain

\* A target that is given, and the ones left out from every place a call can
\* come from.
Callers == AllTabs(store) \cup {NoId}
ProjectTargets == ProjectIds(store) \cup {resolveCtx(caller).project : caller \in Callers}
PaneTargets ==
    {locatePane(g) : g \in AllPanes(store)} \cup {resolveCtx(caller) : caller \in Callers}
TabTargets ==
    {locateTab(v) : v \in AllTabs(store)} \cup {resolveCtx(caller) : caller \in Callers}
SpaceOf(at) == LET p == Project(store, at.project) IN p.spaces[IndexOf(p.spaces, at.space)]

-----------------------------------------------------------------------------
(* The commands: what they answer and the store they leave.                 *)

ProjectOpen == {addProject(store, root, prog) : root \in Roots, prog \in Programs \cup {NoId}}
ProjectClose == {closeTab(store, id) : id \in ProjectIds(store)}
ProjectActivate == {setActive(store, id) : id \in ProjectIds(store)}

\* A pin without a station freezes the line the rail stands on; one that is
\* asked for snaps to the nearest line of what is shown.
SidebarPosition ==
    {setLeftRailPlacement(store, id, Flow) : id \in ProjectTargets}
    \cup UNION {LET a == projectArrangement(Project(store, id), TRUE)
                IN {setLeftRailPlacement(store, id, snapRailStation(cleanRailLines(a.cells), at)) :
                      at \in Stations \cup {a.station}} : id \in ProjectTargets}

SpaceCreate ==
    {addContent(store, id, prog) : id \in ProjectTargets, prog \in Programs \cup {NoId}}
SpaceClose ==
    UNION {{closeContent(store, id, c.id) : c \in ToSet(Project(store, id).spaces)} :
              id \in ProjectTargets}
SpaceActivate ==
    UNION {{setActiveContent(store, id, c.id) : c \in ToSet(Project(store, id).spaces)} :
              id \in ProjectTargets}

PaneSplit ==
    {splitWithNewView(store, at.project, at.pane, side, prog) :
        at \in PaneTargets, side \in Sides, prog \in Programs \cup {NoId}}
PaneMerge ==
    {moveGroupToGroup(store, locatePane(src).project, src, dst, "center") :
        src \in AllPanes(store), dst \in AllPanes(store)}
PaneMove ==
    {moveGroupToGroup(store, locatePane(src).project, src, dst, zone) :
        src \in AllPanes(store), dst \in AllPanes(store), zone \in Sides}
PaneClose == {closeGroup(store, locatePane(g).project, g) : g \in AllPanes(store)}
PaneActivate == {setActiveGroup(store, locatePane(g).project, g) : g \in AllPanes(store)}

\* Weights with no common divisor, which stand for fractions.
Lowest(sizes) ==
    LET d == GreatestOf({d \in 1..Total(sizes) : \A i \in DOMAIN sizes : sizes[i] % d = 0})
    IN [i \in DOMAIN sizes |-> sizes[i] \div d]

\* A quarter, a half or three of a seam's two areas go to the pane's side.
Resized(sizes, i, mine) ==
    LET pair == sizes[i] + sizes[i + 1]
    IN Lowest([k \in DOMAIN sizes |-> CASE k = i -> pair * mine
                                        [] k = i + 1 -> pair * (4 - mine)
                                        [] OTHER -> 4 * sizes[k]])

\* What a resize answers besides: the seam by its canonical name.
OfGutter(at, edge, sizesOf(_, _)) ==
    LET c == SpaceOf(at)
        gutter == resolveGutter(c.layout, at.pane, edge)
        sizes == sizesOf(nodeAt(c.layout, gutter.path).sizes, gutter.index)
        r == resizeSplit(store, at.project, c, gutter.path, sizes)
    IN IF Gutters(c.layout, at.pane, edge) = {} THEN Missing(store)
       ELSE [r EXCEPT !.at.pane = IF r.ok THEN gutterOwnerOf(c.layout, gutter).pane ELSE @]

PaneResize ==
    {OfGutter(at, edge, LAMBDA sizes, i : Resized(sizes, i, IF isCanonicalSide(edge) THEN q ELSE 4 - q)) :
        at \in PaneTargets, edge \in Edges, q \in 1..3}
PaneEqualize ==
    {OfGutter(at, edge, LAMBDA sizes, i : IF all THEN equalSizes(Len(sizes)) ELSE Resized(sizes, i, 2)) :
        at \in PaneTargets, edge \in Edges, all \in BOOLEAN}

\* The first pane of a fresh space takes the first program, the others split
\* off it; a program nobody registered is skipped, and so is a whole space
\* whose creation is refused.
Build(s, id, programs) ==
    LET created == addContent(s, id, NoId)
        known == SelectSeq(programs, LAMBDA prog : prog \in Programs)
        first == created.at.pane
        step(t, i) ==
            IF i = 1 THEN addViewToGroup(t, id, known[i], first).store
            ELSE splitWithNewView(t, id, first, "right", known[i]).store
        after[i \in 0..Len(known)] == IF i = 0 THEN created.store ELSE step(after[i - 1], i)
    IN IF created.ok THEN after[Len(known)] ELSE s

Presets == {<< >>} \cup {<<a, b>> : a, b \in Programs \cup {Unregistered}}
LayoutApply ==
    {[ok |-> TRUE, code |-> "OK", store |-> Build(store, id, programs),
      at |-> At(id, NoId, NoId, NoId)] : id \in ProjectTargets, programs \in Presets}

TabOpen ==
    {addViewToGroup(store, at.project, prog, at.pane) :
        at \in PaneTargets, prog \in Programs \cup {Unregistered}}
TabClose == {closeView(store, locateTab(v).project, v) : v \in AllTabs(store)}
TabActivate == {setActiveView(store, locateTab(v).project, v) : v \in AllTabs(store)}
TabMaximize ==
    {IF at.tab = NoId THEN Missing(store) ELSE maximizeView(store, at.project, at.tab) :
        at \in TabTargets}
TabRestore == {restoreView(store, id) : id \in ProjectTargets}
TabMove ==
    {moveViewToGroup(store, locateTab(v).project, v, dst, zone) :
        v \in AllTabs(store), dst \in AllPanes(store), zone \in Sides \cup {"center"}}

Growing == ProjectOpen \cup SpaceCreate \cup PaneSplit \cup LayoutApply \cup TabOpen
Shaping ==
    SidebarPosition \cup PaneMerge \cup PaneMove \cup PaneResize \cup PaneEqualize \cup TabMove
Focusing == ProjectActivate \cup SpaceActivate \cup PaneActivate \cup TabActivate
              \cup TabMaximize \cup TabRestore

-----------------------------------------------------------------------------
(* Steps. *)

\* Bounds of the model: a workspace of MaxSize is a plain one, or two projects whose
\* rails flow with at most a tab between them; splits are uneven, up to MaxWeight, in
\* one space while there is no tab; under a pinned rail in a space of two panes.
RECURSIVE WeightsUpTo(_, _)
WeightsUpTo(node, max) ==
    node.type = "split" =>
        /\ \A i \in DOMAIN node.sizes : node.sizes[i] <= max
        /\ \A i \in DOMAIN node.children : WeightsUpTo(node.children[i], max)
Even(s) == \A c \in Spaces(s) : WeightsUpTo(c.layout, 1)
Plain(s) ==
    /\ Cardinality(AllSpaces(s)) = 1 /\ Cardinality(AllPanes(s)) <= 2
    /\ \A p \in ToSet(s.projects) : p.rail = Flow
    /\ \A c \in Spaces(s) : c.maximizedTabId = NoId
Pair(s) ==
    /\ Len(s.projects) = 2 /\ Cardinality(AllTabs(s)) <= 1
    /\ Cardinality(AllSpaces(s)) = 2 /\ Cardinality(AllPanes(s)) = 2
    /\ \A p \in ToSet(s.projects) : p.rail = Flow
InBounds(s) ==
    /\ \/ Size(s) < MaxSize \/ Pair(s)
       \/ Size(s) = MaxSize /\ Plain(s)
    /\ \/ Even(s)
       \/ /\ AllTabs(s) = {}
          /\ \E c \in Spaces(s) : Spaces(s) = {c} /\ WeightsUpTo(c.layout, MaxWeight)
          /\ s.projects[1].rail = Flow \/ Cardinality(AllPanes(s)) = 2

\* What is answered exists, the tab in the pane, the pane in the space, the space
\* in the project, and no other project was touched.
Nests(s, at) ==
    /\ at.project \in ProjectIds(s)
    /\ \/ at.space = NoId
       \/ \E c \in ToSet(Project(s, at.project).spaces) :
            /\ c.id = at.space
            /\ at.pane \in PaneIds(c) \cup {NoId}
            /\ at.tab \in {NoId} \cup (IF at.pane = NoId THEN TabIds(c)
                                       ELSE TabIdsOf(paneOf(c, at.pane)))
Confined(s, at) ==
    \A p \in ToSet(store.projects) :
        p.id \in ProjectIds(s) \ {at.project} => p \in ToSet(s.projects)

Does(outcomes) ==
    \E o \in outcomes :
        /\ o.ok /\ o.store # store /\ InBounds(o.store)
        /\ store' = o.store
        /\ truthful' = (truthful /\ Nests(o.store, o.at) /\ Confined(o.store, o.at))
        /\ UNCHANGED <<registered, leftLayout>>

\* A plugin's intent, a click on a file: reached from the window only.
OpenView ==
    Does({openView(store, id, what) : id \in ProjectIds(store), what \in Programs})
\* The rail is bound by hand; the subscription binds the focus again at once.
BindContentRail ==
    Does(UNION {{bindContentRail(store, locateTab(v).project, locateTab(v).space, v)} :
                   v \in AllTabs(store)})

\* The registry changed and LeftSidebarHost reconciles the layout with it.
ReconcileSidebar ==
    \E keys \in SUBSET ToSet(Keys) :
        /\ registered' = SelectSeq(Keys, LAMBDA k : k \in keys)
        /\ leftLayout' = reconcileSidebarLayout(leftLayout, registered')
        /\ UNCHANGED <<store, truthful>>

SetLeftTab ==
    \E key \in ToSet(sidebarViewKeys(leftLayout)) :
        /\ leftLayout' = setLeftTab(leftLayout, key)
        /\ UNCHANGED <<store, truthful, registered>>

\* sidebar.left.move
MoveSidebarView ==
    \E key \in ToSet(sidebarViewKeys(leftLayout)), drop \in Drops(ToSet(Keys)) :
        /\ leftLayout' = moveSidebarView(leftLayout, key, drop)
        /\ UNCHANGED <<store, truthful, registered>>

\* sidebar.left.resize: sizes of another length are answered and not taken.
ResizeSidebar ==
    \E path \in splitsOf(leftLayout), sizes \in {<<1, 2>>, <<1, 1, 2>>} :
        /\ leftLayout' = resizeSplitTree(leftLayout, path, sizes)
        /\ UNCHANGED <<store, truthful, registered>>

Grow == Does(Growing)
Shape == Does(Shaping)
Focus == Does(Focusing)
CloseProject == Does(ProjectClose)
CloseSpace == Does(SpaceClose)
ClosePane == Does(PaneClose)
CloseTab == Does(TabClose)

Next ==
    \/ Grow \/ Shape \/ Focus
    \/ CloseProject \/ CloseSpace \/ ClosePane \/ CloseTab
    \/ OpenView \/ BindContentRail
    \/ ReconcileSidebar \/ SetLeftTab \/ MoveSidebarView \/ ResizeSidebar

Spec == Init /\ [][Next]_vars

-----------------------------------------------------------------------------
(* Properties. *)

\* After any sequence of commands, clicks and intents every id the store holds
\* names one thing that exists: nothing is in two places, no active, maximized
\* or bound pointer dangles, no root is open twice, the trees are canonical and
\* the sidebar shows only views that are registered.
PointersResolve ==
    /\ StoreResolves(store)
    /\ WellShaped(leftLayout) /\ Distinct(sidebarViewKeys(leftLayout))
    /\ ToSet(sidebarViewKeys(leftLayout)) \subseteq ToSet(registered)
    /\ leftLayout.type = "split" => EmptyGroups(leftLayout) = {}
    /\ \A g \in LeafSet(leftLayout) :
         IF g.viewKeys = << >> THEN g.activeViewKey = NoKey
         ELSE g.activeViewKey \in ToSet(g.viewKeys)

\* A caller goes on with the ids a command answered: whatever it answers exists
\* when it answers, the tab in the pane, the pane in the space, the space in the
\* project, and it has touched no project but that one.  A seam a resize names
\* by a pane and an edge is the seam that pane and edge name.
AnswersAreTrue ==
    /\ truthful
    /\ \A c \in Spaces(store) : \A g \in PaneIds(c), side \in Edges :
         \A gutter \in Gutters(c.layout, g, side) :
            LET name == gutterOwnerOf(c.layout, gutter)
            IN Gutters(c.layout, name.pane, name.side) = {gutter}

\* What is stored and what is answered names what exists.
IdsResolve == PointersResolve /\ AnswersAreTrue

\* A running terminal or editor lives in its tab: only closing loses tabs, and
\* closing a tab takes no other with it, however the trees collapse around it.
TabsSurvive ==
    [][\/ AllTabs(store) \subseteq AllTabs(store')
       \/ CloseTab /\ Cardinality(AllTabs(store) \ AllTabs(store')) = 1
       \/ ClosePane \/ CloseSpace \/ CloseProject]_vars

\* Closing the tab in focus returns to the tab of that space that had the focus
\* last; closing any other tab leaves the focus where it is.
FocusFollowsHistory ==
    [][LET closed == AllTabs(store) \ AllTabs(store')
       IN (Cardinality(closed) = 1 /\ CloseTab) =>
            LET v == CHOOSE t \in closed : TRUE
                p == CHOOSE x \in ToSet(store.projects) : v \in TabsOf(x)
                q == Project(store', p.id)
                alive == SelectSeq(store.focusHistory[p.id],
                                   LAMBDA h : h # v /\ h \in TabIds(activeContentOf(p)))
            IN IF boundViewOf(p) # v
               THEN boundViewOf(p) # NoId => boundViewOf(q) = boundViewOf(p)
               ELSE alive # << >> => boundViewOf(q) = alive[1]]_vars

\* The rail projects the tab in focus: each project's active space is bound to
\* it, it heads the history, and the history names no tab that is gone.
ProjectionIsTrue ==
    \A p \in ToSet(store.projects) :
        LET history == store.focusHistory[p.id]
        IN /\ ToSet(history) \subseteq TabsOf(p) /\ Distinct(history)
           /\ boundViewOf(p) # NoId =>
                /\ activeContentOf(p).railBindingTabId = boundViewOf(p)
                /\ Head(history) = boundViewOf(p)

\* What is shown is what is stored: showing the focused pane beside the rail
\* loses, grows or shrinks no pane, a pane that changed places does stand at the
\* rail with nothing between, and no pane crosses the rail.
ArrangementIsTrue ==
    \A p \in ToSet(store.projects), pull \in BOOLEAN :
        LET c == activeContentOf(p)
            a == projectArrangement(p, pull)
            was == cellsOf(c.layout)
            extent(cells) == {<<x.value, x.rect.width, x.rect.height>> : x \in cells}
        IN /\ a.station \in cleanRailLines(a.cells)
           /\ maximizedGroupId(c) = NoId => extent(a.cells) = extent(was)
           /\ a.swapped =>
                /\ a.station = cellOf(a.cells, c.activePaneId).rect.left
                /\ a.between = {}

\* The rail: what it is bound to, and where it stands.
RailIsTrue == ProjectionIsTrue /\ ArrangementIsTrue

\* Not checked, the code does not keep it (README, known disagreements).
\* sessions.ts says of its rail check that every real split, move and resize
\* goes through it: a pinned rail always stands on a clean line.
PinIsClean == \A p \in ToSet(store.projects) : ~leftRailLayoutConflict(p)
=============================================================================
