------------------------------ MODULE Workspace ------------------------------
(***************************************************************************)
(* The workspace store of one window: src/src/state/sessions.ts (projects, *)
(* spaces, panes, tabs and the rail) with the focus history and the rail   *)
(* binding that src/src/state/projectionWiring.ts keeps by subscription.   *)
(* A store operation takes the store and returns an outcome: what it       *)
(* answers and the store it leaves, its subscribers having run (zustand    *)
(* calls them inside set).  Titles, colours, icons, shells and statuses    *)
(* are left out.                                                           *)
(***************************************************************************)
EXTENDS SidebarLayout, RailArrangement, FiniteSets

CONSTANTS Roots,           \* project root directories
          Programs,        \* the programs a plugin has registered
          Unregistered,    \* a program no plugin has registered
          Sides,           \* the sides asked for, of left, right, top and bottom
          MaxSize,         \* bound: projects + spaces + panes + tabs
          HistoryCap       \* HISTORY_CAP of projection.ts

Pool == 1..MaxSize + 2     \* ids of a kind; a command may pass the bound by two

-----------------------------------------------------------------------------
(* Looking things up. *)

panesOf(c) == leavesOf(c.layout)
tabsOfPanes(panes) == FlattenSeq([i \in DOMAIN panes |-> panes[i].tabs])
allViews(c) == tabsOfPanes(panesOf(c))
TabIdsOf(g) == {t.id : t \in ToSet(g.tabs)}
TabIds(c) == UNION {TabIdsOf(g) : g \in LeafSet(c.layout)}
PaneIds(c) == {g.id : g \in LeafSet(c.layout)}

Spaces(s) == UNION {ToSet(p.spaces) : p \in ToSet(s.projects)}
TabsOf(p) == UNION {TabIds(c) : c \in ToSet(p.spaces)}
PanesOf(p) == UNION {PaneIds(c) : c \in ToSet(p.spaces)}
AllTabs(s) == UNION {TabIds(c) : c \in Spaces(s)}
AllPanes(s) == UNION {PaneIds(c) : c \in Spaces(s)}
AllSpaces(s) == {c.id : c \in Spaces(s)}
ProjectIds(s) == {p.id : p \in ToSet(s.projects)}
Size(s) == Len(s.projects) + Cardinality(AllSpaces(s)) + Cardinality(AllPanes(s))
             + Cardinality(AllTabs(s))

\* issueId never gives an id twice; the least unused one stands for it.
Fresh(used) == LeastOf(Pool \ used)

IndexOf(seq, id) == CHOOSE i \in DOMAIN seq : seq[i].id = id
Project(s, id) == s.projects[IndexOf(s.projects, id)]

\* The space, the pane and the tab that have a project's focus.
activeContentOf(p) ==
    IF \E c \in ToSet(p.spaces) : c.id = p.activeSpaceId
    THEN p.spaces[IndexOf(p.spaces, p.activeSpaceId)] ELSE p.spaces[1]
paneOf(c, g) == CHOOSE x \in LeafSet(c.layout) : x.id = g
activePaneOf(c) ==
    IF c.activePaneId \in PaneIds(c) THEN paneOf(c, c.activePaneId) ELSE panesOf(c)[1]
boundViewOf(p) == activePaneOf(activeContentOf(p)).activeTabId

findGroupOfView(c, v) == CHOOSE g \in LeafSet(c.layout) : v \in TabIdsOf(g)
tabOf(c, v) == CHOOSE t \in ToSet(allViews(c)) : t.id = v
contentOfView(p, v) == CHOOSE c \in ToSet(p.spaces) : v \in TabIds(c)
contentOfGroup(p, g) == CHOOSE c \in ToSet(p.spaces) : g \in PaneIds(c)

-----------------------------------------------------------------------------
(* The helpers of sessions.ts. *)

makeGroup(id, tabs) ==
    [id |-> id, tabs |-> tabs, activeTabId |-> IF tabs = << >> THEN NoId ELSE tabs[1].id]
makeContent(id, pane) ==
    [id |-> id, layout |-> splitLeaf(pane), activePaneId |-> pane.id,
     railBindingTabId |-> NoId, maximizedTabId |-> NoId]
makeProject(id, root, c) ==
    [id |-> id, root |-> root, rail |-> Flow, spaces |-> <<c>>, activeSpaceId |-> c.id]

\* A registered program opens a plugin's view; any other leaves the pane empty.
newViewFor(id, program) == [id |-> id, shows |-> program]
NewTabs(s, program) ==
    IF program \in Programs THEN <<newViewFor(Fresh(AllTabs(s)), program)>> ELSE << >>
FirstTab(g) == IF g.tabs = << >> THEN NoId ELSE g.tabs[1].id

mapGroupNode(layout, g, fn(_)) ==
    mapLeaves(layout, [x \in LeafSet(layout) |-> IF x.id = g THEN fn(x) ELSE x])
mapContent(p, c) == [p EXCEPT !.spaces[IndexOf(p.spaces, c.id)] = c]

\* The pane without the tab: its right neighbour is active next, else its left one.
WithoutTab(g, v) ==
    LET i == IndexOf(g.tabs, v)
        tabs == RemoveAt(g.tabs, i)
        next == IF i <= Len(tabs) THEN i ELSE i - 1
    IN [g EXCEPT !.tabs = tabs,
                 !.activeTabId = IF @ # v THEN @
                                 ELSE IF tabs = << >> THEN NoId ELSE tabs[next].id]

\* Every empty pane goes, not only the one the tab leaves.
removeView(layout, v) ==
    LET mapped == mapLeaves(layout, [g \in LeafSet(layout) |->
            IF v \in TabIdsOf(g) THEN WithoutTab(g, v) ELSE g])
    IN removeLeaf(mapped, {g \in LeafSet(mapped) : g.tabs = << >>})
removeGroup(layout, g) == removeLeaf(layout, {x \in LeafSet(layout) : x.id = g})
hasGroup(tree, g) == tree.type # "none" /\ \E x \in LeafSet(tree) : x.id = g

splitAtGroup(layout, g, side, fresh) ==
    insertBeside(layout, {x \in LeafSet(layout) : x.id = g},
                 IF side \in {"left", "right"} THEN "row" ELSE "col",
                 side \in {"left", "top"}, fresh)

\* Mutant: the maximized tab is not looked at.
LeavesMaximized(c) ==
    [c EXCEPT !.activePaneId = IF @ \in PaneIds(c) THEN @ ELSE panesOf(c)[1].id]

Kept(c, v) == IF v \in TabIds(c) THEN v ELSE NoId
normalizeActiveGroup(c) ==
    [c EXCEPT !.maximizedTabId = Kept(c, @), !.railBindingTabId = Kept(c, @),
              !.activePaneId = IF @ \in PaneIds(c) THEN @ ELSE panesOf(c)[1].id]

\* A pinned rail has to stand on a clean line of the active space.
leftRailLayoutConflict(p) ==
    p.rail # Flow /\ p.rail \notin cleanRailLines(cellsOf(activeContentOf(p).layout))

maximizedGroupId(c) ==
    IF c.maximizedTabId \in TabIds(c) THEN findGroupOfView(c, c.maximizedTabId).id ELSE NoId
projectArrangement(p, pull) ==
    LET c == activeContentOf(p)
    IN solveArrangement(c.layout, c.activePaneId, p.rail, pull, maximizedGroupId(c))

-----------------------------------------------------------------------------
(* The subscription of projectionWiring.ts: after every change the active   *)
(* space of each project is bound to the tab in focus, that tab heads the   *)
(* history, and tabs and projects that are gone are forgotten.              *)

Bound(p) ==
    IF boundViewOf(p) = NoId THEN p
    ELSE mapContent(p, [activeContentOf(p) EXCEPT !.railBindingTabId = boundViewOf(p)])

noteBinding(h, v) ==
    IF v = NoId THEN h
    ELSE LET moved == <<v>> \o SelectSeq(h, LAMBDA x : x # v)
         IN SubSeq(moved, 1, IF Len(moved) < HistoryCap THEN Len(moved) ELSE HistoryCap)

Noted(p, history) ==
    LET h == IF p.id \in DOMAIN history THEN history[p.id] ELSE << >>
    IN SelectSeq(noteBinding(h, boundViewOf(p)), LAMBDA v : v \in TabsOf(p))

\* The store after a change of its projects and everything its subscribers do.
Settled(s, ps, active) ==
    [projects |-> [i \in DOMAIN ps |-> Bound(ps[i])], activeId |-> active,
     focusHistory |-> [id \in {p.id : p \in ToSet(ps)} |->
                         Noted(ps[IndexOf(ps, id)], s.focusHistory)]]

-----------------------------------------------------------------------------
(* Outcomes. *)

At(p, c, g, v) == [project |-> p, space |-> c, pane |-> g, tab |-> v]
Nowhere == At(NoId, NoId, NoId, NoId)
refused(s, code) == [ok |-> FALSE, code |-> code, store |-> s, at |-> Nowhere]
Unchanged(s, at) == [ok |-> TRUE, code |-> "OK", store |-> s, at |-> at]
Done(s, ps, active, at) ==
    [ok |-> TRUE, code |-> "OK", store |-> Settled(s, ps, active), at |-> at]
Changed(s, p, at) ==
    Done(s, [s.projects EXCEPT ![IndexOf(s.projects, p.id)] = p], s.activeId, at)
\* Most operations refuse to leave a pinned rail on a line that is not clean.
Checked(s, p, at) ==
    IF leftRailLayoutConflict(p) THEN refused(s, "LAYOUT_CONFLICT") ELSE Changed(s, p, at)

Missing(s) == refused(s, "TARGET_NOT_FOUND")
LastItem(s) == refused(s, "LAST_ITEM")

-----------------------------------------------------------------------------
(* Projects. *)

bootstrapFirstProject(root) ==
    [projects |-> <<makeProject(1, root, makeContent(1, makeGroup(1, << >>)))>>,
     activeId |-> 1, focusHistory |-> [id \in {1} |-> << >>]]

Neighbour(seq, i) == RemoveAt(seq, i)[IF i < Len(seq) THEN i ELSE i - 1].id

\* A root that is open already is activated instead of opened twice.
addProject(s, root, program) ==
    LET open == {p \in ToSet(s.projects) : p.root = root}
        dup == CHOOSE p \in open : TRUE
        c == activeContentOf(dup)
        g == makeGroup(Fresh(AllPanes(s)), NewTabs(s, program))
        d == makeContent(Fresh(AllSpaces(s)), g)
        p == makeProject(Fresh(ProjectIds(s)), root, d)
    IN IF open # {}
       THEN Done(s, s.projects, dup.id, At(dup.id, c.id, panesOf(c)[1].id, FirstTab(panesOf(c)[1])))
       ELSE Done(s, Append(s.projects, p), p.id, At(p.id, d.id, g.id, FirstTab(g)))

\* The last project stays; the right neighbour of the active one is active next.
closeTab(s, id) ==
    LET i == IndexOf(s.projects, id)
        next == IF s.activeId # id THEN s.activeId ELSE Neighbour(s.projects, i)
    IN IF id \notin ProjectIds(s) THEN Missing(s)
       ELSE IF Len(s.projects) = 1 THEN LastItem(s)
       ELSE Done(s, RemoveAt(s.projects, i), next, At(next, NoId, NoId, NoId))

setActive(s, id) ==
    IF id \notin ProjectIds(s) THEN Missing(s)
    ELSE Done(s, s.projects, id, At(id, NoId, NoId, NoId))

\* A pin has to be a clean line when it is set.
setLeftRailPlacement(s, id, placement) ==
    LET p == [Project(s, id) EXCEPT !.rail = placement]
    IN IF p # Project(s, id) /\ leftRailLayoutConflict(p) THEN refused(s, "INVALID_PARAMS")
       ELSE Changed(s, p, At(id, NoId, NoId, NoId))

-----------------------------------------------------------------------------
(* Spaces. *)

addContent(s, id, program) ==
    LET p == Project(s, id)
        g == makeGroup(Fresh(AllPanes(s)), NewTabs(s, program))
        c == makeContent(Fresh(AllSpaces(s)), g)
    IN Checked(s, [p EXCEPT !.spaces = Append(@, c), !.activeSpaceId = c.id],
               At(id, c.id, g.id, FirstTab(g)))

hasSpace(p, space) == \E c \in ToSet(p.spaces) : c.id = space

closeContent(s, id, space) ==
    LET p == Project(s, id)
        i == IndexOf(p.spaces, space)
        next == IF p.activeSpaceId # space THEN p.activeSpaceId ELSE Neighbour(p.spaces, i)
    IN IF ~hasSpace(p, space) THEN Missing(s)
       ELSE IF Len(p.spaces) = 1 THEN LastItem(s)
       ELSE Checked(s, [p EXCEPT !.spaces = RemoveAt(@, i), !.activeSpaceId = next],
                    At(id, next, NoId, NoId))

setActiveContent(s, id, space) ==
    LET p == Project(s, id)
        at == At(id, space, NoId, NoId)
    IN IF ~hasSpace(p, space) THEN Missing(s)
       ELSE IF p.activeSpaceId = space THEN Unchanged(s, at)
       ELSE Checked(s, [p EXCEPT !.activeSpaceId = space], at)

bindContentRail(s, id, space, v) ==
    LET p == Project(s, id)
        c == p.spaces[IndexOf(p.spaces, space)]
    IN IF v \notin TabIds(c) THEN Missing(s)
       ELSE Changed(s, mapContent(p, [c EXCEPT !.railBindingTabId = v]), At(id, space, NoId, v))

-----------------------------------------------------------------------------
(* Tabs. *)

Show(c, g, v) ==
    [c EXCEPT !.layout = mapGroupNode(@, g, LAMBDA x : [x EXCEPT !.activeTabId = v]),
              !.activePaneId = g]
WithTab(g, v) == [g EXCEPT !.tabs = Append(@, v), !.activeTabId = v.id]

\* The pane may be in a space that is not the active one, and stays there.
addViewToGroup(s, id, program, g) ==
    LET p == Project(s, id)
        c == contentOfGroup(p, g)
        v == newViewFor(Fresh(AllTabs(s)), program)
    IN IF g \notin PanesOf(p) \/ program \notin Programs THEN Missing(s)
       ELSE Changed(s, mapContent(p,
              [c EXCEPT !.layout = mapGroupNode(@, g, LAMBDA x : WithTab(x, v)),
                        !.activePaneId = g]), At(id, c.id, g, v.id))

\* openFileView and openPluginView: what the active space shows already is
\* activated, anything else opens in its active pane.
openView(s, id, what) ==
    LET p == Project(s, id)
        c == activeContentOf(p)
        open == SelectSeq(allViews(c), LAMBDA t : t.shows = what)
        g == findGroupOfView(c, open[1].id).id
        v == newViewFor(Fresh(AllTabs(s)), what)
    IN IF open # << >>
       THEN Changed(s, mapContent(p, Show(c, g, open[1].id)), At(id, c.id, g, open[1].id))
       ELSE Changed(s, mapContent(p,
              [c EXCEPT !.layout = mapGroupNode(@, c.activePaneId, LAMBDA x : WithTab(x, v))]),
                    At(id, c.id, c.activePaneId, v.id))

\* The space stays where it is: a tab of a hidden space is activated in hiding.
setActiveView(s, id, v) ==
    LET p == Project(s, id)
        c == contentOfView(p, v)
        g == findGroupOfView(c, v).id
    IN IF v \notin TabsOf(p) THEN Missing(s)
       ELSE Changed(s, mapContent(p, Show(c, g, v)), At(id, c.id, g, v))

setActiveGroup(s, id, g) ==
    LET p == Project(s, id)
        c == contentOfGroup(p, g)
        at == At(id, c.id, g, paneOf(c, g).activeTabId)
    IN IF g \notin PanesOf(p) THEN Missing(s)
       ELSE IF c.id = p.activeSpaceId /\ c.activePaneId = g THEN Unchanged(s, at)
       ELSE Checked(s, [mapContent(p, [c EXCEPT !.activePaneId = g])
                          EXCEPT !.activeSpaceId = c.id], at)

maximizeView(s, id, v) ==
    LET p == Project(s, id)
        c == contentOfView(p, v)
        g == findGroupOfView(c, v).id
    IN IF v \notin TabsOf(p) THEN Missing(s)
       ELSE Checked(s, [mapContent(p, [Show(c, g, v) EXCEPT !.maximizedTabId = v])
                          EXCEPT !.activeSpaceId = c.id], At(id, c.id, g, v))

restoreView(s, id) ==
    LET p == Project(s, id)
        c == activeContentOf(p)
    IN Changed(s, mapContent(p, [c EXCEPT !.maximizedTabId = NoId]),
               At(id, c.id, NoId, c.maximizedTabId))

\* Mutant: the oldest tab of the history comes back.
SucceedByOldest(c, history, v) ==
    LET alive == SelectSeq(history, LAMBDA h : h # v /\ h \in TabIds(c))
    IN IF alive = << >> THEN c
       ELSE Show(c, findGroupOfView(c, Last(alive)).id, Last(alive))

\* Closing the tab in focus gives the focus back to the latest one that is
\* still in the space; an emptied space keeps one empty pane.
Succeed(c, history, v) ==
    LET alive == SelectSeq(history, LAMBDA h : h # v /\ h \in TabIds(c))
    IN IF alive = << >> THEN c ELSE Show(c, findGroupOfView(c, alive[1]).id, alive[1])

HadFocus(p, c, v) ==
    /\ c.id = p.activeSpaceId
    /\ findGroupOfView(c, v).id = c.activePaneId /\ findGroupOfView(c, v).activeTabId = v

closeView(s, id, v) ==
    LET p == Project(s, id)
        c == contentOfView(p, v)
        tree == removeView(c.layout, v)
        empty == [findGroupOfView(c, v) EXCEPT !.tabs = << >>, !.activeTabId = NoId]
        closed == normalizeActiveGroup(
            [c EXCEPT !.layout = IF tree.type = "none" THEN splitLeaf(empty) ELSE tree])
        left == IF tree.type # "none" /\ HadFocus(p, c, v)
                THEN Succeed(closed, s.focusHistory[id], v) ELSE closed
    IN IF v \notin TabsOf(p) THEN Missing(s)
       ELSE Checked(s, mapContent(p, left),
              At(id, c.id, left.activePaneId, paneOf(left, left.activePaneId).activeTabId))

\* Moving inside one pane is done already; the only tab of a space cannot be
\* split off; a target that went with the other empty panes refuses the move.
moveViewToGroup(s, id, v, g, zone) ==
    LET p == Project(s, id)
        c == contentOfView(p, v)
        tree == removeView(c.layout, v)
        fresh == makeGroup(Fresh(AllPanes(s)), <<tabOf(c, v)>>)
    IN IF v \notin TabsOf(p) \/ ~hasGroup(c.layout, g) THEN Missing(s)
       ELSE IF zone = "center" /\ findGroupOfView(c, v).id = g
       THEN Unchanged(s, At(id, c.id, g, v))
       ELSE IF zone # "center" /\ Cardinality(TabIds(c)) = 1 THEN LastItem(s)
       ELSE IF ~hasGroup(tree, g) THEN Missing(s)
       ELSE IF zone = "center"
       THEN Checked(s, mapContent(p, normalizeActiveGroup(
              [c EXCEPT !.layout = mapGroupNode(tree, g, LAMBDA x : WithTab(x, tabOf(c, v))),
                        !.activePaneId = g])), At(id, c.id, g, v))
       ELSE Checked(s, mapContent(p, normalizeActiveGroup(
              [c EXCEPT !.layout = splitAtGroup(tree, g, zone, fresh),
                        !.activePaneId = fresh.id])), At(id, c.id, fresh.id, v))

-----------------------------------------------------------------------------
(* Panes. *)

closeGroup(s, id, g) ==
    LET p == Project(s, id)
        c == contentOfGroup(p, g)
        left == normalizeActiveGroup([c EXCEPT !.layout = removeGroup(@, g)])
    IN IF g \notin PanesOf(p) THEN Missing(s)
       ELSE IF Cardinality(PaneIds(c)) = 1 THEN LastItem(s)
       ELSE Checked(s, mapContent(p, left), At(id, c.id, left.activePaneId, NoId))

\* Mutant: a pane is merged by its active tab alone.
MergeActiveOnly(target, source) ==
    [target EXCEPT !.tabs = @ \o SelectSeq(source.tabs, LAMBDA v : v.id = source.activeTabId),
                   !.activeTabId = source.activeTabId]

\* Merging takes over the source's active tab, even when the source has none.
Merge(target, source) ==
    [target EXCEPT !.tabs = @ \o source.tabs, !.activeTabId = source.activeTabId]

moveGroupToGroup(s, id, from, to, zone) ==
    LET p == Project(s, id)
        c == contentOfGroup(p, from)
        source == paneOf(c, from)
        tree == removeGroup(c.layout, from)
    IN IF from \notin PanesOf(p) THEN Missing(s)
       ELSE IF from = to THEN Unchanged(s, At(id, c.id, to, NoId))
       ELSE IF ~hasGroup(c.layout, to) THEN Missing(s)
       ELSE IF zone = "center"
       THEN Checked(s, mapContent(p, normalizeActiveGroup(
              [c EXCEPT !.layout = mapGroupNode(tree, to, LAMBDA x : Merge(x, source)),
                        !.activePaneId = to])), At(id, c.id, to, NoId))
       ELSE Checked(s, mapContent(p, normalizeActiveGroup(
              [c EXCEPT !.layout = splitAtGroup(tree, to, zone, source),
                        !.activePaneId = from])), At(id, c.id, from, NoId))

resizeSplit(s, id, c, path, sizes) ==
    Checked(s, mapContent(Project(s, id), [c EXCEPT !.layout = resizeSplitTree(@, path, sizes)]),
            At(id, c.id, NoId, NoId))

\* A pane split off for a program or for nothing; the rail is not consulted.
splitWithNewView(s, id, g, side, program) ==
    LET p == Project(s, id)
        c == contentOfGroup(p, g)
        fresh == makeGroup(Fresh(AllPanes(s)), NewTabs(s, program))
    IN IF g \notin PanesOf(p) THEN Missing(s)
       ELSE Changed(s, mapContent(p, normalizeActiveGroup(
              [c EXCEPT !.layout = splitAtGroup(@, g, side, fresh), !.activePaneId = fresh.id])),
                    At(id, c.id, fresh.id, FirstTab(fresh)))

-----------------------------------------------------------------------------
(* What a store has to satisfy. *)

Distinct(seq) == Cardinality(ToSet(seq)) = Len(seq)
Ids(seq) == [i \in DOMAIN seq |-> seq[i].id]

SpaceResolves(c) ==
    /\ WellShaped(c.layout)
    /\ c.activePaneId \in PaneIds(c)
    /\ {c.maximizedTabId, c.railBindingTabId} \subseteq TabIds(c) \cup {NoId}
    /\ \A g \in LeafSet(c.layout) : g.activeTabId \in TabIdsOf(g) \cup {NoId}

StoreResolves(s) ==
    /\ s.activeId \in ProjectIds(s)
    /\ Distinct([i \in DOMAIN s.projects |-> s.projects[i].root])
    /\ \A p \in ToSet(s.projects) : hasSpace(p, p.activeSpaceId)
    /\ LET spaces == FlattenSeq([i \in DOMAIN s.projects |-> s.projects[i].spaces])
           panes == FlattenSeq([i \in DOMAIN spaces |-> panesOf(spaces[i])])
       IN /\ \A c \in ToSet(spaces) : SpaceResolves(c)
          /\ Distinct(Ids(spaces)) /\ Distinct(Ids(panes)) /\ Distinct(Ids(tabsOfPanes(panes)))
=============================================================================
