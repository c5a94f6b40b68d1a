--------------------------- MODULE RailArrangement ---------------------------
(***************************************************************************)
(* The arrangement solver (src/src/lib/railArrangement.ts): where the left *)
(* rail stands and in which order the panes are shown, a function of the   *)
(* split tree, the focused pane and the rail's placement.  The tree shown  *)
(* may differ from the tree stored: a focused pane the rail cannot reach   *)
(* changes places with a sibling on its left.                              *)
(***************************************************************************)
EXTENDS SplitTree

CONSTANTS Flow,             \* the placement that follows the focus, else a pinned line
          NoId              \* an absent id

LeastOf(S) == CHOOSE x \in S : \A y \in S : x <= y
GreatestOf(S) == CHOOSE x \in S : \A y \in S : x >= y

isPane(node, id) == node.type = "leaf" /\ node.value.id = id
cellOf(cells, id) == CHOOSE c \in cells : c.value.id = id
hasCell(cells, id) == \E c \in cells : c.value.id = id

\* The clean line nearest to the one asked for, the left one of two.
snapRailStation(lines, wanted) ==
    LET away(x) == IF x < wanted THEN wanted - x ELSE x - wanted
    IN LeastOf({x \in lines : \A y \in lines : away(x) <= away(y)})

focusedLeftIsClean(tree, focus) ==
    LET cells == cellsOf(tree)
    IN hasCell(cells, focus) => cellOf(cells, focus).rect.left \in cleanRailLines(cells)

\* Mutant: the children change places, the weights stay.
SwappedAlone(node, i, j) ==
    [node EXCEPT !.children[i] = node.children[j], !.children[j] = node.children[i]]

\* Children i and j of a split change places and keep their weights.
Swapped(node, i, j) ==
    [node EXCEPT !.children[i] = node.children[j], !.children[j] = node.children[i],
                 !.sizes[i] = node.sizes[j], !.sizes[j] = node.sizes[i]]

\* The trees in which the pane changed places with a leaf on its left in its own
\* row, the nearest one first.
RECURSIVE swapCandidates(_, _)
swapCandidates(node, focus) ==
    IF node.type = "leaf" THEN << >>
    ELSE LET at == {i \in DOMAIN node.children : isPane(node.children[i], focus)}
             target == LeastOf(at)
             below == [i \in DOMAIN node.children |-> swapCandidates(node.children[i], focus)]
             open == {i \in DOMAIN node.children : below[i] # << >>}
             child == LeastOf(open)
         IN IF node.dir = "row" /\ at # {} /\ target > 1
            THEN LET left == SelectSeq([k \in 1..(target - 1) |-> target - k],
                                       LAMBDA j : node.children[j].type = "leaf")
                 IN [k \in DOMAIN left |-> Swapped(node, left[k], target)]
            ELSE IF open = {} THEN << >>
            ELSE [k \in DOMAIN below[child] |->
                    [node EXCEPT !.children[child] = below[child][k]]]

switchFocusedToFront(tree, focus) ==
    LET clean == SelectSeq(swapCandidates(tree, focus), LAMBDA t : focusedLeftIsClean(t, focus))
    IN IF focusedLeftIsClean(tree, focus) \/ clean = << >> THEN tree ELSE clean[1]

\* The focused pane's left line, or the nearest clean one before it.
flowStation(cells, focus, lines) ==
    IF ~hasCell(cells, focus) THEN snapRailStation(lines, 0)
    ELSE GreatestOf({x \in lines : x <= cellOf(cells, focus).rect.left})

\* The panes in the focused one's row that stand between it and the rail.
betweenRailAndFocus(cells, focus, station) ==
    IF ~hasCell(cells, focus) THEN {}
    ELSE LET f == cellOf(cells, focus).rect
         IN {c.value.id : c \in {x \in cells :
               /\ x.value.id # focus
               /\ x.rect.top < f.top + f.height /\ x.rect.top + x.rect.height > f.top
               /\ x.rect.left >= station /\ right(x.rect) <= f.left}}

\* A maximized pane fills the plane; a pin keeps it on its own side of the rail.
maximizedStation(layout, placement, pane) ==
    LET cells == cellsOf(layout)
    IN IF /\ placement # Flow
          /\ cellOf(cells, pane).rect.left < snapRailStation(cleanRailLines(cells), placement)
       THEN Width ELSE 0

stationOf(cells, focus, placement, lines) ==
    IF placement = Flow THEN flowStation(cells, focus, lines) ELSE snapRailStation(lines, placement)

\* The arrangement that shows the tree as it was made ready.
arranged(layout, shown, focus, placement) ==
    LET cells == cellsOf(shown)
        station == stationOf(cells, focus, placement, cleanRailLines(cells))
    IN [station |-> station, layout |-> shown, cells |-> cells,
        between |-> betweenRailAndFocus(cells, focus, station), swapped |-> shown # layout]

solveArrangement(layout, focus, placement, pull, maximized) ==
    IF maximized # NoId
    THEN [station |-> maximizedStation(layout, placement, maximized), layout |-> layout,
          cells |-> {[value |-> cellOf(cellsOf(layout), maximized).value, rect |-> Plane]},
          between |-> {}, swapped |-> FALSE]
    ELSE arranged(layout, IF placement = Flow /\ pull THEN switchFocusedToFront(layout, focus)
                          ELSE layout, focus, placement)

-----------------------------------------------------------------------------
(* The gutters of src/src/lib/gutterAddress.ts: a seam between two areas is *)
(* named by a pane and one of its edges.                                    *)

Edges == {"right", "bottom", "left", "top"}
axisOfSide(side) == IF side \in {"right", "left"} THEN "row" ELSE "col"
isCanonicalSide(side) == side \in {"right", "bottom"}

RECURSIVE pathToLeaf(_, _), nodeAt(_, _), firstLeafOnTrailingFace(_, _)
\* The child indices from the root down to a pane that is in the tree.
pathToLeaf(node, pane) ==
    IF node.type = "leaf" THEN << >>
    ELSE LET i == CHOOSE i \in DOMAIN node.children :
                    \E v \in LeafSet(node.children[i]) : v.id = pane
         IN <<i>> \o pathToLeaf(node.children[i], pane)

nodeAt(node, path) == IF path = << >> THEN node ELSE nodeAt(node.children[path[1]], Tail(path))

firstLeafOnTrailingFace(node, axis) ==
    IF node.type = "leaf" THEN node.value
    ELSE firstLeafOnTrailingFace(
           node.children[IF node.dir = axis THEN Len(node.children) ELSE 1], axis)

\* The nearest split of that axis in which the pane's branch has a neighbour on
\* that side: its path and the index before the seam.
Gutters(tree, pane, side) ==
    LET path == pathToLeaf(tree, pane)
        up(i) == SubSeq(path, 1, i - 1)
        step == IF isCanonicalSide(side) THEN 0 ELSE 1
        owns(i) == LET node == nodeAt(tree, up(i))
                   IN /\ node.dir = axisOfSide(side)
                      /\ path[i] - step \in 1..(Len(node.children) - 1)
        own == {i \in DOMAIN path : owns(i)}
    IN IF own = {} THEN {}
       ELSE {[path |-> up(GreatestOf(own)), index |-> path[GreatestOf(own)] - step]}
resolveGutter(tree, pane, side) == CHOOSE g \in Gutters(tree, pane, side) : TRUE

\* The canonical name of a seam: the first pane that touches it, and its edge.
gutterOwnerOf(tree, gutter) ==
    LET node == nodeAt(tree, gutter.path)
    IN [pane |-> firstLeafOnTrailingFace(node.children[gutter.index], node.dir).id,
        side |-> IF node.dir = "row" THEN "right" ELSE "bottom"]
=============================================================================
