----------------------------- MODULE SplitTree -----------------------------
(***************************************************************************)
(* The split tree of src/src/state/splitTree.ts, shared by the panes of a  *)
(* space and the groups of the left sidebar.  A leaf carries a value; a    *)
(* split carries a direction, the weights of its children (the fractions   *)
(* of the code, up to their common denominator) and the children.  Split   *)
(* ids are addresses only, so a split is named by its path here.  The      *)
(* predicates the code passes are sets of leaf values, its transformations *)
(* are functions on them.                                                  *)
(***************************************************************************)
EXTENDS Integers, Sequences, SequencesExt

splitLeaf(v) == [type |-> "leaf", value |-> v]
split(dir, sizes, children) ==
    [type |-> "split", dir |-> dir, sizes |-> sizes, children |-> children]

\* What removeLeaf returns for a tree of which nothing is left.
NoTree == [type |-> "none"]

equalSizes(n) == [i \in 1..n |-> 1]

RECURSIVE leavesOf(_), LeafSet(_), mapLeaves(_, _), removeLeaf(_, _),
          insertBeside(_, _, _, _, _), splitsOf(_), resizeSplitTree(_, _, _)

leavesOf(node) ==
    IF node.type = "leaf" THEN <<node.value>>
    ELSE LET leaves == [i \in DOMAIN node.children |-> leavesOf(node.children[i])]
             upTo[i \in 0..Len(leaves)] == IF i = 0 THEN << >> ELSE upTo[i - 1] \o leaves[i]
         IN upTo[Len(leaves)]

LeafSet(node) ==
    IF node.type = "leaf" THEN {node.value}
    ELSE UNION {LeafSet(node.children[i]) : i \in DOMAIN node.children}

mapLeaves(node, fn) ==
    IF node.type = "leaf" THEN splitLeaf(fn[node.value])
    ELSE [node EXCEPT !.children =
            [i \in DOMAIN node.children |-> mapLeaves(node.children[i], fn)]]

\* An emptied split disappears, a split with one child collapses into it, and
\* a split that lost a child goes back to equal sizes.
removeLeaf(node, gone) ==
    IF node.type = "leaf"
    THEN IF node.value \in gone THEN NoTree ELSE node
    ELSE LET rest == [i \in DOMAIN node.children |-> removeLeaf(node.children[i], gone)]
             children == SelectSeq(rest, LAMBDA c : c.type # "none")
         IN CASE Len(children) = 0 -> NoTree
              [] Len(children) = 1 -> children[1]
              [] Len(children) = Len(node.children) -> [node EXCEPT !.children = children]
              [] OTHER -> split(node.dir, equalSizes(Len(children)), children)

\* A direct sibling in the same direction is inserted, anything else nests.
insertBeside(node, at, dir, before, fresh) ==
    IF node.type = "leaf"
    THEN IF node.value \notin at THEN node
         ELSE split(dir, equalSizes(2),
                    IF before THEN <<splitLeaf(fresh), node>>
                              ELSE <<node, splitLeaf(fresh)>>)
    ELSE LET idx == {i \in DOMAIN node.children :
                        /\ node.children[i].type = "leaf"
                        /\ node.children[i].value \in at}
         IN IF node.dir = dir /\ idx # {}
            THEN LET i == CHOOSE i \in idx : \A j \in idx : i <= j
                     children == InsertAt(node.children, IF before THEN i ELSE i + 1,
                                          splitLeaf(fresh))
                 IN split(dir, equalSizes(Len(children)), children)
            ELSE [node EXCEPT !.children =
                    [i \in DOMAIN node.children |->
                        insertBeside(node.children[i], at, dir, before, fresh)]]

\* The paths of the splits of a tree: what findSplitTree finds.
splitsOf(node) ==
    IF node.type = "leaf" THEN {}
    ELSE {<< >>} \cup UNION {{<<i>> \o p : p \in splitsOf(node.children[i])} :
                                i \in DOMAIN node.children}

\* Sizes of another length than the children are not taken.
resizeSplitTree(node, path, sizes) ==
    IF node.type = "leaf" THEN node
    ELSE IF path = << >>
         THEN IF Len(sizes) = Len(node.children) THEN [node EXCEPT !.sizes = sizes] ELSE node
         ELSE [node EXCEPT !.children[path[1]] = resizeSplitTree(@, Tail(path), sizes)]

-----------------------------------------------------------------------------
(* Geometry: computeSplitLayout of src/src/lib/splitLayout.ts in a plane of *)
(* Width by Width, and the clean lines of src/src/lib/railPlacement.ts.     *)

CONSTANT Width              \* side of the plane, divisible by the weights' sums
ASSUME WidthAssumption == Width \in Nat \ {0}

Total(sizes) == FoldSeq(+, 0, sizes)
Plane == [left |-> 0, top |-> 0, width |-> Width, height |-> Width]

\* What child i of a split gets of the rectangle r.
Share(node, r, i) ==
    LET part(extent, j) == (extent * node.sizes[j]) \div Total(node.sizes)
        before(extent) == FoldSeq(+, 0, [j \in 1..(i - 1) |-> part(extent, j)])
    IN IF node.dir = "row"
       THEN [r EXCEPT !.left = @ + before(r.width), !.width = part(@, i)]
       ELSE [r EXCEPT !.top = @ + before(r.height), !.height = part(@, i)]

\* The cells of the leaves of node when node fills the rectangle r.
RECURSIVE cellsIn(_, _)
cellsIn(node, r) ==
    IF node.type = "leaf" THEN {[value |-> node.value, rect |-> r]}
    ELSE UNION {cellsIn(node.children[i], Share(node, r, i)) : i \in DOMAIN node.children}
cellsOf(node) == cellsIn(node, Plane)

right(r) == r.left + r.width

\* The full-height vertical lines no cell crosses.
cleanRailLines(cells) ==
    LET edges == {0, Width} \cup UNION {{c.rect.left, right(c.rect)} : c \in cells}
    IN {x \in edges : \A c \in cells : x <= c.rect.left \/ x >= right(c.rect)}

\* A tree as the operations leave it: no split of fewer than two, one weight a child.
RECURSIVE WellShaped(_)
WellShaped(node) ==
    node.type = "split" =>
        /\ Len(node.children) >= 2
        /\ Len(node.sizes) = Len(node.children)
        /\ \A i \in DOMAIN node.children : WellShaped(node.children[i])
=============================================================================
