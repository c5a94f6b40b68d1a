--------------------------- MODULE SidebarLayout ---------------------------
(***************************************************************************)
(* The left sidebar of a project (src/src/state/sidebarLayout.ts): a split *)
(* tree whose leaves are groups of view keys with one active key.  The     *)
(* keys come from the registry of views, the layout only places them.      *)
(***************************************************************************)
EXTENDS SplitTree

CONSTANT NoKey                       \* the empty active key

group(viewKeys) ==
    [viewKeys |-> viewKeys, activeViewKey |-> IF viewKeys = << >> THEN NoKey ELSE viewKeys[1]]

initialSidebarLayout(registered) == splitLeaf(group(registered))

sidebarViewKeys(layout) ==
    FlattenSeq([i \in DOMAIN leavesOf(layout) |-> leavesOf(layout)[i].viewKeys])

hasSidebarView(layout, key) == key \in ToSet(sidebarViewKeys(layout))

EmptyGroups(layout) == {g \in LeafSet(layout) : g.viewKeys = << >>}

OrEmpty(tree) == IF tree.type = "none" THEN splitLeaf(group(<< >>)) ELSE tree

\* A group without the keys outside `kept`; the first key takes over from a lost active one.
Pruned(g, kept) ==
    LET viewKeys == SelectSeq(g.viewKeys, LAMBDA k : k \in kept)
    IN IF g.activeViewKey \in ToSet(viewKeys) THEN [g EXCEPT !.viewKeys = viewKeys]
       ELSE group(viewKeys)

\* Keys that are gone leave, new ones join the first group in registration order.
reconcileSidebarLayout(layout, registered) ==
    LET known == ToSet(registered)
        kept == mapLeaves(layout, [g \in LeafSet(layout) |-> Pruned(g, known)])
        pruned == OrEmpty(removeLeaf(kept, EmptyGroups(kept)))
        present == ToSet(sidebarViewKeys(pruned))
        new == SelectSeq(registered, LAMBDA k : k \notin present)
        first == leavesOf(pruned)[1]
        joined == [viewKeys |-> first.viewKeys \o new,
                   activeViewKey |-> IF first.activeViewKey # NoKey THEN first.activeViewKey
                                     ELSE (first.viewKeys \o new)[1]]
    IN IF new = << >> THEN pruned
       ELSE mapLeaves(pruned, [g \in LeafSet(pruned) |-> IF g = first THEN joined ELSE g])

\* The key leaves its group first; a target that is then in no group takes
\* nothing, and the key is placed nowhere until the next reconcile.
moveSidebarView(layout, key, drop) ==
    LET src == CHOOSE g \in LeafSet(layout) : key \in ToSet(g.viewKeys)
        others == ToSet(sidebarViewKeys(layout)) \ {key}
        taken == mapLeaves(layout, [g \in LeafSet(layout) |->
                    IF g = src THEN Pruned(g, others) ELSE g])
        targets == {g \in LeafSet(taken) : drop.target \in ToSet(g.viewKeys)}
        placed == IF drop.zone = "into"
                  THEN mapLeaves(taken, [g \in LeafSet(taken) |->
                          IF g \in targets
                          THEN [viewKeys |-> Append(g.viewKeys, key), activeViewKey |-> key]
                          ELSE g])
                  ELSE insertBeside(taken, targets, drop.dir, drop.before, group(<<key>>))
    IN IF \/ ~hasSidebarView(layout, key)
          \/ drop.zone = "split" /\ src.viewKeys = <<key>> /\ drop.target = key
       THEN layout
       ELSE OrEmpty(removeLeaf(placed, EmptyGroups(placed)))

setLeftTab(layout, key) ==
    mapLeaves(layout, [g \in LeafSet(layout) |->
        IF key \in ToSet(g.viewKeys) THEN [g EXCEPT !.activeViewKey = key] ELSE g])

Drops(keys) ==
    {[zone |-> "into", target |-> k] : k \in keys} \cup
    {[zone |-> "split", target |-> k, dir |-> d, before |-> b] :
        k \in keys, d \in {"row", "col"}, b \in BOOLEAN}
=============================================================================
