---------------------------- MODULE MCWorkspace ----------------------------
(***************************************************************************)
(* The workspace with every bound given.  The pane trees and the sidebar    *)
(* share no state and are explored one at a time.  What follows when the    *)
(* first of two projects is closed is what follows a start, with other ids.  *)
(***************************************************************************)
EXTENDS WorkspaceCommands, TLC

MCKeys == <<"git", "files", "find">>
RootSymmetry == Permutations(Roots)

OneTreeAtATime ==
    \/ registered = << >> /\ leftLayout = initialSidebarLayout(<< >>)
    \/ store = bootstrapFirstProject(store.projects[1].root)

\* Three panes of uneven sizes are looked at and left.
ResizedOnce == Even(store) \/ Cardinality(AllPanes(store)) <= 2
OneStart == \E p \in ToSet(store.projects) : p.id = 1
=============================================================================
