------------------------------- MODULE MCViews -------------------------------
(***************************************************************************)
(* The views of a window for TLC, one question after the other: who has the *)
(* keyboard (ViewFocus), and whether a native child stands where its slot    *)
(* is (ContentView).  The models share no variable; `part`, chosen at the     *)
(* start, says which one runs, the other stays in an initial state.            *)
(***************************************************************************)
EXTENDS ViewFocus, ContentView

TwoPlaces == 1..2

VARIABLE part

viewsVars == <<part, focusVars, surfaceVars>>

ViewsInit ==
  /\ part \in {"focus", "surface"}
  /\ FocusInit /\ SurfaceInit
  /\ part # "focus" => active = NoView
  /\ part # "surface" => slot = [present |-> FALSE, at |-> 1, moving |-> FALSE, shown |-> FALSE]

ViewsNext ==
  /\ UNCHANGED part
  /\ \/ part = "focus" /\ FocusNext /\ UNCHANGED surfaceVars
     \/ part = "surface" /\ SurfaceNext /\ UNCHANGED focusVars

\* The fairness of the part that runs: of FocusSpec, of SurfaceSpec.
Drawn == part = "surface"

ViewsFairness ==
  /\ WF_focusVars(part = "focus" /\ deliver)
  /\ WF_surfaceVars(Drawn /\ Answers)
  /\ WF_surfaceVars(Drawn /\ AnimationEnd) /\ WF_surfaceVars(Drawn /\ SlotObserved)
  /\ WF_surfaceVars(Drawn /\ \E at \in SlotPlaces : onWindowResize(at))
  /\ WF_surfaceVars(Drawn /\ \E glide, ok \in BOOLEAN : MoveLock(glide, ok))
  /\ WF_surfaceVars(Drawn /\ (MoveCancel \/ \E s \in Arranged : MoveCommit(s)))

ViewsSpec == ViewsInit /\ [][ViewsNext]_viewsVars /\ ViewsFairness
=============================================================================
