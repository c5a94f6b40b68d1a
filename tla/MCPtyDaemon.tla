----------------------------- MODULE MCPtyDaemon -----------------------------
(***************************************************************************)
(* The daemon for TLC, one question after the other: what the registry       *)
(* promises (PtyRegistry), and the handover.  The models share no variable;   *)
(* `part`, chosen at the start, says which of them runs, the other stays in    *)
(* an initial state.                                                            *)
(*                                                                            *)
(* In the handover the descriptor plan (HandoffFds) is computed and carried     *)
(* out first, from every placement of the descriptors; what it leaves is then    *)
(* forgotten, so that the placements do not multiply the states of the           *)
(* protocol (PtyHandoff), which takes the plan's success (SuccessorInherits)      *)
(* as given.                                                                       *)
(***************************************************************************)
EXTENDS PtyRegistry, PtyHandoff, HandoffFds

CONSTANTS s1, v1, v2, a1, a2, m1

\* Instances.
OneSession  == {s1}
LowFds      == 3..8
TwoPanes    == {v1, v2}
OneWindow   == {Panes}
TwoCreators == {a1, a2}
OneStorer   == {m1}

VARIABLE part

\* What a plan without sessions leaves behind.
NoPlan == <<<<>>, 3, 4, 0, "exec", [f \in Fds |-> f]>>
Forgotten == planVars = NoPlan

Forget ==
  /\ pc = "exec" /\ ~Forgotten
  /\ sources' = NoPlan[1] /\ ipc' = NoPlan[2] /\ base' = NoPlan[3]
  /\ done' = NoPlan[4] /\ pc' = NoPlan[5] /\ table' = NoPlan[6]
  /\ UNCHANGED handoffVars

HandoverNext ==
  \/ PlanNext /\ UNCHANGED handoffVars
  \/ Forget
  \/ Forgotten /\ HandoffNext /\ UNCHANGED planVars

DaemonInit ==
  /\ part \in {"registry", "handover"}
  /\ Init
  /\ HandoffInit /\ (part # "handover" => quiet)
  /\ IF part = "handover" THEN PlanInit
     ELSE /\ sources = NoPlan[1] /\ ipc = NoPlan[2] /\ base = NoPlan[3]
          /\ done = NoPlan[4] /\ pc = NoPlan[5] /\ table = NoPlan[6]

DaemonNext ==
  /\ UNCHANGED part
  /\ \/ part = "registry" /\ Next /\ UNCHANGED <<handoffVars, planVars>>
     \/ part = "handover" /\ HandoverNext /\ UNCHANGED vars

(* The fairness of the part that runs. *)
Handing == part = "handover"

HandoverKeepsOn ==
  /\ WF_planVars(Handing /\ (PlanNext \/ Forget))
  /\ WF_handoffVars(Handing /\ (SpawnNew \/ RollbackHandoff))
  /\ WF_handoffVars(Handing /\ \E s \in Sessions : Adopt(s))
  /\ WF_handoffVars(Handing /\ Ack)
  /\ WF_handoffVars(Handing /\ CommitHandoff) /\ WF_handoffVars(Handing /\ NewUnlinks)
  /\ WF_handoffVars(Handing /\ (NewServes \/ NewFailsToBind))
  /\ WF_handoffVars(Handing /\ SomeoneAsks /\ StartThird)
  /\ WF_handoffVars(Handing /\ (ThirdBinds \/ ThirdStepsBack))
  /\ \A s \in Sessions :
       /\ WF_handoffVars(Handing /\ Show(s)) /\ WF_handoffVars(Handing /\ StreamCloses(s))
       /\ WF_handoffVars(Handing /\ (Gone(s) \/ Reattach(s)))
       /\ \A d \in Daemons : /\ WF_handoffVars(Handing /\ PushOut(d, s))
                              /\ WF_handoffVars(Handing /\ EndSession(d, s))

DaemonSpec ==
  /\ DaemonInit /\ [][DaemonNext]_<<part, vars, handoffVars, planVars>>
  /\ HandoverKeepsOn
==============================================================================
