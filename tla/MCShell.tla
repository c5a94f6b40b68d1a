------------------------------- MODULE MCShell -------------------------------
(***************************************************************************)
(* The Electron shell for TLC, one question after the other: when a resize  *)
(* has settled (ResizeSettlement), whether the calls of the windows come     *)
(* back from cored, and whether cored knows the windows as they change while *)
(* it is stood up again for one caller (ElectronBridge, twice).  The models   *)
(* share no variable; `part`, chosen at the start, says which one runs, the   *)
(* other stays in an initial state.                                            *)
(***************************************************************************)
EXTENDS ResizeSettlement, ElectronBridge

TwoSizes == {1, 2}

VARIABLE part

shellVars == <<part, ledgerVars, bridgeVars>>

\* Nothing tells one size from the other: the window starts with the first.
ShellInit ==
  /\ part \in {"resize", "calls", "windows"}
  /\ LedgerInit /\ BridgeInit
  /\ win = 1

\* While two calls are made the control hosts are made, and not followed further.
HostsWait == \A k \in Runs : hosts'[k].st \in {"none", "dialing"}

\* While the windows change a single call has cored stood up again, and no other
\* application does.
OneCaller ==
  /\ Cardinality({c \in Calls : call'[c].st # "new"}) <= 1
  /\ \A p \in Procs : proc'[p].st # "none" => proc'[p].ours

ShellNext ==
  /\ UNCHANGED part
  /\ \/ part = "resize" /\ LedgerNext /\ UNCHANGED bridgeVars
     \/ part = "calls" /\ BridgeNext /\ HostsWait /\ UNCHANGED <<facts, ledgerVars>>
     \/ part = "windows" /\ BridgeNext /\ OneCaller /\ UNCHANGED ledgerVars

\* The fairness of the part that runs: of LedgerSpec, of BridgeSpec.
ShellFairness ==
  /\ WF_ledgerVars(part = "resize" /\ Due)
  /\ WF_bridgeVars(part # "resize" /\ Ours)

ShellSpec == ShellInit /\ [][ShellNext]_shellVars /\ ShellFairness
=============================================================================
