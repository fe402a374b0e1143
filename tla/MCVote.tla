------------------------------ MODULE MCVote ------------------------------
(***************************************************************************)
(* Voting: the proposal, the DA certificate and the VID share of views 1  *)
(* and 2 arrive in any order; DACertValidity says whether a faulty peer    *)
(* may also send a DA certificate that fails verification.                 *)
(***************************************************************************)
EXTENDS ConsensusTask, TLC

CONSTANTS n1, n2, n3, DACertValidity

MCNodes == {n1, n2, n3}
MCMaxView == 2
MCParent == [v \in 0..MCMaxView |-> v - 1]
MCPayload == [v \in 0..MCMaxView |-> "block"]
MCLeaderOf == [v \in 0..MCMaxView + 2 |-> CASE v % 3 = 0 -> n2
                                          [] v % 3 = 1 -> n3
                                          [] OTHER     -> n1]
MCUpgradeLeaf == NoLeaf
MCUpgradeCert == [view |-> 0, decide_by |-> 0, new_version_first_view |-> 0]

MCInputs ==
    { Ev("QuorumProposalRecv", v) : v \in 1..MCMaxView }
    \cup { DACertEv(v, ok, "block") : v \in 1..MCMaxView, ok \in DACertValidity }
    \cup { VIDShareEv(v, n1, MCLeaderOf[v]) : v \in 1..MCMaxView }

=============================================================================
