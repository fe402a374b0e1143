----------------------------- MODULE MCLateQC -----------------------------
(***************************************************************************)
(* The leader of view 2 (n1) collects the quorum votes of view 1 while the *)
(* proposals of views 1..3 reach it: the votes may come in after a newer   *)
(* proposal already carried a newer justify QC into high_qc.               *)
(***************************************************************************)
EXTENDS ConsensusTask, TLC

CONSTANTS n1, n2, n3

MCNodes == {n1, n2, n3}
MCMaxView == 3
MCParent == [v \in 0..MCMaxView |-> v - 1]
MCPayload == [v \in 0..MCMaxView |-> "block"]
MCLeaderOf == [v \in 0..MCMaxView + 2 |-> CASE v % 3 = 0 -> n2
                                          [] v % 3 = 1 -> n3
                                          [] OTHER     -> n1]
MCUpgradeLeaf == NoLeaf
MCUpgradeCert == [view |-> 0, decide_by |-> 0, new_version_first_view |-> 0]

MCInputs ==
    { VoteEv("QuorumVoteRecv", 1, n) : n \in {n2, n3} }
    \cup { Ev("QuorumProposalRecv", v) : v \in 1..MCMaxView }

=============================================================================
