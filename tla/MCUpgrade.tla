----------------------------- MODULE MCUpgrade -----------------------------
(***************************************************************************)
(* A protocol upgrade: the leaf of view 1 embeds an upgrade certificate    *)
(* with decide_by 4 whose new version starts at view 4, so views 1..3 are  *)
(* the interim.  The leaf of view 3 carries a block, as a leader that has  *)
(* not yet seen the certificate decided may propose; the view-sync task    *)
(* may move the replica to view 4 on its own.                              *)
(***************************************************************************)
EXTENDS ConsensusTask, TLC

CONSTANTS n1, n2, n3

MCNodes == {n1, n2, n3}
MCMaxView == 4
MCParent == [v \in 0..MCMaxView |-> v - 1]
MCPayload == [v \in 0..MCMaxView |-> IF v \in {1, 2} THEN "null" ELSE "block"]
MCLeaderOf == [v \in 0..MCMaxView + 2 |-> CASE v % 3 = 0 -> n2
                                          [] v % 3 = 1 -> n3
                                          [] OTHER     -> n1]
MCUpgradeLeaf == 1
MCUpgradeCert == [view |-> 0, decide_by |-> 4, new_version_first_view |-> 4]

MCInputs ==
    { Ev("QuorumProposalRecv", v) : v \in 1..MCMaxView }
    \cup { DACertEv(v, TRUE, MCPayload[v]) : v \in 1..MCMaxView }
    \cup { VIDShareEv(v, n1, MCLeaderOf[v]) : v \in 1..MCMaxView }
    \cup { Ev("ViewChange", 4) }

=============================================================================
