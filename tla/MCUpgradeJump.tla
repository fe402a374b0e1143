------------------------------ MODULE MCUpgradeJump ------------------------------
(***************************************************************************)
(* An upgrade whose first new-version view fails: leaf 1 embeds the        *)
(* certificate (decide_by 4, new version from view 4); the leader of view  *)
(* 4 never proposes, so leaf 5 extends leaf 3 and the replica jumps from   *)
(* view 3 to view 5.                                                       *)
(***************************************************************************)
EXTENDS ConsensusTask, TLC

CONSTANTS n1, n2, n3

MCNodes == {n1, n2, n3}
MCMaxView == 5
MCParent == (0 :> NoLeaf @@ 1 :> 0 @@ 2 :> 1 @@ 3 :> 2 @@ 5 :> 3)
MCPayload == [v \in 0..MCMaxView |-> IF v \in 1..3 THEN "null" ELSE "block"]
MCLeaderOf == [v \in 0..MCMaxView + 2 |-> CASE v % 3 = 0 -> n2
                                          [] v % 3 = 1 -> n3
                                          [] OTHER     -> n1]
MCUpgradeLeaf == 1
MCUpgradeCert == [view |-> 0, decide_by |-> 4, new_version_first_view |-> 4]

MCInputs ==
    { Ev("QuorumProposalRecv", v) : v \in {1, 2, 3, 5} }

=============================================================================
