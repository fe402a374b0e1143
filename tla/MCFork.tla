------------------------------ MODULE MCFork ------------------------------
(***************************************************************************)
(* A follower on a fork: the leader of view 3 extends leaf 1 (view 2 ended *)
(* in a timeout certificate), so leaf 2 is on a dead branch; 4 and 5 build *)
(* on 3.  Proposals of every view, and the DA certificates and VID shares  *)
(* of views 3-5, arrive in any order, duplicated or not at all,            *)
(* interleaved with the replica's timers.                                  *)
(***************************************************************************)
EXTENDS ConsensusTask, TLC

CONSTANTS n1, n2, n3

MCNodes == {n1, n2, n3}
MCMaxView == 5
MCParent == (0 :> NoLeaf @@ 1 :> 0 @@ 2 :> 1 @@ 3 :> 1 @@ 4 :> 3 @@ 5 :> 4)
MCPayload == [v \in 0..MCMaxView |-> "block"]
MCLeaderOf == [v \in 0..MCMaxView + 2 |-> CASE v % 3 = 0 -> n2
                                          [] v % 3 = 1 -> n3
                                          [] OTHER     -> n1]
MCUpgradeLeaf == NoLeaf
MCUpgradeCert == [view |-> 0, decide_by |-> 0, new_version_first_view |-> 0]

MCInputs ==
    { Ev("QuorumProposalRecv", v) : v \in 1..MCMaxView }
    \cup { DACertEv(v, TRUE, "block") : v \in {3, 4, 5} }
    \cup { VIDShareEv(v, n1, MCLeaderOf[v]) : v \in {3, 4, 5} }

=============================================================================
