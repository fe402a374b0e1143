-------------------------- MODULE MCConsensusTask --------------------------
(***************************************************************************)
(* The replica as a follower: proposals, DA certificates and VID shares of *)
(* a straight chain of views 1..MaxView arrive in any order, duplicated    *)
(* and interleaved with the replica's own timeouts.                        *)
(***************************************************************************)
EXTENDS ConsensusTask, TLC

CONSTANTS n1, n2, n3

MCNodes == {n1, n2, n3}
MCMaxView == 4
\* Genesis 0, then leaves 1 <- 2 <- 3 <- 4.
MCParent == [v \in 0..MCMaxView |-> v - 1]
MCPayload == [v \in 0..MCMaxView |-> "block"]
\* Round-robin leaders; n1 is this replica.
MCLeaderOf == [v \in 0..MCMaxView + 2 |-> CASE v % 3 = 0 -> n2
                                          [] v % 3 = 1 -> n3
                                          [] OTHER     -> n1]
MCUpgradeLeaf == NoLeaf
MCUpgradeCert == [view |-> 0, decide_by |-> 0, new_version_first_view |-> 0]

MCInputs ==
    { Ev("QuorumProposalRecv", v) : v \in 1..MCMaxView }
    \cup { DACertEv(v, TRUE, "block") : v \in 1..MCMaxView }
    \cup { VIDShareEv(v, n1, MCLeaderOf[v]) : v \in 1..MCMaxView }

=============================================================================
