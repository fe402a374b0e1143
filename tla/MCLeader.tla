----------------------------- MODULE MCLeader -----------------------------
(***************************************************************************)
(* The replica as a leader: n1 leads view 2, so it collects the quorum and *)
(* timeout votes of view 1, forms the QC or TC, receives the payload for   *)
(* view 2 and view-sync certificates, and publishes a proposal; the        *)
(* upgrade task and shutdown also speak.                                   *)
(***************************************************************************)
EXTENDS ConsensusTask, TLC

CONSTANTS n1, n2, n3

MCNodes == {n1, n2, n3}
MCMaxView == 2
MCParent == [v \in 0..MCMaxView |-> v - 1]
MCPayload == [v \in 0..MCMaxView |-> "block"]
MCLeaderOf == [v \in 0..MCMaxView + 2 |-> CASE v % 3 = 0 -> n2
                                          [] v % 3 = 1 -> n3
                                          [] OTHER     -> n1]
MCUpgradeLeaf == NoLeaf
MCUpgradeCert == [view |-> 0, decide_by |-> 3, new_version_first_view |-> 5]

MCInputs ==
    { VoteEv("QuorumVoteRecv", v, n) : v \in {0, 1}, n \in {n2, n3} }
    \cup { VoteEv("TimeoutVoteRecv", 1, n) : n \in {n2, n3} }
    \cup { Ev("SendPayloadCommitmentAndMetadata", 2),
           VSCertEv(2, TRUE), VSCertEv(2, FALSE),
           Ev("UpgradeCertificateFormed", 0),
           Ev("QuorumProposalRecv", 1),
           VIDShareEv(1, n2, n3), VIDShareEv(1, n2, n2),
           Ev("Shutdown", 0) }

=============================================================================
