CONSTANTS
    n1 = n1  n2 = n2  n3 = n3
    Nodes <- MCNodes
    Self = n1
    MaxView <- MCMaxView
    Parent <- MCParent
    Payload <- MCPayload
    LeaderOf <- MCLeaderOf
    DACommittee = {n2}
    Threshold = 2
    UpgradeLeaf <- MCUpgradeLeaf
    UpgradeCert <- MCUpgradeCert
    TimerOffset = 0
    Inputs <- MCInputs
    MaxQueue = 1
    AppendVidMayFail = FALSE
    DACertValidity = {TRUE}
SPECIFICATION Spec
PROPERTY TimeoutVoteEventually
