CONSTANTS
    n1 = n1  n2 = n2  n3 = n3
    Nodes <- MCNodes
    Self = n1
    MaxView <- MCMaxView
    Parent <- MCParent
    Payload <- MCPayload
    LeaderOf <- MCLeaderOf
    DACommittee = {n2}
    Threshold = 2
    UpgradeLeaf <- MCUpgradeLeaf
    UpgradeCert <- MCUpgradeCert
    TimerOffset = 1
    Inputs <- MCInputs
    MaxQueue = 1
    AppendVidMayFail = FALSE
SPECIFICATION Spec
PROPERTY InterimVotesNullBlocks
