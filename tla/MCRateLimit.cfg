CONSTANTS
    Denoms = {"stToken", "voucher"}
    Channels = {"channel"}
    Origin <- MCOrigin
    Quotas <- MCQuotas
    Amounts = {1, 2}
    Supply <- MCSupply
    Abroad <- MCAbroad
    Hours = 2
    PacketIds = {k1, k2}
    MaxFlow = 3
    None = None
SYMMETRY PacketSymmetry
SPECIFICATION Spec
INVARIANTS NetFlowWithinQuota FlowMatchesTransfers
CHECK_DEADLOCK FALSE
