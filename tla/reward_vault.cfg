SPECIFICATION FairSpec
CONSTANTS
    m1 = m1
    m2 = m2
    alice = alice
    bob = bob
    h1 = h1
    h2 = h2
    f1 = f1
    xstock = xstock
    Markets <- MC_Markets
    Accounts <- MC_Accounts
    RewardAssets = {xstock}
    RewardAsset <- MC_RewardAsset
    Honest = {h1, h2}
    Faulty = {f1}
    Attested <- MC_Attested
    Forged <- MC_Forged
    ActivationDelay = 1
    FundAmounts = {1, 2}
    MaxFunded = 3
    MaxBrakes = 1
INVARIANTS
    TypeOK
    OnlyAttestedRoots
    NobodyPaidBeyondTheirLeaf
    ClaimsWithinFunding
    QuorumReachable
PROPERTIES
    RootsOnlyAdvance
    PendingResolves
CHECK_DEADLOCK FALSE
