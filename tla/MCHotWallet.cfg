\* Mesh and HTTP requests share the hot wallet and race for a token account.
CONSTANTS
    alice = alice  bob = bob  usdc = usdc  fxn = fxn
    Jobs = {1, 2, 3, 4}
    Asks <- Mixed
    HasHotWallet = TRUE
    Allowed = {alice}
    Known = {usdc, fxn}
    Limits <- LimitOf
    Existing = {}
    Lifetime = 0
    MaxAmount = 3
    MaxBlocks = 1
    MaxChanges = 1
    MaxCrashes = 1
SPECIFICATION FairSpec
INVARIANTS TypeOK AccountsAsSeen
PROPERTIES KeepsPolicy EveryoneServed
CHECK_DEADLOCK FALSE
