CONSTANTS
    alice = alice
    bob = bob
    uusdc = uusdc
    exchange = exchange
    Owners = {alice, bob}
    Denoms = {uusdc}
    Deposits = {dep1, dep2}
    DepositRecord <- MCDepositRecord
    GenesisRoot = genesis
    Keys = {pinnedKey, otherKey}
    ExpectedKey = pinnedKey
    LocalKey = localKey
    Wirings <- MCWirings
    MockSecret = mockSecret
    WithdrawBodies <- MCWithdrawBodies
    MaxRequests = 2
    MaxBatches = 2
    MaxProofs = 2
    MaxClaims = 2
    Refused = refused
SPECIFICATION Spec
SYMMETRY DepositSymmetry
INVARIANTS
    TypeOK
    SettledRootExact
    AcceptedProved
    OwnProofPasses
    NumbersUsed
    
    NextNonceFree
PROPERTIES
    ClaimedStays
CHECK_DEADLOCK FALSE
