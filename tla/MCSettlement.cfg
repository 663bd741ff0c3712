CONSTANTS
    alice = alice
    bob = bob
    uusdc = uusdc
    dep1 = dep1
    dep2 = dep2
    Owners = {alice, bob}
    Denoms = {uusdc}
    Deposits = {dep1, dep2}
    DepositRecord <- MCDepositRecord
    GenesisRoot = genesisRoot
    NoCursor = noCursor
    DefaultSecret = mockUserSecret
    Handlers = {h1}
    Drivers = {seq}
    WithdrawAmounts = {1}
    RelayerDeclines = TRUE
    OperatorCancels = FALSE
    MaxWithdrawals = 2
    MaxBatches = 3
    MaxFaults = 0
    MaxRestarts = 0
SPECIFICATION FairSpec
INVARIANTS
    TypeOK
    SettledRootExact
    ReopenedNotSettled
    SaveNeverCollides
    BatchesFitWitness
    PendingBuildable
    PendingRootKnown
PROPERTIES
    IncludedResolved
    AcceptedEventuallyCommitted
    ImplementsLedger
