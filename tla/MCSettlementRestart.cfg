CONSTANTS
    alice = alice
    bob = bob
    uusdc = uusdc
    dep1 = dep1
    dep2 = dep2
    Owners = {alice, bob}
    Denoms = {uusdc}
    Deposits = {dep1}
    DepositRecord <- MCDepositRecord
    GenesisRoot = genesisRoot
    NoCursor = noCursor
    DefaultSecret = mockUserSecret
    Handlers = {h1}
    Drivers = {seq}
    WithdrawAmounts = {1}
    RelayerDeclines = FALSE
    OperatorCancels = FALSE
    MaxWithdrawals = 2
    MaxBatches = 2
    MaxFaults = 1
    MaxRestarts = 1
SPECIFICATION Spec
INVARIANTS
    SettledRootExact
    CommittedRootOnChain
