CONSTANTS
    alice = alice
    bob = bob
    uusdc = uusdc
    dep1 = dep1
    dep2 = dep2
    Owners = {alice, bob}
    Denoms = {uusdc}
    Deposits = {dep1, dep2}
    DepositRecord <- MCDepositRecord
    GenesisRoot = genesisRoot
    NoCursor = noCursor
    DefaultSecret = mockUserSecret
    Handlers = {h1, h2}
    Drivers = {seq}
    WithdrawAmounts = {1}
    RelayerDeclines = FALSE
    OperatorCancels = FALSE
    MaxWithdrawals = 0
    MaxBatches = 1
    MaxFaults = 0
    MaxRestarts = 0
SPECIFICATION Spec
INVARIANTS
    SettledRootExact
