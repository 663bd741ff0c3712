CONSTANTS
    alice = alice
    bob = bob
    carol = carol
    uusdc = uusdc
    dep1 = dep1
    dep2 = dep2
    dep3 = dep3
    defaultSecret = defaultSecret
    carolSecret = carolSecret
    Owners = {alice, bob, carol}
    Denoms = {uusdc}
    Deposits = {dep1, dep2, dep3}
    DepositRecord <- MCDepositRecord
    GenesisRoot = genesis
    Handlers = {h1, h2}
    Secrets = {defaultSecret, carolSecret}
    SecretOf <- MCSecretOf
    WithdrawAmounts = {1, 2}
SPECIFICATION Spec
INVARIANTS
    TypeOK
    NullifiersExact
    SecretExclusive
    FundsConserved
