CONSTANTS
    tx1 = tx1
    tx2 = tx2
    tx3 = tx3
    Txs = {tx1, tx2, tx3}
    Events <- MCEvents
    NoDeposit = noDeposit
    ApiTxs = {tx1, tx2}
    PerPage = 30
    BlockSize = 2
    MaxFaults = 1
    MaxRestarts = 1
SPECIFICATION FairSpec
CHECK_DEADLOCK FALSE
INVARIANTS
    TypeOK
    CursorCovers
PROPERTIES
    EveryDepositIndexed
    RescanHeals
