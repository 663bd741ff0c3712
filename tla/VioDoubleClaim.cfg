CONSTANTS
    Withdrawals = {w1}
    Claimers = {c1, c2}
    Postgres = FALSE
    ChainRelayer = TRUE
    MaxClaims = 2
    MaxFaults = 0
    MaxRestarts = 0
SPECIFICATION Spec
CHECK_DEADLOCK FALSE
INVARIANTS
    OneAnswer
