CONSTANTS
    Withdrawals = {w1}
    Claimers = {c1, c2, c3}
    Postgres = TRUE
    ChainRelayer = TRUE
    MaxClaims = 2
    MaxFaults = 1
    MaxRestarts = 1
SPECIFICATION FairSpec
CHECK_DEADLOCK FALSE
INVARIANTS
    TypeOK
    DashboardAgrees
    ClaimsBacked
PROPERTIES
    ClaimedFinal
    PaidEventuallyRecorded
