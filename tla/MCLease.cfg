\* Leases of one tick, a clock that lags by one, counters from -3 to 2.
SPECIFICATION FairSpec
CONSTANTS
    TTL = 1
    Issued <- MCIssued
    Reports <- MCReports
    Lag = 1
    MaxCounter = 2
    MaxTime = 2
INVARIANTS
    StopsWithoutLeases
PROPERTIES
    ImplementsKillSwitch
    NothingAfterTheLast
    RevocationWins
