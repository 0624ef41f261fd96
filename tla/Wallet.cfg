\* Three calls compete for two connections and the row lock of one wallet; an id
\* without a wallet; credits that do not fit and debits that do not fit together.
SPECIFICATION FairSpec
CONSTANTS
    Calls = {c1, c2, c3}
    Wallets = {w1}
    WalletIds = {w1, w0}
    Amounts = {1}
    MaxBigint = 2
    NoEntry = NoEntry
    PoolSize = 2
INVARIANTS
    NoOverdraft
    LedgerExplainsBalance
    ResultIsTrue
    PostedOnce
    NoStandstill
PROPERTIES
    BalanceMovesWithLedger
    ImplementsLedger
    EveryCallEnds
    LocksAreReleased
