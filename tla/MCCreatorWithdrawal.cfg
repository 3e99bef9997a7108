SPECIFICATION FairSpec
CONSTANTS
    w1 = w1
    w2 = w2
    creator = creator
    Creators = {creator}
    Withdrawals = {w1, w2}
    CreatorOf <- MCCreatorOf
    Amount <- MCAmount
    Balance <- MCBalance
    Callers = {p1, p2}
    MaxRetries = 2
    Reviewed = {w1}
    MaxCrashes = 1
INVARIANTS
    OneObligation
    WalletFollowsLedger
    RetriesAreSerial
PROPERTIES
    PromiseSpec
    RetriesStayOwned
    RetryReports
