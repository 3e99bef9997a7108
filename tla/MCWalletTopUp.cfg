SPECIFICATION Spec
CONSTANTS
    topup = topup
    wallet = wallet
    TopUps = {topup}
    Wallets = {wallet}
    WalletOf <- MCWalletOf
    Amount <- MCAmount
    MaxBalance = 1
    Balance <- MCBalance
    Callers = {p1, p2}
    MaxRetries = 2
    Reviewed = {topup}
SYMMETRY Swap
INVARIANTS
    ClosedOnWhatItShows
PROPERTIES
    PromiseSpec
