SPECIFICATION Spec
CONSTANTS
    there = there
    back = back
    usd = usd
    inr = inr
    Conversions = {there, back}
    Wallets = {usd, inr}
    Source <- MCSource
    Target <- MCTarget
    Amount <- MCAmount
    Bought <- MCBought
    MaxBalance = 2
    Balance <- MCBalance
    Opened = {usd}
    Callers = {p1, p2}
    Reviewed = {there}
SYMMETRY Swap
INVARIANTS
    HealthyIsOver
PROPERTIES
    PromiseSpec
