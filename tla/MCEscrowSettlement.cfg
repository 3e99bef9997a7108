SPECIFICATION MCSpec
CONSTANTS
    FeeBps = 500
    CommissionBps = 2000
    MinAmount = 1
    MaxAmount = 2000
    MaxSafe = 4005000
    b1 = b1
    b2 = b2
    creator = creator
    admin = admin
    Bookings = {b1, b2}
    Creators = {creator}
    CreatorOf <- MCCreatorOf
    Service <- MCService
    PriceLimit = 3000
    Job = job
    Admins = {admin}
    Window = 1
    DisputeWindow = 1
    Hold = 3
    Uses = {320}
    MaxCrashes = 1
INVARIANTS
    LedgerFollowsRecords
    WalletIsSumOfSettled
    PricesAreExact
PROPERTIES
    JobRespectsDisputes
    FlowSpec
    HeldMoneyIsPaid
