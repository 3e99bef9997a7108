SPECIFICATION FairSpec
CONSTANTS
    b1 = b1
    b2 = b2
    b3 = b3
    s1 = s1
    s2 = s2
    alice = alice
    bob = bob
    carol = carol
    day1 = day1
    Bookings = {b1, b3}
    Slots = {s1, s2}
    Customers = {alice, bob}
    Creators = {carol}
    Availabilities = {day1}
    CustomerOf <- MCCustomerOf
    CreatorOf <- MCCreatorOf
    SlotsOf <- MCSlotsOf
    AvailabilityOf <- MCAvailabilityOf
    Total <- MCTotal
    Deposit <- MCDeposit
    Start <- MCStart
    End <- MCEnd
    RequestTTL = 1
    Grace = 1
    Protection = 1
    TerminationTypes = {"CREATOR_REJECTED", "BOOKING_EXPIRED",
                        "CUSTOMER_CANCELLED", "GOVERNANCE_TERMINATED"}
    SlotEdits = {}
    MaxClock = 5
    MaxHandlers = 2
    MaxCrashes = 1
CHECK_DEADLOCK FALSE
INVARIANTS
    FundsFollowBooking
    SlotsExclusive
PROPERTIES
    TerminalIsFinal
    EveryHoldEnds
