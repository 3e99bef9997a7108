SPECIFICATION FairSpec
CONSTANTS
    b1 = b1
    c1 = c1
    c2 = c2
    Bookings = {b1}
    Calls = {c1, c2}
    TerminationTypes = {"CREATOR_REJECTED", "BOOKING_EXPIRED", "CUSTOMER_CANCELLED"}
    MaxCrashes = 2
CHECK_DEADLOCK FALSE
INVARIANTS
    MoneyAgrees
    TerminatedClosesPayment
    PayableFollowsCapture
PROPERTIES
    ClosedIsFinal
    RequestEnds
