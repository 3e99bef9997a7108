SPECIFICATION GovernanceSpec
CONSTANTS
    Calls = {c1, c2}
    Reasons = {r1}
    Bookings = {b1, b2}
    AsCreator = {b1}
    Near = {b2}
    Agreed = {b2}
    Kinds = {"creatorCooldownUntil"}
    FirstStatus = "active"
    MaxScore = 2
    MaxExecutions = 2
SYMMETRY Swap
INVARIANTS
    ClaimsAreExclusive
    StatusFollowsGovernance
    RecordedBanStands
    SweepsFindAll
PROPERTIES
    ShortenedUnseen
