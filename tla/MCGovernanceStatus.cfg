SPECIFICATION GovernanceSpec
CONSTANTS
    Calls = {c1}
    Reasons = {r1}
    Bookings = {}
    AsCreator = {}
    Near = {}
    Agreed = {}
    Kinds = {"creatorCooldownUntil"}
    FirstStatus = "pending_profile"
    MaxScore = 0
    MaxExecutions = 1
INVARIANTS
    StatusFollowsGovernance
