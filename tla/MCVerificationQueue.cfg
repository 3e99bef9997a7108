SPECIFICATION Spec
CONSTANTS
    Submitters = {user}
    Readers = {admin}
    Workers = {w1, w2}
    Gone = gone
    MaxAttempts = 2
    MaxVersion = 1
    MaxRequests = 1
    MaxCrashes = 1
SYMMETRY Swap
INVARIANTS
    CompletedIsAnswered
PROPERTIES
    ClaimIsRespected
