SPECIFICATION FairSpec
CONSTANTS
    Submitters = {user}
    Readers = {}
    Workers = {w1}
    Gone = gone
    MaxAttempts = 1
    MaxVersion = 2
    MaxRequests = 2
    MaxCrashes = 1
INVARIANTS
    StatusIsGranted
PROPERTIES
    EveryRequestIsAnswered
