SPECIFICATION CaseSpec
CONSTANTS
    a1 = a1
    a2 = a2
    Admins = {a1, a2}
    Nobody = nobody
    Kinds = {"STATEMENT", "FINDING"}
PROPERTIES
    OutcomeSpec
    DecidedComesToRest
CHECK_DEADLOCK FALSE
