CONSTANTS
    Users = {student}
    Holders = {}
    Clients = {c1, c2}
    MaxTokens = 3
    OtpAttempts = 1
SPECIFICATION FairSpec
INVARIANTS
    ExchangedOnce
    GuessesLimited
PROPERTIES
    CancelHolds
    FrozenPurged
CHECK_DEADLOCK FALSE
