CONSTANTS
    Users = {student, reviewer}
    Holders = {reviewer}
    Clients = {c1}
    MaxTokens = 2
    OtpAttempts = 1
SPECIFICATION FairSpec
PROPERTIES
    DuePurged
CHECK_DEADLOCK FALSE
