CONSTANTS
    Uploads = {u1, u2}
    Contents <- SmallContents
    MaxVersion = 2
    MaxAttempts = 3
SPECIFICATION FairSpec
INVARIANTS
    PublishedConfirmed
    JobTellsImport
    TextStored
PROPERTIES
    ImportSettles
CHECK_DEADLOCK FALSE
