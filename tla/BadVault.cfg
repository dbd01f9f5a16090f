SPECIFICATION WizardSpec
CONSTANTS
    Requests = {r1}
    NoFile = NoFile
    MaxRequests = 1
    MaxBadWrites = 0
    MaxKills = 0
INVARIANT VaultRecordIsTrue
CHECK_DEADLOCK FALSE
