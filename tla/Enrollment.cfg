SPECIFICATION Spec
CONSTANTS
    None = None
    Csrs <- MCCsrs
    Certs <- MCCerts
    Ids <- MCIds
    Serials <- MCSerials
    Nonces = {1, 2, 3, 4, 5}
    MaxLosses = 1
    MaxCrashes = 1
    MaxAgain = 1
INVARIANTS TakenIsForTheRequest SubmittedOnce NoncesAreFresh RejectedByTheCA
PROPERTIES AttemptsEnd
CHECK_DEADLOCK FALSE
