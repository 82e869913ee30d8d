SPECIFICATION FairSpec
CONSTANTS
    Scenarios <- MCScenarios
    Clients <- MCClients
CHECK_DEADLOCK FALSE
INVARIANTS
    CertifiedIsSerialized
    CorrectIsCertified
PROPERTY
    ProcessesEnd
