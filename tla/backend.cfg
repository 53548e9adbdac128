\* The bfrt connection with three client ids; life goes on after every death.
SPECIFICATION FairSpec
CONSTANTS
    CLIENT_IDS = 3
    NoId = NoId
INVARIANTS
    TypeOK
    LeaseOwned
    CleanStop
    FailureForgets
PROPERTIES
    CallsEnd
    
