\* Setup run twice, dying anywhere, with the application started and stopped around
\* it. When setup has run out and never wrote polista.env, nothing happens any more.
SPECIFICATION Spec
CONSTANTS
    Logins = {l1, l2}
    Placeholder = l0
    DefaultLogin = ld
    DefaultCount = 2
    MaxPorts = 2
    MaxRuns = 2
    Absent = Absent
    Torn = Torn
    Legacy = Legacy
    Nobody = Nobody
INVARIANTS
    TypeOK
    ReportedLoginWorks
    StartsAfterSetup
    NothingLost
    OldSessionsEnd
PROPERTIES
    ServesAfterSetup
CHECK_DEADLOCK FALSE
