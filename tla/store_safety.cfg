\* Crashes and power cuts at every call of every save.
SPECIFICATION Spec
CONSTANTS
    v1 = v1
    v2 = v2
    v3 = v3
    Absent = Absent
    Torn = Torn
    Nothing = Nothing
    Values <- MCValues
INVARIANTS
    NeverTorn
    AcknowledgedIsDurable
    LeftoversSwept
PROPERTY
    FileSpec
