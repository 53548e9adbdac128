\* Two ports, every reply in every order, somebody else at work.
SPECIFICATION Spec
CONSTANTS
    p1 = p1
    p2 = p2
    NoPort = NoPort
    Ports <- MCPorts
    Choices <- MCChoices
    Elsewhere <- MCElsewhere
    MaxOut = 2
INVARIANTS
    TypeOK
    PageCurrent
PROPERTIES
    LosesOnlyAskedFor
    DialogsKept
    ServesAsPatchbay
