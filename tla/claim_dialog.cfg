\* README.md:127 against a patch that changes while the dialog is open.
SPECIFICATION Spec
CONSTANTS
    p1 = p1
    p2 = p2
    NoPort = NoPort
    Ports <- MCPorts
    Choices <- MCChoices
    Elsewhere <- MCElsewhere
    MaxOut = 2
PROPERTY
    DialogExact
