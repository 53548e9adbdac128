\* README.md:157 against set_label.
SPECIFICATION Spec
CONSTANTS
    p1 = p1
    p2 = p2
    d1 = d1
    d2 = d2
    dx = dx
    l1 = l1
    NoPort = NoPort
    NoLabels = NoLabels
    Unfit = Unfit
    Ports <- MCPorts
    DevPorts <- MCDevPorts
    ToDev <- MCToDev
    Labels <- MCLabels
    Edits <- MCEdits
PROPERTY
    RefusedStartKeepsFile
