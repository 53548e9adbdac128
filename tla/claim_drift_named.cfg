\* README.md:34 against one failed drift check.
SPECIFICATION UnattendedSpec
CONSTANTS
    p1 = p1
    p2 = p2
    d1 = d1
    d2 = d2
    dx = dx
    l1 = l1
    NoPort = NoPort
    NoLabels = NoLabels
    Unfit = Unfit
    Ports <- MCPorts
    DevPorts <- MCDevPorts
    ToDev <- MCToDev
    Labels <- MCOneLabel
    Edits <- MCOneEdit
PROPERTY
    DriftNamed
