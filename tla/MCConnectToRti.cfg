CONSTANTS
    StartingPort <- MCStartingPort
    PortRangeLimit <- MCPortRangeLimit
    ConnectNumRetries <- MCConnectNumRetries
    Ports <- MCPorts
    GivenPorts <- MCGivenPorts
    ServerKinds <- MCServerKinds
SPECIFICATION Spec
INVARIANTS
    TypeOK
    ConnectedToRtiOrCloser
PROPERTIES
    ConnectEnds
