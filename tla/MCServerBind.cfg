CONSTANTS
    StartingPort <- MCStartingPort
    PortRangeLimit <- MCPortRangeLimit
    DefaultPort <- MCDefaultPort
    MaxNumPortAddresses <- MCMaxNumPortAddresses
    PortBindRetryLimit <- MCPortBindRetryLimit
    Ports <- MCPorts
    EphemeralPorts <- MCEphemeralPorts
    FedArgs <- MCFedArgs
    RtiArgs <- MCRtiArgs
SPECIFICATION Spec
INVARIANTS
    TypeOK
    RtiPortInRange
    ReportedPortBound
PROPERTIES
    ServersEnd
