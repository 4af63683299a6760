CONSTANTS
    c1 = c1
    c2 = c2
    Connectors <- MCConnectors
    FedIdOf <- MCFedIdOfSameInitial
    OwnFederation <- MCOwnFederation
    Expected <- MCExpected
    ConnectNumRetries <- MCConnectNumRetries
SPECIFICATION Spec
INVARIANT AcceptsOnlyOwnFederation
\* Every connect_to_federate call and the accept loop end (or block in
\* accept() or read() with nobody left to connect): the threads really stop.
CHECK_DEADLOCK FALSE
