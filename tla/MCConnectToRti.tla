---------------------------- MODULE MCConnectToRti ----------------------------
(* A port range of two ports (1..2), the port one past it and one more;   *)
(* the port argument is 0 (cycle), 1 or 3 (given); two retries.          *)
EXTENDS ConnectToRti
MCStartingPort == 1
MCPortRangeLimit == 1
MCConnectNumRetries == 2
MCPorts == 1..4
MCGivenPorts == {0, 1, 3}
(* On each port: nothing, the federation's RTI, another federation's RTI, *)
(* or a process that accepts and closes at once.                          *)
MCServerKinds == {"none", "rti", "foreign", "closer"}
=============================================================================
