---------------------------- MODULE MCServerBind ----------------------------
(* Ports 1..4 of one host: the federate range 1..2 (STARTING_PORT 1,      *)
(* PORT_RANGE_LIMIT 1), the RTI range 1..2 (DEFAULT_PORT 1, two           *)
(* addresses), and 4 as the only ephemeral port.  Three binds at most.    *)
EXTENDS ServerBind
MCStartingPort == 1
MCPortRangeLimit == 1
MCDefaultPort == 1
MCMaxNumPortAddresses == 2
MCPortBindRetryLimit == 3
MCPorts == 1..4
MCEphemeralPorts == {4}
(* create_server(0, 0) cycles; create_server(1, 2) binds port 2 only.     *)
MCFedArgs == {<<0, 0>>, <<1, 2>>}
(* The federate's server (0), the RTI (1), and an explicit port 2.        *)
MCRtiArgs == {0, 1, 2}
=============================================================================
