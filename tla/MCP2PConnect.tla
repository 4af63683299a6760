---------------------------- MODULE MCP2PConnect ----------------------------
(* Two connectors and an acceptor expecting one peer.  c1 belongs to the acceptor's federation "ab"; c2    *)
(* belongs to another federation: "b" in the first instance, "ac" (same   *)
(* first character) in the second.                                        *)
EXTENDS P2PConnect
CONSTANTS c1, c2
MCConnectors == {c1, c2}
MCOwnFederation == <<"a", "b">>
MCFedIdOf == [c \in MCConnectors |-> IF c = c1 THEN <<"a", "b">> ELSE <<"b">>]
MCFedIdOfSameInitial ==
    [c \in MCConnectors |-> IF c = c1 THEN <<"a", "b">> ELSE <<"a", "c">>]
MCExpected == 1
MCConnectNumRetries == 1
=============================================================================
