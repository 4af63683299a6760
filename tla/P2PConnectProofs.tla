-------------------------- MODULE P2PConnectProofs --------------------------
(***************************************************************************)
(* Proofs about the peer-to-peer handshake of federate.c, for every set   *)
(* of connectors, federation ids, expected count and retry limit.  TypeOK *)
(* rests on the two loop counters staying within CONNECT_NUM_RETRIES      *)
(* until a connector exits, and on received_federates staying below the   *)
(* expected number while the acceptor accepts.  AcceptsOnlyOwnFederation  *)
(* is only model-checked: the one-character compare of                    *)
(* connect_to_federates lets a foreign federation with the same initial   *)
(* through, as the p2p_same_initial run shows.                            *)
(***************************************************************************)
EXTENDS P2PConnect, TLAPS

(* Until connector c exits, neither count_tries nor count_retries has     *)
(* passed CONNECT_NUM_RETRIES, and while connect_to_federates accepts,    *)
(* fewer peers than expected have been counted.                           *)
Bounds ==
    /\ \A c \in Connectors :
          cpc[c] # "exit" => tries[c] <= ConnectNumRetries
                             /\ retries[c] <= ConnectNumRetries
    /\ apc = "accepting" => received < Expected

BaseInv == TypeOK /\ Bounds

(* TypeOK without its one Boolean, for the arithmetic provers.            *)
DataOK ==
    /\ cpc \in [Connectors -> CPcs]
    /\ tries \in [Connectors -> 0..ConnectNumRetries + 1]
    /\ retries \in [Connectors -> 0..ConnectNumRetries + 1]
    /\ reply \in [Connectors -> {"none", "ACK", "REJECT"}]
    /\ backlog \in Seq(Connectors)
    /\ apc \in {"accepting", "done"}
    /\ received \in 0..Expected
    /\ recorded \subseteq Connectors

-----------------------------------------------------------------------------
(* Every connector starts querying with no try counted, and the acceptor  *)
(* accepts only if it expects someone.                                    *)
LEMMA InitBaseInv == Init => BaseInv
BY P2PConnectAssumption DEF Init, BaseInv, TypeOK, Bounds, CPcs

(* BaseInv is the Boolean, the data ranges and the bounds.               *)
LEMMA BaseInvParts ==
    /\ BaseInv <=> adKnown \in BOOLEAN /\ DataOK /\ Bounds
    /\ BaseInv' <=> adKnown' \in BOOLEAN /\ DataOK' /\ Bounds'
BY DEF BaseInv, TypeOK, DataOK

(* The data part of the invariant, with no Boolean in it.                 *)
LEMMA BaseInvData == BaseInv => DataOK /\ Bounds
BY DEF BaseInv, TypeOK, DataOK

(* Each connector step changes only its own entries, and keeps them in     *)
(* range and within the retry limit.                                      *)
LEMMA ConnectorBaseInv ==
    ASSUME BaseInv, NEW c \in Connectors,
           QueryAddress(c) \/ QuerySleep(c) \/ Connect(c)
             \/ ConnectSleep(c) \/ ReadReply(c)
    PROVE  BaseInv'
<1>1. CASE QueryAddress(c)
    <2>1. CASE adKnown
        BY <1>1, <2>1 DEF QueryAddress, BaseInv, TypeOK, Bounds, CPcs
    <2>2. CASE ~adKnown
        <3>1. /\ cpc[c] = "query"
              /\ tries' = [tries EXCEPT ![c] = @ + 1]
              /\ cpc' = [cpc EXCEPT ![c] = IF tries[c] >= ConnectNumRetries
                                             THEN "exit" ELSE "query_sleep"]
              /\ UNCHANGED <<adKnown, retries, reply, backlog, apc, received,
                             recorded>>
            BY <1>1, <2>2 DEF QueryAddress
        <3>0. DataOK /\ Bounds /\ ConnectNumRetries \in Nat
            BY BaseInvData, P2PConnectAssumption
        <3>a. tries[c] \in 0..ConnectNumRetries
            BY <3>0, <3>1 DEF DataOK, Bounds
        <3>b. DataOK'
            BY <3>0, <3>1, <3>a DEF DataOK, CPcs
        <3>c. Bounds'
            BY <3>0, <3>1, <3>a DEF DataOK, Bounds
        <3>2. DataOK' /\ Bounds'
            BY <3>b, <3>c
        <3>3. QED
            BY Zenon, <3>1, <3>2, BaseInvParts
    <2>3. QED
        BY <2>1, <2>2
<1>2. CASE QuerySleep(c)
    BY <1>2 DEF QuerySleep, BaseInv, TypeOK, Bounds, CPcs
<1>3. CASE Connect(c)
    <2>1. CASE /\ backlog' = Append(backlog, c)
               /\ cpc' = [cpc EXCEPT ![c] = "await"]
               /\ UNCHANGED retries
        BY <1>3, <2>1 DEF Connect, BaseInv, TypeOK, Bounds, CPcs
    <2>2. CASE /\ retries' = [retries EXCEPT ![c] = @ + 1]
               /\ cpc' = [cpc EXCEPT ![c] = IF retries[c] + 1 > ConnectNumRetries
                                              THEN "exit" ELSE "connect_sleep"]
               /\ UNCHANGED backlog
        <3>1. cpc[c] = "connect" /\ UNCHANGED adKnown
            BY <1>3 DEF Connect
        <3>0. DataOK /\ Bounds /\ ConnectNumRetries \in Nat
            BY BaseInvData, P2PConnectAssumption
        <3>a. retries[c] \in 0..ConnectNumRetries
            BY <3>0, <3>1 DEF DataOK, Bounds
        <3>b. UNCHANGED <<tries, reply, apc, received, recorded>>
            BY <1>3 DEF Connect
        <3>c. DataOK'
            BY <2>2, <3>0, <3>a, <3>b DEF DataOK, CPcs
        <3>d. Bounds'
            BY <2>2, <3>0, <3>1, <3>a, <3>b DEF DataOK, Bounds
        <3>2. DataOK' /\ Bounds'
            BY <3>c, <3>d
        <3>3. QED
            BY Zenon, <3>1, <3>2, BaseInvParts
    <2>3. QED
        BY <1>3, <2>1, <2>2 DEF Connect
<1>4. CASE ConnectSleep(c)
    BY <1>4 DEF ConnectSleep, BaseInv, TypeOK, Bounds, CPcs
<1>5. CASE ReadReply(c)
    BY <1>5 DEF ReadReply, BaseInv, TypeOK, Bounds, CPcs
<1>6. QED
    BY <1>1, <1>2, <1>3, <1>4, <1>5

(* A pass of the accept loop takes the oldest queued connection, answers  *)
(* it, and counts at most up to the expected number.                      *)
LEMMA AcceptBaseInv ==
    ASSUME BaseInv, AcceptConnection
    PROVE  BaseInv'
<1> DEFINE c == Head(backlog)
<1>1. c \in Connectors /\ Tail(backlog) \in Seq(Connectors)
    BY DEF AcceptConnection, BaseInv, TypeOK
<1>2. PICK ok \in FederationIdMatches(FedIdOf[c]) :
          IF ok
            THEN /\ recorded' = recorded \cup {c}
                 /\ reply' = [reply EXCEPT ![c] = "ACK"]
                 /\ received' = received + 1
                 /\ apc' = IF received + 1 < Expected THEN "accepting"
                                                      ELSE "done"
            ELSE /\ reply' = [reply EXCEPT ![c] = "REJECT"]
                 /\ UNCHANGED <<recorded, received, apc>>
    BY DEF AcceptConnection
<1>3. CASE ok
    <2>1. apc = "accepting" /\ UNCHANGED <<adKnown, cpc, tries, retries>>
          /\ backlog' = Tail(backlog)
        BY DEF AcceptConnection
    <2>2. /\ recorded' = recorded \cup {c}
          /\ reply' = [reply EXCEPT ![c] = "ACK"]
          /\ received' = received + 1
          /\ apc' = IF received + 1 < Expected THEN "accepting" ELSE "done"
        BY Zenon, <1>2, <1>3
    <2>3. DataOK' /\ Bounds'
        BY <1>1, <2>1, <2>2, BaseInvData, P2PConnectAssumption
        DEF DataOK, Bounds
    <2>4. QED
        BY Zenon, <2>1, <2>3, BaseInvParts
<1>4. CASE ~ok
    BY <1>1, <1>2, <1>4 DEF AcceptConnection, BaseInv, TypeOK, Bounds
<1>5. QED
    BY <1>3, <1>4

(* Every step of the connectors, the acceptor and the RTI keeps the       *)
(* ranges and the bounds.                                                 *)
LEMMA NextBaseInv == BaseInv /\ [Next]_vars => BaseInv'
<1> SUFFICES ASSUME BaseInv, [Next]_vars PROVE BaseInv'
    OBVIOUS
<1>1. CASE \E c \in Connectors :
              \/ QueryAddress(c) \/ QuerySleep(c) \/ Connect(c)
              \/ ConnectSleep(c) \/ ReadReply(c)
    BY <1>1, ConnectorBaseInv
<1>2. CASE AcceptConnection
    BY <1>2, AcceptBaseInv
<1>3. CASE AddressAdvertised \/ UNCHANGED vars
    BY <1>3 DEF AddressAdvertised, vars, BaseInv, TypeOK, Bounds
<1>4. QED
    BY <1>1, <1>2, <1>3 DEF Next

(* Every counter, place, reply and the listen backlog stay in their       *)
(* ranges, for any connectors, ids, expected number and retry limit.      *)
THEOREM P2PConnectTypeCorrect == Spec => []TypeOK
<1>1. BaseInv => TypeOK
    BY DEF BaseInv
<1>2. QED
    BY InitBaseInv, NextBaseInv, <1>1, PTL DEF Spec

=============================================================================
