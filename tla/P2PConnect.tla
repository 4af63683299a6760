------------------------------ MODULE P2PConnect ------------------------------
(***************************************************************************)
(* The peer-to-peer handshake of federate.c.  Each connecting federate    *)
(* runs connect_to_federate(id): it asks the RTI for the address of the   *)
(* accepting federate until the RTI knows it (ADDRESS_QUERY, at most      *)
(* CONNECT_NUM_RETRIES replies of -1), then connects, sends               *)
(* P2P_SENDING_FED_ID with its federation id, and reads ACK or REJECT.    *)
(* The accepting federate runs connect_to_federates(expected): it accepts *)
(* connections one at a time, checks the header and the federation id,   *)
(* answers REJECT and closes, or records the socket, answers ACK and      *)
(* counts, until it has counted the expected number.  Connections that    *)
(* have sent their header and wait to be accepted form the listen         *)
(* backlog.  Sleeps are steps of their own: an interrupted nanosleep only *)
(* goes round the loop again.                                             *)
(***************************************************************************)
EXTENDS Naturals, Sequences, FiniteSets

CONSTANTS
    Connectors,         \* the federates that run connect_to_federate
    FedIdOf,            \* FedIdOf[c]: the federation id federate c sends
    OwnFederation,      \* federation_id of the accepting federate
    Expected,           \* expected_number_of_federates
    ConnectNumRetries   \* CONNECT_NUM_RETRIES

ASSUME P2PConnectAssumption ==
    /\ FedIdOf \in [Connectors -> Seq(STRING)]
    /\ OwnFederation \in Seq(STRING)
    /\ Expected \in Nat
    /\ ConnectNumRetries \in Nat

VARIABLES
    adKnown,    \* the RTI has the acceptor's ADDRESS_AD (its port)
    cpc,        \* cpc[c]: where connector c is in connect_to_federate
    tries,      \* tries[c]: count_tries of the address query loop
    retries,    \* retries[c]: count_retries of the connect loop
    reply,      \* reply[c]: the byte waiting on c's socket, or "none"
    backlog,    \* connections accepted by the kernel, not yet by accept()
    apc,        \* "accepting" or "done": connect_to_federates' loop
    received,   \* received_federates
    recorded    \* the connectors whose socket is in federate_sockets

vars == <<adKnown, cpc, tries, retries, reply, backlog, apc, received,
          recorded>>

CPcs == {"query", "query_sleep", "connect", "connect_sleep", "await",
         "connected", "exit"}

(* Mutant: the federation id is not compared at all.                     *)
FederationIdUnchecked(remote) == {TRUE}

(* strncmp(federation_id, remote_federation_id,                           *)
(*         strnlen(federation_id, 255) != 0) == 0 :                       *)
(* the length argument is the truth value of "!= 0", so the compare looks *)
(* at one character, or none when the own id is empty.  A remote id of   *)
(* length 0 leaves the buffer uninitialized: its first byte may be        *)
(* anything, including the right one.  The set of possible outcomes.      *)
FederationIdMatches(remote) ==
    IF Len(OwnFederation) = 0 THEN {TRUE}
    ELSE IF Len(remote) = 0 THEN {TRUE, FALSE}
    ELSE {remote[1] = OwnFederation[1]}

Init ==
    /\ adKnown \in BOOLEAN
    /\ cpc = [c \in Connectors |-> "query"]
    /\ tries = [c \in Connectors |-> 0]
    /\ retries = [c \in Connectors |-> 0]
    /\ reply = [c \in Connectors |-> "none"]
    /\ backlog = <<>>
    /\ apc = IF Expected > 0 THEN "accepting" ELSE "done"
    /\ received = 0
    /\ recorded = {}

(* Mutant: "count_tries++ > CONNECT_NUM_RETRIES" in place of ">=".       *)
QueryAddressOffByOne(c) ==
    /\ cpc[c] = "query"
    /\ IF adKnown
         THEN /\ cpc' = [cpc EXCEPT ![c] = "connect"]
              /\ UNCHANGED tries
         ELSE /\ tries' = [tries EXCEPT ![c] = @ + 1]
              /\ cpc' = [cpc EXCEPT ![c] = IF tries[c] > ConnectNumRetries
                                             THEN "exit" ELSE "query_sleep"]
    /\ UNCHANGED <<adKnown, retries, reply, backlog, apc, received, recorded>>

(* One ADDRESS_QUERY and its reply (lines 349-373): a port ends the loop; *)
(* -1 exits once count_tries has reached CONNECT_NUM_RETRIES, and         *)
(* otherwise sleeps.                                                      *)
QueryAddress(c) ==
    /\ cpc[c] = "query"
    /\ IF adKnown
         THEN /\ cpc' = [cpc EXCEPT ![c] = "connect"]
              /\ UNCHANGED tries
         ELSE /\ tries' = [tries EXCEPT ![c] = @ + 1]
              /\ cpc' = [cpc EXCEPT ![c] = IF tries[c] >= ConnectNumRetries
                                             THEN "exit" ELSE "query_sleep"]
    /\ UNCHANGED <<adKnown, retries, reply, backlog, apc, received, recorded>>

(* nanosleep of line 376; interrupted or not, the loop goes on.           *)
QuerySleep(c) ==
    /\ cpc[c] = "query_sleep"
    /\ cpc' = [cpc EXCEPT ![c] = "query"]
    /\ UNCHANGED <<adKnown, tries, retries, reply, backlog, apc, received,
                   recorded>>

(* Mutant: a failed connect is not counted.                              *)
ConnectNoCount(c) ==
    /\ cpc[c] = "connect"
    /\ \/ /\ backlog' = Append(backlog, c)
          /\ cpc' = [cpc EXCEPT ![c] = "await"]
       \/ /\ cpc' = [cpc EXCEPT ![c] = "connect_sleep"]
          /\ UNCHANGED backlog
    /\ UNCHANGED <<adKnown, tries, retries, reply, apc, received, recorded>>

(* A new socket and connect() (lines 392-415).  The acceptor has listened *)
(* since before its ADDRESS_AD, so the kernel queues the connection and   *)
(* the header and federation id are written (lines 439-446); or connect   *)
(* fails, which counts a retry and exits past CONNECT_NUM_RETRIES.        *)
Connect(c) ==
    /\ cpc[c] = "connect"
    /\ \/ /\ backlog' = Append(backlog, c)
          /\ cpc' = [cpc EXCEPT ![c] = "await"]
          /\ UNCHANGED retries
       \/ /\ retries' = [retries EXCEPT ![c] = @ + 1]
          /\ cpc' = [cpc EXCEPT ![c] = IF retries[c] + 1 > ConnectNumRetries
                                         THEN "exit" ELSE "connect_sleep"]
          /\ UNCHANGED backlog
    /\ UNCHANGED <<adKnown, tries, reply, apc, received, recorded>>

(* nanosleep of line 434.                                                 *)
ConnectSleep(c) ==
    /\ cpc[c] = "connect_sleep"
    /\ cpc' = [cpc EXCEPT ![c] = "connect"]
    /\ UNCHANGED <<adKnown, tries, retries, reply, backlog, apc, received,
                   recorded>>

(* Lines 448-457: read one byte; anything but ACK is a REJECT whose cause *)
(* is read and the loop goes round again with result = -1, uncounted.     *)
ReadReply(c) ==
    /\ cpc[c] = "await"
    /\ reply[c] # "none"
    /\ cpc' = [cpc EXCEPT ![c] = IF reply[c] = "ACK" THEN "connected"
                                                      ELSE "connect"]
    /\ reply' = [reply EXCEPT ![c] = "none"]
    /\ UNCHANGED <<adKnown, tries, retries, backlog, apc, received, recorded>>

(* One pass of connect_to_federates' loop (lines 263-321) on the oldest   *)
(* queued connection: the header is P2P_SENDING_FED_ID (connectors always *)
(* send it); the federation id is compared; REJECT and close, or record,  *)
(* ACK and count.                                                         *)
AcceptConnection ==
    /\ apc = "accepting"
    /\ backlog # <<>>
    /\ LET c == Head(backlog) IN
       \E ok \in FederationIdMatches(FedIdOf[c]) :
          IF ok
            THEN /\ recorded' = recorded \cup {c}
                 /\ reply' = [reply EXCEPT ![c] = "ACK"]
                 /\ received' = received + 1
                 /\ apc' = IF received + 1 < Expected THEN "accepting"
                                                      ELSE "done"
            ELSE /\ reply' = [reply EXCEPT ![c] = "REJECT"]
                 /\ UNCHANGED <<recorded, received, apc>>
    /\ backlog' = Tail(backlog)
    /\ UNCHANGED <<adKnown, cpc, tries, retries>>

(* The RTI receives the acceptor's ADDRESS_AD (sent by create_server).    *)
AddressAdvertised ==
    /\ ~adKnown
    /\ adKnown' = TRUE
    /\ UNCHANGED <<cpc, tries, retries, reply, backlog, apc, received,
                   recorded>>

Next ==
    \/ \E c \in Connectors :
          \/ QueryAddress(c) \/ QuerySleep(c) \/ Connect(c)
          \/ ConnectSleep(c) \/ ReadReply(c)
    \/ AcceptConnection
    \/ AddressAdvertised

(* Every thread runs: each connector's steps and the acceptor's loop.     *)
(* Nothing is assumed of the RTI or of connect()'s outcome.               *)
Fairness ==
    /\ \A c \in Connectors :
          /\ WF_vars(QueryAddress(c)) /\ WF_vars(QuerySleep(c))
          /\ WF_vars(Connect(c)) /\ WF_vars(ConnectSleep(c))
          /\ WF_vars(ReadReply(c))
    /\ WF_vars(AcceptConnection)

Spec == Init /\ [][Next]_vars /\ Fairness
-----------------------------------------------------------------------------
TypeOK ==
    /\ adKnown \in BOOLEAN
    /\ cpc \in [Connectors -> CPcs]
    /\ tries \in [Connectors -> 0..ConnectNumRetries + 1]
    /\ retries \in [Connectors -> 0..ConnectNumRetries + 1]
    /\ reply \in [Connectors -> {"none", "ACK", "REJECT"}]
    /\ backlog \in Seq(Connectors)
    /\ apc \in {"accepting", "done"}
    /\ received \in 0..Expected
    /\ recorded \subseteq Connectors

(* Spec 4.3 step 2: the accepting federate records (and ACKs) a peer      *)
(* socket only if the peer's federation id is its own.                    *)
AcceptsOnlyOwnFederation ==
    \A c \in recorded : FedIdOf[c] = OwnFederation

(* Every federate of the acceptor's own federation finishes               *)
(* connect_to_federate, connected or exited, whatever the others do.      *)
OwnConnectorsEnd ==
    \A c \in Connectors :
        FedIdOf[c] = OwnFederation => <>(cpc[c] \in {"connected", "exit"})

=============================================================================
