----------------------------- MODULE ConnectToRti -----------------------------
(***************************************************************************)
(* connect_to_rti of federate.c: the federate's retry loop that opens its *)
(* TCP connection to the RTI and sends FED_ID.  With no port given it     *)
(* starts at STARTING_PORT and moves up a port on every refused connect   *)
(* while the port is in [STARTING_PORT, STARTING_PORT + PORT_RANGE_LIMIT];*)
(* a connect refused outside that range counts a retry (and goes back to  *)
(* STARTING_PORT from one past the range).  A server that answers FED_ID  *)
(* with REJECT(FEDERATION_ID_DOES_NOT_MATCH or WRONG_SERVER) sends the    *)
(* loop to the next port, uncounted; any other REJECT cause is fatal.     *)
(* What listens on each port is the environment: the right RTI (which may *)
(* start late), the RTI of another federation, or a process that accepts *)
(* and closes at once.                                                    *)
(***************************************************************************)
EXTENDS Naturals

CONSTANTS
    StartingPort,       \* STARTING_PORT
    PortRangeLimit,     \* PORT_RANGE_LIMIT
    ConnectNumRetries,  \* CONNECT_NUM_RETRIES
    Ports,              \* the ports where something may listen
    GivenPorts,         \* values of the port argument (0: none given)
    ServerKinds         \* what may listen on a port

ASSUME ConnectToRtiAssumption ==
    /\ StartingPort \in Nat \ {0}
    /\ PortRangeLimit \in Nat
    /\ ConnectNumRetries \in Nat
    /\ Ports \subseteq Nat
    /\ GivenPorts \subseteq Nat
    /\ ServerKinds \subseteq {"none", "rti", "foreign", "closer"}

(* The response byte FED_ID gets, and the REJECT causes.                  *)
ACK == "ACK"
REJECT == "REJECT"
Causes == {"FEDERATION_ID_DOES_NOT_MATCH", "WRONG_SERVER", "OTHER"}
Bytes == {ACK, REJECT} \cup Causes

VARIABLES
    server,     \* server[p]: what listens on port p once started
    rtiUp,      \* the right RTI has started listening
    port,       \* the local variable port
    specific,   \* specific_port_given
    given,      \* ghost: the port argument
    retries,    \* count_retries
    pc          \* "connect", "handshake", "connected" or "exit"

vars == <<server, rtiUp, port, specific, given, retries, pc>>

LastPort == StartingPort + PortRangeLimit
InRange(p) == StartingPort <= p /\ p <= LastPort

(* What a connect to port p reaches now.                                  *)
Listening(p) ==
    IF p \notin Ports \/ (server[p] = "rti" /\ ~rtiUp) THEN "none"
    ELSE server[p]

(* connect_to_rti(id, hostname, port), lines 477-485.                     *)
Init ==
    /\ server \in [Ports -> ServerKinds]
    /\ rtiUp \in BOOLEAN
    /\ given \in GivenPorts
    /\ specific = (given # 0)
    /\ port = IF given = 0 THEN StartingPort ELSE given
    /\ retries = 0
    /\ pc = "connect"

(* Mutant: count_retries is not incremented.                             *)
ConnectNoCount ==
    /\ pc = "connect"
    /\ IF Listening(port) # "none"
         THEN /\ pc' = "handshake"
              /\ UNCHANGED <<port, retries>>
         ELSE IF ~specific /\ InRange(port)
           THEN /\ port' = port + 1
                /\ UNCHANGED <<retries, pc>>
           ELSE /\ port' = IF ~specific /\ port = LastPort + 1
                             THEN StartingPort ELSE port
                /\ UNCHANGED <<retries, pc>>
    /\ UNCHANGED <<server, rtiUp, specific, given>>

(* Mutant: the retry limit is reported but exit(2) is missing.            *)
ConnectNoExit ==
    /\ pc = "connect"
    /\ IF Listening(port) # "none"
         THEN /\ pc' = "handshake"
              /\ UNCHANGED <<port, retries>>
         ELSE IF ~specific /\ InRange(port)
           THEN /\ port' = port + 1
                /\ UNCHANGED <<retries, pc>>
           ELSE /\ port' = IF ~specific /\ port = LastPort + 1
                             THEN StartingPort ELSE port
                /\ retries' = retries + 1
                /\ UNCHANGED pc
    /\ UNCHANGED <<server, rtiUp, specific, given>>

(* One pass of the loop up to connect(): a new socket, then either the    *)
(* next port of the range (lines 513-526) or, when out of ports or a port *)
(* was given, a counted retry after the sleep (lines 532-550).            *)
Connect ==
    /\ pc = "connect"
    /\ IF Listening(port) # "none"
         THEN /\ pc' = "handshake"
              /\ UNCHANGED <<port, retries>>
         ELSE IF ~specific /\ InRange(port)
           THEN /\ port' = port + 1
                /\ UNCHANGED <<retries, pc>>
           ELSE /\ port' = IF ~specific /\ port = LastPort + 1
                             THEN StartingPort ELSE port
                /\ retries' = retries + 1
                /\ pc' = IF retries + 1 > ConnectNumRetries
                           THEN "exit" ELSE "connect"
    /\ UNCHANGED <<server, rtiUp, specific, given>>

(* The byte read back after FED_ID.  read() is not checked: a peer that   *)
(* closes gives 0 bytes and the uninitialized response may hold anything. *)
Response(kind) ==
    CASE kind = "rti"     -> {ACK}
      [] kind = "foreign" -> {REJECT}
      [] OTHER            -> Bytes

(* The cause byte of a REJECT, equally unchecked.                         *)
Cause(kind) ==
    IF kind = "foreign" THEN {"FEDERATION_ID_DOES_NOT_MATCH"} ELSE Causes

(* Mutant: "result = -1" is missing on the REJECT path, so the loop ends  *)
(* as if connected.                                                       *)
HandshakeKeepResult ==
    /\ pc = "handshake"
    /\ \E r \in Response(Listening(port)) :
          IF r = REJECT
            THEN \E c \in Cause(Listening(port)) :
                   IF c \in {"FEDERATION_ID_DOES_NOT_MATCH", "WRONG_SERVER"}
                     THEN /\ port' = port + 1
                          /\ pc' = "connected"
                     ELSE /\ pc' = "exit"
                          /\ UNCHANGED port
            ELSE /\ pc' = "connected"
                 /\ UNCHANGED port
    /\ UNCHANGED <<server, rtiUp, specific, given, retries>>

(* Lines 551-593: send FED_ID and the federation id, read the response.   *)
Handshake ==
    /\ pc = "handshake"
    /\ \E r \in Response(Listening(port)) :
          IF r = REJECT
            THEN \E c \in Cause(Listening(port)) :
                   IF c \in {"FEDERATION_ID_DOES_NOT_MATCH", "WRONG_SERVER"}
                     THEN /\ port' = port + 1
                          /\ pc' = "connect"
                     ELSE /\ pc' = "exit"
                          /\ UNCHANGED port
            ELSE /\ pc' = "connected"
                 /\ UNCHANGED port
    /\ UNCHANGED <<server, rtiUp, specific, given, retries>>

(* The RTI process starts listening.                                      *)
RtiStarts ==
    /\ ~rtiUp
    /\ rtiUp' = TRUE
    /\ UNCHANGED <<server, port, specific, given, retries, pc>>

(* The loop has returned or the process has exited.                       *)
Done ==
    /\ pc \in {"connected", "exit"}
    /\ UNCHANGED vars

Next == Connect \/ Handshake \/ RtiStarts \/ Done

(* The loop runs on its own thread, which is not blocked by anything but  *)
(* connect, read and a bounded sleep.  Nothing is assumed of the RTI.     *)
Fairness == WF_vars(Connect) /\ WF_vars(Handshake)

Spec == Init /\ [][Next]_vars /\ Fairness
-----------------------------------------------------------------------------
TypeOK ==
    /\ server \in [Ports -> ServerKinds]
    /\ rtiUp \in BOOLEAN
    /\ port \in Nat
    /\ specific \in BOOLEAN
    /\ given \in GivenPorts
    /\ retries \in 0..ConnectNumRetries + 1
    /\ pc \in {"connect", "handshake", "connected", "exit"}

(* connect_to_rti never returns connected to the RTI of another          *)
(* federation, nor to a port where the RTI has not started: it ends       *)
(* connected only to its own RTI, or to a process that accepted and       *)
(* closed without answering, whose missing response byte the unchecked    *)
(* read() of line 577 lets through (any byte, ACK included).              *)
ConnectedToRtiOrCloser ==
    pc = "connected" => Listening(port) \in {"rti", "closer"}

(* The loop ends: the federate is connected or has given up, whatever     *)
(* listens where, after at most CONNECT_NUM_RETRIES counted retries.      *)
ConnectEnds ==
    <>(pc \in {"connected", "exit"})
=============================================================================
