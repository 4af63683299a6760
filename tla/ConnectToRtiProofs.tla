------------------------- MODULE ConnectToRtiProofs -------------------------
(***************************************************************************)
(* Proofs about the retry loop of connect_to_rti, for every starting port,*)
(* range, retry limit and placement of servers.  TypeOK needs the bound   *)
(* on count_retries while the loop runs.  ConnectedToRtiOrCloser says a  *)
(* process that accepts and closes is the only way the loop can end       *)
(* connected to anything but its RTI: a foreign RTI's REJECT always       *)
(* moves it on.                                                           *)
(***************************************************************************)
EXTENDS ConnectToRti, TLAPS

(* While the loop runs, count_retries has not passed the limit: the pass  *)
(* that passes it exits.                                                  *)
RetryBound ==
    pc \in {"connect", "handshake"} => retries <= ConnectNumRetries

(* FED_ID is only sent on a connection something accepted, and what      *)
(* listens on a port never goes away.                                     *)
HandshakeListening ==
    pc = "handshake" => Listening(port) # "none"

BaseInv == TypeOK /\ RetryBound /\ HandshakeListening

IInv == BaseInv /\ ConnectedToRtiOrCloser

-----------------------------------------------------------------------------
(* connect_to_rti starts with no retry counted and in its connect loop.   *)
LEMMA InitBaseInv == Init => BaseInv
BY ConnectToRtiAssumption
DEF Init, BaseInv, TypeOK, RetryBound, HandshakeListening

(* Every pass of the loop, every handshake and the RTI starting keep the   *)
(* ranges, the retry bound and the listener of a handshake.               *)
LEMMA NextBaseInv == BaseInv /\ [Next]_vars => BaseInv'
<1> SUFFICES ASSUME BaseInv, [Next]_vars PROVE BaseInv'
    OBVIOUS
<1>1. CASE Connect
    BY <1>1, ConnectToRtiAssumption
    DEF Connect, BaseInv, TypeOK, RetryBound, HandshakeListening, Listening
<1>2. CASE Handshake
    BY <1>2, ConnectToRtiAssumption
    DEF Handshake, BaseInv, TypeOK, RetryBound, HandshakeListening
<1>3. CASE RtiStarts
    BY <1>3 DEF RtiStarts, BaseInv, TypeOK, RetryBound, HandshakeListening,
                Listening
<1>4. CASE Done \/ UNCHANGED vars
    BY <1>4 DEF Done, vars, BaseInv, TypeOK, RetryBound, HandshakeListening,
                Listening
<1>5. QED
    BY <1>1, <1>2, <1>3, <1>4 DEF Next

(* A handshake ends connected only on an ACK, which only the federation's *)
(* own RTI sends, or on a byte read from a process that accepted and      *)
(* closed; a REJECT moves the loop on; and the RTI never stops listening. *)
LEMMA NextConnectedToRtiOrCloser ==
    IInv /\ [Next]_vars => ConnectedToRtiOrCloser'
<1> SUFFICES ASSUME IInv, [Next]_vars PROVE ConnectedToRtiOrCloser'
    OBVIOUS
<1>1. CASE Connect
    BY <1>1 DEF Connect, ConnectedToRtiOrCloser
<1>2. CASE Handshake
    <2>1. Listening(port) \in {"rti", "foreign", "closer"}
        BY <1>2, ConnectToRtiAssumption
        DEF IInv, BaseInv, TypeOK, HandshakeListening, Listening, Handshake
    <2>2. CASE Listening(port) = "foreign"
        BY <1>2, <2>2 DEF Handshake, Response, Cause, ConnectedToRtiOrCloser,
                          Listening
    <2>3. CASE Listening(port) \in {"rti", "closer"}
        BY <1>2, <2>3 DEF Handshake, ConnectedToRtiOrCloser, Listening
    <2>4. QED
        BY <2>1, <2>2, <2>3
<1>3. CASE RtiStarts
    BY <1>3 DEF RtiStarts, IInv, ConnectedToRtiOrCloser, Listening
<1>4. CASE Done \/ UNCHANGED vars
    BY <1>4 DEF Done, vars, IInv, ConnectedToRtiOrCloser, Listening
<1>5. QED
    BY <1>1, <1>2, <1>3, <1>4 DEF Next

(* count_retries stays in 0..CONNECT_NUM_RETRIES + 1, the port is a       *)
(* natural number and the loop is at one of its places, for every range   *)
(* and retry limit.                                                       *)
THEOREM ConnectToRtiTypeCorrect == Spec => []TypeOK
<1>1. BaseInv => TypeOK
    BY DEF BaseInv
<1>2. QED
    BY InitBaseInv, NextBaseInv, <1>1, PTL DEF Spec

(* Whatever listens on which port, connect_to_rti never returns connected *)
(* to the RTI of another federation: its REJECT is always honoured, and   *)
(* the only wrong peer the loop can end on is one that accepted and       *)
(* closed, whose missing answer the unchecked read() at line 577 lets     *)
(* through.                                                               *)
THEOREM ConnectedToRtiOrCloserHolds == Spec => []ConnectedToRtiOrCloser
<1>1. Init => IInv
    BY InitBaseInv DEF Init, IInv, ConnectedToRtiOrCloser
<1>2. IInv /\ [Next]_vars => IInv'
    BY NextBaseInv, NextConnectedToRtiOrCloser DEF IInv
<1>3. QED
    BY <1>1, <1>2, PTL DEF Spec, IInv
=============================================================================
