-------------------------- MODULE ServerBindProofs --------------------------
(***************************************************************************)
(* Proofs that the RTI's bind loop never leaves its port range and that   *)
(* both bind loops report the port they hold in the host's table, for     *)
(* every port table, range and retry limit, whatever unrelated processes  *)
(* bind and release.  Both rest on one fact: a bind takes only a free     *)
(* port, so it never takes a port another server holds.                   *)
(***************************************************************************)
EXTENDS ServerBind, TLAPS

(* The type, with the retry count bounded while the loop still binds,    *)
(* and the two properties.                                                *)
IInv ==
    /\ TypeOK
    /\ rpc = "bind" => rcount <= PortBindRetryLimit
    /\ RtiPortInRange
    /\ ReportedPortBound

(* The ports set_socket_bind_option can bind are free ports of the host,  *)
(* and for any port hint but 0 only used_port itself.                     *)
LEMMA BindTargetsProps ==
    ASSUME TypeOK, NEW p \in BindTargets
    PROVE  /\ p \in Ports
           /\ owner[p] = "free"
           /\ rspecified # 0 => p = rport
BY ServerBindAssumption DEF BindTargets, Free, TypeOK

(* The RTI's next port stays in its range (lines 124-127).                *)
LEMMA NextRtiPortInRange ==
    ASSUME TypeOK, RtiPortInRange
    PROVE  /\ NextRtiPort \in Nat
           /\ rspecified = 1 =>
                 /\ DefaultPort <= NextRtiPort
                 /\ NextRtiPort < DefaultPort + MaxNumPortAddresses
BY ServerBindAssumption DEF NextRtiPort, TypeOK, RtiPortInRange

(* Both loops start at their first port, holding nothing.                 *)
LEMMA InitIInv == Init => IInv
BY ServerBindAssumption DEF Init, IInv, TypeOK, Owners, RtiPortInRange,
                            ReportedPortBound

(* Every bind of either loop, and every bind or release of another        *)
(* process, keeps the invariant.                                          *)
LEMMA NextIInv == IInv /\ [Next]_vars => IInv'
<1> SUFFICES ASSUME IInv, [Next]_vars PROVE IInv'
    OBVIOUS
<1> USE ServerBindAssumption
<1>1. CASE UNCHANGED vars
    BY <1>1 DEF IInv, TypeOK, RtiPortInRange, ReportedPortBound, vars
<1>2. CASE FedBind
    <2>1. CASE Free(fport)
        \* the port was free, so it is neither the RTI's nor fport = rport
        \* with rpc = "done"
        BY <1>2, <2>1 DEF FedBind, Free, IInv, TypeOK, Owners,
                          RtiPortInRange, ReportedPortBound
    <2>2. CASE ~Free(fport)
        BY <1>2, <2>2 DEF FedBind, FedMayRetry, IInv, TypeOK,
                          RtiPortInRange, ReportedPortBound
    <2>3. QED
        BY <2>1, <2>2
<1>3. CASE RtiBind
    <2>1. CASE BindTargets # {}
        <3>1. PICK p \in BindTargets :
                 /\ owner' = [owner EXCEPT ![p] = "rti"]
                 /\ rport' = ReportedPort(p)
                 /\ rpc' = "done"
                 /\ UNCHANGED rcount
            BY <1>3, <2>1 DEF RtiBind
        <3>2. /\ p \in Ports
              /\ owner[p] = "free"
              /\ rspecified # 0 => p = rport
            BY BindTargetsProps DEF IInv
        <3>3. QED
            BY <1>3, <3>1, <3>2 DEF RtiBind, ReportedPort, IInv, TypeOK,
                                    Owners, RtiPortInRange, ReportedPortBound
    <2>2. CASE BindTargets = {}
        <3>1. /\ NextRtiPort \in Nat
              /\ rspecified = 1 =>
                    /\ DefaultPort <= NextRtiPort
                    /\ NextRtiPort < DefaultPort + MaxNumPortAddresses
            BY NextRtiPortInRange DEF IInv
        <3>2. QED
            BY <1>3, <2>2, <3>1 DEF RtiBind, MayRebind, IInv, TypeOK,
                                    RtiPortInRange, ReportedPortBound
    <2>3. QED
        BY <2>1, <2>2
<1>4. ASSUME NEW p \in Ports, OtherBinds(p) PROVE IInv'
    BY <1>4 DEF OtherBinds, IInv, TypeOK, Owners, RtiPortInRange,
                ReportedPortBound
<1>5. ASSUME NEW p \in Ports, OtherReleases(p) PROVE IInv'
    BY <1>5 DEF OtherReleases, IInv, TypeOK, Owners, RtiPortInRange,
                ReportedPortBound
<1>6. CASE Done
    BY <1>6 DEF Done, IInv, TypeOK, RtiPortInRange, ReportedPortBound, vars
<1>7. QED
    BY <1>1, <1>2, <1>3, <1>4, <1>5, <1>6 DEF Next

(* Spec 4.2: set_socket_bind_option for the RTI (port hint 1) tries and   *)
(* binds only ports of [DEFAULT_PORT, DEFAULT_PORT +                      *)
(* MAX_NUM_PORT_ADDRESSES), for every range and retry limit.              *)
THEOREM RtiPortInRangeHolds == Spec => []RtiPortInRange
<1>1. IInv => RtiPortInRange
    BY DEF IInv
<1>2. QED
    BY InitIInv, NextIInv, <1>1, PTL DEF Spec

(* create_server's server_port and set_socket_bind_option's return value  *)
(* name the port the caller's socket holds, whatever other processes bind *)
(* and release, for every port table.                                     *)
THEOREM ReportedPortBoundHolds == Spec => []ReportedPortBound
<1>1. IInv => ReportedPortBound
    BY DEF IInv
<1>2. QED
    BY InitIInv, NextIInv, <1>1, PTL DEF Spec

(* The port table, the places and the retry count of both bind loops stay *)
(* in range: set_socket_bind_option counts at most                        *)
(* PORT_BIND_RETRY_LIMIT + 1.                                             *)
THEOREM ServerBindTypeCorrect == Spec => []TypeOK
<1>1. IInv => TypeOK
    BY DEF IInv
<1>2. QED
    BY InitIInv, NextIInv, <1>1, PTL DEF Spec
=============================================================================
