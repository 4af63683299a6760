------------------------------ MODULE ServerBind ------------------------------
(***************************************************************************)
(* The two server bind loops, running on one host and competing for its   *)
(* ports with each other and with unrelated processes:                    *)
(*  - create_server of federate.c, the federate's P2P server: with        *)
(*    specified_port 0 it starts at STARTING_PORT (when port is 0) and    *)
(*    moves up a port on every failed bind while the port is in           *)
(*    [STARTING_PORT, STARTING_PORT + PORT_RANGE_LIMIT]; a failure it     *)
(*    cannot retry exits;                                                 *)
(*  - set_socket_bind_option of socket_common.c, used by                  *)
(*    create_TCP_server: with specified_port 1 (the RTI) it starts at     *)
(*    DEFAULT_PORT and cycles through [DEFAULT_PORT, DEFAULT_PORT +       *)
(*    MAX_NUM_PORT_ADDRESSES); with 0 it binds port 0 and the kernel picks *)
(*    a free ephemeral port, read back with getsockname; with any other   *)
(*    port it retries that port after a sleep.  At most                   *)
(*    PORT_BIND_RETRY_LIMIT binds in all.                                 *)
(* The host's port table is shared state; a bind takes a free port.       *)
(***************************************************************************)
EXTENDS Naturals

CONSTANTS
    StartingPort,        \* STARTING_PORT of federate.c
    PortRangeLimit,      \* PORT_RANGE_LIMIT
    DefaultPort,         \* DEFAULT_PORT of socket_common.c
    MaxNumPortAddresses, \* MAX_NUM_PORT_ADDRESSES
    PortBindRetryLimit,  \* PORT_BIND_RETRY_LIMIT
    Ports,               \* the host's ports that matter, ephemeral included
    EphemeralPorts,      \* the ports the kernel picks for a bind to port 0
    FedArgs,             \* create_server's (specified_port, port) arguments
    RtiArgs              \* set_socket_bind_option's specified_port values

ASSUME ServerBindAssumption ==
    /\ StartingPort \in Nat \ {0}
    /\ PortRangeLimit \in Nat
    /\ DefaultPort \in Nat \ {0}
    /\ MaxNumPortAddresses \in Nat \ {0}
    /\ PortBindRetryLimit \in Nat \ {0}
    /\ EphemeralPorts \subseteq Ports
    /\ Ports \subseteq Nat
    /\ FedArgs \subseteq Nat \X Nat
    /\ RtiArgs \subseteq Nat

VARIABLES
    owner,      \* owner[p]: "free", "other", "fed" or "rti"
    fpc,        \* create_server: "bind", "listening" or "exit"
    fport,      \*   its port
    fspecified, \*   its specified_port
    rpc,        \* set_socket_bind_option: "bind", "done" or "exit"
    rport,      \*   used_port
    rcount,     \*   count
    rspecified  \*   its specified_port

vars == <<owner, fpc, fport, fspecified, rpc, rport, rcount, rspecified>>

Owners == {"free", "other", "fed", "rti"}

(* bind() to port p succeeds when the port is free (SO_REUSEADDR aside).  *)
Free(p) == p \in Ports /\ owner[p] = "free"

(* The condition of create_server's retry loop, lines 134-137.          *)
FedMayRetry ==
    /\ fspecified = 0
    /\ StartingPort <= fport
    /\ fport <= StartingPort + PortRangeLimit

Init ==
    /\ owner \in [Ports -> {"free", "other"}]
    /\ \E a \in FedArgs :
          /\ fspecified = a[1]
          /\ fport = IF a[2] = 0 THEN StartingPort ELSE a[2]
    /\ fpc = "bind"
    /\ rspecified \in RtiArgs
    /\ rport = IF rspecified = 1 THEN DefaultPort ELSE rspecified
    /\ rcount = 1
    /\ rpc = "bind"

(* One bind() of create_server (lines 128-158): success takes the port    *)
(* and listens; a failure moves to the next port while the loop condition *)
(* holds, and exits otherwise.                                            *)
FedBind ==
    /\ fpc = "bind"
    /\ IF Free(fport)
         THEN /\ owner' = [owner EXCEPT ![fport] = "fed"]
              /\ fpc' = "listening"
              /\ UNCHANGED fport
         ELSE IF FedMayRetry
           THEN /\ fport' = fport + 1
                /\ UNCHANGED <<owner, fpc>>
           ELSE /\ fpc' = "exit"
                /\ UNCHANGED <<owner, fport>>
    /\ UNCHANGED <<fspecified, rpc, rport, rcount, rspecified>>

(* The port set_socket_bind_option binds: port 0 asks the kernel for any  *)
(* free ephemeral port.                                                   *)
BindTargets ==
    IF rspecified = 0 THEN {p \in EphemeralPorts : owner[p] = "free"}
    ELSE IF Free(rport) THEN {rport} ELSE {}

(* Mutant: the wrap test is ">" in place of ">=".                         *)
NextRtiPortWrapLate ==
    IF rspecified = 1
      THEN IF rport + 1 > DefaultPort + MaxNumPortAddresses
             THEN DefaultPort ELSE rport + 1
      ELSE rport

(* The port of the next bind (lines 120-128): the RTI moves up a port and *)
(* wraps to DEFAULT_PORT; any other caller retries the same port.         *)
NextRtiPort ==
    IF rspecified = 1
      THEN IF rport + 1 >= DefaultPort + MaxNumPortAddresses
             THEN DefaultPort ELSE rport + 1
      ELSE rport

(* Mutant: "count++ <= PORT_BIND_RETRY_LIMIT".                            *)
MayRebindInclusive == rcount <= PortBindRetryLimit

(* The loop test "count++ < PORT_BIND_RETRY_LIMIT" of line 119.           *)
MayRebind == rcount < PortBindRetryLimit

(* Mutant: no getsockname; port 0 is reported as the port bound.          *)
ReportedPortNoGetsockname(p) == IF rspecified = 0 THEN 0 ELSE p

(* The port returned for a bind to p (lines 136-146): for port 0 the one  *)
(* getsockname reads back, which is the one the kernel picked.            *)
ReportedPort(p) == p

(* Mutant: "count++" is missing from the loop test.                       *)
RtiBindNoCount ==
    /\ rpc = "bind"
    /\ IF BindTargets # {}
         THEN \E p \in BindTargets :
                 /\ owner' = [owner EXCEPT ![p] = "rti"]
                 /\ rport' = p
                 /\ rpc' = "done"
         ELSE /\ rport' = NextRtiPort
              /\ UNCHANGED <<owner, rpc>>
    /\ UNCHANGED <<fpc, fport, fspecified, rspecified, rcount>>

(* One bind() of set_socket_bind_option (lines 115-135), with the         *)
(* getsockname of lines 138-146 on success for port 0; when the loop test *)
(* "count++ < PORT_BIND_RETRY_LIMIT" fails, lf_print_error_and_exit.      *)
RtiBind ==
    /\ rpc = "bind"
    /\ IF BindTargets # {}
         THEN \E p \in BindTargets :
                 /\ owner' = [owner EXCEPT ![p] = "rti"]
                 /\ rport' = ReportedPort(p)
                 /\ rpc' = "done"
                 /\ UNCHANGED rcount
         ELSE /\ rcount' = rcount + 1
              /\ IF MayRebind
                   THEN /\ rport' = NextRtiPort
                        /\ UNCHANGED rpc
                   ELSE /\ rpc' = "exit"
                        /\ UNCHANGED rport
              /\ UNCHANGED owner
    /\ UNCHANGED <<fpc, fport, fspecified, rspecified>>

(* An unrelated process binds or releases a port.                         *)
OtherBinds(p) ==
    /\ owner[p] = "free"
    /\ owner' = [owner EXCEPT ![p] = "other"]
    /\ UNCHANGED <<fpc, fport, fspecified, rpc, rport, rcount, rspecified>>

OtherReleases(p) ==
    /\ owner[p] = "other"
    /\ owner' = [owner EXCEPT ![p] = "free"]
    /\ UNCHANGED <<fpc, fport, fspecified, rpc, rport, rcount, rspecified>>

(* Both calls have returned or exited.                                    *)
Done ==
    /\ fpc # "bind"
    /\ rpc # "bind"
    /\ UNCHANGED vars

Next ==
    \/ FedBind
    \/ RtiBind
    \/ \E p \in Ports : OtherBinds(p) \/ OtherReleases(p)
    \/ Done

(* Each bind loop runs on a thread of its own process.                    *)
Spec == Init /\ [][Next]_vars /\ WF_vars(FedBind) /\ WF_vars(RtiBind)
-----------------------------------------------------------------------------
TypeOK ==
    /\ owner \in [Ports -> Owners]
    /\ fpc \in {"bind", "listening", "exit"}
    /\ fport \in Nat
    /\ fspecified \in Nat
    /\ rpc \in {"bind", "done", "exit"}
    /\ rport \in Nat
    /\ rcount \in 1..PortBindRetryLimit + 1
    /\ rspecified \in RtiArgs

(* Spec 4.2: the RTI's server (port hint 1) only ever tries, and binds,   *)
(* ports of [DEFAULT_PORT, DEFAULT_PORT + MAX_NUM_PORT_ADDRESSES).        *)
RtiPortInRange ==
    rspecified = 1 =>
        DefaultPort <= rport /\ rport < DefaultPort + MaxNumPortAddresses

(* The port each call reports (create_server's server_port, advertised to *)
(* the RTI; set_socket_bind_option's return value) is the port its socket *)
(* holds in the host's table, whatever other processes bind meanwhile.    *)
ReportedPortBound ==
    /\ fpc = "listening" => fport \in Ports /\ owner[fport] = "fed"
    /\ rpc = "done" => rport \in Ports /\ owner[rport] = "rti"

(* Both calls end, bound or exited, whatever other processes do.          *)
ServersEnd ==
    <>(fpc # "bind" /\ rpc # "bind")

=============================================================================
