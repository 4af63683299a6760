----------------------------- MODULE SocketClose -----------------------------
(***************************************************************************)
(* Close-on-error of src/core/federated/network/socket_common.c.          *)
(* read_from_socket_close_on_error and write_to_socket_close_on_error     *)
(* take an int* to the variable that holds a connection's descriptor and, *)
(* when the transfer fails, run                                           *)
(*     shutdown( *socket, SHUT_RDWR); close( *socket); *socket = -1;        *)
(* Each of the three statements reads the shared variable afresh and      *)
(* nothing locks it (socket_mutex, declared for this, is never taken).    *)
(* The kernel gives a new socket the lowest free descriptor, so a         *)
(* descriptor closed by one connection can be handed at once to another.  *)
(* A thread is bound to one connection variable (a handle); several       *)
(* threads may share one, as a listener and a sender share the RTI        *)
(* socket.                                                                *)
(***************************************************************************)
EXTENDS Naturals, FiniteSetsExt

CONSTANTS
    Handles,    \* the int variables that hold a connection's descriptor
    Threads,    \* the threads doing I/O through a handle
    HandleOf,   \* HandleOf[t]: the handle thread t passes to the functions
    Readers,    \* the threads that read; the others write
    Fds,        \* the descriptors the kernel may hand out (naturals)
    MaxOpens    \* bound on the sockets opened after the initial ones

ASSUME SocketCloseAssumption ==
    /\ HandleOf \in [Threads -> Handles]
    /\ Readers \subseteq Threads
    /\ Fds \subseteq Nat /\ Fds # {}
    /\ MaxOpens \in Nat

(* The value of *socket for a closed connection.                          *)
CLOSED == -1
(* The owner of a descriptor the kernel has free.                         *)
FREE == "free"

VARIABLES
    sock,     \* sock[h]: the descriptor the variable h holds, or CLOSED
    fdOwner,  \* fdOwner[f]: the connection descriptor f belongs to, or FREE
    pc,       \* pc[t]: idle, or the next statement of a close-on-error
    opens     \* sockets opened so far

vars == <<sock, fdOwner, pc, opens>>

Pcs == {"idle", "shutdown", "close", "mark"}

(* The descriptor thread t reads from its handle.                         *)
Cur(t) == sock[HandleOf[t]]

(* Initially every handle is closed (-1, not connected yet) or holds its  *)
(* own open connection.                                                   *)
Init ==
    /\ sock \in {s \in [Handles -> Fds \cup {CLOSED}] :
                    \A h1, h2 \in Handles :
                        h1 # h2 /\ s[h1] # CLOSED => s[h1] # s[h2]}
    /\ fdOwner = [f \in Fds |-> IF \E h \in Handles : sock[h] = f
                                   THEN CHOOSE h \in Handles : sock[h] = f
                                   ELSE FREE]
    /\ pc = [t \in Threads |-> "idle"]
    /\ opens = 0

(* read_from_socket( *socket, ...) from read_from_socket_close_on_error:   *)
(* -1 at once on a closed handle; otherwise read, which may succeed or    *)
(* fail (an error, EOF, or a descriptor the kernel no longer has open).   *)
ReadCloseOnError(t) ==
    /\ pc[t] = "idle"
    /\ \/ Cur(t) # CLOSED /\ fdOwner[Cur(t)] # FREE /\ UNCHANGED pc
       \/ pc' = [pc EXCEPT ![t] = "shutdown"]
    /\ UNCHANGED <<sock, fdOwner, opens>>

(* write_to_socket( *socket, ...) from write_to_socket_close_on_error:     *)
(* the same outcomes.                                                     *)
WriteCloseOnError(t) ==
    /\ pc[t] = "idle"
    /\ \/ Cur(t) # CLOSED /\ fdOwner[Cur(t)] # FREE /\ UNCHANGED pc
       \/ pc' = [pc EXCEPT ![t] = "shutdown"]
    /\ UNCHANGED <<sock, fdOwner, opens>>

(* shutdown( *socket, SHUT_RDWR): ends the connection but keeps the        *)
(* descriptor allocated.                                                  *)
Shutdown(t) ==
    /\ pc[t] = "shutdown"
    /\ pc' = [pc EXCEPT ![t] = "close"]
    /\ UNCHANGED <<sock, fdOwner, opens>>

(* close( *socket): frees the descriptor the handle holds now, if open.    *)
Close(t) ==
    /\ pc[t] = "close"
    /\ fdOwner' = IF Cur(t) # CLOSED
                    THEN [fdOwner EXCEPT ![Cur(t)] = FREE]
                    ELSE fdOwner
    /\ pc' = [pc EXCEPT ![t] = "mark"]
    /\ UNCHANGED <<sock, opens>>

(* Mutant: the handle is not marked closed after close().                *)
MarkClosedKeep(t) ==
    /\ pc[t] = "mark"
    /\ pc' = [pc EXCEPT ![t] = "idle"]
    /\ UNCHANGED <<sock, fdOwner, opens>>

(* Mutant: the handle is reset to 0 in place of -1.                      *)
MarkClosedZero(t) ==
    /\ pc[t] = "mark"
    /\ sock' = [sock EXCEPT ![HandleOf[t]] = 0]
    /\ pc' = [pc EXCEPT ![t] = "idle"]
    /\ UNCHANGED <<fdOwner, opens>>

(* *socket = -1; return -1.                                               *)
MarkClosed(t) ==
    /\ pc[t] = "mark"
    /\ sock' = [sock EXCEPT ![HandleOf[t]] = CLOSED]
    /\ pc' = [pc EXCEPT ![t] = "idle"]
    /\ UNCHANGED <<fdOwner, opens>>

(* A closed handle is given a new socket (socket() or accept()), which    *)
(* the kernel numbers with the lowest free descriptor.                    *)
OpenSocket(h) ==
    /\ sock[h] = CLOSED
    /\ opens < MaxOpens
    /\ \E f \in Fds : fdOwner[f] = FREE
    /\ LET f == Min({g \in Fds : fdOwner[g] = FREE})
       IN  /\ sock' = [sock EXCEPT ![h] = f]
           /\ fdOwner' = [fdOwner EXCEPT ![f] = h]
    /\ opens' = opens + 1
    /\ UNCHANGED pc

Next ==
    \/ \E t \in Threads :
          \/ t \in Readers /\ ReadCloseOnError(t)
          \/ t \notin Readers /\ WriteCloseOnError(t)
          \/ Shutdown(t) \/ Close(t) \/ MarkClosed(t)
    \/ \E h \in Handles : OpenSocket(h)

Spec == Init /\ [][Next]_vars

-----------------------------------------------------------------------------
(* Every handle holds CLOSED or a descriptor, each descriptor is free or  *)
(* belongs to a handle, and every thread is at a statement of the two     *)
(* functions.                                                             *)
TypeOK ==
    /\ sock \in [Handles -> Fds \cup {CLOSED}]
    /\ fdOwner \in [Fds -> Handles \cup {FREE}]
    /\ pc \in [Threads -> Pcs]
    /\ opens \in 0..MaxOpens

(* Whenever a thread next touches the descriptor in its handle (to read   *)
(* or write it, to shut it down or to close it), that descriptor is its   *)
(* own connection's or free (where the call fails with EBADF and does no  *)
(* harm): close-on-error never reads, writes, shuts down or closes a      *)
(* descriptor the kernel has meanwhile given to another connection.       *)
NoForeignDescriptor ==
    \A t \in Threads :
        pc[t] # "mark" /\ Cur(t) # CLOSED =>
            fdOwner[Cur(t)] \in {HandleOf[t], FREE}
=============================================================================
