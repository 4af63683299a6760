-------------------------- MODULE SocketCloseProofs --------------------------
(***************************************************************************)
(* Proofs about close-on-error in socket_common.c, for every set of       *)
(* handles, threads and descriptors.  The descriptors form any nonempty   *)
(* set of naturals, and the kernel's lowest-free choice is Min of the     *)
(* free ones, so the proofs need the least-number principle (MinFree).    *)
(* NoForeignDescriptor is not proved: with shared handles it fails, as    *)
(* the socket_close_shared run shows.                                     *)
(***************************************************************************)
EXTENDS SocketClose, WellFoundedInduction, TLAPS

-----------------------------------------------------------------------------
(* The less-than relation on the naturals, as a set of pairs.             *)
LessNat == {ss \in Nat \X Nat : ss[1] < ss[2]}

LEMMA LessNatIsOpToRel == OpToRel(<, Nat) = LessNat
BY Zenon DEF OpToRel, LessNat

(* A nonempty set of naturals holds its Min, which is below every member: *)
(* the kernel always has a lowest free descriptor to hand out.            *)
LEMMA MinNat ==
    ASSUME NEW S \in SUBSET Nat, S # {}
    PROVE  Min(S) \in S /\ \A y \in S : Min(S) <= y
<1>1. \E x \in S : \A y \in S : ~(<<y, x>> \in LessNat)
    BY NatLessThanWellFounded, WFMin, LessNatIsOpToRel
<1>2. PICK x \in S : \A y \in S : ~(<<y, x>> \in LessNat)
    BY <1>1
<1>3. \A y \in S : x <= y
    <2> TAKE y \in S
    <2>1. ~(y < x)
        BY Zenon, <1>2 DEF LessNat
    <2>2. QED
        BY <2>1
<1>4. QED
    BY <1>3 DEF Min

(* The descriptor socket() or accept() returns is one the kernel has free. *)
LEMMA MinFree ==
    ASSUME TypeOK, \E f \in Fds : fdOwner[f] = FREE
    PROVE  LET f == Min({g \in Fds : fdOwner[g] = FREE})
           IN  f \in Fds /\ fdOwner[f] = FREE
BY SocketCloseAssumption, MinNat

(* No descriptor is CLOSED, so a handle that holds one is open.           *)
LEMMA ClosedNotFd == CLOSED \notin Fds
BY SocketCloseAssumption DEF CLOSED

-----------------------------------------------------------------------------
(* The connections a process starts with are typed: each open handle     *)
(* holds a descriptor of its own.                                         *)
LEMMA InitTypeOK == Init => TypeOK
BY SocketCloseAssumption, ClosedNotFd DEF Init, TypeOK, FREE, Pcs

(* Every step keeps the handles, owners and places in their ranges,        *)
(* however many threads share a handle.                                   *)
LEMMA NextTypeOK == TypeOK /\ [Next]_vars => TypeOK'
<1> SUFFICES ASSUME TypeOK, [Next]_vars PROVE TypeOK'
    OBVIOUS
<1>1. ASSUME NEW t \in Threads,
             ReadCloseOnError(t) \/ WriteCloseOnError(t) \/ Shutdown(t)
      PROVE  TypeOK'
    BY <1>1 DEF ReadCloseOnError, WriteCloseOnError, Shutdown, TypeOK, Pcs
<1>2. ASSUME NEW t \in Threads, Close(t) PROVE TypeOK'
    BY <1>2, SocketCloseAssumption DEF Close, Cur, TypeOK, Pcs
<1>3. ASSUME NEW t \in Threads, MarkClosed(t) PROVE TypeOK'
    BY <1>3, SocketCloseAssumption DEF MarkClosed, TypeOK, Pcs
<1>4. ASSUME NEW h \in Handles, OpenSocket(h) PROVE TypeOK'
    <2> DEFINE f == Min({g \in Fds : fdOwner[g] = FREE})
    <2>1. f \in Fds /\ fdOwner[f] = FREE
        BY <1>4, MinFree DEF OpenSocket
    <2>2. QED
        BY <1>4, <2>1, SocketCloseAssumption DEF OpenSocket, TypeOK
<1>5. CASE UNCHANGED vars
    BY <1>5 DEF vars, TypeOK
<1>6. QED
    BY <1>1, <1>2, <1>3, <1>4, <1>5 DEF Next

(* Every handle holds -1 or a descriptor, every descriptor is free or     *)
(* belongs to a connection, and every thread is at a statement of the     *)
(* close-on-error functions, whoever shares the handles.                  *)
THEOREM SocketCloseTypeCorrect == Spec => []TypeOK
<1>1. QED
    BY InitTypeOK, NextTypeOK, PTL DEF Spec

=============================================================================
