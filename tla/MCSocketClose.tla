---------------------------- MODULE MCSocketClose ----------------------------
(* Three connections, three descriptors and two re-opens; no thread does *)
(* I/O on h3, which only takes descriptors when it connects.  In the first *)
(* instance h1 is read by r1 and h2 written by w2; in the second a reader *)
(* and a writer share h1, as the RTI listener and the main thread share   *)
(* the RTI socket.                                                        *)
EXTENDS SocketClose
CONSTANTS h1, h2, h3, r1, w1, w2
MCHandles == {h1, h2, h3}
MCFds == {3, 4, 5}
MCMaxOpens == 2
MCReaders == {r1}
OneThreadEach == {r1, w2}
OneThreadEachHandleOf == [t \in OneThreadEach |-> IF t = r1 THEN h1 ELSE h2]
Shared == {r1, w1, w2}
SharedHandleOf == [t \in Shared |-> IF t = w2 THEN h2 ELSE h1]
=============================================================================
