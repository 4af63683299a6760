--------------------- MODULE FederateCoordinationProofs ---------------------
(***************************************************************************)
(* Machine-checked proofs about FederateCoordination, for every value of   *)
(* MaxTime, MaxPhysical and MaxMessages allowed by ConstantsAssumption.    *)
(***************************************************************************)
EXTENDS FederateCoordination, WellFoundedInduction, TLAPS

(* A non-empty set of naturals has a least element: the element Min picks. *)
LEMMA MinExists ==
  ASSUME NEW S \in SUBSET Nat, S # {}
  PROVE  \E x \in S : \A y \in S : x <= y
<1>1. PICK x \in S : \A y \in S : ~ (<<y, x>> \in OpToRel(<, Nat))
  BY NatLessThanWellFounded, WFMin
<1>2. ASSUME NEW y \in S PROVE x <= y
  <2>1. y < x => <<y, x>> \in OpToRel(<, Nat)
    BY DEF OpToRel
  <2>2. ~(y < x)
    BY <1>1, <2>1, Zenon
  <2>3. QED
    BY <2>2
<1>3. QED
  BY <1>2

(* pqueue_peek on a queue of tags in Times: HeadTime is a tag, at most    *)
(* every queued tag, and it is queued unless the queue is empty.          *)
LEMMA HeadTimeProps ==
  ASSUME eventQ \subseteq Times
  PROVE  /\ HeadTime \in Tags
         /\ \A e \in eventQ : HeadTime <= e
         /\ eventQ # {} => HeadTime \in eventQ
<1>1. CASE eventQ = {}
  BY <1>1, ConstantsAssumption DEF HeadTime, Tags
<1>2. CASE eventQ # {}
  <2>1. eventQ \in SUBSET Nat /\ eventQ # {}
    BY <1>2 DEF Times
  <2>2. \E x \in eventQ : \A y \in eventQ : x <= y
    BY <2>1, MinExists
  <2>3. Min(eventQ) \in eventQ /\ \A y \in eventQ : Min(eventQ) <= y
    BY <2>2 DEF Min
  <2>4. QED
    BY <1>2, <2>3 DEF HeadTime, Tags
<1>3. QED
  BY <1>1, <1>2

-----------------------------------------------------------------------------
(* A woken main thread that finds __tag_pending cleared returns __tag, so *)
(* __tag must by then hold a grant (not NEVER): only a TAG clears the     *)
(* pending flag of a wait.                                                 *)
GrantKnown == mainPc = "woken" /\ ~tagPending => tag \in Tags

(* The inductive invariant: NoLostWakeup and GrantKnown on top of the     *)
(* types.  GrantKnown is needed for the type of LOGICAL_TIME_COMPLETE     *)
(* sent after a wait; NoLostWakeup is needed for GrantKnown (a broadcast  *)
(* wakes a thread that is still pending).                                  *)
IInv == TypeOK /\ NoLostWakeup /\ GrantKnown

LEMMA InitIInv == Init => IInv
<1> SUFFICES ASSUME Init PROVE IInv
  OBVIOUS
<1>1. /\ tagPending \in BOOLEAN /\ stopRequested \in BOOLEAN
      /\ hasUpstream \in BOOLEAN /\ hasDownstream \in BOOLEAN
  BY Zenon DEF Init
<1>2. /\ currentTime \in Tags /\ tag \in Tags \cup {NEVER}
      /\ waitTime \in Tags /\ upNext \in Tags
      /\ rtiNet \in Tags \cup {NEVER} /\ rtiTag \in Tags \cup {NEVER}
  BY ConstantsAssumption DEF Init, Tags, Times, NEVER, FOREVER
<1>3. /\ eventQ \subseteq Times
      /\ toRti \in Seq(ToRtiMsgs) /\ fromRti \in Seq(FromRtiMsgs)
      /\ mainPc \in {"idle", "waiting", "woken", "done"}
      /\ physCount \in 0..MaxPhysical /\ msgCount \in 0..MaxMessages
  BY ConstantsAssumption DEF Init, Times
<1>4. NoLostWakeup /\ GrantKnown
  BY DEF Init, NoLostWakeup, GrantKnown
<1>5. QED
  BY <1>1, <1>2, <1>3, <1>4 DEF IInv, TypeOK

(* The messages the federate and the environment put on the two sockets  *)
(* are of the socket's message type, and the fields read back are typed.  *)
LEMMA ToRtiMsgType ==
  ASSUME NEW ty \in {"NET", "LTC", "STOP"}, NEW t \in Tags
  PROVE  Msg(ty, t) \in ToRtiMsgs
BY DEF ToRtiMsgs

LEMMA FromRtiMsgType ==
  ASSUME NEW ty \in {"TAG", "STOP"}, NEW t \in Tags
  PROVE  Msg(ty, t) \in FromRtiMsgs
BY DEF FromRtiMsgs

LEMMA DataMsgType ==
  ASSUME NEW ty \in {"MESSAGE", "TIMED_MESSAGE"}, NEW t \in Times,
         NEW d \in {Me, Other}
  PROVE  DataMsg(ty, t, d) \in FromRtiMsgs
BY DEF FromRtiMsgs

LEMMA FromRtiFields ==
  ASSUME NEW m \in FromRtiMsgs
  PROVE  /\ m.type \in {"TAG", "STOP"} => m.time \in Tags
         /\ m.type \in {"MESSAGE", "TIMED_MESSAGE"} => m.time \in Times
BY DEF FromRtiMsgs, Msg, DataMsg

LEMMA ToRtiFields ==
  ASSUME NEW m \in ToRtiMsgs
  PROVE  m.time \in Tags /\ m.type \in {"NET", "LTC", "STOP"}
BY DEF ToRtiMsgs, Msg

(* __logical_time_complete sends at most one well-typed LTC.              *)
LEMMA LTCType ==
  ASSUME NEW r \in Tags
  PROVE  LogicalTimeComplete(r) \in Seq(ToRtiMsgs)
BY ToRtiMsgType DEF LogicalTimeComplete

(* The type invariant split into its Boolean flags, left to Zenon, and  *)
(* its data, left to SMT.                                                  *)
TypeBool ==
    /\ tagPending \in BOOLEAN
    /\ stopRequested \in BOOLEAN
    /\ hasUpstream \in BOOLEAN
    /\ hasDownstream \in BOOLEAN
TypeData ==
    /\ currentTime \in Tags
    /\ eventQ \subseteq Times
    /\ tag \in Tags \cup {NEVER}
    /\ mainPc \in {"idle", "waiting", "woken", "done"}
    /\ waitTime \in Tags
    /\ toRti \in Seq(ToRtiMsgs)
    /\ fromRti \in Seq(FromRtiMsgs)
    /\ rtiNet \in Tags \cup {NEVER}
    /\ rtiTag \in Tags \cup {NEVER}
    /\ upNext \in Tags
    /\ physCount \in 0..MaxPhysical
    /\ msgCount \in 0..MaxMessages

LEMMA TypeSplit == TypeOK <=> TypeBool /\ TypeData
BY DEF TypeOK, TypeBool, TypeData

(* AdvanceTo keeps the scheduler's state and its socket typed.           *)
LEMMA AdvanceToType ==
  ASSUME TypeData, NEW r \in Tags, NEW sent \in Seq(ToRtiMsgs),
         AdvanceTo(r, sent)
  PROVE  /\ currentTime' \in Tags
         /\ eventQ' \subseteq Times
         /\ toRti' \in Seq(ToRtiMsgs)
         /\ mainPc' \in {"idle", "waiting", "woken", "done"}
<1>1. LogicalTimeComplete(r) \in Seq(ToRtiMsgs)
  BY LTCType
<1>2. QED
  BY <1>1 DEF AdvanceTo, TypeData

LEMMA NextIInv == IInv /\ [Next]_vars => IInv'
<1> SUFFICES ASSUME IInv, [Next]_vars PROVE IInv'
  OBVIOUS
<1> USE ConstantsAssumption
<1>0. /\ HeadTime \in Tags
      /\ \A e \in eventQ : HeadTime <= e
      /\ eventQ # {} => HeadTime \in eventQ
  BY HeadTimeProps DEF IInv, TypeOK
<1> USE DEF IInv, NoLostWakeup, GrantKnown, Tags, Times, NEVER, FOREVER,
           fedVars, envVars
<1>a. TypeBool /\ TypeData
  BY TypeSplit
<1>1. CASE NextEventTime
  <2> DEFINE t == HeadTime
  <2>0. /\ mainPc = "idle"
        /\ UNCHANGED <<tag, stopRequested, hasUpstream, hasDownstream, fromRti,
                       envVars>>
    BY <1>1 DEF NextEventTime
  <2>1. TypeBool'
    BY <1>a, <1>1, Zenon DEF NextEventTime, TypeBool
  <2>2. CASE \/ AdvanceTo(t, <<>>)
             \/ /\ AdvanceTo(t, <<Msg("NET", t)>>)
        /\ UNCHANGED <<tagPending, waitTime>>
    <3>1. <<Msg("NET", t)>> \in Seq(ToRtiMsgs) /\ <<>> \in Seq(ToRtiMsgs)
      BY <1>0, ToRtiMsgType
    <3>2. /\ currentTime' \in Tags
          /\ eventQ' \subseteq Times
          /\ toRti' \in Seq(ToRtiMsgs)
          /\ mainPc' \in {"idle", "done"}
      BY <2>2, <3>1, <1>0, <1>a, AdvanceToType DEF TypeData, AdvanceTo
    <3>3. QED
      BY <2>0, <2>1, <3>2, <2>2, <1>a DEF TypeData, TypeOK
  <2>3. CASE /\ toRti' = Append(toRti, Msg("NET", t))
             /\ tagPending' = TRUE
             /\ waitTime' = t
             /\ mainPc' = "waiting"
             /\ UNCHANGED <<currentTime, eventQ>>
    <3>1. Msg("NET", t) \in ToRtiMsgs
      BY <1>0, ToRtiMsgType
    <3>2. TypeData'
      BY <2>0, <2>3, <3>1, <1>0, <1>a DEF TypeData
    <3>3. NoLostWakeup'
      BY <2>3, <1>0
    <3>4. QED
      BY <2>1, <3>2, <3>3, <2>3 DEF TypeOK, TypeBool, TypeData
  <2>4. QED
    BY <1>1, <2>2, <2>3 DEF NextEventTime
<1>2. CASE SpuriousWakeup
  <2>1. TypeBool'
    BY <1>a, <1>2, Zenon DEF SpuriousWakeup, TypeBool
  <2>2. TypeData'
    BY <1>a, <1>2 DEF SpuriousWakeup, TypeData
  <2>3. NoLostWakeup' /\ GrantKnown'
    BY <1>a, <1>2 DEF SpuriousWakeup, TypeData
  <2>4. QED
    BY <2>1, <2>2, <2>3 DEF TypeOK, TypeBool, TypeData
<1>3. CASE WaitReturns
  <2>0. /\ mainPc = "woken"
        /\ UNCHANGED <<tag, tagPending, stopRequested, hasUpstream,
                       hasDownstream, waitTime, fromRti, envVars>>
    BY <1>3 DEF WaitReturns
  <2>1. TypeBool'
    BY <1>a, <1>3, Zenon DEF WaitReturns, TypeBool
  <2>2. <<>> \in Seq(ToRtiMsgs)
    OBVIOUS
  <2>3. CASE ~tagPending /\ AdvanceTo(tag, <<>>)
    <3>1. tag \in Tags
      BY <2>0, <2>3
    <3>2. /\ currentTime' \in Tags
          /\ eventQ' \subseteq Times
          /\ toRti' \in Seq(ToRtiMsgs)
          /\ mainPc' \in {"idle", "done"}
      BY <2>3, <3>1, <2>2, <1>a, AdvanceToType DEF TypeData, AdvanceTo
    <3>3. QED
      BY <2>0, <2>1, <3>2, <1>a DEF TypeData, TypeOK
  <2>4. CASE tagPending /\ AdvanceTo(HeadTime, <<>>)
    <3>2. /\ currentTime' \in Tags
          /\ eventQ' \subseteq Times
          /\ toRti' \in Seq(ToRtiMsgs)
          /\ mainPc' \in {"idle", "done"}
      BY <2>4, <1>0, <2>2, <1>a, AdvanceToType DEF TypeData, AdvanceTo
    <3>3. QED
      BY <2>0, <2>1, <3>2, <1>a DEF TypeData, TypeOK
  <2>5. CASE /\ tagPending
             /\ HeadTime >= waitTime
             /\ mainPc' = "waiting"
             /\ UNCHANGED <<currentTime, eventQ, toRti>>
    <3>1. TypeData'
      BY <2>0, <2>5, <1>a DEF TypeData
    <3>2. NoLostWakeup'
      BY <2>0, <2>5, <1>0, <1>a DEF TypeData
    <3>3. QED
      BY <2>1, <3>1, <3>2, <2>5 DEF TypeOK, TypeBool, TypeData
  <2>6. QED
    BY <1>3, <2>3, <2>4, <2>5 DEF WaitReturns
<1>4. CASE SchedulerStop
  <2>1. TypeBool'
    BY <1>a, <1>4, Zenon DEF SchedulerStop, TypeBool
  <2>2. TypeData'
    BY <1>a, <1>4 DEF SchedulerStop, TypeData
  <2>3. NoLostWakeup' /\ GrantKnown'
    BY <1>a, <1>4 DEF SchedulerStop, TypeData
  <2>4. QED
    BY <2>1, <2>2, <2>3 DEF TypeOK, TypeBool, TypeData
<1>5. CASE BroadcastStop
  <2>1. TypeBool'
    BY <1>a, <1>5, Zenon DEF BroadcastStop, TypeBool
  <2>2. TypeData'
    BY ToRtiMsgType, <1>a, <1>5 DEF BroadcastStop, TypeData
  <2>3. NoLostWakeup' /\ GrantKnown'
    BY ToRtiMsgType, <1>a, <1>5 DEF BroadcastStop, TypeData
  <2>4. QED
    BY <2>1, <2>2, <2>3 DEF TypeOK, TypeBool, TypeData
<1>6. CASE HandleTimeAdvanceGrant
  <2>1. TypeBool'
    BY <1>a, <1>6, Zenon DEF HandleTimeAdvanceGrant, Broadcast, TypeBool
  <2>2. TypeData'
    BY FromRtiFields, <1>a, <1>6 DEF HandleTimeAdvanceGrant, Broadcast, TypeData
  <2>3. NoLostWakeup' /\ GrantKnown'
    BY FromRtiFields, <1>a, <1>6 DEF HandleTimeAdvanceGrant, Broadcast, TypeData
  <2>4. QED
    BY <2>1, <2>2, <2>3 DEF TypeOK, TypeBool, TypeData
<1>7. CASE HandleIncomingStopMessage
  <2>1. TypeBool'
    BY <1>a, <1>7, Zenon DEF HandleIncomingStopMessage, Broadcast, TypeBool
  <2>2. TypeData'
    BY <1>a, <1>7 DEF HandleIncomingStopMessage, Broadcast, TypeData
  <2>3. NoLostWakeup' /\ GrantKnown'
    BY <1>a, <1>7 DEF HandleIncomingStopMessage, Broadcast, TypeData
  <2>4. QED
    BY <2>1, <2>2, <2>3 DEF TypeOK, TypeBool, TypeData
<1>8. CASE HandleTimedMessage
  <2>1. TypeBool'
    BY <1>a, <1>8, Zenon DEF HandleTimedMessage, Broadcast, TypeBool
  <2>2. TypeData'
    <3>1. Head(fromRti) \in FromRtiMsgs
      BY <1>a, <1>8 DEF HandleTimedMessage, TypeData
    <3>2. Head(fromRti).time \in Times
      BY <3>1, <1>8, FromRtiFields DEF HandleTimedMessage
    <3>3. eventQ' \subseteq Times
      BY <3>2, <1>a, <1>8 DEF HandleTimedMessage, TypeData
    <3>4. mainPc' \in {"idle", "waiting", "woken", "done"}
      BY <1>a, <1>8 DEF HandleTimedMessage, Broadcast, TypeData
    <3>5. fromRti' \in Seq(FromRtiMsgs)
      BY <1>a, <1>8 DEF HandleTimedMessage, TypeData
    <3>6. QED
      BY <3>3, <3>4, <3>5, <1>a, <1>8 DEF HandleTimedMessage, TypeData
  <2>3. NoLostWakeup' /\ GrantKnown'
    BY FromRtiFields, <1>a, <1>8 DEF HandleTimedMessage, Broadcast, TypeData
  <2>4. QED
    BY <2>1, <2>2, <2>3 DEF TypeOK, TypeBool, TypeData
<1>9. CASE HandleMessage
  <2>1. TypeBool'
    BY <1>a, <1>9, Zenon DEF HandleMessage, Broadcast, PhysicalTags, TypeBool
  <2>2. TypeData'
    <3>1. eventQ' \subseteq Times
      BY <1>a, <1>9 DEF HandleMessage, TypeData
    <3>2. mainPc' \in {"idle", "waiting", "woken", "done"}
      BY <1>a, <1>9 DEF HandleMessage, Broadcast, TypeData
    <3>3. QED
      BY <3>1, <3>2, <1>a, <1>9 DEF HandleMessage, TypeData
  <2>3. NoLostWakeup' /\ GrantKnown'
    BY <1>a, <1>9 DEF HandleMessage, Broadcast, PhysicalTags, TypeData
  <2>4. QED
    BY <2>1, <2>2, <2>3 DEF TypeOK, TypeBool, TypeData
<1>10. CASE SchedulePhysicalAction
  <2>1. TypeBool'
    BY <1>a, <1>10, Zenon DEF SchedulePhysicalAction, Broadcast, PhysicalTags, TypeBool
  <2>2. TypeData'
    BY <1>a, <1>10 DEF SchedulePhysicalAction, Broadcast, PhysicalTags, TypeData
  <2>3. NoLostWakeup' /\ GrantKnown'
    BY <1>a, <1>10 DEF SchedulePhysicalAction, Broadcast, PhysicalTags, TypeData
  <2>4. QED
    BY <2>1, <2>2, <2>3 DEF TypeOK, TypeBool, TypeData
<1>11. CASE RtiReceive
  <2>1. TypeBool'
    BY <1>a, <1>11, Zenon DEF RtiReceive, TypeBool
  <2>2. TypeData'
    BY ToRtiFields, <1>a, <1>11 DEF RtiReceive, TypeData
  <2>3. NoLostWakeup' /\ GrantKnown'
    BY <1>11 DEF RtiReceive
  <2>4. QED
    BY <2>1, <2>2, <2>3 DEF TypeOK, TypeBool, TypeData
<1>12. CASE RtiGrant
  <2>1. TypeBool'
    BY <1>a, <1>12, Zenon DEF RtiGrant, TypeBool
  <2>2. TypeData'
    BY FromRtiMsgType, <1>a, <1>12 DEF RtiGrant, TypeData
  <2>3. NoLostWakeup' /\ GrantKnown'
    BY FromRtiMsgType, <1>a, <1>12 DEF RtiGrant, TypeData
  <2>4. QED
    BY <2>1, <2>2, <2>3 DEF TypeOK, TypeBool, TypeData
<1>13. CASE UpstreamSend
  <2>1. TypeBool'
    BY <1>a, <1>13, Zenon DEF UpstreamSend, TypeBool
  <2>2. TypeData'
    <3>1. upNext..MaxTime \subseteq Times
      BY <1>a DEF TypeData
    <3>2. fromRti' \in Seq(FromRtiMsgs)
      <4>1. CASE \E ts \in upNext..MaxTime :
                   fromRti' = Append(fromRti, DataMsg("TIMED_MESSAGE", ts, Me))
        <5>1. PICK ts \in upNext..MaxTime :
                fromRti' = Append(fromRti, DataMsg("TIMED_MESSAGE", ts, Me))
          BY <4>1
        <5>2. DataMsg("TIMED_MESSAGE", ts, Me) \in FromRtiMsgs
          BY <3>1, DataMsgType
        <5>3. QED
          BY <5>1, <5>2, <1>a DEF TypeData
      <4>2. CASE \E d \in {Me, Other} :
                   fromRti' = Append(fromRti, DataMsg("MESSAGE", 0, d))
        <5>1. PICK d \in {Me, Other} :
                fromRti' = Append(fromRti, DataMsg("MESSAGE", 0, d))
          BY <4>2
        <5>2. DataMsg("MESSAGE", 0, d) \in FromRtiMsgs
          BY DataMsgType
        <5>3. QED
          BY <5>1, <5>2, <1>a DEF TypeData
      <4>3. QED
        BY <4>1, <4>2, <1>13 DEF UpstreamSend
    <3>3. QED
      BY <3>2, <1>a, <1>13 DEF UpstreamSend, TypeData
  <2>3. NoLostWakeup' /\ GrantKnown'
    BY DataMsgType, <1>a, <1>13 DEF UpstreamSend, TypeData
  <2>4. QED
    BY <2>1, <2>2, <2>3 DEF TypeOK, TypeBool, TypeData
<1>14. CASE RtiRelayStop
  <2>1. TypeBool'
    BY <1>a, <1>14, Zenon DEF RtiRelayStop, TypeBool
  <2>2. TypeData'
    <3>1. PICK t \in Times : fromRti' = Append(fromRti, Msg("STOP", t))
      BY <1>14 DEF RtiRelayStop
    <3>2. Msg("STOP", t) \in FromRtiMsgs
      BY FromRtiMsgType
    <3>3. QED
      BY <3>1, <3>2, <1>a, <1>14 DEF RtiRelayStop, TypeData
  <2>3. NoLostWakeup' /\ GrantKnown'
    BY <1>14 DEF RtiRelayStop
  <2>4. QED
    BY <2>1, <2>2, <2>3 DEF TypeOK, TypeBool, TypeData
<1>15. CASE UpstreamAdvance
  <2>1. TypeBool'
    BY <1>a, <1>15, Zenon DEF UpstreamAdvance, TypeBool
  <2>2. TypeData'
    BY <1>a, <1>15 DEF UpstreamAdvance, TypeData
  <2>3. NoLostWakeup' /\ GrantKnown'
    BY <1>a, <1>15 DEF UpstreamAdvance, TypeData
  <2>4. QED
    BY <2>1, <2>2, <2>3 DEF TypeOK, TypeBool, TypeData
<1>16. CASE Terminated
  <2>1. TypeBool'
    BY <1>a, <1>16, Zenon DEF Terminated, vars, TypeBool
  <2>2. TypeData'
    BY <1>a, <1>16 DEF Terminated, vars, TypeData
  <2>3. NoLostWakeup' /\ GrantKnown'
    BY <1>a, <1>16 DEF Terminated, vars, TypeData
  <2>4. QED
    BY <2>1, <2>2, <2>3 DEF TypeOK, TypeBool, TypeData
<1>17. CASE UNCHANGED vars
  BY <1>17, <1>a DEF vars, TypeOK, TypeBool, TypeData
<1>18. QED
  BY <1>1, <1>2, <1>3, <1>4, <1>5, <1>6, <1>7, <1>8, <1>9, <1>10, <1>11,
     <1>12, <1>13, <1>14, <1>15, <1>16, <1>17 DEF Next

(* Type correctness of every variable of the federate, its two sockets    *)
(* and the environment, in every reachable state.                         *)
THEOREM TypeCorrect == Spec => []TypeOK
<1>1. Init => IInv
  BY InitIInv
<1>2. IInv /\ [Next]_vars => IInv'
  BY NextIInv
<1>3. IInv => TypeOK
  BY DEF IInv
<1>4. QED
  BY <1>1, <1>2, <1>3, PTL DEF Spec

(* No lost wake-up in __next_event_time: every handler that changes the   *)
(* event queue or clears __tag_pending broadcasts event_q_changed, so the *)
(* main thread never sleeps with its grant delivered or with an event     *)
(* earlier than its request on the queue.                                   *)
THEOREM NoLostWakeupHolds == Spec => []NoLostWakeup
<1>1. IInv => NoLostWakeup
  BY DEF IInv
<1>2. QED
  BY <1>1, InitIInv, NextIInv, PTL DEF Spec

-----------------------------------------------------------------------------
(* PendingGrantOwed.  Both sockets are FIFO, so what matters of each is   *)
(* its last message of a type: the last TAG on its way is the RTI's last  *)
(* grant, and the last NET on its way is the request the federate waits  *)
(* on.                                                                     *)

(* Among the messages of sequence s, the last one of type ty carries v.   *)
LastIs(s, ty, v) ==
    \A i \in 1..Len(s) :
        s[i].type = ty /\ (\A j \in (i + 1)..Len(s) : s[j].type # ty)
            => s[i].time = v

(* The federate's and the RTI's views of the grant and of the request.    *)
(* The last TAG in flight is the RTI's last grant, and with none in       *)
(* flight __tag is that grant.                                            *)
GrantSeen == LastIs(fromRti, "TAG", rtiTag)
GrantHeld == ~GrantInFlight => tag = rtiTag
(* With an upstream every NEXT_EVENT_TIME is sent by the waiting branch,  *)
(* so the last one in flight carries the time waited for; once it is read *)
(* while the grant is pending, the RTI holds it.                          *)
RequestSeen == hasUpstream => LastIs(toRti, "NET", waitTime)
RequestHeld == tagPending /\ ~NetInFlight => rtiNet = waitTime
(* Only that branch sets __tag_pending, always above __tag, and only      *)
(* handle_time_advance_grant changes __tag, clearing __tag_pending.       *)
PendingAbove == tagPending => hasUpstream /\ tag < waitTime

GInv == GrantSeen /\ GrantHeld /\ RequestSeen /\ RequestHeld /\ PendingAbove

(* Some message of type ty is in the sequence s.                          *)
InFlight(s, ty) == \E i \in 1..Len(s) : s[i].type = ty

LEMMA InFlightDefs ==
    /\ GrantInFlight <=> InFlight(fromRti, "TAG")
    /\ NetInFlight <=> InFlight(toRti, "NET")
    /\ GrantInFlight' <=> InFlight(fromRti', "TAG")
    /\ NetInFlight' <=> InFlight(toRti', "NET")
BY DEF GrantInFlight, NetInFlight, InFlight

(* Appending a message of type ty makes it the last of its type.          *)
LEMMA LastIsAppendSame ==
    ASSUME NEW S, NEW s \in Seq(S), NEW m \in S, NEW ty, NEW v,
           m.type = ty, m.time = v
    PROVE  LastIs(Append(s, m), ty, v) /\ InFlight(Append(s, m), ty)
BY DEF LastIs, InFlight

(* Appending messages of other types changes neither the last message of *)
(* type ty nor whether one is in flight.                                  *)
LEMMA LastIsConcatOther ==
    ASSUME NEW S, NEW s \in Seq(S), NEW t \in Seq(S), NEW ty, NEW v,
           \A k \in 1..Len(t) : t[k].type # ty
    PROVE  /\ LastIs(s, ty, v) => LastIs(s \o t, ty, v)
           /\ InFlight(s \o t, ty) <=> InFlight(s, ty)
BY DEF LastIs, InFlight

LEMMA LastIsAppendOther ==
    ASSUME NEW S, NEW s \in Seq(S), NEW m \in S, NEW ty, NEW v,
           m.type # ty
    PROVE  /\ LastIs(s, ty, v) => LastIs(Append(s, m), ty, v)
           /\ InFlight(Append(s, m), ty) <=> InFlight(s, ty)
BY DEF LastIs, InFlight

(* Reading the head of a FIFO keeps the last message of each type, and    *)
(* a head of type ty with none behind it is that last message.            *)
LEMMA LastIsTail ==
    ASSUME NEW S, NEW s \in Seq(S), s # <<>>, NEW ty, NEW v, LastIs(s, ty, v)
    PROVE  /\ LastIs(Tail(s), ty, v)
           /\ Head(s).type = ty /\ ~InFlight(Tail(s), ty) => Head(s).time = v
<1>1. LastIs(Tail(s), ty, v)
    <2> SUFFICES ASSUME NEW i \in 1..Len(Tail(s)), Tail(s)[i].type = ty,
                        \A j \in (i + 1)..Len(Tail(s)) : Tail(s)[j].type # ty
                 PROVE  Tail(s)[i].time = v
        BY DEF LastIs
    <2>0. Len(Tail(s)) = Len(s) - 1
          /\ \A k \in 1..Len(Tail(s)) : Tail(s)[k] = s[k + 1]
        OBVIOUS
    <2>1. i + 1 \in 1..Len(s) /\ s[i + 1].type = ty
        BY <2>0
    <2>a. \A j \in (i + 2)..Len(s) : s[j].type # ty
        <3> TAKE j \in (i + 2)..Len(s)
        <3>1. j - 1 \in (i + 1)..Len(Tail(s)) /\ Tail(s)[j - 1] = s[j]
            BY <2>0
        <3>2. QED
            BY <3>1
    <2>2. s[i + 1].time = v
        BY <2>1, <2>a DEF LastIs
    <2>3. QED
        BY <2>2
<1>2. ASSUME Head(s).type = ty, ~InFlight(Tail(s), ty) PROVE Head(s).time = v
    <2>1. \A j \in 2..Len(s) : s[j].type # ty
        <3> TAKE j \in 2..Len(s)
        <3>1. j - 1 \in 1..Len(Tail(s)) /\ Tail(s)[j - 1] = s[j]
            OBVIOUS
        <3>2. QED
            BY <1>2, <3>1 DEF InFlight
    <2>2. s[1].time = v
        BY <1>2, <2>1 DEF LastIs
    <2>3. QED
        BY <2>2
<1>3. QED
    BY <1>1, <1>2

LEMMA InFlightTail ==
    ASSUME NEW S, NEW s \in Seq(S), s # <<>>, NEW ty
    PROVE  InFlight(s, ty) <=> Head(s).type = ty \/ InFlight(Tail(s), ty)
BY DEF InFlight

-----------------------------------------------------------------------------
(* The variables GInv is about.                                           *)
gvars == <<fromRti, rtiTag, tag, hasUpstream, toRti, waitTime, tagPending,
           rtiNet>>

(* No message is on either socket at start, nothing is granted and       *)
(* nothing is pending.                                                    *)
LEMMA InitGInv == Init => GInv
BY DEF Init, GInv, GrantSeen, GrantHeld, RequestSeen, RequestHeld,
       PendingAbove, LastIs, GrantInFlight, NetInFlight

(* A step that touches neither socket, grant nor request keeps GInv.      *)
LEMMA GInvUnchanged ==
    ASSUME GInv, UNCHANGED gvars
    PROVE  GInv'
BY DEF gvars, GInv, GrantSeen, GrantHeld, RequestSeen, RequestHeld,
       PendingAbove, LastIs, GrantInFlight, NetInFlight, InFlight

(* The federate sends messages that are not NEXT_EVENT_TIME (LTC, STOP).   *)
LEMMA GInvToRtiOther ==
    ASSUME TypeData, GInv, NEW t \in Seq(ToRtiMsgs),
           \A k \in 1..Len(t) : t[k].type # "NET",
           toRti' = toRti \o t,
           UNCHANGED <<fromRti, rtiTag, tag, hasUpstream, waitTime,
                       tagPending, rtiNet>>
    PROVE  GInv'
<1>0. toRti \in Seq(ToRtiMsgs)
    BY DEF TypeData
<1>1. /\ LastIs(toRti, "NET", waitTime) => LastIs(toRti \o t, "NET", waitTime)
      /\ InFlight(toRti \o t, "NET") <=> InFlight(toRti, "NET")
    BY <1>0, LastIsConcatOther
<1>4. /\ LastIs(toRti, "NET", waitTime) => LastIs(toRti', "NET", waitTime)
      /\ NetInFlight' <=> NetInFlight
    BY <1>1, InFlightDefs
<1>2. GrantSeen' /\ GrantHeld'
    BY DEF GInv, GrantSeen, GrantHeld, GrantInFlight
<1>3. QED
    BY Zenon, <1>4, <1>2
    DEF GInv, RequestSeen, RequestHeld, PendingAbove

(* The RTI or the upstream sends something that is not a grant.           *)
LEMMA GInvFromRtiOther ==
    ASSUME TypeData, GInv, NEW m \in FromRtiMsgs, m.type # "TAG",
           fromRti' = Append(fromRti, m),
           UNCHANGED <<rtiTag, tag, hasUpstream, toRti, waitTime, tagPending,
                       rtiNet>>
    PROVE  GInv'
<1>1. /\ LastIs(fromRti, "TAG", rtiTag) => LastIs(fromRti', "TAG", rtiTag)
      /\ GrantInFlight' <=> GrantInFlight
    BY LastIsAppendOther, InFlightDefs DEF TypeData
<1>2. RequestSeen' /\ RequestHeld' /\ PendingAbove'
    BY DEF GInv, RequestSeen, RequestHeld, PendingAbove, NetInFlight, LastIs
<1>3. QED
    BY Zenon, <1>1, <1>2 DEF GInv, GrantSeen, GrantHeld

(* listen_to_rti handles a message that is not a grant.                   *)
LEMMA GInvReadOther ==
    ASSUME TypeData, GInv, fromRti # <<>>, Head(fromRti).type # "TAG",
           fromRti' = Tail(fromRti),
           UNCHANGED <<rtiTag, tag, hasUpstream, toRti, waitTime, tagPending,
                       rtiNet>>
    PROVE  GInv'
<1>1. /\ LastIs(fromRti, "TAG", rtiTag) => LastIs(fromRti', "TAG", rtiTag)
      /\ GrantInFlight' <=> GrantInFlight
    BY LastIsTail, InFlightTail, InFlightDefs DEF TypeData
<1>2. RequestSeen' /\ RequestHeld' /\ PendingAbove'
    BY DEF GInv, RequestSeen, RequestHeld, PendingAbove, NetInFlight, LastIs
<1>3. QED
    BY Zenon, <1>1, <1>2 DEF GInv, GrantSeen, GrantHeld

(* The scheduler advances to r with nothing sent but LOGICAL_TIME_COMPLETE. *)
LEMMA GInvAdvance ==
    ASSUME TypeData, GInv, NEW r \in Tags, AdvanceTo(r, <<>>),
           UNCHANGED <<fromRti, rtiTag, tag, hasUpstream, waitTime,
                       tagPending, rtiNet>>
    PROVE  GInv'
<1> DEFINE ltc == LogicalTimeComplete(r)
<1>1. ltc \in Seq(ToRtiMsgs)
    BY LTCType
<1>2. \A k \in 1..Len(ltc) : ltc[k].type # "NET"
    BY DEF LogicalTimeComplete, Msg
<1>3. toRti' = toRti \o ltc
    BY DEF AdvanceTo, TypeData
<1>4. QED
    BY <1>1, <1>2, <1>3, GInvToRtiOther

(* __next_event_time keeps GInv: only its waiting branch sends a         *)
(* NEXT_EVENT_TIME with an upstream, and it sets __tag_pending for that    *)
(* very time, above __tag.                                                 *)
LEMMA GInvNextEventTime ==
    ASSUME IInv, GInv, NextEventTime
    PROVE  GInv'
<1> DEFINE t == HeadTime
<1>0. TypeBool /\ TypeData
    BY TypeSplit DEF IInv
<1>1. t \in Tags
    BY <1>0, HeadTimeProps DEF TypeData
<1>a. UNCHANGED <<fromRti, rtiTag, tag, hasUpstream, rtiNet>>
    BY DEF NextEventTime, envVars
<1>2. CASE AdvanceTo(t, <<>>) /\ UNCHANGED <<tagPending, waitTime>>
    BY <1>0, <1>1, <1>2, <1>a, GInvAdvance
<1>3. CASE ~hasUpstream /\ AdvanceTo(t, <<Msg("NET", t)>>)
           /\ UNCHANGED <<tagPending, waitTime>>
    <2>1. ~tagPending /\ ~tagPending' /\ ~hasUpstream'
        BY Zenon, <1>3, <1>a DEF GInv, PendingAbove
    <2>2. GrantSeen' /\ GrantHeld'
        BY <1>a DEF GInv, GrantSeen, GrantHeld, GrantInFlight
    <2>3. QED
        BY Zenon, <2>1, <2>2 DEF GInv, RequestSeen, RequestHeld, PendingAbove
<1>4. CASE /\ hasUpstream /\ tag < t
           /\ toRti' = Append(toRti, Msg("NET", t))
           /\ tagPending' = TRUE /\ waitTime' = t
    <2>1. Msg("NET", t) \in ToRtiMsgs
        BY <1>1, ToRtiMsgType
    <2>2. LastIs(toRti', "NET", waitTime') /\ InFlight(toRti', "NET")
        BY <1>0, <1>4, <2>1, LastIsAppendSame DEF TypeData, Msg
    <2>3. RequestSeen' /\ RequestHeld'
        BY <2>2, InFlightDefs DEF RequestSeen, RequestHeld
    <2>4. tag' < waitTime'
        BY <1>4, <1>a
    <2>5. PendingAbove'
        BY Zenon, <1>4, <1>a, <2>4 DEF PendingAbove
    <2>6. GrantSeen' /\ GrantHeld'
        BY <1>a DEF GInv, GrantSeen, GrantHeld, GrantInFlight
    <2>7. QED
        BY <2>3, <2>5, <2>6 DEF GInv
<1>5. QED
    BY Zenon, <1>2, <1>3, <1>4 DEF NextEventTime

(* The main thread's return from pthread_cond_wait keeps GInv.            *)
LEMMA GInvWaitReturns ==
    ASSUME IInv, GInv, WaitReturns
    PROVE  GInv'
<1>0. TypeBool /\ TypeData
    BY TypeSplit DEF IInv
<1>a. UNCHANGED <<fromRti, rtiTag, tag, hasUpstream, waitTime, tagPending,
                  rtiNet>>
    BY DEF WaitReturns, envVars
<1>1. CASE ~tagPending /\ AdvanceTo(tag, <<>>)
    <2>1. tag \in Tags
        BY Zenon, <1>1 DEF WaitReturns, IInv, GrantKnown
    <2>2. QED
        BY <1>0, <1>1, <1>a, <2>1, GInvAdvance
<1>2. CASE AdvanceTo(HeadTime, <<>>)
    BY <1>0, <1>2, <1>a, HeadTimeProps, GInvAdvance DEF TypeData
<1>3. CASE UNCHANGED toRti
    BY <1>3, <1>a, GInvUnchanged DEF gvars
<1>4. QED
    BY Zenon, <1>1, <1>2, <1>3 DEF WaitReturns

(* handle_time_advance_grant keeps GInv: the grant it reads is the RTI's  *)
(* last one when no other TAG follows it, and it clears __tag_pending.    *)
LEMMA GInvGrant ==
    ASSUME IInv, GInv, HandleTimeAdvanceGrant
    PROVE  GInv'
<1>0. TypeBool /\ TypeData
    BY TypeSplit DEF IInv
<1>a. UNCHANGED <<rtiTag, hasUpstream, toRti, waitTime, rtiNet>>
      /\ fromRti # <<>> /\ Head(fromRti).type = "TAG"
      /\ fromRti' = Tail(fromRti) /\ tag' = Head(fromRti).time
    BY DEF HandleTimeAdvanceGrant, envVars
<1>b. ~tagPending'
    BY Zenon DEF HandleTimeAdvanceGrant
<1>1. /\ LastIs(fromRti', "TAG", rtiTag')
      /\ ~InFlight(fromRti', "TAG") => tag' = rtiTag'
    BY <1>0, <1>a, LastIsTail DEF GInv, GrantSeen, TypeData
<1>2. GrantSeen' /\ GrantHeld'
    BY <1>1, InFlightDefs DEF GrantSeen, GrantHeld
<1>3. RequestSeen'
    BY <1>a DEF GInv, RequestSeen
<1>4. QED
    BY Zenon, <1>b, <1>2, <1>3 DEF GInv, RequestHeld, PendingAbove

(* The RTI reads the federate's next message.  A NEXT_EVENT_TIME read as   *)
(* the last one in flight carries the time waited for.                    *)
LEMMA GInvRtiReceive ==
    ASSUME IInv, GInv, RtiReceive
    PROVE  GInv'
<1>0. TypeBool /\ TypeData
    BY TypeSplit DEF IInv
<1>a. UNCHANGED <<fromRti, rtiTag, tag, hasUpstream, waitTime, tagPending>>
      /\ toRti # <<>> /\ toRti' = Tail(toRti)
    BY DEF RtiReceive, fedVars
<1>1. GrantSeen' /\ GrantHeld'
    BY <1>a DEF GInv, GrantSeen, GrantHeld, GrantInFlight
<1>2. RequestSeen'
    BY <1>0, <1>a, LastIsTail DEF GInv, RequestSeen, TypeData
<1>3. PendingAbove'
    BY <1>a DEF GInv, PendingAbove
<1>4. ASSUME tagPending', ~NetInFlight' PROVE rtiNet' = waitTime'
    <2>1. tagPending /\ hasUpstream
        BY Zenon, <1>4, <1>a DEF GInv, PendingAbove
    <2>2. LastIs(toRti, "NET", waitTime)
        BY Zenon, <2>1 DEF GInv, RequestSeen
    <2>3. ~InFlight(Tail(toRti), "NET")
        BY <1>4, <1>a, InFlightDefs
    <2>4. CASE Head(toRti).type = "NET"
        <3>1. Head(toRti).time = waitTime
            BY <1>0, <1>a, <2>2, <2>3, <2>4, LastIsTail DEF TypeData
        <3>2. QED
            BY <1>a, <2>4, <3>1 DEF RtiReceive
    <2>5. CASE Head(toRti).type # "NET"
        <3>1. ~NetInFlight
            BY <1>0, <1>a, <2>3, <2>5, InFlightTail, InFlightDefs DEF TypeData
        <3>2. rtiNet = waitTime
            BY Zenon, <2>1, <3>1 DEF GInv, RequestHeld
        <3>3. QED
            BY <1>a, <2>5, <3>2 DEF RtiReceive
    <2>6. QED
        BY <2>4, <2>5
<1>5. QED
    BY Zenon, <1>1, <1>2, <1>3, <1>4 DEF GInv, RequestHeld

(* The RTI grants g: the TAG it sends is the last one and carries g.      *)
LEMMA GInvRtiGrant ==
    ASSUME TypeData, GInv, RtiGrant
    PROVE  GInv'
<1>1. PICK g \in Tags : rtiTag' = g /\ fromRti' = Append(fromRti, Msg("TAG", g))
    BY DEF RtiGrant
<1>a. UNCHANGED <<tag, hasUpstream, toRti, waitTime, tagPending, rtiNet>>
    BY DEF RtiGrant, fedVars
<1>2. LastIs(fromRti', "TAG", rtiTag') /\ InFlight(fromRti', "TAG")
    BY <1>1, FromRtiMsgType, LastIsAppendSame DEF TypeData, Msg
<1>3. GrantSeen' /\ GrantHeld'
    BY <1>2, InFlightDefs DEF GrantSeen, GrantHeld
<1>4. RequestSeen' /\ RequestHeld' /\ PendingAbove'
    BY <1>a DEF GInv, RequestSeen, RequestHeld, PendingAbove, NetInFlight,
                LastIs
<1>5. QED
    BY <1>3, <1>4 DEF GInv

(* Every step keeps GInv.                                                  *)
LEMMA NextGInv == IInv /\ GInv /\ [Next]_vars => GInv'
<1> SUFFICES ASSUME IInv, GInv, [Next]_vars PROVE GInv'
    OBVIOUS
<1>0. TypeData
    BY TypeSplit DEF IInv
<1>1. CASE NextEventTime
    BY <1>1, GInvNextEventTime
<1>2. CASE WaitReturns
    BY <1>2, GInvWaitReturns
<1>3. CASE SpuriousWakeup \/ SchedulerStop \/ SchedulePhysicalAction
           \/ UpstreamAdvance \/ Terminated \/ UNCHANGED vars
    BY <1>3, GInvUnchanged
    DEF SpuriousWakeup, SchedulerStop, SchedulePhysicalAction,
        UpstreamAdvance, Terminated, vars, fedVars, envVars, gvars
<1>4. CASE BroadcastStop
    <2> DEFINE stop == <<Msg("STOP", currentTime)>>
    <2>1. Msg("STOP", currentTime) \in ToRtiMsgs
        BY <1>0, ToRtiMsgType DEF TypeData
    <2>2. stop \in Seq(ToRtiMsgs) /\ \A k \in 1..Len(stop) : stop[k].type # "NET"
        BY <2>1 DEF Msg
    <2>3. toRti' = toRti \o stop
        BY <1>4, <1>0 DEF BroadcastStop, TypeData
    <2>4. UNCHANGED <<fromRti, rtiTag, tag, hasUpstream, waitTime, tagPending,
                      rtiNet>>
        BY <1>4 DEF BroadcastStop, envVars
    <2>5. QED
        BY Zenon, <1>0, <2>2, <2>3, <2>4, GInvToRtiOther
<1>5. CASE HandleTimeAdvanceGrant
    BY <1>5, GInvGrant
<1>6. CASE HandleIncomingStopMessage \/ HandleTimedMessage \/ HandleMessage
    BY <1>0, <1>6, GInvReadOther
    DEF HandleIncomingStopMessage, HandleTimedMessage, HandleMessage, envVars
<1>7. CASE RtiReceive
    BY <1>7, GInvRtiReceive
<1>8. CASE RtiGrant
    BY <1>0, <1>8, GInvRtiGrant
<1>9. CASE UpstreamSend
    <2>1. PICK m \in FromRtiMsgs : m.type # "TAG" /\ fromRti' = Append(fromRti, m)
        <3>1. CASE \E ts \in upNext..MaxTime :
                       fromRti' = Append(fromRti, DataMsg("TIMED_MESSAGE", ts, Me))
            <4>1. PICK ts \in upNext..MaxTime :
                      fromRti' = Append(fromRti, DataMsg("TIMED_MESSAGE", ts, Me))
                BY <3>1
            <4>2. ts \in Times
                BY <1>0, <4>1, ConstantsAssumption DEF TypeData, Tags, Times, FOREVER
            <4>3. DataMsg("TIMED_MESSAGE", ts, Me) \in FromRtiMsgs
                BY <4>2, DataMsgType
            <4>4. DataMsg("TIMED_MESSAGE", ts, Me).type # "TAG"
                BY DEF DataMsg
            <4>5. QED
                BY <4>1, <4>3, <4>4
        <3>2. CASE \E d \in {Me, Other} :
                       fromRti' = Append(fromRti, DataMsg("MESSAGE", 0, d))
            <4>1. PICK d \in {Me, Other} :
                      fromRti' = Append(fromRti, DataMsg("MESSAGE", 0, d))
                BY <3>2
            <4>2. DataMsg("MESSAGE", 0, d) \in FromRtiMsgs
                BY ConstantsAssumption, DataMsgType DEF Times
            <4>3. DataMsg("MESSAGE", 0, d).type # "TAG"
                BY DEF DataMsg
            <4>4. QED
                BY <4>1, <4>2, <4>3
        <3>3. QED
            BY <1>9, <3>1, <3>2 DEF UpstreamSend
    <2>2. UNCHANGED <<rtiTag, tag, hasUpstream, toRti, waitTime, tagPending,
                      rtiNet>>
        BY <1>9 DEF UpstreamSend, fedVars
    <2>3. QED
        BY <1>0, <2>1, <2>2, GInvFromRtiOther
<1>10. CASE RtiRelayStop
    <2>1. PICK t \in Times : fromRti' = Append(fromRti, Msg("STOP", t))
        BY <1>10 DEF RtiRelayStop
    <2>2. Msg("STOP", t) \in FromRtiMsgs /\ Msg("STOP", t).type # "TAG"
        BY FromRtiMsgType DEF Msg, Tags
    <2>3. UNCHANGED <<rtiTag, tag, hasUpstream, toRti, waitTime, tagPending,
                      rtiNet>>
        BY <1>10 DEF RtiRelayStop, fedVars
    <2>4. QED
        BY <1>0, <2>1, <2>2, <2>3, GInvFromRtiOther
<1>11. QED
    BY <1>1, <1>2, <1>3, <1>4, <1>5, <1>6, <1>7, <1>8, <1>9, <1>10 DEF Next

(* Whenever __tag_pending is set, the federate is owed a grant: a         *)
(* NEXT_EVENT_TIME it sent is still unread, or a TAG is on its way, or     *)
(* the RTI holds a NET above its last grant and may still grant.  Hence   *)
(* a main thread blocked in __next_event_time is never forgotten by the   *)
(* RTI, for every MaxTime, MaxPhysical and MaxMessages.                    *)
THEOREM PendingGrantOwedHolds == Spec => []PendingGrantOwed
<1>1. Init => IInv /\ GInv
    BY InitIInv, InitGInv
<1>2. IInv /\ GInv /\ [Next]_vars => IInv' /\ GInv'
    BY NextIInv, NextGInv
<1>3. IInv /\ GInv => PendingGrantOwed
    <2> SUFFICES ASSUME IInv, GInv, tagPending, ~NetInFlight, ~GrantInFlight
                 PROVE  rtiTag < rtiNet
        BY Zenon DEF PendingGrantOwed
    <2>1. tag = rtiTag /\ rtiNet = waitTime /\ tag < waitTime
        BY Zenon DEF GInv, GrantHeld, RequestHeld, PendingAbove
    <2>2. QED
        BY <2>1
<1>4. QED
    BY <1>1, <1>2, <1>3, PTL DEF Spec
=============================================================================
