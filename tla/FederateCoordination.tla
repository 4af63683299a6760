------------------------- MODULE FederateCoordination -------------------------
(***************************************************************************)
(* The federate side of the time-advance protocol of federate.c.           *)
(*                                                                         *)
(* Threads of one federate, all serialised by the env mutex:               *)
(*   - the main (scheduler) thread, which calls __next_event_time() with   *)
(*     the tag of the head of the event queue, waits on event_q_changed    *)
(*     for a TIME_ADVANCE_GRANT, then advances logical time and sends      *)
(*     LOGICAL_TIME_COMPLETE;                                               *)
(*   - the RTI listener thread (listen_to_rti), which applies TAG, STOP,   *)
(*     MESSAGE and TIMED_MESSAGE under the mutex and broadcasts;            *)
(*   - asynchronous physical actions (lf_schedule_token).                  *)
(* The RTI and the upstream federate are an environment: the RTI answers   *)
(* NEXT_EVENT_TIME with monotone grants that never pass the earliest       *)
(* timestamp the upstream federate may still send.                          *)
(*                                                                         *)
(* Every step below is taken with the env mutex held from start to end,    *)
(* so the mutex itself is implicit: the main thread gives it up only in    *)
(* pthread_cond_wait (states "waiting" and "woken") and between loop        *)
(* iterations.                                                              *)
(***************************************************************************)
EXTENDS Integers, Sequences, FiniteSetsExt

CONSTANTS
    MaxTime,        \* logical times are 0..MaxTime; 0 is the start time
    MaxPhysical,    \* bound on the physical actions that fire
    MaxMessages     \* bound on the messages other federates send this one

ASSUME ConstantsAssumption ==
    /\ MaxTime \in Nat \ {0}
    /\ MaxPhysical \in Nat
    /\ MaxMessages \in Nat

NEVER == -1               \* instant_t NEVER: below every time
FOREVER == MaxTime + 1    \* instant_t FOREVER: the tag of an empty queue
Times == 0..MaxTime
Tags == Times \cup {FOREVER}

Me == "me"                \* __my_fed_id
Other == "other"          \* any other federate id

VARIABLES
    currentTime,    \* current_time, the logical time of the scheduler
    eventQ,         \* event_q: the tags of the pending events
    tag,            \* __tag, the last TIME_ADVANCE_GRANT received
    tagPending,     \* __tag_pending
    stopRequested,  \* stop_requested
    hasUpstream,    \* __fed_has_upstream (fixed at initialisation)
    hasDownstream,  \* __fed_has_downstream (fixed at initialisation)
    mainPc,         \* "idle", "waiting" (in pthread_cond_wait), "woken", "done"
    waitTime,       \* argument `time' of the __next_event_time call in progress
    toRti,          \* bytes on rti_socket from the federate, as messages
    fromRti,        \* bytes on rti_socket to the federate, as messages
    rtiNet,         \* RTI: last NEXT_EVENT_TIME it read from the federate
    rtiTag,         \* RTI: last grant it sent to the federate
    upNext,         \* upstream promises no timestamp below upNext
    physCount,      \* physical actions fired so far
    msgCount        \* messages relayed by the RTI from other federates so far

fedVars == <<currentTime, eventQ, tag, tagPending, stopRequested,
             hasUpstream, hasDownstream, mainPc, waitTime>>
envVars == <<rtiNet, rtiTag, upNext, physCount, msgCount>>
vars == <<fedVars, toRti, fromRti, envVars>>

Msg(type, t) == [type |-> type, time |-> t]
DataMsg(type, t, dest) == [type |-> type, time |-> t, dest |-> dest]

ToRtiMsgs == {Msg(ty, t) : ty \in {"NET", "LTC", "STOP"}, t \in Tags}
FromRtiMsgs == {Msg(ty, t) : ty \in {"TAG", "STOP"}, t \in Tags}
               \cup {DataMsg(ty, t, d) : ty \in {"MESSAGE", "TIMED_MESSAGE"},
                                         t \in Times, d \in {Me, Other}}

(* The tags physical time can give an event scheduled now: after the      *)
(* current time; FOREVER stands for a tag beyond the modelled horizon.    *)
PhysicalTags == {p \in Tags : p > currentTime} \cup {FOREVER}

(* pqueue_peek(event_q): the tag of the earliest event, FOREVER if none.  *)
HeadTime == IF eventQ = {} THEN FOREVER ELSE Min(eventQ)

(* pthread_cond_broadcast(&event_q_changed): wakes the main thread if it  *)
(* is blocked in pthread_cond_wait.                                         *)
Broadcast ==
    mainPc' = IF mainPc = "waiting" THEN "woken" ELSE mainPc

-----------------------------------------------------------------------------
(* __logical_time_complete(time): an LTC message only with downstream.    *)
LogicalTimeComplete(r) ==
    IF hasDownstream /\ r # FOREVER THEN <<Msg("LTC", r)>> ELSE <<>>

(* The scheduler's use of the value r returned by __next_event_time, with *)
(* the messages `sent' on the way: advance current_time to r, pop and run *)
(* the events tagged r, report LOGICAL_TIME_COMPLETE(r), and end the      *)
(* execution at FOREVER.                                                    *)
AdvanceTo(r, sent) ==
    /\ currentTime' = r
    /\ eventQ' = eventQ \ {r}
    /\ toRti' = toRti \o sent \o LogicalTimeComplete(r)
    /\ mainPc' = IF r = FOREVER THEN "done" ELSE "idle"

(* The main loop notices stop_requested and ends the execution.           *)
SchedulerStop ==
    /\ mainPc = "idle"
    /\ stopRequested
    /\ mainPc' = "done"
    /\ UNCHANGED <<currentTime, eventQ, tag, tagPending, stopRequested,
                   hasUpstream, hasDownstream, waitTime, toRti, fromRti,
                   envVars>>

(* A reaction requests a whole-program stop: __broadcast_stop() sends     *)
(* STOP with the current time to the RTI (send_time); the caller, outside *)
(* this code, sets stop_requested so that the main loop notices (spec     *)
(* section 4.6, broadcast_stop).                                           *)
BroadcastStop ==
    /\ mainPc = "idle"
    /\ ~stopRequested
    /\ toRti' = Append(toRti, Msg("STOP", currentTime))
    /\ stopRequested' = TRUE
    /\ UNCHANGED <<currentTime, eventQ, tag, tagPending, hasUpstream,
                   hasDownstream, mainPc, waitTime, fromRti, envVars>>

(* __next_event_time(t) up to its wait, with t the head of the queue.     *)
(* Returns t at once when unconnected, when already granted, or (after   *)
(* sending NET) when there is no upstream; otherwise sets __tag_pending   *)
(* and blocks on event_q_changed, releasing the mutex.                     *)
NextEventTime ==
    /\ mainPc = "idle"
    /\ ~stopRequested
    /\ LET t == HeadTime IN
       \/ /\ ~hasDownstream /\ ~hasUpstream
          /\ AdvanceTo(t, <<>>)
          /\ UNCHANGED <<tagPending, waitTime>>
       \/ /\ hasDownstream \/ hasUpstream
          /\ tag >= t
          /\ AdvanceTo(t, <<>>)
          /\ UNCHANGED <<tagPending, waitTime>>
       \/ /\ hasDownstream \/ hasUpstream
          /\ tag < t
          /\ ~hasUpstream
          /\ AdvanceTo(t, <<Msg("NET", t)>>)
          /\ UNCHANGED <<tagPending, waitTime>>
       \/ /\ hasUpstream
          /\ tag < t
          /\ toRti' = Append(toRti, Msg("NET", t))
          /\ tagPending' = TRUE
          /\ waitTime' = t
          /\ mainPc' = "waiting"
          /\ UNCHANGED <<currentTime, eventQ>>
    /\ UNCHANGED <<tag, stopRequested, hasUpstream, hasDownstream, fromRti,
                   envVars>>

(* pthread_cond_wait may return without a signal.                         *)
SpuriousWakeup ==
    /\ mainPc = "waiting"
    /\ mainPc' = "woken"
    /\ UNCHANGED <<currentTime, eventQ, tag, tagPending, stopRequested,
                   hasUpstream, hasDownstream, waitTime, toRti, fromRti,
                   envVars>>

(* The loop of __next_event_time after pthread_cond_wait reacquires the   *)
(* mutex: a grant ends the loop and __tag is returned; an earlier event   *)
(* on the queue ends it with that event's tag (tag_pending stays TRUE);   *)
(* otherwise the thread waits again.                                       *)
WaitReturns ==
    /\ mainPc = "woken"
    /\ \/ /\ ~tagPending
          /\ AdvanceTo(tag, <<>>)
       \/ /\ tagPending
          /\ HeadTime < waitTime
          /\ AdvanceTo(HeadTime, <<>>)
       \/ /\ tagPending
          /\ HeadTime >= waitTime
          /\ mainPc' = "waiting"
          /\ UNCHANGED <<currentTime, eventQ, toRti>>
    /\ UNCHANGED <<tag, tagPending, stopRequested, hasUpstream, hasDownstream,
                   waitTime, fromRti, envVars>>

-----------------------------------------------------------------------------
(* listen_to_rti: one message from the RTI, handled under the mutex.      *)

(* Mutants: the grant handler without its broadcast, or without clearing  *)
(* __tag_pending.                                                           *)
HandleTimeAdvanceGrantNoBroadcast ==
    /\ fromRti # <<>>
    /\ Head(fromRti).type = "TAG"
    /\ tag' = Head(fromRti).time
    /\ tagPending' = FALSE
    /\ fromRti' = Tail(fromRti)
    /\ UNCHANGED <<currentTime, eventQ, stopRequested, hasUpstream,
                   hasDownstream, mainPc, waitTime, toRti, envVars>>

HandleTimeAdvanceGrantKeepsPending ==
    /\ fromRti # <<>>
    /\ Head(fromRti).type = "TAG"
    /\ tag' = Head(fromRti).time
    /\ Broadcast
    /\ fromRti' = Tail(fromRti)
    /\ UNCHANGED <<currentTime, eventQ, tagPending, stopRequested, hasUpstream,
                   hasDownstream, waitTime, toRti, envVars>>

(* handle_time_advance_grant: __tag := g, __tag_pending := FALSE, wake.   *)
HandleTimeAdvanceGrant ==
    /\ fromRti # <<>>
    /\ Head(fromRti).type = "TAG"
    /\ tag' = Head(fromRti).time
    /\ tagPending' = FALSE
    /\ Broadcast
    /\ fromRti' = Tail(fromRti)
    /\ UNCHANGED <<currentTime, eventQ, stopRequested, hasUpstream,
                   hasDownstream, waitTime, toRti, envVars>>

(* handle_incoming_stop_message: the stop time is ignored.                *)
HandleIncomingStopMessage ==
    /\ fromRti # <<>>
    /\ Head(fromRti).type = "STOP"
    /\ stopRequested' = TRUE
    /\ Broadcast
    /\ fromRti' = Tail(fromRti)
    /\ UNCHANGED <<currentTime, eventQ, tag, tagPending, hasUpstream,
                   hasDownstream, waitTime, toRti, envVars>>

(* Mutant: the delay timestamp - current_time used as an absolute tag.    *)
HandleTimedMessageDelayAsTag ==
    /\ fromRti # <<>>
    /\ Head(fromRti).type = "TIMED_MESSAGE"
    /\ eventQ' = eventQ \cup {Head(fromRti).time - currentTime}
    /\ Broadcast
    /\ fromRti' = Tail(fromRti)
    /\ UNCHANGED <<currentTime, tag, tagPending, stopRequested, hasUpstream,
                   hasDownstream, waitTime, toRti, envVars>>

(* handle_timed_message: schedule with delay timestamp - current_time,    *)
(* i.e. an event at the message's timestamp; schedule_value_already_locked *)
(* broadcasts.                                                              *)
HandleTimedMessage ==
    /\ fromRti # <<>>
    /\ Head(fromRti).type = "TIMED_MESSAGE"
    /\ eventQ' = eventQ \cup {Head(fromRti).time}
    /\ Broadcast
    /\ fromRti' = Tail(fromRti)
    /\ UNCHANGED <<currentTime, tag, tagPending, stopRequested, hasUpstream,
                   hasDownstream, waitTime, toRti, envVars>>

(* handle_message: a message for another federate is dropped; otherwise  *)
(* the physical action of the connection is scheduled with delay 0, which *)
(* gives it a tag after current_time (the physical time it arrives at).   *)
HandleMessage ==
    /\ fromRti # <<>>
    /\ Head(fromRti).type = "MESSAGE"
    /\ fromRti' = Tail(fromRti)
    /\ \/ /\ Head(fromRti).dest # Me
          /\ UNCHANGED <<eventQ, mainPc>>
       \/ /\ Head(fromRti).dest = Me
          /\ \E p \in PhysicalTags : eventQ' = eventQ \cup ({p} \cap Times)
          /\ Broadcast
    /\ UNCHANGED <<currentTime, tag, tagPending, stopRequested, hasUpstream,
                   hasDownstream, waitTime, toRti, envVars>>

(* lf_schedule_token on a physical action from an asynchronous thread:    *)
(* the event gets the physical time, after current_time, and the main     *)
(* thread is notified (lf_notify_of_event).                                *)
SchedulePhysicalAction ==
    /\ physCount < MaxPhysical
    /\ \E p \in PhysicalTags : eventQ' = eventQ \cup ({p} \cap Times)
    /\ Broadcast
    /\ physCount' = physCount + 1
    /\ UNCHANGED <<currentTime, tag, tagPending, stopRequested, hasUpstream,
                   hasDownstream, waitTime, toRti, fromRti,
                   rtiNet, rtiTag, upNext, msgCount>>

-----------------------------------------------------------------------------
(* Environment: the RTI and one upstream federate (not in this code).     *)

(* The RTI reads the federate's next message: NET is recorded; LTC and   *)
(* STOP (relayed to the other federates only) leave its grant state alone.*)
RtiReceive ==
    /\ toRti # <<>>
    /\ rtiNet' = IF Head(toRti).type = "NET" THEN Head(toRti).time ELSE rtiNet
    /\ toRti' = Tail(toRti)
    /\ UNCHANGED <<fedVars, fromRti, rtiTag, upNext, physCount, msgCount>>

(* The RTI grants g, above its previous grant, at most the NET it holds,  *)
(* and below every timestamp the upstream may still send.                 *)
RtiGrant ==
    /\ \E g \in Tags :
          /\ rtiTag < g
          /\ g <= rtiNet
          /\ g < upNext \/ upNext = FOREVER
          /\ rtiTag' = g
          /\ fromRti' = Append(fromRti, Msg("TAG", g))
    /\ UNCHANGED <<fedVars, toRti, rtiNet, upNext, physCount, msgCount>>

(* The upstream federate sends a timed message (relayed by the RTI) or an *)
(* untimed one, or advances its promise.                                   *)
UpstreamSend ==
    /\ hasUpstream
    /\ msgCount < MaxMessages
    /\ \/ \E ts \in upNext..MaxTime :
             fromRti' = Append(fromRti, DataMsg("TIMED_MESSAGE", ts, Me))
       \/ \E d \in {Me, Other} :
             fromRti' = Append(fromRti, DataMsg("MESSAGE", 0, d))
    /\ msgCount' = msgCount + 1
    /\ UNCHANGED <<fedVars, toRti, rtiNet, rtiTag, upNext, physCount>>

(* Another federate requests a stop; the RTI relays its STOP here.      *)
RtiRelayStop ==
    /\ msgCount < MaxMessages
    /\ \E t \in Times : fromRti' = Append(fromRti, Msg("STOP", t))
    /\ msgCount' = msgCount + 1
    /\ UNCHANGED <<fedVars, toRti, rtiNet, rtiTag, upNext, physCount>>

UpstreamAdvance ==
    /\ \E n \in (upNext + 1)..FOREVER : upNext' = n
    /\ UNCHANGED <<fedVars, toRti, fromRti, rtiNet, rtiTag, physCount, msgCount>>

-----------------------------------------------------------------------------
Init ==
    /\ currentTime = 0
    /\ eventQ \in SUBSET (1..MaxTime)
    /\ tag = NEVER
    /\ tagPending = FALSE
    /\ stopRequested = FALSE
    /\ hasUpstream \in BOOLEAN
    /\ hasDownstream \in BOOLEAN
    /\ mainPc = "idle"
    /\ waitTime = FOREVER
    /\ toRti = <<>>
    /\ fromRti = <<>>
    /\ rtiNet = NEVER
    /\ rtiTag = NEVER
    /\ upNext = IF hasUpstream THEN 0 ELSE FOREVER
    /\ physCount = 0
    /\ msgCount = 0

(* The execution has ended and nothing is left in flight.                 *)
Terminated ==
    /\ mainPc = "done"
    /\ UNCHANGED vars

Next ==
    \/ NextEventTime
    \/ SpuriousWakeup
    \/ WaitReturns
    \/ SchedulerStop
    \/ BroadcastStop
    \/ HandleTimeAdvanceGrant
    \/ HandleIncomingStopMessage
    \/ HandleTimedMessage
    \/ HandleMessage
    \/ SchedulePhysicalAction
    \/ RtiReceive
    \/ RtiGrant
    \/ UpstreamSend
    \/ RtiRelayStop
    \/ UpstreamAdvance
    \/ Terminated

Spec == Init /\ [][Next]_vars

-----------------------------------------------------------------------------
TypeOK ==
    /\ currentTime \in Tags
    /\ eventQ \subseteq Times
    /\ tag \in Tags \cup {NEVER}
    /\ tagPending \in BOOLEAN
    /\ stopRequested \in BOOLEAN
    /\ hasUpstream \in BOOLEAN
    /\ hasDownstream \in BOOLEAN
    /\ mainPc \in {"idle", "waiting", "woken", "done"}
    /\ waitTime \in Tags
    /\ toRti \in Seq(ToRtiMsgs)
    /\ fromRti \in Seq(FromRtiMsgs)
    /\ rtiNet \in Tags \cup {NEVER}
    /\ rtiTag \in Tags \cup {NEVER}
    /\ upNext \in Tags
    /\ physCount \in 0..MaxPhysical
    /\ msgCount \in 0..MaxMessages

(* No lost wake-up (handle_time_advance_grant, handle_timed_message,      *)
(* handle_message and lf_schedule_token all broadcast event_q_changed):    *)
(* while the main thread sleeps in __next_event_time, the grant it waits  *)
(* for is still pending and no event earlier than its request is queued,  *)
(* so a sleeping scheduler never has work it should be doing.             *)
NoLostWakeup ==
    mainPc = "waiting" =>
        /\ tagPending
        /\ \A e \in eventQ : e >= waitTime

(* A pending grant is owed by the RTI: while __tag_pending is set, the    *)
(* federate's NEXT_EVENT_TIME is still on the wire, or the RTI holds a NET *)
(* above its last grant, or a grant is on its way back.  Otherwise the    *)
(* main thread could wait for a TAG that nobody will send.                *)
GrantInFlight == \E i \in 1..Len(fromRti) : fromRti[i].type = "TAG"
NetInFlight == \E i \in 1..Len(toRti) : toRti[i].type = "NET"
PendingGrantOwed ==
    tagPending => NetInFlight \/ rtiTag < rtiNet \/ GrantInFlight

(* Events are processed in tag order: the scheduler never advances past a *)
(* queued event, and no event is ever scheduled at or before the current *)
(* logical time (it would be run late or never).                          *)
NoEventInPast ==
    \A e \in eventQ : e > currentTime

=============================================================================
