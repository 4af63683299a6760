# Formal models of the reactor-c federated runtime

This directory holds TLA+ models of the federated runtime of reactor-c as it
appears in this repository. It contains the modules, the TLC configurations
that model-check them on small instances, and TLAPS proofs of the main
invariants. Every definition is translated from the C source. The few parts
whose code lies outside `src/` are marked `spec_modelled` in `PROJECT.json`.

## The system

A federate is one process of a distributed Lingua Franca program. It talks
to the RTI (run-time infrastructure) over one TCP socket. It can also talk to
its peers directly over peer-to-peer (P2P) sockets. The files under `src/`
are:

| part | source | what it does |
|---|---|---|
| Coordination protocol | `federate.c` 237-252, 773-834, 960-1055 | Keeps time advance safe. `__next_event_time` sends NEXT_EVENT_TIME (NET) to the RTI and waits under the env mutex on `event_q_changed` for a TIME_ADVANCE_GRANT (TAG). Other ways out of the wait: a physical action, or an incoming timed message that puts an earlier event on the queue. `__logical_time_complete` sends LOGICAL_TIME_COMPLETE (LTC). `__broadcast_stop` sends STOP. |
| Inbound dispatcher | `federate.c` 684-771, 888-917 | `listen_to_rti` is a thread. It reads one message type byte at a time and calls `handle_message`, `handle_timed_message`, `handle_time_advance_grant` or `handle_incoming_stop_message`. Each of these takes the mutex, changes the shared state and broadcasts. |
| Scheduling hook | `schedule.c` | `lf_schedule_*` called from an asynchronous thread (a physical action). |
| Federate server, RTI client, P2P connector | `federate.c` 103-181, 260-595 | Socket set-up: binding with port cycling (`create_server`), the handshake with the RTI (`connect_to_rti`) and with peers (`connect_to_federate`, `connect_to_federates`), retries. |
| Socket I/O | `socket_common.c` | Blocking read and write loops with retry on EAGAIN and EINTR, close-on-error, server creation with port cycling, connect with retry. |
| Counting semaphore | `lf_semaphore.c` | A count guarded by a mutex and a condition variable. |
| Zephyr support | `lf_zephyr_support.c` | A 64-bit clock built from a 32-bit cycle counter, sleeping that can be woken by interrupts, and critical sections. |
| Wire codec | `util.c` | Little-endian encoding of short, int and long long values. |

These parts interact as follows:

- The main thread and the `listen_to_rti` thread share `__tag`, `__tag_pending`, the event queue and `stop_requested`. They coordinate under one mutex, and the wait is a `pthread_cond_wait`.
- The RTI and the upstream federates are outside this code. They are modelled as an environment that receives the federate's messages in order, and sends grants, STOPs and messages.
- Sockets are shared between a listener thread and the threads that send.

## Modules

### `FederateCoordination` (with `MCFederateCoordination`)

This module models the coordination protocol and the inbound dispatcher.

**State.** These are the C globals:

- `currentTime`, the logical time;
- `eventQ`, the tags of queued events;
- `tag` and `tagPending`, for `__tag` and `__tag_pending`;
- `stopRequested`;
- `hasUpstream` and `hasDownstream`.

The main thread's position in `__next_event_time` is `mainPc`, with `waitTime` the time it asked for.

There are two FIFO socket streams, `toRti` and `fromRti`. TCP keeps order and does not lose data while the connection is up.

The RTI is abstracted to what it promises:

- `rtiNet`, the last NET it received;
- `rtiTag`, the last TAG it sent;
- `upNext`, the next time of the upstream federate.

**Actions.** The mutex reduces every critical section to one atomic action:

- `NextEventTime` is the call up to its first wait. Its guards are the early returns at lines 994, 1014 and 1026.
- `SpuriousWakeup` and `WaitReturns` are the loop at 1031-1055, after a wake-up.
- `HandleTimeAdvanceGrant`, `HandleIncomingStopMessage`, `HandleTimedMessage` and `HandleMessage` are the four handlers.
- `SchedulePhysicalAction` is `lf_schedule_token` from an asynchronous thread.
- `BroadcastStop` is `__broadcast_stop`.
- `RtiReceive`, `RtiGrant`, `RtiRelayStop`, `UpstreamSend` and `UpstreamAdvance` are the environment.
- `AdvanceTo` and `SchedulerStop` stand for the local scheduler loop, which lies outside `src/`.

**Bounds.** The defaults are:

- times 0..3;
- at most one physical action (`MaxPhysical`);
- at most one message relayed from other federates (`MaxMessages`).

These bounds are enough for a TAG, a physical event and an older NET to meet in one wait. That meeting is the situation that all three findings below need.

### `Semaphore` (with `MCSemaphore`)

This module models `lf_semaphore.c`.

- **State.** `count`, for each thread its place in acquire, wait or release, and a ghost counter of the units released so far (for the bound).
- **Actions.** `Release(t, i)` adds i and broadcasts. `AcquireTest(t)` and `WaitTest(t)` are the `while (count == 0)` tests, on the call or after a wake-up. `SpuriousWakeup(t)` is a return from `lf_cond_wait` with no broadcast.
- **Bounds.** Three threads, releases of 0..2 units, and a total of at most 3 units released.

`CHECK_DEADLOCK FALSE` is set because threads parked in `acquire` with nothing left to release really do block for ever.

**Refinement.** `SemaphoreAbstract` is what the semaphore promises its callers: one count that `Release` raises by any amount and `Acquire` lowers by one, atomically, only when it is positive. A blocked caller is invisible there. `Semaphore` instantiates it with the identity mapping of `count` (`Abstract == INSTANCE SemaphoreAbstract`), and the run checks `ImplementsAbstract == Abstract!Spec` as a property. Every `AcquireTest` that takes a unit is an abstract `Acquire`. Every release is an abstract `Release`. The waits and spurious wake-ups are stutters.

### `SocketClose` (with `MCSocketClose`)

This module models `read_from_socket_close_on_error` and `write_to_socket_close_on_error`.

**State.**

- `sock[h]`, the int variable a handle points to;
- `fdOwner`, the kernel's descriptor table;
- the place of each thread in the close sequence.

**Actions.**

- `ReadCloseOnError` and `WriteCloseOnError` are the transfer, which may succeed or fail.
- `Shutdown`, `Close` and `MarkClosed` are the three statements that each re-read `*socket`.
- `OpenSocket` is a new socket or an accepted connection. It takes the lowest free descriptor, as POSIX requires.

**Bounds.** Three handles, three descriptors and two re-opens. This is enough for a descriptor to be freed, re-issued to another handle and then touched through the stale one.

### `ConnectToRti` (with `MCConnectToRti`)

This module models the retry loop of `connect_to_rti`.

- **State.** `port`, `specific_port_given` and `count_retries` are the locals of the same names; `pc` is the place in the loop. What listens on each port (`server`) is the environment: the right RTI (which may start late, `RtiStarts`), the RTI of another federation, or a process that accepts and closes at once (`closer`).
- **Actions.** `Connect` is one pass up to `connect()`: the next port of the range, or a counted retry. `Handshake` sends FED_ID and reads the response. `Response` and `Cause` give the bytes each kind of listener can answer; since `read()` is not checked, a closing peer leaves the response byte uninitialized, and any byte is possible.
- **Bounds.** Ports 1..4 around a range of two ports, `CONNECT_NUM_RETRIES` 2, port arguments 0 (none), 1 (in the range) and 3 (outside it). Any of "none", "rti", "foreign" and "closer" may listen on each port.
- **Fairness.** Weak fairness of `Connect` and `Handshake`: the loop runs on its own thread and blocks only in a bounded connect, read or sleep. Nothing is assumed of the RTI.

### `P2PConnect` (with `MCP2PConnect`)

This module models the peer-to-peer handshake: `connect_to_federate` on each connecting federate and `connect_to_federates` on the accepting one.

- **State.** For each connector: its place, `count_tries` of the address query, `count_retries` of the connect loop, and the reply byte waiting on its socket. For the acceptor: the listen backlog (connections that have sent their header and wait for `accept()`), the count `received_federates`, and the set of sockets recorded in `federate_sockets`. `adKnown` says whether the RTI has the acceptor's ADDRESS_AD.
- **Actions.** `QueryAddress`, `QuerySleep`, `Connect`, `ConnectSleep` and `ReadReply` are the connector's loop; the sleeps are steps of their own. `AcceptConnection` is one pass of the accept loop. The federation id compare is `FederationIdMatches`, which models what `strncmp(..., strnlen(...) != 0)` really does: it compares one character.
- **Bounds.** Two connectors and one retry. The federation ids are `<<"a","b">>` for the acceptor's own federation and `<<"b">>` for a foreign one; the `_initial` configuration gives the foreign federate `<<"a","c">>`, which shares the first character.
- **Fairness.** Weak fairness of every connector step and of the accept loop: each runs on its own thread. The RTI and the outcome of `connect()` are nondeterministic.
- **Not modelled.** A failing `accept()` (`federate.c:269`) and a header that is not `P2P_SENDING_FED_ID` or names another federation (275-285): every queued connection sends a well-formed header.

### `ServerBind` (with `MCServerBind`)

This module models the two bind loops on one host: `create_server` (the federate's P2P server) and `set_socket_bind_option` (used by `create_TCP_server`, for the RTI's server or any server). They share the host's port table `owner` with each other and with unrelated processes (`OtherBinds`, `OtherReleases`).

- **Actions.** `FedBind` is one `bind()` of `create_server` with its retry test `FedMayRetry`. `RtiBind` is one `bind()` of `set_socket_bind_option`, with `NextRtiPort` (the RTI's wrap at `DEFAULT_PORT + MAX_NUM_PORT_ADDRESSES`), the loop test `MayRebind` (`count++ < PORT_BIND_RETRY_LIMIT`), and `ReportedPort`, the port `getsockname` reads back for port 0.
- **Bounds.** Ports 1..4, with 4 the only ephemeral port; both ranges two ports wide; three binds at most. Port arguments 0, 1 and 2 cover all three branches of `set_socket_bind_option`.
- **Fairness.** Weak fairness of both bind loops, each on a thread of its own process.

### `ZephyrSleep` (with `MCZephyrSleep`)

This module models the unthreaded Zephyr build of `lf_zephyr_support.c`: the main thread's scheduler loop against an interrupt handler that schedules physical actions.

- **State.** The C globals `_lf_time_cycles_high` (`high`), `_lf_time_cycles_low_last` (`lowLast`), `_lf_in_critical_section` (`inCs`) and `_lf_async_event` (`async`), and whether interrupts are locked (`locked`). The hardware counter is `counter`, wrapping at `Wrap`. The main thread's locals are `mnow`, `mcycles`, `wakeup`, `wasInCs` and `ret`. The ghosts are `real` (the ticks so far), `storedReal` and `mreadReal` (the ticks at the reading `lowLast` holds and at the main thread's own reading), `mprev` (its previous result) and `unseen` (events the scheduler has not looked at).
- **Actions.** `lf_clock_gettime` of the main thread is four steps with interrupts enabled: `Read` (line 121), `Compare` (the wrap test, 128-130), `Combine` (131-133: `COMBINE_HI_LO`, then `TIMER_TICKS_TO_NS`) and `Store` (135, with the loop test of `lf_sleep_until`, 162). `lf_critical_section_enter` and `_exit` are two steps each: the flag, then `irq_lock` or `irq_unlock`. `SleepEntry` is lines 152-159 and `Final` lines 165-172. `Check` and `Handle` stand for the scheduler, which lies outside `src/`: it looks at the queue inside its critical section and sleeps until the next event or the stop time. `Interrupt` is `lf_schedule_token` from an interrupt handler: a critical section, `_schedule` reading physical time for a physical action (one atomic `lf_clock_gettime`), and `lf_notify_of_event`. It fires only while interrupts are not locked. `Tick` is the counter.
- **Conversion.** `TicksToNs` is `TIMER_TICKS_TO_NS` (line 55) as the C evaluates it: `((int64_t) ticks) * 1000000000ULL` is an unsigned 64-bit product, reduced modulo `Word` (2^64), divided by the frequency, and stored in an `int64_t`, which holds values of 2^63 and above as negative ones.
- **Assumption.** The comment of `lf_clock_gettime` asks for a call at least once per wrap. `Tick` never lets the counter pass a reading still in use (`OldestReading`). Without that, the model loses wraps that the real code would lose only after 35 minutes without a clock read.
- **Bounds.** `Wrap` 3 and at most 7 ticks, so the counter wraps twice; two interrupts. This is enough for an interrupt to fall between every pair of the main thread's steps, with and without a wrap between them. The conversion is scaled down with its shape kept: `NsPerSec` 4, `FreqHz` 2 and `Word` 16, so a tick is 2 ns and the product wraps after 4 ticks (after 2^64/10^9, about 1.8 * 10^10 ticks, in the code); the time in nanoseconds runs 0, 2, 4, 6, 0, ... Sleeps are 2 or 4 ns. The stop time 6 lies below the largest of these values, so the scheduler both sleeps and stops.
- **Fairness.** Weak fairness of the main thread's steps and of `Tick`. The main thread runs whenever no interrupt does, and the counter is hardware. Interrupts are not forced. No liveness property is checked: under the tick bound, a spurious wrap (`ClockExact`) leaves the cycle count ahead of the last tick, so "every sleep returns" would fail because of the bound, not the code.

`lf_critical_section_enter` sets the flag before `irq_lock`. An interrupt in between runs its own enter and exit and leaves the flag false while the scheduler then holds interrupts locked. TLC reaches that state. `lf_sleep_until` then skips its exit and busy-waits with interrupts locked. The same interrupt has set `_lf_async_event`, so the wait ends at once, and `NoLostNotification` holds.

## Runs

| run | module / cfg | result | what it shows |
|---|---|---|---|
| coordination | MCFederateCoordination.cfg | pass | `TypeOK`, `NoLostWakeup` (the main thread never sleeps with its grant delivered or an earlier event queued) and `PendingGrantOwed` (while waiting for a TAG, a NET is in flight, or the RTI owes a grant, or a grant is on the wire). 1.4M states. |
| event_skipped | MCFederateCoordination_skip.cfg | violation | `NoEventInPast`. |
| semaphore | MCSemaphore.cfg | pass | `NoSleepWithCount` (no thread sleeps in `acquire` or `wait` while the count is positive, although the count is re-tested only after the mutex is re-taken), and `ImplementsAbstract` (the refinement of `SemaphoreAbstract`). |
| socket_close_one_thread | MCSocketClose.cfg | pass | `NoForeignDescriptor`: with one thread per handle, close-on-error never touches a descriptor re-issued to another connection. |
| socket_close_shared | MCSocketClose_shared.cfg | violation | The same property with a reader and a writer sharing a handle. |
| connect_rti | MCConnectToRti.cfg | pass | `ConnectedToRtiOrCloser` (the loop returns connected only to the right RTI, or to a process that accepted and closed, which the unchecked `read()` lets through) and `ConnectEnds` (it ends, connected or exited). |
| p2p | MCP2PConnect.cfg | pass | `AcceptsOnlyOwnFederation` and `OwnConnectorsEnd` (every peer of the acceptor's federation finishes its handshake). |
| p2p_same_initial | MCP2PConnect_initial.cfg | violation | `AcceptsOnlyOwnFederation` with a foreign id that shares the first character. |
| server_bind | MCServerBind.cfg | pass | `RtiPortInRange`, `ReportedPortBound` (each loop reports the port it holds, whatever other processes bind) and `ServersEnd`. |
| zephyr_sleep | MCZephyrSleep.cfg | pass | `TypeOK` (which includes that no sleep is asked for past the stop time), `CyclesNeverBehind` and `CyclesMonotonic` (the main thread's 64-bit cycle count `cycles_64` is never behind the ticks counted and never goes backwards, whatever interrupts read in between) and `NoLostNotification` (a sleep returns 0 only if the scheduler has seen every event scheduled since it last looked). 29k states. |
| zephyr_clock_exact | MCZephyrSleep_exact.cfg | violation | `ClockExact`: the main thread's reading is the time elapsed. |
| zephyr_clock_ns | MCZephyrSleep_ns.cfg | violation | `ClockMonotonic`: the time in nanoseconds that `lf_clock_gettime` returns never goes backwards. No interrupts, so the wrap of the conversion is the only cause. |

Each property of a passing run has a mutant in `PROJECT.json`. A mutant is a plausible bug in the code, and TLC finds the property violated when the mutant is used:

- a TAG handler that forgets to broadcast or to clear `__tag_pending`;
- `if` in place of `while`;
- signal in place of broadcast;
- a handle that is not reset to -1;
- a retry that is not counted, or a retry limit tested one too late;
- a federation id that is not compared;
- the RTI's port wrap tested with `>` for `>=`;
- `getsockname` left out, so that port 0 is reported;
- an acquire that takes a unit without the `while` test (for the refinement);
- the wrap test of `lf_clock_gettime` left out;
- `lf_sleep_until` returning 0 without testing `_lf_async_event`;
- a scheduler that sleeps past the stop time (for `TypeOK`, whose `wakeup` is capped by the stop time).

## Findings

The violation runs show real disagreements between the code and what the spec or a comment says:

1. **event_skipped** (`federate.c:1039`). A TAG and an earlier physical event arrive during the same wait. The loop returns the grant, and the event is left behind logical time.
2. **socket_close_shared** (`socket_common.c:245`). Close-on-error re-reads `*socket` without a lock. The spec says this reset is atomic.
3. **p2p_same_initial** (`federate.c:293`). The length argument of `strncmp` is `strnlen(...) != 0`, that is 1. Only the first character of the federation ids is compared.
4. **zephyr_clock_exact** (`lf_zephyr_support.c:128`). The main thread reads the counter, say 0. An interrupt that schedules a physical action reads the clock next, after one tick, and stores 1 in `_lf_time_cycles_low_last`. The main thread then sees its 0 below 1, counts a wrap that never happened, and its time jumps a whole wrap ahead (2^32 cycles, about 35 minutes). The scheduler's busy wait then ends at once, and later readings stay ahead. The comment says the function returns the time as long as it is called once per wrap. The proof below shows that the error only ever goes forward.
5. **zephyr_clock_ns** (`lf_zephyr_support.c:133`). `TIMER_TICKS_TO_NS` multiplies the cycle count by 10^9 in unsigned 64-bit arithmetic. Once the product passes 2^64, after about 1.8 * 10^10 cycles (19 minutes at 16 MHz), the time in nanoseconds falls back towards 0 while `cycles_64` keeps rising. The trace has cycle counts 2 then 4 and times 4 then 0. The comment says the function returns the current time in nanoseconds. The busy wait of `lf_sleep_until` (line 162) runs while this time is below the wake-up time, so a wake-up above the largest value the wrapped conversion yields (about 2^64 / freq ns) is never reached and the sleep never returns.

Two disagreements found by earlier runs are now hazards without a run, to make room for the Zephyr runs. First, an interrupted wait in `__next_event_time` returns an earlier event's time with no grant (line 1046); spec 4.6 asks for that, and spec I3 forbids a federate with upstream federates to advance there. Second, the REJECT path of `connect_to_federate` (line 453) retries uncounted for ever, where spec 4.5 says a non-transient REJECT fails. Four more are recorded as hazards without a run. `connect_to_rti` does not check the `read()` of the handshake response (line 577): a peer that accepts and closes leaves the byte uninitialized, and unless it equals REJECT the loop reports success connected to that peer; `ConnectedToRtiOrCloser` states that this is the only way past the check. `connect_to_rti` (line 516) and `create_server` (line 137) both test the upper end of the port range before `port++`, so each tries, and `create_server` binds, the port one past the range. `__next_event_time` can return a grant above the requested time (line 1055), against the contract in its comment.

## Proofs

`FederateCoordinationProofs` proves three results with TLAPS, for all values of `MaxTime`, `MaxPhysical` and `MaxMessages`:

- `TypeCorrect`: `Spec => []TypeOK`.
- `NoLostWakeupHolds`: `Spec => []NoLostWakeup`.
- `PendingGrantOwedHolds`: `Spec => []PendingGrantOwed`.

Neither property is inductive as it stands. The proofs use `IInv == TypeOK /\ NoLostWakeup /\ GrantKnown`, where `GrantKnown` says that once the wait loop has seen `__tag_pending` cleared, `__tag` holds a real time. Without it, `WaitReturns` could set logical time to `NEVER`. TLC checked `IInv` as an invariant before it was proved.

The proof has one step per action. Each step proves the Boolean part of the type with Zenon and the arithmetic part with SMT, then the two properties. The lemmas are:

- `HeadTimeProps`: `Min` of the event queue is its least element. It is proved from the well-foundedness of `<` on naturals.
- The message type lemmas `ToRtiMsgType`, `FromRtiMsgType` and `DataMsgType`, and `AdvanceToType`.

`PendingGrantOwed` needs a second invariant, `GInv`, which relates the federate's state to the RTI's state and to what is on the two sockets. `LastIs(s, ty, v)` says that the last message of type `ty` in `s` carries `v`. `GInv` has five conjuncts:

- `GrantSeen`: the last TAG in flight carries `rtiTag`.
- `GrantHeld`: with no TAG in flight, `__tag = rtiTag`.
- `RequestSeen`: with an upstream, the last NET in flight carries `waitTime`. Only the waiting branch of `__next_event_time` sends a NET when there is an upstream.
- `RequestHeld`: with `__tag_pending` set and no NET in flight, `rtiNet = waitTime`.
- `PendingAbove`: `__tag_pending` implies an upstream and `__tag < waitTime`.

Together they give `rtiTag = __tag < waitTime = rtiNet` whenever nothing is in flight. The FIFO lemmas `LastIsAppendSame`, `LastIsConcatOther`, `LastIsAppendOther`, `LastIsTail` and `InFlightTail` describe how appending to a socket and reading its head move the last message of a type. Three lemmas cover whole classes of steps:

- `GInvToRtiOther`: the federate sends LTC or STOP.
- `GInvFromRtiOther`: STOP or a data message arrives.
- `GInvReadOther`: `listen_to_rti` reads something that is not a TAG.

The remaining actions each have a lemma of their own. The trickiest is `GInvRtiReceive`: when the RTI reads the last NET in flight, `RequestSeen` says that NET carries the time the main thread waits for. TLC checked `GInv` as an invariant on the coordination run before it was proved.

`SemaphoreProofs` proves two invariants for every set of threads, every initial count and every bound on releases:

- `SemaphoreTypeCorrect`: `Spec => []TypeOK`.
- `NoSleepWithCountHolds`: `Spec => []NoSleepWithCount`.

The inductive invariant is `TypeOK /\ NoSleepWithCount`. The type part needs the count to stay a natural number: it is a `size_t` that acquire decrements only when it is positive. `NoSleepWithCount` is preserved because release wakes every parked thread (`WokenProps`), and because a thread parks only on a zero count. The proof has one step per action, and acquire splits on the count.

`SemaphoreProofs` also proves the refinement, `SemaphoreRefinement`: `Spec => ImplementsAbstract`. The initial states map to an initial state of `SemaphoreAbstract`. Under `IInv`, every step maps to an abstract step or a stutter (`NextRefines`): a release raises the count by its `i \in Nat`, and an `AcquireTest` that takes a unit finds the count positive. The temporal step combines the two with PTL.

`ServerBindProofs` proves three results for every port table, both ranges and every positive `PORT_BIND_RETRY_LIMIT`:

- `ServerBindTypeCorrect`: `Spec => []TypeOK`.
- `RtiPortInRangeHolds`: `Spec => []RtiPortInRange`.
- `ReportedPortBoundHolds`: `Spec => []ReportedPortBound`.

The inductive invariant adds one fact to the three properties: while `set_socket_bind_option` still binds, `count <= PORT_BIND_RETRY_LIMIT`. Without it, `TypeOK`'s bound on `count` is not preserved. `BindTargetsProps` says a bind takes only a free port, and for any hint but 0 only `used_port`. That is why no bind, of either loop or of another process, takes a port that a reported port names. `NextRtiPortInRange` is the wrap at lines 124-127. The assumption `PORT_BIND_RETRY_LIMIT > 0` is what the runtime's positive limit gives; with 0 the count would leave its range after a single bind.

`ZephyrSleepProofs` proves four results for every counter modulus, word size, frequency, stop time, set of sleep durations and number of interrupts. They are about `cycles_64`, before the conversion; the time in nanoseconds does go backwards (`zephyr_clock_ns`).

- `ZephyrSleepTypeCorrect`: `Spec => []TypeOK`.
- `CyclesNeverBehindHolds`: `Spec => []CyclesNeverBehind`.
- `CyclesMonotonicHolds`: `Spec => []CyclesMonotonic`.
- `NoLostNotificationHolds`: `Spec => NoLostNotification`, the action property.

The argument counts ticks on the counter's circle. `Dist(a, b)` is the number of ticks from a reading `b` to a reading `a` less than a wrap later. The inductive invariant `ClockInv` says four things:

- the ticks since the stored reading are `Dist(counter, lowLast)`;
- the stored time `high * Wrap + lowLast` is at least the ticks at that reading, and at least the main thread's previous result;
- while the main thread is inside `lf_clock_gettime`, the ticks since its own reading are `Dist(counter, mnow)`;
- from the wrap test on, `high * Wrap + mnow` is at least its own reading and its previous result.

The wrap test (`Compare`) splits on whether an interrupt stored a later reading and on whether `mnow < lowLast`. In every case the result is at least the stored time. An interrupt's own reading only raises the high word. `Tick` keeps the distances through `CounterStep`, `(c + 1) % Wrap` on the circle, and through the assumption that no reading in use is a wrap old. TLC checked `IInv` on moduli 3 and 4 before it was proved. `NotifyInv` carries the notification argument. While the main thread is in a sleep (`InSleep`, which counts the critical-section steps of `lf_sleep_until` through `cont`), an unseen event means `_lf_async_event` is set. When the sleep begins, nothing is unseen, because `Check` runs inside the critical section that `SleepEntry` starts from. Only `Final` moves from `final` to `handle`, and it returns 0 only when the flag is clear, so the step property follows. Flags are Boolean in a Zenon step of their own (`NextBoolOK`), because SMT fails on the mix of Booleans and arithmetic.

`SocketCloseProofs` proves `SocketCloseTypeCorrect`: `Spec => []TypeOK`, for every set of handles and threads and every nonempty set of descriptors, with no condition on how threads share handles. `TypeOK` is inductive; the one step that needs a lemma is `OpenSocket`, which hands out `Min` of the free descriptors. `MinNat` shows that this `Min` is a free descriptor, from the well-foundedness of `<` on the naturals (`NatLessThanWellFounded` and `WFMin` of `WellFoundedInduction`). `NoForeignDescriptor` is only model-checked: it holds when each connection variable is used by one thread and fails when a reader and a writer share one, so no statement for every sharing of handles holds.

`ConnectToRtiProofs` proves two results for every starting port, range, retry limit and placement of servers, closers included:

- `ConnectToRtiTypeCorrect`: `Spec => []TypeOK`.
- `ConnectedToRtiOrCloserHolds`: `Spec => []ConnectedToRtiOrCloser`: the loop ends connected only to its federation's RTI or to a process that accepted and closed without answering. A foreign RTI's REJECT always moves the loop on; the closer is the one way past the check.

The strengthening adds two facts:

- `RetryBound`: while the loop runs, `count_retries <= CONNECT_NUM_RETRIES`. The pass that goes past the limit exits.
- `HandshakeListening`: a handshake always talks to a port where something listens. Nothing stops listening, and the RTI never stops once started.

With these, a handshake ends connected only on an ACK, which only the federation's own RTI sends, or on a byte read from a closer. TLC checked the strengthened invariant on the `connect_rti` instance before it was proved.

`P2PConnectProofs` proves `P2PConnectTypeCorrect`: `Spec => []TypeOK`, for every set of connectors and ids, expected count and retry limit. `AcceptsOnlyOwnFederation` is only model-checked: `p2p_same_initial` shows it failing for ids that share a first character.

`TypeOK` needs `Bounds`, which has two parts:

- until a connector exits, `count_tries` and `count_retries` are within `CONNECT_NUM_RETRIES`;
- while the acceptor accepts, `received_federates` is below the expected number.

As in `ZephyrSleepProofs`, `adKnown` is kept out of the SMT steps (`DataOK`, `BaseInvData`).

## What is only model-checked, and what is not modelled

Only TLC checks the following:

- Liveness and anything that uses `ENABLED`, since TLAPS cannot check them.
- The violation runs.
- `NoForeignDescriptor` and `AcceptsOnlyOwnFederation`: each holds on the instance its passing run checks and fails on the one its violation run checks, so none holds for every value of the constants.

These parts are not modelled yet, and are planned:

- The threaded Zephyr build: the mutex, condition variable and atomic wrappers (`lf_zephyr_support.c` 290-420) delegate to the Zephyr kernel. `lf_sleep` and `lf_nanosleep` only add a clock read before `lf_sleep_until`.
- `get_start_time_from_rti`, one TIMESTAMP exchange.
- The wire codec, and byte-level framing including the truncation at `federate.c:698`. Each would need a model of the bytes on the socket.

Not modelled at all:

- Logging and formatting.
- `MutexWrapper.h`, which holds declarations only.
- `synchronize_with_other_federates`, which is sequential start-up.
