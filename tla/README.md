# Bridget, specified

Bridget lets AI agents (provider processes, each behind a *wrapper*), humans and tools exchange
messages and work through one local *daemon*. This directory holds TLA+ models of the daemon's
core, TLC runs that check them on small instances, and TLAPS proofs of their main properties for
all instances. File and line references are to `src/crates/bridget-daemon/src/` unless they say
otherwise. `PROJECT.json` gives, for every definition, the lines it stands for.

Contents: 1 the system and its parts; 2 the modules; 3 the runs; 4 fairness; 5 the proofs;
6 disagreements found; 7 what is left out; 8 plan.

## 1. The system

### Processes and stores

* **Daemon** (`daemon.rs`): one `DaemonState` behind one `Mutex`. A handler holds the mutex from
  its first read to its last write, with few exceptions (`DeliveryIndeterminate` takes it twice).
  Sockets are written after the mutex is released.
* **Stores**: SQLite files opened by the daemon. A handler may commit several transactions; the
  process may stop between any two.
* **Wrapper** (`wrapper.rs`): one per agent *instance*. It reads deliveries from its Unix socket,
  keeps one receipt file per delivery, injects the prompt into the provider and reports back. It
  stops and restarts on its own.
* **Clients**: command line, MCP server, mobile gateway, other agents. They retry.

An agent keeps its name over successive instances. The daemon knows an instance through a
*presence*, kept for a while after the connection is lost and then purged.

### Components

| component | state | operations | what makes it correct |
|---|---|---|---|
| Idempotent send and delivery | `idempotency_records`, `send_deliveries`, `orphan_emitter_notices` | reserve, resume, reject, begin, acknowledge, mark indeterminate, orphan, settle, purge | one submission, one delivery, one truthful result, across crashes and replays |
| Wrapper delivery receipts | receipt files, pending injections | receive, prompt dispatched, injection failed | a delivery enters an instance's prompt at most once |
| Held queue and queue edits | held rows with `queue_rank` and `turn_gate`, `queue_edits`, `held_ids` | hold, release, promote, reorder, cancel, sweep | list order, one departure per turn, nothing stuck, nothing reminded early |
| Spawn commands | `spawn_commands` and their records | reserve, advance, finish, recover | a repeated spawn starts one process; every command gets one issue |
| Managed agents, fleet | `fleet.json` (desired state), `FleetInner`, `managed_spawns`, the supervisor's processes | spawn, relaunch, stop, decommission, expire, supervise, recover | one agent per name; what was stopped stays stopped; what runs is found again |
| Agent links | `agent_links` | create, transition, orphan, transfer | every child has one owner, no cycle of owners |
| Executions | `executions`, `control_pause_interruptions`, the wrapper's bindings | admit, compare-and-set transitions, interrupt, pause, recover, reconstruct | one open execution per submission, terminal is final, what is shown completed was done, nothing runs twice without a loss |
| Reply requests | `tracked_requests`, `pending_replies` | open, answer, time out, cancel, remind | one end per request, answer against deadline |
| Wake schedules | `wake_schedules`, one-shot wakes in `idempotency_records`, their deliveries and posts | schedule, cancel, wake once, tick (calendar, freeze, deliver, settle) | each occurrence at most once and only while allowed, none forgotten, no false verdict |
| Referent control, guidance | pause flag and generation, rate limits | pause, resume, authorise | nothing autonomous leaves during a pause |
| Native delegation | missions, child requests, lineage | start, capture, recover | a mission runs once, its result is kept |
| Router, deduplication, circuit breaker (`bridget-core`) | routes, recent ids, failure counters | route, remember, trip, reset | bounded memory, no lost route |
| Human inbox, decisions, user input | open questions | ask, answer, expire | one answer wins |
| Threads; artifacts; journal; remote worker | their stores | see `PROJECT.json` | |
| Protocols, transports, command line, mobile, policies | little or none | encoding, I/O | |

Interactions that matter: a send calls `should_hold` (presence, held rows), then commits the row;
the acknowledgement of the wrapper settles row and record together; `Register` reassigns or adopts
the rows of the previous instance, replays the unacknowledged ones and tries a release; a purge of a
presence orphans what was addressed to it; a pause interrupts executions and keeps the queue shut
until they have been restarted; the maintenance thread expires, sweeps and purges; the reminder
thread runs the wakes, whose departures are idempotent deliveries or contributions to a thread; a
spawn reserves a key as a send does, and the registration of its wrapper is what connects it.

### What is hard here

Two durable stores that no transaction covers (the daemon's database, the wrapper's receipts);
crashes between transactions; acknowledgements that come late, twice or from an earlier instance;
records that are purged while a client may still repeat its submission; several triggers that may
release the same queue; memory (`held_ids`, `pending_replies`) that must follow the database;
deliveries whose recipient never comes back; turns that the wrapper knows by message and the daemon
by execution; `fleet.json` beside the database; events of the supervisor that are handled after the
name they speak of was given to another launch; ticks that work on a snapshot while schedules are
cancelled and the time zone changes. `PROJECT.json` lists each hazard at its line, with the
properties aimed at it, or the reason there is none.

## 2. The modules

| module | what it is |
|---|---|
| `IdempotentOperation` | abstract: what an idempotency key promises to its client |
| `Delivery` | the send path of one agent, from the key to the provider's prompt and back |
| `DeliveryEffects`, `DeliveryProofs`, `DeliveryRefinement` | proofs about `Delivery` |
| `EditableQueue` | abstract: a list that can be joined, released in turn and edited |
| `HeldQueue` | one agent's held queue: admission, turn reservation, releases, edits, pauses |
| `HeldQueueOrder` | the ranks of `HeldQueue` as a list; refinement of `EditableQueue` |
| `HeldQueueProofs` | proofs about `HeldQueue` |
| `Execution` | one agent's executions: daemon, socket, wrapper session loop and provider |
| `ExecutionProofs` | proofs about `Execution` |
| `Fleet` | spawn commands and managed agents of one daemon, with its supervisor thread; refines `IdempotentOperation` |
| `FleetProofs` | proofs about `Fleet`, its refinement included |
| `WakeSchedules` | schedules, one-shot wakes and the tick that makes them leave |
| `WakeProofs` | proofs about `WakeSchedules` |
| `MCDelivery`, `MCHeldQueue`, `MCExecution`, `MCFleet`, `MCWakeSchedules` | symmetry sets and structured constants for TLC; the `.cfg` files give the other constants |

Names ending in `_Something` after an operator's name are *faulty variants*: what the operator
would be with a plausible bug. They are used by nothing; `PROJECT.json` ("mutants") pairs each with
the property that catches it.

### Delivery

State and code: `rec` is `idempotency_records`, `dlv` `send_deliveries`, `notice`
`orphan_emitter_notices`, `captured` what the delegation store retained; `conn` and `presence` are
the route and the presence of the agent; `lock` and `req` say which handler holds the mutex between
two of its transactions, `resolved` which reports wait between the two holds of
`DeliveryIndeterminate`; `toWrapper` and `toDaemon` are the sockets (sets: anything in them may be
lost with the connection); `receipt`, `up`, `pending` belong to the wrapper; `injected` counts
prompts and is history.

Each transaction is an action: `SendReserves` or `SendResumes` (reserve), then `RejectPrepared`,
`NackKeepsPrepared`, `CaptureReply` + `CaptureTransition` + `CaptureFinalize`, or `BeginDelivery`;
`CancelHeld`, `ReleaseHeld`; `Register`, `Disconnect`, `PurgePresence`, `PurgeWithoutOrphans` (the
orphaning transaction failed), `NotifyEmitter`; the wrapper's `WrapperInjects`, `WrapperReports`,
`PromptEnters` (the provider, external), `PromptDispatched`, `InjectionFailed`;
`HandleDeliveryAck`, `ResolveReporter`, `HandleDeliveryIndeterminate`; the maintenance pass
`MaintainStarts`, `SweepHeld`, `SweepDone`, `SettleExpiredDispatching`, `PurgeExpiredSends`,
`MaintenanceFails`; `DaemonRestarts`, `WrapperStarts`, `WrapperCrashes` and the clock.

Abstractions: contents are model values and are compared as `replay_existing` compares canonical
bytes; time is a small counter against which `Horizon`, `Tolerance` and `Grace` are measured; the
delivery generation is left out (it changes with the instance id, which is kept); wake deliveries
and thread notices are left out. `Register` groups the transactions of the reconnection: the
intermediate states are seen by nobody else, and a stop between them is repaired by the next
`Register`, which selects rows by agent and phase again. Each of the two moves of rows (`Moves`:
reassignment, adoption) may fail. A failed reassignment is only logged. A failed adoption answers
`Nack` (`daemon.rs:8861`) while route, presence and `conn_instances` already name the new instance:
the wrapper leaves, but frames are still written for it (`refused`) until the route is dropped.
The receipts have their quota of entries; their quota of bytes and the quarantine of an unreadable
store (`receipt_store.rs:137-151`) are left out.

### HeldQueue

State and code: `phase`, `rank`, `gate` are columns of `send_deliveries` (`queue_rank`,
`turn_gate`); `request` is `tracked_requests` (`late` = deadline passed but not closed yet);
`receipts` is `queue_edits`; `paused`, `interrupted` the referent control and a pending pause
interruption; `asleep` is `agent_tracking.dormant`; `pres` the presence (state, freshness of the
attestation, length of the busy period), `refused` that its registration was refused; `heldIds` and
`tracked` are `held_ids` and `pending_replies`; `lock` is the handler that is inside the mutex.
`left` and `cycle` are history.

`ReleaseNext` is `schedule_held_release` with `release_next_held`, and is part of each of its
callers: `TurnEnds`, `RegisterEnds`, `ExecutionEnds`, `Unpause`, `ReminderTick`. `Resumed` is the
restart of an execution that a pause interrupted; `OtherTurnEnds` is the same restart found by the
handler of another agent's turn. The edits are `EditCancels`, `EditReorders`, `EditPromotes`,
`EditFindsClosed` and `EditRefused`; a repeated edit reads its receipt and is a stutter.

`Register` adopts the held rows and, for a type that recovers them, the rows in flight, each of
which takes the turn reservation (`send_delivery.rs:822`); the part of the recovery that is refused
gives it back. When the adoption fails (`RegisterRefused`) presence and route stay and no row moves.
A message of a human through the mobile API (`Mobile`) is held as well, whatever the type says of
its queue, and meets a limit of its own on the whole queue (`mobile_hold`, `daemon.rs:12580`).

Abstractions: the agent's type opens the queue (`held_queue`, `turn_attest`); ages are flags that
may be raised at any time, which includes every real schedule; the rights of the editor are reduced
to an edit being applied or refused; sends to a sleeping agent are not refused by the model (native
exchanges are admitted), which only adds behaviours; receipts are never purged (the code keeps them
seven days, longer than any held message); a resumption (reconstruction and delivery) is one step
here, and the stop between its two halves is part of `Execution`.

### Execution

State and code: `exec` is the table `executions` (state, generation, revision, submission, parent);
`dlv` and `home` the linked `send_deliveries` and the instance they are for; `pause` the rows of
`control_pause_interruptions`; `cmd` the last control command of an execution. `handing` is an
execution committed by a handler that has not handed it over yet, `outbox` what is written once the
mutex is free, `failing` the plain deliveries whose write failed; `quota` is the wait of a mission
for a usage limit (`waiting`, `relaunching`, `resumed`, then `done` or `failed`). `toWrapper` and
`toDaemon` are the two directions of the socket. Of the wrapper: `receipt`, `bind`
(`execution_bindings`, by message), `pend` (`IdempotentDeliveryTracker`), `loop` (the session loop
drains events, then reads). Of the provider, external: `queue`, `active`, `events`. `done`,
`prompted` and `shaken` are history.

The handlers are `Admit`, `Resubmit`, `HandOver`, `Push`, `PushFails`, `Register` (with the replay
of deliveries and `Recover`, that is `schedule_execution_recovery`), `HandleTransition`,
`HandleTurnState`, `HandleReceipt`, `HandleReport`, `Interrupt`, `Pause`, `Unpause`; the relaunch of a
mission whose turn failed on a usage limit is `Qualify`, `ClaimsQuota`, `ReconstructQuotaFailed`,
`RedeliversQuota`, `SettlesQuota` and `FailsQuota`, each a tick of its own; the wrapper's are
`SampleBusy`, `Notice`, `ReadPlain`, `ReadIdempotent`, `ReadInterrupt`, `Forward...` and
`InjectionFails`; the faults are `Disconnect`, `DaemonCrash` and `WrapperRestart`, with or without
its instance id. The transaction that admits or reconstructs an execution and the one that writes
its delivery are separate steps, and the daemon may stop between them (`daemon.rs:6440`) or the second
may be refused (`HandOverFails`). A recovery may also do nothing (the guards of a mission, the
specialists' budget, a storage error) or, when the message cannot be read any more, close the
execution without a child.

Abstractions: a submission is its message; approvals, questions to the user, steering, the
quarantine and cancellation of missions and results of remote workers are left out; whether a failure
was a usage limit, and when the limit is over, is open; the wrapper is a managed one,
which attests its turns; a turn completes, fails, is refused or is cancelled.

### Fleet

State and code: `ord`, `saga`, `rec` are `spawn_commands` and their idempotency records; `desired` is
`fleet.json`; `active`, `lock` belong to `Fleet` (its mutex, between two durable writes); `managed`,
`recovering`, `stopping`, `decom`, `hold`, `todo` to the daemon; `proc`, `attempted`, `events` to the
supervisor thread and its channel; `late` says whose deadline has passed. Each durable write is an
action: `Refuses`, `Reserves`, `Prepares`, `PreparationFails`, `FailWrites` and the `...Finishes` that
end a section begun by a `...Writes`. The supervisor launches, registers, connects, expires, fails,
reaps and stops; `DrainConnected`, `DrainLost`, `DrainStopped` are the main loop; `DaemonRestarts` is
followed by the start-up (`CandidateKept`, `CandidateExpires`, `CandidateFails`, `EntryRecovers`,
`BootEnds`), which may be stopped as well; the start of a recovered launch may find no supervisor
(`StartUndelivered`). The deadline branch of `mark_starting` (`fleet.rs:1140`) has no action: its
caller passes the same `now` to the reservation and to the preparation (`lifecycle.rs:275-289`).

Abstractions: a generation belongs to one command and the command stands for it; a replayed, expired
or mismatched command changes nothing and is a stutter; remote placement, agent links, marker files
and their stop path, `adopt_stopped`, the roster and containers are left out; names held by the
router only are ignored by the guard of a relaunch, which adds behaviours; what the start-up does
before `FleetSupervisor::open` is part of `DaemonRestarts`, since a stop inside it is redone from the
same files; supervisor and main loop are interleaved more finely than one polling thread would.

### WakeSchedules

State and code: `rows` is the table `wake_schedules` with the occurrence frozen last; `cli` the
one-shot wakes among the idempotency records; `delivery` the phase of a wake in `send_deliveries`;
`posted` the committed operations of a thread. The tick is one thread: `pc` says where it is, `at`
is the time it began, `snap` the schedules it read, `todo` and `page` what is left to treat,
`cursor` the place reached among the one-shot wakes, `wake`, `look`, `verdict` the item in hand.
`calculate_cadence` is `CalculateCadence`, `create_wake_schedule` `CreateWakeSchedule` and so on. A
calendar schedule looks `Horizon` days ahead (8 in the code); where none of them has the hour the
answer is `calendar_unavailable` (`CalendarAvailable`): a request is refused, the tick passes over
the schedule, and an occurrence that would end stays open until the window has moved on. A
`Commit...` is a hold of the mutex in `scheduled_wakes_tick`, a `Guards...`, `Post...`, `Depart...`
or `Write...` a step of `deliver_frozen_wake`. `BecomesUnknown` is a report of the wrapper,
`PresencePurged` the orphaning of all that was under way to one instance, which closes the records
of one-shot wakes in the same transaction and is refused as a whole when one of them is closed.
Requests, pauses, the end of the owner, acknowledgements, changes of zone and stops come between any
two of them, except while the code keeps the mutex (`MutexFree`).

Abstractions: one native owner, which may end; an owner that lives for ever is an ordinary agent. A
schedule's cadence and target are fixed by the constants. The reservation of a departure is part of
`begin_send_delivery`. The readings of `LookAtSchedule` are one step, as no two of them depend on
each other; two different readings of the zone are `CommitAdvances` without effect. Refusals of the
target, a sleeping agent and "do not disturb" may happen at any time. A zone lies
between a day behind UTC and a day before it (`local`, `wake_schedules.rs:169`). Storage errors,
overflows of the clock, the summaries of missed wakes and the quota of 60 per
minute of the command line are left out, and so is the purge of a delivery while its occurrence waits.

## 3. The runs

All bounds are constants of the modules. Counts are distinct states.

| run | instance | shows |
|---|---|---|
| `delivery_replay` (515 k) | one key, two contents, two deliveries, room for one receipt, clock long enough for expiry, grace, purge and a second life, fair maintenance | `TypeOK`, `DeliveredAsReserved`, `ImplementsContract`, `EveryDeliverySettles` |
| `delivery_instances` (2.2 M) | one message, ordinary or a mission, two instances, two crashes and refused registrations anywhere | `AtMostOncePerInstance`, `MissionNeverRepeated`, `AcceptedWasInjected`, `CancelledNeverInjected`, `RecordMatchesDelivery`, `EmitterIsTold`, `ReadFramesNameTheirReader`, `SettledIsFinal` |
| `delivery_frames` | expected violation, section 6 | `FramesReachTheirInstance` |
| `delivery_orphan` | expected violation, section 6 | `OrphanedNeverInjected` |
| `held_order` (644 k) | three messages, room for all, one edit, one fault | `OneDeparturePerTurn`, `ImplementsQueue`, `ReordersAsAsked` |
| `held_turns` (3.57 M) | a request and the restart of a paused execution, one place, one edit, two pauses or sleeps, one fault | `TypeOK`, `NoReservationIsStuck`, `HeldIsNotReminded`, `WithdrawnIsForgotten`, `OneDeparturePerTurn` |
| `held_leaves` (99 k) | an ordinary message for one place, a mobile one for two, one fault, fair agent | `EveryHeldLeaves` |
| `held_ids` | expected violation, section 6 | `HeldIdsAreHeld` |
| `execution_turns` (2.37 M) | one submission, with or without a key, one reconstruction, one fault, one pause or one relaunch after a usage limit | `TypeOK`, `OneLiveExecution`, `CompletedWorkWasDone`, `AckedWorkWasPrompted`, `RerunNeedsLoss`, `TerminalIsFinal` |
| `fleet_lifecycle` (143 k) | one name, two commands of clients, one recovery, one restart, fair threads | `TypeOK`, `OneAgentPerName`, `StoppedStaysStopped`, `RunningIsRemembered`, `DecommissionedIsFinal`, `ImplementsContract`, `EverySpawnEnds`, `RecoveryEnds` |
| `wake_ticks` (285 k) | an interval schedule for an agent and a calendar schedule for a thread sharing one place, or two one-shot wakes read one per tick; one stop, one change of zone, one date without the hour in one of the zones | `TypeOK`, `VerdictIsTrue`, `EachDueOnce`, `NoForbiddenDeparture`, `EveryWakeSettles` |
| `wake_dates` | expected violation, section 6 | `OncePerDate` |

`OneDeliveryPerSubmission` (`Delivery`), `WithinCapacity` and `OrderIsKept` (`HeldQueue`) have no run
of their own: they are theorems (section 5).

Why the bounds are enough to be interesting: a replayed submission needs one key and two lives of
it; a migration needs two instances; a double injection needs one crash between receipt and
acknowledgement and a second one for the daemon; the record/delivery agreement is per key. An
insertion in the middle of a list needs three elements, and the fault of `held_order` is what could
disturb the order: a restart, another instance, a purge, a refused registration. A full queue needs
one more message than places, and two limits a message of each kind (`MobileCapacity`). `MaxLapses`
bounds the sends that expire while they
wait; `held_order` has none, and was explored once with one (2,780,201 states). The reservation is challenged by three messages and a
fault in `held_order` and by a resumption, a pause and an edit in `held_turns`. A reconstruction
needs a parent and a child, and a wait for a usage limit (`MaxRounds`) or a pause meets
every fault before and after it. `MaxUpsets` keeps the two apart; explored once, both in one
behaviour: 3,976,564 states. Two commands for one name give a relaunch racing
the stop, the failure or the loss of the earlier launch, and the restart adds a recovery; two names
only share the quota, and two restarts only repeat the recovery. Explored once for the safety
properties: two names, quota biting, 2,394,767 states; two restarts with two recoveries, 769,395
states. A wake needs a due, its grace and a due after it; with a day of two ticks and a zone shifted
by one the due moves over midnight. With a horizon of two days, one date without the hour is enough
to leave a schedule without a calendar, when it is asked for, looked at and settled. `Mixed = FALSE`
keeps schedules and one-shot wakes in separate behaviours (they share only the thread),
`LastRequest` makes requests early enough to be settled, `MaxLag` bounds how long a tick may take.
Explored once, safety only: a calendar schedule for an agent and an interval schedule for a thread,
`Day = 3`, `Grace = 2`, `MaxTime = 4`, 615,418 states.

Deadlock is checked in `wake_ticks`, where the reminder thread always has a next tick. In the other
runs it is not: those models may come to rest, when every message is settled and the bounded clock
or the bounded faults are used up, as the daemon does when nobody sends anything.

## 4. Fairness

`Delivery!Fairness`: the clock advances; a handler that holds the mutex goes on; the maintenance
thread runs again and again and its passes are not refused for ever by SQLite (strong fairness of
the sweep and the settlement, which may fail once: `MaintenanceFails`). Nothing is assumed of the
wrapper, the provider or the sockets, so `EveryDeliverySettles` says that the maintenance alone
ends every delivery. The assumption fails for a held row whose message cannot be read
(`daemon.rs:9886`); this is listed as a hazard.

`HeldQueue!Fairness`: an agent that lost its connection registers again; its turns end and it
attests this (`reattest_managed_turn_if_due`, every 30 s); it acknowledges or refuses what it is
sent; acknowledgements age; a handler runs to its end. Where the handler has to get the mutex
against the others the fairness is strong: `std::sync::Mutex` gives no guarantee, but no handler
holds it while it waits for another process. `EveryHeldLeaves` is checked without pauses and sleep:
during these the queue is meant to stay shut.

`Execution` states no fairness and no progress. One would expect that what was admitted and not
delivered is delivered in the end, but the code does not promise it: a recovery is tried once per
registration, and does nothing when the agent registers in a turn or when a second execution of its
is open (`daemon.rs:6451`, `6485`). If the daemon stops between the admission and the delivery of a
second message while the first one runs, the second stays open and undelivered until both are ended
by something else. The hazard is listed at `daemon.rs:6440`.

`Fleet!Fairness`: a handler and the start-up run to their end, the main loop drains the channel,
deadlines pass, and the supervisor acts on a deadline or a requested stop at one of its polls.
Nothing is assumed of the launched processes: they may never register and never exit.

`WakeSchedules!FairSpec`: the reminder thread (`daemon.rs:7081`) runs a tick every second and time
passes. Nobody has to acknowledge, cancel, come back or lift a pause: the end of the grace alone
settles a wake. Wakes whose grace ends beyond `MaxTime` are outside of the claim.

## 5. The proofs

Proved with TLAPS for all values of the constants allowed by `DeliveryConstants`,
`HeldQueueConstants`, `ExecutionConstants`, `FleetConstants` and `WakesAssumption`. They only say that
bounds are numbers, sets are subsets and `None` is something else, and, for the wakes, that a zone is
at most a day away from UTC. Every inductive invariant was checked by TLC before it was proved.

**Delivery.** `DeliveryEffects` first describes what each action does to one row and one record
(`RowMoved`, `RecordMoved` and one effect lemma per transaction) and proves `TypeCorrect`.
`DeliveryProofs` summarises `Next` once per group of variables (`WrapperSteps`, `RowSteps`,
`SessionSteps`, ...) so that each conjunct is argued over a handful of cases instead of thirty
actions. The inductive invariant `Inv` is the conjunction of `TypeOK` and

* `ReceiptFirst`: an injection is preceded by its receipt, which gives `InjectedAtMostOnce`;
* `HeldUnsent`: a held row has never been pushed, no frame, receipt or prompt of it exists, which
  gives `CancelledIsTrue`, since only held rows are withdrawn;
* `MissionReachesOne`: all traces of a mission are of one instance, which gives `MissionsRunOnce`;
* `HeldFollowsConnection` and `ReadFramesNameTheirReader`: while a wrapper reads the connection, the
  held rows are addressed to it, so a release names it (`FramesAreAddressed`). After a refused adoption
  the rows keep the old instance, but nobody reads the connection any more;
* `Matching` (result iff terminal, record and row agree, one stored row per key, a captured key has
  no row), which gives `TablesAgree`;
* `AdmitsReserved`, `DeliveredAsReserved`: the handler between two transactions, and then the row,
  carry what was reserved;
* `PurgedIsPast`, `OneDeliveryPerSubmission`: the key of a purged row can only be reserved with a
  later expiry, which is where the horizon on `issued_at` is used;
* `AcksAreTrue`, `AckedWasInjected`, `HasCaptured`, `AcceptedWasInjected`: a report on a socket, then
  a phase, then a public result is backed by a prompt of the instance named;
* `EmitterIsTold`.

None of the listed properties about prompts is inductive alone: what the daemon says depends on
reports in flight, these on receipts, these on the order of writes in the wrapper.
`SettledForGood` is an action property that follows from `RowSteps`. `DeliveryRefinement` proves
`DaemonImplementsContract`: under `TypeOK` and `Matching` each step moves every key along an edge of
`IdempotentOperation`, or leaves it.

**HeldQueue.** `IInv` is `TypeOK` with `NoReservationIsStuck`, `WithdrawnIsForgotten`,
`HeldAreKnown` (every held message is in `held_ids`), `AgedAreAcked` and `CycleIsReserved` (what was
let through since the last turn, or adopted in flight, keeps its reservation while it is
outstanding). The releases are proved once (`ReleaseKeeps`) and cited by each trigger.
`OneDeparture` needs the last two: a release only looks at `gate`, and `gate \subseteq aged` says
that nothing outstanding is left only because a reservation is never lost earlier. `CapacityHolds`
assumes finitely many messages and speaks of both limits. `OrderKept` says that ranks of waiting
messages are compared as before after every step but a reordering: no release, restart, adoption or
refusal writes a rank, and a message that joins gets one above all others.

**Execution.** `IInv` is `TypeOK /\ RowInv /\ TruthInv`. `RowInv` is about the table: rows are used
in order and an unused one has no parent and no pause (`Numbered`), `OneLiveExecution`,
`RerunNeedsLoss`, and `ShakenWhileAway` (what is open while the connection is down has met the fault
that cut it), which is what makes a recovery at registration a loss; `RerunNeedsLoss` also says that
an execution has at most one child, for which the parent must be terminal and its pause or its usage
limit marked as used in the transaction that creates the child. `TruthInv` follows a fact from the
provider to the database: `SentKnown`, `WorkKnown` and `BindingsKnown` say that what is on a socket,
in the provider or bound in the wrapper names an execution that was admitted; `ReportsTrue` that an
event or a frame reporting an end or a prompt is backed by `done` or `prompted`; `ReceiptsTrue` the
same of an acknowledged receipt; with these `CompletedWorkWasDone` and `AckedWorkWasPrompted` are
inductive. `Inductive` proves `Spec => []IInv`; `TypeCorrect`, `OneLive`, `CompletedTrue`,
`AckedTrue` and `RerunSafe` follow, and `TerminalFinal` is an action property of the
compare-and-set.

**Fleet.** The inductive invariant `Inv` of `FleetProofs` is `TypeOK` with

* `Tables`, `Sections`: saga and record agree, `FleetInner` has exactly the launches in flight, and a
  section of the `Fleet` mutex is about the command the daemon has in hand. `FleetImplements` (every
  step moves each record along an edge of `IdempotentOperation`, or leaves it) needs only these;
* `Fresh`, `BootAlone`: a command that is not starting yet has left no process, event or entry; no
  process and no event exists during the start-up;
* `Processes`, `EventsOnce`: a process that may become an agent is managed; `Failed` and `Exited` are
  sent once, before `Stopped`, when the process is gone. `EventsOnce` also orders the events of two
  commands of one name: it is why draining the end of an old launch does not free the name of a
  newer one, and it is the part the others cannot do without;
* `Claims`: one command at a time holds a name, by its launch or until its end is drained, which
  gives `OneAgent`;
* `Retiring`: a name is retired when nothing of it can speak up any more, which gives
  `DecommissionedFinal`; `Stops` and `Remembered` give `StoppedStays` and `RunningRemembered`.

`OneAgentPerName` is far from inductive: a relaunch looks at `managed_spawns`, which the drain of an
event empties, which the supervisor sent earlier. Before the proof TLC checked `Inv` on the instance
of the run, with two names (2,960,827 states) and with two restarts (769,395).

**WakeSchedules.** The tick acts on what it read earlier, and its invariant says what of that is
still true when it is used:

* `Control`, `Clocks`: the wake in hand, and that no due is frozen before its time;
* `Table`, `Dating`, `Taken`: an occurrence is followed by a later next due, each stored due is the
  hour of its stored date in some zone, and the last occurrence has the latest due of all; with the
  test of `calculate_cadence` on the last date this gives `DueOnce`, for any zones. That no date at all
  is taken twice does not follow (section 6). It does when any two zones are at most a day apart
  (`Near`): a later due then never has an earlier date (`EpochsOrdered`), so a new date, which is not
  the last one, is later than all: `DateOnce`. That `Least` finds the first date (`LeastOfNat`) comes
  from the well-foundedness of the naturals;
* `Snapshot`, `Look`, `Calendar`: nobody but the tick moves a calendar or a phase, and a row with an
  open occurrence is not removed, so what was read holds while the row is kept;
* `Occurrence`, `Verdict`: inside `deliver_frozen_wake` the occurrence in hand is the open one of its
  row, and what the guards found holds until the verdict is stored: `NoForbidden`;
* `Departures`, `RowVerdicts`, `CliVerdicts`: what left is marked, what is marked belongs to the last
  occurrence or an earlier one, and a stored phase tells what happened (`Truth`): `VerdictTrue`.

`Departures` is what makes a freeze safe: under a due later than all before nothing can have left.
The proof attempt showed an omission of the model, the missing `calendar_unavailable`, now modelled.
TLC checked `Inv` on the instance of the run and, before that path was added, on instances of
3,441,770 and 9,092,428 states.

Model-checked only for good: the liveness properties (fairness is out of the prover's reach:
`EveryDeliverySettles`, `EveryHeldLeaves`, `EverySpawnEnds`, `RecoveryEnds`, `EveryWakeSettles`),
and `ImplementsQueue` and `ReordersAsAsked`, which speak of the sorted sequence of the held rows;
what a sort computes for every input needs an induction that the available provers do not do.

## 6. Disagreements between the code and what it says

* `delivery_orphan`: the notice of an orphaned delivery says it "n'a pas été livré"
  (`idempotency/send_delivery.rs:1298`). `orphan_dispatching_for_instance` orphans every dispatching
  row of a purged presence, and such a row may have been injected with its acknowledgement still on
  the socket.
* `delivery_frames`: held messages are "libérés pour la nouvelle instance"
  (`docs/adapters/t3/archives/specs/159-edition-file/spec.md:96`). When the adoption of a registration
  fails the `Register` is refused, but route and presence stay: a held message is then pushed on the
  socket of the new instance with the old one in its frame. Nobody reads it (`ReadFramesNameTheirReader`
  is proved), and the delivery waits for the maintenance.
* `wake_dates`: `docs/delegation-native.fr.md:540-542` promises "une seule occurrence par date civile"
  for offsets between -24h and +24h. Only the last date is remembered (`wake_schedules.rs:295`); after a
  change to a zone more than a day behind, as from +14 to -11, the date before it is due again. The run
  takes the dates 2, 3 and 2. `DateOnce` proves the promise for zones at most a day apart.
* `held_ids`: the comment of the field (`daemon.rs:1017`) gives the held rows as the source of
  `held_ids`, the filter of the reminders. The purge of a presence orphans held rows and leaves
  their ids; the `pending_replies` entry of such a message then survives until the daemon restarts.
  The half that protects the agent, that every held message is in `held_ids`, is proved.

Seen while modelling, without a run of their own:

* Quota of the fleet: FR-012 (`specs/009-daemon-spawn/spec.md:267`) asks for a limit of managed
  agents at the same time; `Fleet` counts launches in flight, since the slot is given back when the
  agent connects.
* The `Failed` event of an earlier launch marks the *name* stopped (`daemon.rs:4755`), also when a
  newer command of that name runs; `specs/009-daemon-spawn/data-model.md:153` says that an event of an
  obsolete launch cannot end the current one. `RunningIsRemembered` names the exception (`struck`).
* A recovery that fails a command in flight does not close its agent link, which keeps counting
  against the parent's children. A repeated `RelaunchOrder` is a mismatch: its times are those of the
  repetition.
* `docs/delegation-native.fr.md:494` ends the schedules of a native owner at its *known* end of life;
  `wake_native_origin` (`daemon.rs:1850`) also answers `owner_unavailable` when its route or connection
  is missing, as it is right after a restart of the daemon, and the tick then cancels the schedule.
* A due is lost with the date after it: for a schedule of one weekday whose next date falls on an
  hour that the change to summer time skips, `calculate_cadence` finds no next due within its eight
  days and answers `calendar_unavailable` (`wake_schedules.rs:337`) instead of the due of today.
* After a stop longer than the retention of sends, an occurrence stored as `dispatching_agent` may
  find its delivery purged; it is then refused the phase `missed_before_departure` for ever.
* A transition frame lost with the connection (`wrapper.rs:6616`) leaves its execution open until the
  next registration. An injection that fails for a keyed message leaves the execution `starting`
  (`wrapper.rs:5126`). A turn that completes after its pause was recorded is reconstructed when the
  pause ends.

## 7. What is not modelled

Each component not modelled yet is in `PROJECT.json` with its reason. Of the modelled ones, the
following is left out: failures of SQLite other than those named above; a queue edit whose receipt
is not found again (hazard at `send_delivery.rs:228`); the byte quota and the quarantine of the
receipts; the one-shot wake's record as `finalize` writes it beside its delivery (`daemon.rs:2928`),
which `RecordMatchesDelivery` is not about; an unreadable held message that blocks the maintenance
(hazard at `daemon.rs:9886`); the per-actor rate limits of guidance; several agents at once, except
where the handler of one touches another (`OtherTurnEnds`, `ResumedElsewhere`). Wire formats,
command lines, user interfaces and process supervision are I/O rather than protocol and stay
outside.

## 8. Plan

1. Done: `IdempotentOperation`, `Delivery` and its proofs; `EditableQueue`, `HeldQueue` and its
   proofs; `Execution` and its proofs; `Fleet` with the saga of spawn commands, the second refinement
   of `IdempotentOperation`; `WakeSchedules`.
2. Done: `FleetProofs` and `WakeProofs`, every safety property of both runs.
3. `AgentLinks` (`idempotency/agent_links.rs`): creation, transition, transfer, orphaning; ownership
   stays a forest.
4. `ReplyRequests` (`ledger.rs`, `store/ledger_requests.rs`): answer against deadline, reminders,
   restart; composition with `HeldQueue` through the requests of withdrawn messages.
5. Guidance limits, referent control, native delegation, missed summaries of observation; then the
   small machines of `bridget-core` (deduplication, circuit breaker, router) and the human inbox.
