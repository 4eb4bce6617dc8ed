------------------------------- MODULE Fleet -------------------------------
(***************************************************************************)
(* The managed agents of one daemon: how a spawn, a relaunch or a recovery *)
(* becomes a process, how the process is stopped, retired or lost, and     *)
(* what a restart of the daemon makes of it.                               *)
(*                                                                         *)
(*   durable, database   ord, saga  rows of spawn_commands                 *)
(*                       rec        their idempotency_records              *)
(*   durable, fleet.json desired    the desired state of each name         *)
(*   FleetInner          active     active_by_command (active_by_name is   *)
(*                                  its inverse)                           *)
(*                       lock       the section inside the Fleet mutex,    *)
(*                                  between two of its durable writes      *)
(*   DaemonState         managed    managed_spawns                         *)
(*                       recovering recovery_commands                      *)
(*                       stopping   commands whose stop was requested      *)
(*                       decom      decommissioning_names and the handler  *)
(*                                  that waits behind each of them         *)
(*                       hold       the handler inside the State mutex     *)
(*                       todo       names the start-up still has to treat  *)
(*   supervisor thread   proc       its processes, by command              *)
(*                       attempted  stops that timed out                   *)
(*                       events     ManagedSupervisorEvent, a FIFO channel *)
(*   clock               late       commands past their deadline           *)
(*   history             stopped    names stopped and not asked for since  *)
(*                       struck     commands whose running entry was       *)
(*                                  stopped by the event of another one    *)
(*                                                                         *)
(* A generation belongs to one command (next_generation grows under the    *)
(* mutex and over restarts), so the command stands for both. Remote        *)
(* placement, agent links and the marker files are left out.               *)
(***************************************************************************)
EXTENDS Naturals, Sequences, FiniteSets

CONSTANTS Names,        \* agent names
          Commands,     \* command ids chosen by clients
          RecoveryIds,  \* command ids made by the start-up
          Quota,        \* FleetConfig.quota
          MaxCrashes,   \* bound of the model: stops of the daemon
          None

Ids == Commands \cup RecoveryIds

ASSUME FleetConstants ==
  /\ Quota \in Nat \ {0} /\ MaxCrashes \in Nat
  /\ Commands \cap RecoveryIds = {}
  /\ None \notin Ids \cup Names
  /\ {"none", "stop", "ready"} \cap Ids = {}

VARIABLES ord, saga, rec, desired, active, lock, managed, recovering, stopping,
          decom, hold, todo, proc, attempted, events, late, stopped, struck, crashes

store      == <<ord, saga, rec>>
daemon     == <<managed, recovering, stopping, decom>>
supervisor == <<proc, attempted, events>>
history    == <<stopped, struck>>
vars == <<ord, saga, rec, desired, active, lock, managed, recovering, stopping,
          decom, hold, todo, proc, attempted, events, late, stopped, struck, crashes>>

(* SpawnCommandState; "none" is a command never seen.                      *)
InFlight == {"requested", "reserved", "starting"}
Sagas == InFlight \cup {"none", "connected", "failed", "cancelled"}
Lifecycles == {"absent", "running", "stopped", "decommissioned"}

(* SupervisedProcess: "failed" has failure_sent set and is still alive.    *)
Launching == {"queued", "launched", "registered"}
Procs == Launching \cup {"none", "connected", "failed"}

NoEntry == [cmd |-> None, state |-> "absent"]
Free == [op |-> "none", id |-> None]
Nobody == [who |-> "nobody", id |-> None]
Booting == [who |-> "boot", id |-> None]

Name(c) == ord[c].name
Named(n, S) == {c \in S : ord[c].name = n}
Exists(n) == desired[n].cmd # None

Init ==
  /\ ord = [c \in Ids |-> [name |-> None, persistent |-> FALSE]]
  /\ saga = [c \in Ids |-> "none"] /\ rec = [c \in Ids |-> "absent"]
  /\ desired = [n \in Names |-> NoEntry]
  /\ active = {} /\ lock = Free
  /\ managed = {} /\ recovering = {} /\ stopping = {}
  /\ decom = [n \in Names |-> "none"] /\ hold = Nobody /\ todo = {}
  /\ proc = [c \in Ids |-> "none"] /\ attempted = {} /\ events = <<>>
  /\ late = {} /\ stopped = {} /\ struck = {} /\ crashes = 0

-----------------------------------------------------------------------------
(* fleet.json.                                                             *)

(* DesiredStateStore::set_lifecycle_state; an absent entry stays absent.   *)
SetLifecycle(n, s) ==
  IF Exists(n) THEN [desired EXCEPT ![n] = [cmd |-> desired[n].cmd, state |-> s]]
               ELSE desired

(* DesiredStateStore::mark_stopped_if_generation.                          *)
MarkStoppedIfGeneration(c) ==
  IF desired[Name(c)].cmd = c /\ desired[Name(c)].state # "decommissioned"
    THEN SetLifecycle(Name(c), "stopped") ELSE desired

(* persist_stopped_active with an entry present.                           *)
PersistStopped(c) ==
  IF desired[Name(c)].cmd = c THEN MarkStoppedIfGeneration(c)
                              ELSE SetLifecycle(Name(c), "stopped")

(* persist_stopped_active with no entry: the stopped agent enters the      *)
(* inventory, its definition is known once it is starting.                 *)
Upsert(c, s) == [desired EXCEPT ![Name(c)] = [cmd |-> c, state |-> s]]

-----------------------------------------------------------------------------
(* Requests: the whole handler runs inside the State mutex, and            *)
(* request_spawn_with_policy inside the Fleet mutex.                       *)

(* reserve_spawn: the first transaction. A command already known is        *)
(* answered from its row and changes nothing.                              *)
Request(c, n, p, kind, who) ==
  /\ lock = Free /\ saga[c] = "none"
  /\ ord' = [ord EXCEPT ![c] = [name |-> n, persistent |-> p]]
  /\ saga' = [saga EXCEPT ![c] = "requested"]
  /\ rec' = [rec EXCEPT ![c] = "prepared"]
  /\ lock' = [op |-> kind, id |-> c]
  /\ hold' = [who |-> who, id |-> c]
  /\ UNCHANGED <<desired, active, daemon, todo, supervisor, late, history, crashes>>

(* SpawnOrder; submit_spawn answers DaemonRecovering during a recovery.    *)
SpawnOrder(c, n, p) ==
  /\ hold = Nobody /\ recovering = {}
  /\ Request(c, n, p, "spawn", "client")

RelaunchOrder_IgnoresManaged(c, n) ==
  /\ hold = Nobody
  /\ decom[n] = "none"
  /\ desired[n].state = "stopped"
  /\ Request(c, n, ord[desired[n].cmd].persistent, "relaunch", "client")

(* RelaunchOrder: not while the name is being retired, while another       *)
(* command of that name is managed, or unless its entry is stopped.        *)
RelaunchOrder(c, n) ==
  /\ hold = Nobody
  /\ decom[n] = "none"
  /\ Named(n, managed) = {}
  /\ desired[n].state = "stopped"
  /\ Request(c, n, ord[desired[n].cmd].persistent, "relaunch", "client")

Requests == {"spawn", "relaunch", "recovery"}

(* allowed_existing_state: the entry the name may already have.            *)
AllowedExisting(kind) ==
  {"absent"} \cup (CASE kind = "relaunch" -> {"stopped"}
                     [] kind = "recovery" -> {"running"}
                     [] OTHER -> {})

Refusable_IgnoresInventory(c) ==
  c \in late \/ Named(Name(c), active) # {} \/ Cardinality(active) >= Quota

(* The guards between the two transactions of a request.                   *)
Refusable(c) == \/ c \in late
                \/ Named(Name(c), active) # {}
                \/ desired[Name(c)].state \notin AllowedExisting(lock.op)
                \/ Cardinality(active) >= Quota

(* Where the handler goes on: a client's answer leaves the mutex, the      *)
(* start-up turns to its next name.                                        *)
Answered(c) ==
  IF hold.who = "boot" THEN hold' = Booting /\ todo' = todo \ {Name(c)}
                       ELSE hold' = Nobody /\ todo' = todo

(* terminal_refusal; a refused recovery marks its entry stopped.           *)
Refuses(c) ==
  /\ lock.op \in Requests /\ lock.id = c
  /\ Refusable(c)
  /\ saga' = [saga EXCEPT ![c] = "failed"]
  /\ rec' = [rec EXCEPT ![c] = "rejected"]
  /\ desired' = IF lock.op = "recovery" THEN SetLifecycle(Name(c), "stopped") ELSE desired
  /\ lock' = Free
  /\ Answered(c)
  /\ UNCHANGED <<ord, active, daemon, supervisor, late, history, crashes>>

(* advance_spawn(Requested, Reserved): name and slot are taken.            *)
Reserves(c) ==
  /\ lock.op \in Requests /\ lock.id = c
  /\ ~Refusable(c)
  /\ saga' = [saga EXCEPT ![c] = "reserved"]
  /\ rec' = [rec EXCEPT ![c] = "dispatching"]
  /\ active' = active \cup {c}
  /\ lock' = Free
  /\ stopped' = IF hold.who = "client" THEN stopped \ {Name(c)} ELSE stopped
  /\ UNCHANGED <<ord, desired, daemon, hold, todo, supervisor, late, struck, crashes>>

(* prepare_spawn and mark_starting; then, for a client, the record and the *)
(* Start command of the supervisor. mark_starting is given the instant the *)
(* request was checked against, so its own test of the deadline never      *)
(* fails here, even if the deadline has passed since.                      *)
Prepares(c) ==
  /\ hold.id = c /\ lock = Free /\ saga[c] = "reserved"
  /\ saga' = [saga EXCEPT ![c] = "starting"]
  /\ IF hold.who = "client" THEN /\ managed' = managed \cup {c}
                                 /\ proc' = [proc EXCEPT ![c] = "queued"]
                            ELSE UNCHANGED <<managed, proc>>
  /\ Answered(c)
  /\ UNCHANGED <<ord, rec, desired, active, lock, recovering, stopping, decom,
                 attempted, events, late, history, crashes>>

-----------------------------------------------------------------------------
(* The sections that end a launch: fleet.json first, then the saga and its *)
(* record in one transaction.                                              *)

(* finish_non_success, its first write.                                    *)
FailWrites(c) ==
  /\ lock = Free /\ c \in active
  /\ desired' = IF Exists(Name(c)) THEN PersistStopped(c) ELSE desired
  /\ lock' = [op |-> "fail", id |-> c]

(* finish_spawn and complete_locked.                                       *)
FinishSpawn(c, s, result) ==
  /\ saga' = [saga EXCEPT ![c] = s]
  /\ rec' = [rec EXCEPT ![c] = result]
  /\ active' = active \ {c}
  /\ lock' = Free

(* prepare_spawn refuses (the definition, the environment or the working   *)
(* directory will not do), or the Start command finds no supervisor any    *)
(* more: then the saga is starting for a moment, which no other step and   *)
(* no restart tells from reserved.                                         *)
PreparationFails(c) ==
  /\ hold.id = c /\ saga[c] = "reserved"
  /\ FailWrites(c)
  /\ UNCHANGED <<store, active, daemon, hold, todo, supervisor, late, history, crashes>>

Ending_Expired(op) == IF op = "fail" THEN "failed" ELSE "expired"

Ending(op) == IF op = "fail" THEN "failed" ELSE "cancelled"

(* The second write of a failure or an expiry met by a handler or by the   *)
(* start-up.                                                               *)
HandlerFinishes(c) ==
  /\ lock.op \in {"fail", "expire"} /\ lock.id = c /\ hold.id = c
  /\ FinishSpawn(c, Ending(lock.op), "rejected")
  /\ Answered(c)
  /\ UNCHANGED <<ord, desired, daemon, supervisor, late, history, crashes>>

-----------------------------------------------------------------------------
(* The supervisor thread.                                                  *)

Event(type, c) == [type |-> type, id |-> c]

(* handle_managed_command(Start), the process reported BootstrapReady.     *)
ProcessLaunches(c) ==
  /\ proc[c] = "queued"
  /\ proc' = [proc EXCEPT ![c] = "launched"]
  /\ UNCHANGED <<store, desired, active, lock, daemon, hold, todo, attempted, events,
                 late, history, crashes>>

(* Register of the wrapper, then Registered to the supervisor.             *)
WrapperRegisters(c) ==
  /\ proc[c] = "launched" /\ hold = Nobody
  /\ c \in managed /\ c \notin stopping
  /\ proc' = [proc EXCEPT ![c] = "registered"]
  /\ UNCHANGED <<store, desired, active, lock, daemon, hold, todo, attempted, events,
                 late, history, crashes>>

(* register_connected, its first write: the desired state is durable       *)
(* before anybody is told.                                                 *)
ConnectWrites(c) ==
  /\ proc[c] = "registered" /\ lock = Free
  /\ c \in active /\ saga[c] = "starting" /\ c \notin late
  /\ desired' = Upsert(c, "running")
  /\ lock' = [op |-> "connect", id |-> c]
  /\ UNCHANGED <<store, active, daemon, hold, todo, supervisor, late, history, crashes>>

ConnectFinishes(c) ==
  /\ lock = [op |-> "connect", id |-> c]
  /\ FinishSpawn(c, "connected", "accepted")
  /\ proc' = [proc EXCEPT ![c] = "connected"]
  /\ events' = Append(events, Event("connected", c))
  /\ UNCHANGED <<ord, desired, daemon, hold, todo, attempted, late, history, crashes>>

(* register_connected past the deadline: expire_locked, its first write.   *)
ExpireWrites(c) ==
  /\ proc[c] = "registered" /\ lock = Free
  /\ c \in active /\ c \in late
  /\ desired' = MarkStoppedIfGeneration(c)
  /\ lock' = [op |-> "expire", id |-> c]
  /\ UNCHANGED <<store, active, daemon, hold, todo, supervisor, late, history, crashes>>

LaunchFails_OnlyAfterReady(c) ==
  /\ proc[c] \in {"launched", "registered"}
  /\ FailWrites(c)
  /\ UNCHANGED <<store, active, daemon, hold, todo, supervisor, late, history, crashes>>

(* The deadline, StartupFailed, a broken status channel, an early exit.    *)
LaunchFails(c) ==
  /\ proc[c] \in Launching /\ (proc[c] = "queued" => c \notin stopping)
  /\ FailWrites(c)
  /\ UNCHANGED <<store, active, daemon, hold, todo, supervisor, late, history, crashes>>

(* reap_failed_managed_child: Failed is sent, then the group is stopped,   *)
(* or outlives SIGTERM. A process that never started leaves nothing.       *)
Reaped(c) ==
  /\ events' = Append(events, Event("failed", c))
  /\ \E p \in IF proc[c] = "queued" THEN {"none"} ELSE {"none", "failed"} :
       proc' = [proc EXCEPT ![c] = p]
  /\ UNCHANGED attempted

(* The second write of the supervisor's failure or expiry.                 *)
SupervisorFinishes(c) ==
  /\ lock.op \in {"fail", "expire"} /\ lock.id = c /\ hold.id # c
  /\ FinishSpawn(c, Ending(lock.op), "rejected")
  /\ Reaped(c)
  /\ UNCHANGED <<ord, desired, daemon, hold, todo, late, history, crashes>>

(* The same once the lease is stale (a stop took it): fail changes nothing *)
(* and the process is reaped all the same.                                 *)
StaleLaunchFails(c) ==
  /\ proc[c] \in Launching /\ (proc[c] = "queued" => c \notin stopping)
  /\ c \notin active /\ lock = Free
  /\ Reaped(c)
  /\ UNCHANGED <<store, desired, active, lock, daemon, hold, todo, late, history, crashes>>

(* An actionable stop: the group is gone, or outlives the grace.           *)
SupervisorStops(c) ==
  /\ c \in stopping \ attempted /\ proc[c] # "none" /\ lock.id # c
  /\ \/ /\ proc' = [proc EXCEPT ![c] = "none"]
        /\ events' = Append(events, Event("stopped", c))
        /\ UNCHANGED attempted
     \/ /\ proc[c] # "queued"
        /\ attempted' = attempted \cup {c}
        /\ UNCHANGED <<proc, events>>
  /\ UNCHANGED <<store, desired, active, lock, daemon, hold, todo, late, history, crashes>>

(* A process ends by itself: Exited if it was connected, nothing more to   *)
(* say of a launch already reported failed.                                *)
ProcessExits(c) ==
  /\ proc[c] \in {"connected", "failed"}
  /\ events' = IF proc[c] = "connected" THEN Append(events, Event("exited", c)) ELSE events
  /\ proc' = [proc EXCEPT ![c] = "none"]
  /\ UNCHANGED <<store, desired, active, lock, daemon, hold, todo, attempted, late,
                 history, crashes>>

-----------------------------------------------------------------------------
(* drain_managed_events: each event inside the State mutex.                *)

(* The stop a decommission waits for is complete.                          *)
Completes(c) == decom' = [n \in Names |-> IF decom[n] = c THEN "ready" ELSE decom[n]]

Drains ==
  /\ hold = Nobody /\ events # <<>>
  /\ events' = Tail(events)
  /\ UNCHANGED <<store, active, lock, stopping, hold, todo, proc, attempted, late,
                 stopped, crashes>>

DrainConnected(c) ==
  /\ Drains /\ Head(events) = Event("connected", c)
  /\ recovering' = recovering \ {c}
  /\ UNCHANGED <<desired, managed, decom, struck>>

DrainLost_ForgetsRecovery(c) ==
  /\ Drains /\ Head(events) \in {Event("failed", c), Event("exited", c)}
  /\ desired' = SetLifecycle(Name(c), "stopped")
  /\ struck' = IF desired[Name(c)].state = "running" /\ desired[Name(c)].cmd # c
                 THEN struck \cup {desired[Name(c)].cmd} ELSE struck
  /\ managed' = managed \ {c}
  /\ UNCHANGED <<recovering, decom>>

(* Failed and Exited mark the NAME stopped, whatever command owns it.      *)
DrainLost(c) ==
  /\ Drains /\ Head(events) \in {Event("failed", c), Event("exited", c)}
  /\ desired' = SetLifecycle(Name(c), "stopped")
  /\ struck' = IF desired[Name(c)].state = "running" /\ desired[Name(c)].cmd # c
                 THEN struck \cup {desired[Name(c)].cmd} ELSE struck
  /\ managed' = managed \ {c} /\ recovering' = recovering \ {c}
  /\ IF c \in stopping THEN Completes(c) ELSE UNCHANGED decom

DrainStopped(c) ==
  /\ Drains /\ Head(events) = Event("stopped", c)
  /\ managed' = managed \ {c} /\ recovering' = recovering \ {c}
  /\ Completes(c)
  /\ UNCHANGED <<desired, struck>>

-----------------------------------------------------------------------------
(* Stop and decommission.                                                  *)

(* The decommission that asked for this stop now waits for it.             *)
Awaits(n, c) ==
  decom' = IF decom[n] = "stop" THEN [decom EXCEPT ![n] = c] ELSE decom

(* prepare_managed_stop on a command still launching: invalidate_for_stop, *)
(* fleet.json first.                                                       *)
StopWrites(n, c) ==
  /\ hold = Nobody /\ lock = Free
  /\ c \in Named(n, managed) /\ c \in active
  /\ desired' = IF Exists(n) THEN PersistStopped(c) ELSE Upsert(c, "stopped")
  /\ lock' = [op |-> "stop", id |-> c]
  /\ hold' = [who |-> "client", id |-> c]
  /\ UNCHANGED <<store, active, daemon, todo, supervisor, late, history, crashes>>

StopFinishes(c) ==
  /\ lock = [op |-> "stop", id |-> c]
  /\ FinishSpawn(c, "cancelled", "rejected")
  /\ stopping' = stopping \cup {c}
  /\ stopped' = stopped \cup {Name(c)}
  /\ Awaits(Name(c), c)
  /\ hold' = Nobody
  /\ UNCHANGED <<ord, desired, managed, recovering, todo, supervisor, late, struck, crashes>>

StopsConnected_ForgetsEntry(n, c) ==
  /\ hold = Nobody /\ lock = Free
  /\ c \in Named(n, managed) \ stopping /\ saga[c] = "connected"
  /\ stopping' = stopping \cup {c}
  /\ stopped' = stopped \cup {n}
  /\ Awaits(n, c)
  /\ UNCHANGED <<store, desired, active, lock, managed, recovering, hold, todo, supervisor,
                 late, struck, crashes>>

StopsConnected_RewritesIssue(n, c) ==
  /\ hold = Nobody /\ lock = Free
  /\ c \in Named(n, managed) \ stopping /\ saga[c] = "connected"
  /\ saga' = [saga EXCEPT ![c] = "cancelled"]
  /\ rec' = [rec EXCEPT ![c] = "rejected"]
  /\ desired' = MarkStoppedIfGeneration(c)
  /\ stopping' = stopping \cup {c}
  /\ stopped' = stopped \cup {n}
  /\ Awaits(n, c)
  /\ UNCHANGED <<ord, active, lock, managed, recovering, hold, todo, supervisor, late,
                 struck, crashes>>

(* The same on a connected command: it keeps its issue.                    *)
StopsConnected(n, c) ==
  /\ hold = Nobody /\ lock = Free
  /\ c \in Named(n, managed) \ stopping /\ saga[c] = "connected"
  /\ desired' = MarkStoppedIfGeneration(c)
  /\ stopping' = stopping \cup {c}
  /\ stopped' = stopped \cup {n}
  /\ Awaits(n, c)
  /\ UNCHANGED <<store, active, lock, managed, recovering, hold, todo, supervisor, late,
                 struck, crashes>>

DecommissionStarts_IgnoresLaunch(n) ==
  /\ hold = Nobody
  /\ desired[n].state \in {"running", "stopped"} /\ decom[n] = "none"
  /\ decom' = [decom EXCEPT ![n] = IF desired[n].state = "running" THEN "stop" ELSE "ready"]
  /\ UNCHANGED <<store, desired, active, lock, managed, recovering, stopping, hold, todo,
                 supervisor, late, history, crashes>>

(* DecommissionOrder, first hold of the mutex.                             *)
DecommissionStarts(n) ==
  /\ hold = Nobody
  /\ desired[n].state \in {"running", "stopped"} /\ decom[n] = "none"
  /\ decom' = [decom EXCEPT ![n] =
       IF desired[n].state = "running" \/ Named(n, managed) # {} THEN "stop" ELSE "ready"]
  /\ UNCHANGED <<store, desired, active, lock, managed, recovering, stopping, hold, todo,
                 supervisor, late, history, crashes>>

(* Its second hold, when there is nothing to invalidate: the stop was      *)
(* already requested, the command is stale (Timeout), or nothing is        *)
(* managed any more and the entry is stopped.                              *)
DecommissionFindsStop(n) ==
  /\ hold = Nobody /\ decom[n] = "stop"
  /\ \/ \E c \in Named(n, managed) :
          \/ /\ c \in stopping
             /\ decom' = [decom EXCEPT ![n] = c]
          \/ /\ c \notin stopping \cup active /\ saga[c] # "connected" /\ lock = Free
             /\ decom' = [decom EXCEPT ![n] = "none"]
     \/ /\ Named(n, managed) = {} /\ desired[n].state = "stopped"
        /\ decom' = [decom EXCEPT ![n] = "ready"]
  /\ UNCHANGED <<store, desired, active, lock, managed, recovering, stopping, hold, todo,
                 supervisor, late, history, crashes>>

(* No outcome within MANAGED_STOP_REPLY_TIMEOUT.                           *)
DecommissionTimesOut(n) ==
  /\ hold = Nobody /\ decom[n] \in Ids
  /\ decom' = [decom EXCEPT ![n] = "none"]
  /\ UNCHANGED <<store, desired, active, lock, managed, recovering, stopping, hold, todo,
                 supervisor, late, history, crashes>>

(* Its last hold: the stop is complete.                                    *)
DecommissionEnds(n) ==
  /\ hold = Nobody /\ decom[n] = "ready"
  /\ desired' = SetLifecycle(n, "decommissioned")
  /\ decom' = [decom EXCEPT ![n] = "none"]
  /\ UNCHANGED <<store, active, lock, managed, recovering, stopping, hold, todo,
                 supervisor, late, history, crashes>>

-----------------------------------------------------------------------------
(* The daemon stops and starts again.                                      *)

(* stop_non_persistent_running.                                            *)
NonPersistentStopped ==
  [n \in Names |->
     IF desired[n].state = "running" /\ ~ord[desired[n].cmd].persistent
       THEN [cmd |-> desired[n].cmd, state |-> "stopped"] ELSE desired[n]]

(* recover_commands: a command in flight goes on if its own entry says     *)
(* running, every other one ends as daemon_restarted.                      *)
Resumed == {c \in Ids : /\ saga[c] \in InFlight
                        /\ NonPersistentStopped[Name(c)] = [cmd |-> c, state |-> "running"]}

(* A stop anywhere, then the start-up as far as FleetSupervisor::open. The *)
(* groups of the former daemon are killed by their markers.                *)
DaemonRestarts ==
  LET lost == {c \in Ids : saga[c] \in InFlight} \ Resumed
  IN /\ crashes < MaxCrashes /\ crashes' = crashes + 1
     /\ desired' = NonPersistentStopped
     /\ saga' = [c \in Ids |-> IF c \in lost THEN "failed" ELSE saga[c]]
     /\ rec' = [c \in Ids |-> IF c \in lost THEN "rejected" ELSE rec[c]]
     /\ active' = Resumed
     /\ todo' = {n \in Names : \/ desired'[n].state = "running"
                               \/ Named(n, active') # {}}
     /\ lock' = Free /\ hold' = Booting
     /\ managed' = {} /\ recovering' = {} /\ stopping' = {}
     /\ decom' = [n \in Names |-> "none"]
     /\ proc' = [c \in Ids |-> "none"] /\ attempted' = {} /\ events' = <<>>
     /\ UNCHANGED <<ord, late, stopped, struck>>

(* reserve_managed_recoveries, the candidates: kept, expired, or failed.   *)
CandidateKept(c) ==
  /\ hold = Booting /\ lock = Free
  /\ c \in active /\ Name(c) \in todo /\ c \notin late
  /\ todo' = todo \ {Name(c)}
  /\ UNCHANGED <<store, desired, active, lock, daemon, hold, supervisor, late, history, crashes>>

CandidateExpires(c) ==
  /\ hold = Booting /\ lock = Free
  /\ c \in active /\ Name(c) \in todo /\ c \in late
  /\ desired' = MarkStoppedIfGeneration(c)
  /\ lock' = [op |-> "expire", id |-> c]
  /\ hold' = [who |-> "boot", id |-> c]
  /\ UNCHANGED <<store, active, daemon, todo, supervisor, late, history, crashes>>

CandidateFails(c) ==
  /\ hold = Booting
  /\ Name(c) \in todo /\ c \notin late
  /\ FailWrites(c)
  /\ hold' = [who |-> "boot", id |-> c]
  /\ UNCHANGED <<store, active, daemon, todo, supervisor, late, history, crashes>>

(* Then the persistent running entries without a candidate, each under a   *)
(* new command: request_recovery.                                          *)
EntryRecovers(n, c) ==
  /\ hold = Booting /\ n \in todo
  /\ \A m \in todo : Named(m, active) = {}
  /\ Request(c, n, TRUE, "recovery", "boot")

(* Every name treated, a Start command finds no supervisor any more.       *)
StartUndelivered(c) ==
  /\ hold = Booting /\ todo = {}
  /\ FailWrites(c)
  /\ hold' = [who |-> "boot", id |-> c]
  /\ UNCHANGED <<store, active, daemon, todo, supervisor, late, history, crashes>>

(* The other records and Start commands, then clients.                     *)
BootEnds ==
  /\ hold = Booting /\ lock = Free /\ todo = {}
  /\ managed' = active /\ recovering' = active
  /\ proc' = [c \in Ids |-> IF c \in active THEN "queued" ELSE proc[c]]
  /\ hold' = Nobody
  /\ UNCHANGED <<store, desired, active, lock, stopping, decom, todo, attempted, events,
                 late, history, crashes>>

(* The absolute deadline of a launch passes.                               *)
DeadlinePasses(c) ==
  /\ c \notin late /\ (saga[c] \in InFlight \/ proc[c] \in Launching)
  /\ late' = late \cup {c}
  /\ UNCHANGED <<store, desired, active, lock, daemon, hold, todo, supervisor, history, crashes>>

-----------------------------------------------------------------------------
ClientStep == \/ \E c \in Commands, n \in Names, p \in BOOLEAN : SpawnOrder(c, n, p)
              \/ \E c \in Commands, n \in Names : RelaunchOrder(c, n)
              \/ \E n \in Names, c \in Ids : StopWrites(n, c) \/ StopsConnected(n, c)
              \/ \E n \in Names : DecommissionStarts(n)

HandlerStep == \E c \in Ids : \/ Refuses(c) \/ Reserves(c)
                              \/ Prepares(c) \/ PreparationFails(c)
                              \/ HandlerFinishes(c) \/ StopFinishes(c)
                              \/ ConnectFinishes(c) \/ SupervisorFinishes(c)

DecommissionStep == \E n \in Names : \/ DecommissionFindsStop(n)
                                     \/ DecommissionTimesOut(n)
                                     \/ DecommissionEnds(n)

SupervisorStep == \E c \in Ids : \/ ProcessLaunches(c) \/ WrapperRegisters(c)
                                 \/ ConnectWrites(c) \/ ExpireWrites(c)
                                 \/ LaunchFails(c) \/ StaleLaunchFails(c)
                                 \/ SupervisorStops(c) \/ ProcessExits(c)

DrainStep == \E c \in Ids : DrainConnected(c) \/ DrainLost(c) \/ DrainStopped(c)

BootStep == \/ \E c \in Ids : \/ CandidateKept(c) \/ CandidateExpires(c)
                               \/ CandidateFails(c) \/ StartUndelivered(c)
            \/ \E n \in Names, c \in RecoveryIds : EntryRecovers(n, c)
            \/ BootEnds

Next == \/ ClientStep \/ HandlerStep \/ DecommissionStep \/ SupervisorStep
        \/ DrainStep \/ BootStep \/ DaemonRestarts
        \/ \E c \in Ids : DeadlinePasses(c)

Spec == Init /\ [][Next]_vars

(* A handler runs to its end, the start-up too; the main loop drains; time *)
(* passes; the supervisor polls, and acts on a stop or a deadline. Nothing *)
(* is assumed of the processes.                                            *)
Fairness ==
  /\ WF_vars(HandlerStep) /\ WF_vars(DrainStep) /\ WF_vars(BootStep)
  /\ WF_vars(\E c \in Ids : DeadlinePasses(c))
  /\ WF_vars(\E c \in late : ExpireWrites(c) \/ LaunchFails(c) \/ StaleLaunchFails(c))
  /\ WF_vars(\E c \in Ids : SupervisorStops(c))

FairSpec == Spec /\ Fairness

-----------------------------------------------------------------------------
(* Properties.                                                             *)

(* Every variable keeps its type (rows of spawn_commands, entries of       *)
(* fleet.json, records of managed_spawns, states of SupervisedProcess).    *)
TypeOK ==
  /\ ord \in [Ids -> [name : Names \cup {None}, persistent : BOOLEAN]]
  /\ saga \in [Ids -> Sagas]
  /\ rec \in [Ids -> {"absent", "prepared", "dispatching", "accepted", "rejected"}]
  /\ desired \in [Names -> [cmd : Ids \cup {None}, state : Lifecycles]]
  /\ active \subseteq Ids
  /\ lock \in [op : Requests \cup {"none", "fail", "expire", "connect", "stop"},
               id : Ids \cup {None}]
  /\ managed \subseteq Ids /\ recovering \subseteq Ids /\ stopping \subseteq Ids
  /\ decom \in [Names -> {"none", "stop", "ready"} \cup Ids]
  /\ hold \in [who : {"nobody", "client", "boot"}, id : Ids \cup {None}]
  /\ todo \subseteq Names
  /\ proc \in [Ids -> Procs] /\ attempted \subseteq Ids
  /\ events \in Seq([type : {"connected", "failed", "exited", "stopped"}, id : Ids])
  /\ late \subseteq Ids /\ stopped \subseteq Names /\ struck \subseteq Ids
  /\ crashes \in Nat

(* Never two agents under one name: whatever failures, stops that time     *)
(* out, relaunches and restarts came before, at most one connected process *)
(* bears a name.                                                           *)
OneAgentPerName ==
  \A c, d \in Ids : proc[c] = "connected" /\ proc[d] = "connected" /\ Name(c) = Name(d)
                      => c = d

(* A stopped agent is never brought back: after a stop took effect, until  *)
(* a client asks for the name again, no launch of it is active and every   *)
(* process of it left is one the supervisor was told to stop.              *)
StoppedStaysStopped ==
  \A n \in stopped : \A c \in Named(n, Ids) :
     c \notin active /\ (proc[c] \in Launching \cup {"connected"} => c \in stopping)

(* An agent that runs is one the next start-up will find: the entry of its *)
(* name is its own and says running, until it is stopped. The exception is *)
(* the late Failed event of an earlier launch of the same name, which      *)
(* marks the name stopped without looking at the command (struck).         *)
RunningIsRemembered ==
  \A c \in Ids : proc[c] = "connected" /\ c \notin stopping \cup struck
                   => desired[Name(c)] = [cmd |-> c, state |-> "running"]

(* A decommissioned agent cannot come back: no late event, no failing      *)
(* relaunch and no recovery moves its entry.                               *)
DecommissionedIsFinal ==
  [][\A n \in Names : desired[n].state = "decommissioned" => desired'[n] = desired[n]]_vars

(* To the client a spawn command is an idempotent operation: one           *)
(* reservation, one result, never changed, over restarts and recoveries.   *)
Contract == INSTANCE IdempotentOperation
              WITH Keys <- Ids, Grace <- 1, now <- 0, status <- rec,
                   expires <- [c \in Ids |-> IF rec[c] = "absent" THEN 0 ELSE 1]
ImplementsContract == Contract!Spec

(* Every command gets an issue: no stop, no lost process and no restart    *)
(* leaves one in flight for ever.                                          *)
EverySpawnEnds == \A c \in Ids : saga[c] \in InFlight ~> saga[c] \notin InFlight

(* New spawns, refused with DaemonRecovering while a recovery is under     *)
(* way, are accepted again.                                                *)
RecoveryEnds == recovering # {} ~> recovering = {}
=============================================================================
