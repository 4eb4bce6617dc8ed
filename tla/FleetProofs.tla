---------------------------- MODULE FleetProofs ----------------------------
(***************************************************************************)
(* Proofs about Fleet, for any names, commands, quota and number of        *)
(* restarts.                                                               *)
(*                                                                         *)
(* The inductive invariant Inv is a conjunction of named parts; one lemma  *)
(* per part shows that every step keeps it, one case per action or group   *)
(* of actions.                                                             *)
(***************************************************************************)
EXTENDS Fleet, TLAPS

USE FleetConstants
    DEF store, daemon, supervisor, history, vars, Ids, Name, Named, Exists, Free, Nobody,
        Booting, Event

-----------------------------------------------------------------------------
(* The inductive invariant.                                                *)

(* The public state of a command, by the state of its saga.                *)
RecordOf == [none |-> "absent", requested |-> "prepared", reserved |-> "dispatching",
             starting |-> "dispatching", connected |-> "accepted", failed |-> "rejected",
             cancelled |-> "rejected"]

(* The two tables agree, FleetInner has the launches in flight, and the    *)
(* entry of a name is about a command of that name.                        *)
Tables ==
  /\ \A c \in Ids : rec[c] = RecordOf[saga[c]]
  /\ \A c \in Ids : saga[c] # "none" => Name(c) \in Names
  /\ active = {c \in Ids : saga[c] \in {"reserved", "starting"}}
  /\ \A n \in Names : desired[n].cmd = None <=> desired[n].state = "absent"
  /\ \A n \in Names : desired[n].cmd # None => Name(desired[n].cmd) = n

(* Who is inside the two mutexes, and what the command they work on is.    *)
Sections ==
  /\ lock.op = "none" => lock = Free
  /\ lock.op \in Requests => lock.id \in Ids /\ hold.id = lock.id
  /\ lock.op \in {"fail", "expire", "connect", "stop"} => lock.id \in active
  /\ lock.op \in {"spawn", "relaunch"} => hold.who = "client"
  /\ lock.op = "recovery" => hold.who = "boot" /\ Name(lock.id) \in todo
  /\ lock.op = "stop" => hold = [who |-> "client", id |-> lock.id]
  /\ lock.op = "connect" => hold.id # lock.id
  /\ lock.op \in {"fail", "expire"} /\ hold.id = lock.id
       => hold.who = "boot" \/ saga[lock.id] = "reserved"
  /\ \A c \in Ids : saga[c] = "requested" <=> lock.op \in Requests /\ lock.id = c
  /\ \A c \in Ids : saga[c] = "reserved" => hold.id = c
  /\ \A c \in Ids : hold.id = c => saga[c] \in {"requested", "reserved"} \/ lock.id = c
  /\ hold.who = "nobody" => hold = Nobody

(* A command that is not starting yet has left no trace.                   *)
Unborn == {"none", "requested", "reserved"}
Fresh == \A c \in Ids : saga[c] \in Unborn =>
           /\ proc[c] = "none" /\ c \notin managed \cup stopping
           /\ \A i \in 1..Len(events) : events[i].id # c
           /\ \A n \in Names : desired[n].cmd # c

(* The start-up is alone: no process, no event, no client.                 *)
BootAlone ==
  /\ hold.who = "boot" =>
       /\ \A c \in Ids : proc[c] = "none"
       /\ events = <<>> /\ managed = {} /\ stopping = {}
       /\ \A n \in Names : decom[n] = "none"
       /\ lock # Free => hold.id = lock.id
       /\ \A n \in todo : desired[n].state # "decommissioned"
  /\ hold.who # "boot" => todo = {}

(* A process that may still become an agent, or is one, is managed; a      *)
(* launch that lost its lease is being stopped.                            *)
Alive == Launching \cup {"connected"}
Processes ==
  /\ \A c \in Ids : proc[c] \in Launching => c \in managed /\ c \in active \cup stopping
  /\ \A c \in Ids : proc[c] = "connected" => c \in managed /\ saga[c] = "connected"
  /\ \A c \in Ids : saga[c] = "starting" /\ hold.who # "boot" => c \in managed
  /\ \A c \in stopping : c \notin active /\ Exists(Name(c))
  /\ \A c \in Ids : saga[c] = "connected" => Exists(Name(c))

(* Failed and Exited are sent once, before Stopped, about a command that   *)
(* is still managed and has no live process; and such an event of an older *)
(* command of the name comes before the end of a command that connected or *)
(* is being stopped.                                                       *)
Lost(e) == e.type \in {"failed", "exited"}
Gone(e) == e.type \in {"failed", "exited", "stopped"}
EventsOnce ==
  /\ \A i \in 1..Len(events) :
       Gone(events[i]) => events[i].id \notin active /\ proc[events[i].id] \notin Alive
  /\ \A i \in 1..Len(events) : Lost(events[i]) => events[i].id \in managed
  /\ \A i, j \in 1..Len(events) :
       i < j /\ Gone(events[i]) /\ Lost(events[j]) =>
         LET c == events[i].id  d == events[j].id
         IN /\ c # d
            /\ Name(c) = Name(d) /\ c \in managed => c \notin stopping /\ saga[c] # "connected"

(* One command at a time holds a name: by its launch, or as the connected  *)
(* command until its end is drained. Beside a command that is being        *)
(* stopped there is no other.                                              *)
Holder(c) == c \in active \/ (c \in managed /\ saga[c] = "connected")
Leaving == stopping \cap managed
Claims ==
  /\ \A c, d \in Ids : Holder(c) /\ Holder(d) /\ Name(c) = Name(d) => c = d
  /\ \A c \in Leaving : \A d \in Ids : Name(d) = Name(c) =>
        /\ d \notin active
        /\ d \in managed /\ saga[d] = "connected" => d \in stopping
        /\ d \in Leaving => d = c
  /\ \A c \in managed : saga[c] = "connected" => desired[Name(c)].cmd = c
  /\ lock.op = "connect" => desired[Name(lock.id)].cmd = lock.id
  /\ lock.op = "relaunch" => /\ decom[Name(lock.id)] = "none"
                             /\ Named(Name(lock.id), managed) = {}

(* A name is retired when nothing of it can speak up any more.             *)
Retired(n) == \A c \in Named(n, Ids) :
                /\ c \notin active /\ proc[c] \notin Alive
                /\ \A i \in 1..Len(events) : events[i].id = c => ~Lost(events[i])
Retiring ==
  /\ \A n \in Names : decom[n] # "none" => Exists(n)
  /\ \A n \in Names : decom[n] \in Ids => decom[n] \in Leaving /\ Name(decom[n]) = n
  /\ \A n \in Names : decom[n] = "ready" \/ desired[n].state = "decommissioned" => Retired(n)

(* The entry of a stopped name is not one that a start-up brings back.     *)
Stops ==
  /\ \A n \in stopped : desired[n].state \notin {"running", "absent"}
  /\ lock.op = "stop" => /\ desired[Name(lock.id)].state \notin {"running", "absent"}
                         /\ lock.id \in managed
  /\ StoppedStaysStopped

(* The entry is written before the agent is connected.                     *)
Remembered ==
  \A c \in Ids : /\ proc[c] = "connected" \/ lock = [op |-> "connect", id |-> c]
                 /\ c \notin stopping \cup struck
                 => desired[Name(c)] = [cmd |-> c, state |-> "running"]

Inv == /\ TypeOK /\ Tables /\ Sections /\ Fresh /\ BootAlone /\ Processes
       /\ EventsOnce /\ Claims /\ Retiring /\ Stops /\ Remembered

-----------------------------------------------------------------------------
(* What the writes of fleet.json and a restart do.                         *)

Entries == [cmd : Ids \cup {None}, state : Lifecycles]

(* Each write changes the entry of one name: set_lifecycle_state,          *)
(* mark_stopped_if_generation and persist_stopped_active keep its command, *)
(* the upsert replaces it.                                                 *)
LEMMA SetLifecycleWrites ==
  ASSUME TypeOK, NEW n \in Names, NEW s \in Lifecycles
  PROVE  /\ SetLifecycle(n, s) \in [Names -> Entries]
         /\ \A m \in Names : m # n => SetLifecycle(n, s)[m] = desired[m]
         /\ \A m \in Names : SetLifecycle(n, s)[m].cmd = desired[m].cmd
         /\ Exists(n) => SetLifecycle(n, s)[n].state = s
         /\ ~Exists(n) => SetLifecycle(n, s) = desired
<1>1. CASE Exists(n)
  BY <1>1 DEF SetLifecycle, TypeOK, Entries
<1>2. CASE ~Exists(n)
  BY <1>2 DEF SetLifecycle, TypeOK, Entries
<1> QED BY <1>1, <1>2

LEMMA MarkStoppedWrites ==
  ASSUME TypeOK, NEW c \in Ids, Name(c) \in Names
  PROVE  LET n == Name(c)  D == MarkStoppedIfGeneration(c) IN
         /\ D \in [Names -> Entries]
         /\ \A m \in Names : m # n => D[m] = desired[m]
         /\ \A m \in Names : D[m].cmd = desired[m].cmd
         /\ desired[n].cmd = c /\ desired[n].state # "decommissioned" => D[n].state = "stopped"
         /\ desired[n].cmd # c \/ desired[n].state = "decommissioned" => D = desired
<1> DEFINE n == Name(c)
<1>1. CASE desired[n].cmd = c /\ desired[n].state # "decommissioned"
  <2>1. Exists(n) /\ n \in Names /\ "stopped" \in Lifecycles
    BY <1>1 DEF Lifecycles
  <2>2. MarkStoppedIfGeneration(c) = SetLifecycle(n, "stopped")
    BY <1>1 DEF MarkStoppedIfGeneration
  <2> HIDE DEF n
  <2> QED BY <1>1, <2>1, <2>2, SetLifecycleWrites DEF n
<1>2. CASE desired[n].cmd # c \/ desired[n].state = "decommissioned"
  BY <1>2 DEF MarkStoppedIfGeneration, TypeOK, Entries
<1> QED BY <1>1, <1>2

LEMMA PersistStoppedWrites ==
  ASSUME TypeOK, NEW c \in Ids, Name(c) \in Names, Exists(Name(c))
  PROVE  LET n == Name(c)  D == PersistStopped(c) IN
         /\ D \in [Names -> Entries]
         /\ \A m \in Names : m # n => D[m] = desired[m]
         /\ \A m \in Names : D[m].cmd = desired[m].cmd
         /\ \/ D[n].state = "stopped"
            \/ D[n].state = "decommissioned" /\ D = desired
<1> DEFINE n == Name(c)
<1>1. CASE desired[n].cmd = c
  <2>1. PersistStopped(c) = MarkStoppedIfGeneration(c)
    BY <1>1 DEF PersistStopped
  <2> QED BY <1>1, <2>1, MarkStoppedWrites
<1>2. CASE desired[n].cmd # c
  <2>1. PersistStopped(c) = SetLifecycle(n, "stopped") /\ "stopped" \in Lifecycles
    BY <1>2 DEF PersistStopped, Lifecycles
  <2>2. n \in Names /\ Exists(n)
    OBVIOUS
  <2> HIDE DEF n
  <2> QED BY <2>1, <2>2, SetLifecycleWrites DEF n
<1> QED BY <1>1, <1>2

LEMMA UpsertWrites ==
  ASSUME TypeOK, NEW c \in Ids, Name(c) \in Names, NEW s \in Lifecycles
  PROVE  LET n == Name(c)  D == Upsert(c, s) IN
         /\ D \in [Names -> Entries]
         /\ \A m \in Names : m # n => D[m] = desired[m]
         /\ D[n].cmd = c /\ D[n].state = s
  BY DEF Upsert, TypeOK, Entries

(* The first write of a launch that fails or expires stops the entry of    *)
(* its name, or leaves it.                                                 *)
LEMMA EndingWrites ==
  ASSUME TypeOK, Tables, NEW c \in Ids,
         PreparationFails(c) \/ LaunchFails(c) \/ CandidateFails(c) \/ StartUndelivered(c)
           \/ ExpireWrites(c) \/ CandidateExpires(c)
  PROVE  /\ c \in active /\ Name(c) \in Names /\ lock = Free
         /\ \E op \in {"fail", "expire"} : lock' = [op |-> op, id |-> c]
         /\ desired' \in [Names -> Entries]
         /\ \A m \in Names : m # Name(c) => desired'[m] = desired[m]
         /\ \A m \in Names : desired'[m].cmd = desired[m].cmd
         /\ \/ desired'[Name(c)].state = "stopped" /\ Exists(Name(c))
            \/ desired' = desired
         /\ UNCHANGED <<store, active, daemon, supervisor, todo, late, history, crashes>>
<1>1. /\ c \in active /\ lock = Free
      /\ \E op \in {"fail", "expire"} : lock' = [op |-> op, id |-> c]
      /\ UNCHANGED <<store, active, daemon, supervisor, todo, late, history, crashes>>
      /\ \/ desired' = IF Exists(Name(c)) THEN PersistStopped(c) ELSE desired
         \/ desired' = MarkStoppedIfGeneration(c)
  BY DEF PreparationFails, LaunchFails, CandidateFails,
         StartUndelivered, ExpireWrites, CandidateExpires, FailWrites
<1>2. Name(c) \in Names
  BY <1>1 DEF Tables
<1>3. CASE desired' = desired
  BY <1>1, <1>2, <1>3 DEF TypeOK, Entries
<1>4. CASE Exists(Name(c)) /\ desired' = PersistStopped(c)
  BY <1>1, <1>2, <1>4, PersistStoppedWrites
<1>5. CASE desired' = MarkStoppedIfGeneration(c)
  BY <1>1, <1>2, <1>5, MarkStoppedWrites
<1> QED BY <1>1, <1>3, <1>4, <1>5

(* A stop that meets a launch writes the entry of its name.                *)
LEMMA StopEffect ==
  ASSUME TypeOK, Tables, NEW n \in Names, NEW c \in Ids, StopWrites(n, c)
  PROVE  /\ Name(c) = n /\ c \in active /\ c \in managed
         /\ desired' \in [Names -> Entries]
         /\ \A m \in Names : m # n => desired'[m] = desired[m]
         /\ desired'[n].cmd = IF Exists(n) THEN desired[n].cmd ELSE c
         /\ \/ desired'[n].state = "stopped"
            \/ desired'[n].state = "decommissioned" /\ desired' = desired
         /\ hold = Nobody /\ lock = Free
         /\ lock' = [op |-> "stop", id |-> c]
         /\ hold' = [who |-> "client", id |-> c]
         /\ UNCHANGED <<store, active, daemon, supervisor, todo, late, history, crashes>>
<1>1. /\ Name(c) = n /\ c \in active /\ c \in managed
      /\ hold = Nobody /\ lock = Free
      /\ lock' = [op |-> "stop", id |-> c]
      /\ hold' = [who |-> "client", id |-> c]
      /\ UNCHANGED <<store, active, daemon, supervisor, todo, late, history, crashes>>
  BY DEF StopWrites
<1>2. CASE Exists(n)
  <2>1. desired' = PersistStopped(c) /\ Exists(Name(c))
    BY <1>1, <1>2 DEF StopWrites
  <2> QED BY <1>1, <1>2, <2>1, PersistStoppedWrites
<1>3. CASE ~Exists(n)
  <2>1. desired' = Upsert(c, "stopped") /\ "stopped" \in Lifecycles
    BY <1>3 DEF StopWrites, Lifecycles
  <2> QED BY <1>1, <1>3, <2>1, UpsertWrites
<1> QED BY <1>1, <1>2, <1>3

(* The channel of ManagedSupervisorEvent: sent at the end, drained from    *)
(* the front.                                                              *)
EventTypes == {"connected", "failed", "exited", "stopped"}
EventSet == [type : EventTypes, id : Ids]

LEMMA EventIds ==
  ASSUME TypeOK
  PROVE  /\ Len(events) \in Nat
         /\ \A i \in 1..Len(events) : events[i].id \in Ids /\ events[i].type \in EventTypes
<1>1. events \in Seq(EventSet)
  BY DEF TypeOK, EventSet, EventTypes
<1>2. \A i \in 1..Len(events) : events[i] \in EventSet
  BY <1>1
<1> QED BY <1>1, <1>2 DEF EventSet

LEMMA EventSent ==
  ASSUME TypeOK, NEW t \in EventTypes, NEW c \in Ids
  PROVE  LET E == Append(events, Event(t, c)) IN
         /\ events \in Seq(EventSet) /\ E \in Seq(EventSet)
         /\ Len(E) = Len(events) + 1
         /\ \A i \in 1..Len(events) : E[i] = events[i]
         /\ E[Len(events) + 1].id = c /\ E[Len(events) + 1].type = t
<1>1. events \in Seq(EventSet)
  BY DEF TypeOK, EventSet, EventTypes
<1>2. Event(t, c) \in EventSet /\ Event(t, c).id = c /\ Event(t, c).type = t
  BY DEF EventSet
<1> HIDE DEF Event
<1> QED BY <1>1, <1>2

LEMMA EventDrained ==
  ASSUME TypeOK, Drains
  PROVE  /\ events' \in Seq(EventSet)
         /\ Len(events) \in Nat \ {0} /\ Len(events') = Len(events) - 1
         /\ events[1] = Head(events)
         /\ \A i \in 1..Len(events') : i + 1 \in 1..Len(events) /\ events'[i] = events[i + 1]
<1>1. events \in Seq(EventSet) /\ events # <<>> /\ events' = Tail(events)
  BY DEF TypeOK, EventSet, EventTypes, Drains
<1> QED BY <1>1

(* An event is about a command that was started, so that has a name.       *)
LEMMA EventName ==
  ASSUME TypeOK, Tables, Fresh, NEW c \in Ids, Drains,
         \E t \in EventTypes : Head(events) = Event(t, c)
  PROVE  Name(c) \in Names /\ 1 \in 1..Len(events) /\ events[1].id = c
<1>1. 1 \in 1..Len(events) /\ events[1] = Head(events)
  BY DEF Drains, TypeOK
<1>2. events[1].id = c
  BY <1>1
<1> QED BY <1>1, <1>2 DEF Fresh, Unborn, Tables

(* The drain of a Failed or Exited event stops the entry of its name,      *)
(* whoever owns it.                                                        *)
LEMMA LostEffect ==
  ASSUME TypeOK, Tables, Fresh, NEW c \in Ids, DrainLost(c)
  PROVE  /\ Name(c) \in Names /\ hold = Nobody
         /\ 1 \in 1..Len(events) /\ events[1].id = c /\ Lost(events[1])
         /\ \A i \in 1..Len(events') : i + 1 \in 1..Len(events) /\ events'[i] = events[i + 1]
         /\ \A m \in Names : m # Name(c) => desired'[m] = desired[m]
         /\ \A m \in Names : desired'[m].cmd = desired[m].cmd
         /\ \A m \in Names : \/ desired'[m].state = desired[m].state
                             \/ desired'[m].state = "stopped" /\ Exists(m)
         /\ managed' = managed \ {c}
         /\ \A m \in Names : decom'[m] = decom[m] \/ (decom[m] = c /\ c \in stopping)
         /\ struck \subseteq struck'
         /\ desired[Name(c)].state = "running" /\ desired[Name(c)].cmd # c
              => desired[Name(c)].cmd \in struck'
         /\ UNCHANGED <<store, active, lock, stopping, hold, todo, proc, attempted, late,
                        stopped, crashes>>
<1> USE DEF Lost
<1>1. Drains /\ \E t \in EventTypes : Head(events) = Event(t, c) /\ t \in {"failed", "exited"}
  BY DEF DrainLost, EventTypes
<1>2. Name(c) \in Names /\ 1 \in 1..Len(events) /\ events[1].id = c
  BY <1>1, EventName
<1>3. /\ Lost(events[1])
      /\ \A i \in 1..Len(events') : i + 1 \in 1..Len(events) /\ events'[i] = events[i + 1]
  BY <1>1, EventDrained
<1>4. /\ \A m \in Names : decom'[m] = decom[m] \/ (decom[m] = c /\ c \in stopping)
      /\ struck \subseteq struck'
      /\ desired[Name(c)].state = "running" /\ desired[Name(c)].cmd # c
           => desired[Name(c)].cmd \in struck'
  <2>1. \A m \in Names : decom'[m] = decom[m] \/ (decom[m] = c /\ c \in stopping)
    BY DEF DrainLost, Completes
  <2>2. \/ desired[Name(c)].state = "running" /\ desired[Name(c)].cmd # c
           /\ struck' = struck \cup {desired[Name(c)].cmd}
        \/ struck' = struck /\ ~(desired[Name(c)].state = "running" /\ desired[Name(c)].cmd # c)
    BY DEF DrainLost
  <2> QED BY <2>1, <2>2
<1>5. /\ hold = Nobody /\ managed' = managed \ {c}
      /\ UNCHANGED <<store, active, lock, stopping, hold, todo, proc, attempted, late,
                     stopped, crashes>>
      /\ desired' = SetLifecycle(Name(c), "stopped") /\ "stopped" \in Lifecycles
  BY DEF DrainLost, Drains, Lifecycles
<1> DEFINE n == Name(c)
<1> HIDE DEF n
<1>6. n \in Names /\ desired' = SetLifecycle(n, "stopped") /\ "stopped" \in Lifecycles
  BY <1>2, <1>5 DEF n
<1>7. /\ \A m \in Names : m # n => desired'[m] = desired[m]
      /\ \A m \in Names : desired'[m].cmd = desired[m].cmd
      /\ \A m \in Names : \/ desired'[m].state = desired[m].state
                          \/ desired'[m].state = "stopped" /\ Exists(m)
  BY <1>6, SetLifecycleWrites
<1> QED BY <1>2, <1>3, <1>4, <1>5, <1>7 DEF n

(* A refusal ends the command; that of a recovery stops the entry.         *)
LEMMA RefusalEffect ==
  ASSUME TypeOK, Tables, Sections, NEW c \in Ids, Refuses(c)
  PROVE  /\ lock.op \in Requests /\ lock.id = c
         /\ Name(c) \in Names /\ saga[c] = "requested" /\ lock' = Free
         /\ saga'[c] = "failed" /\ rec'[c] = "rejected"
         /\ \A d \in Ids : d # c => saga'[d] = saga[d] /\ rec'[d] = rec[d]
         /\ \A m \in Names : m # Name(c) => desired'[m] = desired[m]
         /\ \A m \in Names : desired'[m].cmd = desired[m].cmd
         /\ \A m \in Names : \/ desired'[m].state = desired[m].state
                             \/ desired'[m].state = "stopped" /\ Exists(m)
         /\ lock.op # "recovery" => desired' = desired
         /\ hold.who = "boot" => hold' = Booting /\ todo' = todo \ {Name(c)}
         /\ hold.who # "boot" => hold' = Nobody /\ todo' = todo
         /\ UNCHANGED <<ord, active, daemon, supervisor, late, history, crashes>>
<1>1. /\ lock.op \in Requests /\ lock.id = c /\ lock' = Free
      /\ saga' = [saga EXCEPT ![c] = "failed"] /\ rec' = [rec EXCEPT ![c] = "rejected"]
      /\ desired' = IF lock.op = "recovery" THEN SetLifecycle(Name(c), "stopped") ELSE desired
      /\ hold.who = "boot" => hold' = Booting /\ todo' = todo \ {Name(c)}
      /\ hold.who # "boot" => hold' = Nobody /\ todo' = todo
      /\ UNCHANGED <<ord, active, daemon, supervisor, late, history, crashes>>
  BY DEF Refuses, Answered
<1>2. saga[c] = "requested" /\ Name(c) \in Names /\ "stopped" \in Lifecycles
  BY <1>1 DEF Sections, Tables, Lifecycles
<1>3. /\ saga'[c] = "failed" /\ rec'[c] = "rejected"
      /\ \A d \in Ids : d # c => saga'[d] = saga[d] /\ rec'[d] = rec[d]
  BY <1>1 DEF TypeOK
<1>4. CASE lock.op = "recovery" /\ Exists(Name(c))
  BY <1>1, <1>2, <1>3, <1>4, SetLifecycleWrites
<1>5. CASE lock.op = "recovery" /\ ~Exists(Name(c))
  BY <1>1, <1>2, <1>3, <1>5, SetLifecycleWrites
<1>6. CASE lock.op # "recovery"
  BY <1>1, <1>2, <1>3, <1>6
<1> QED BY <1>4, <1>5, <1>6

(* A stop of a connected command stops its entry, and may end the wait of  *)
(* a decommission for something to stop.                                   *)
LEMMA ConnectedStopEffect ==
  ASSUME TypeOK, Tables, NEW n \in Names, NEW c \in Ids, StopsConnected(n, c)
  PROVE  /\ Name(c) = n /\ c \in managed /\ c \notin stopping /\ saga[c] = "connected"
         /\ hold = Nobody /\ lock = Free
         /\ \A m \in Names : m # n => desired'[m] = desired[m]
         /\ \A m \in Names : desired'[m].cmd = desired[m].cmd
         /\ \A m \in Names : \/ desired'[m].state = desired[m].state
                             \/ /\ desired'[m].state = "stopped" /\ Exists(m)
                                /\ desired[m].state # "decommissioned"
         /\ desired[n].cmd = c => desired'[n].state \in {"stopped", "decommissioned"}
         /\ stopping' = stopping \cup {c} /\ stopped' = stopped \cup {n}
         /\ \A m \in Names : decom'[m] = decom[m] \/ (m = n /\ decom'[m] = c)
         /\ UNCHANGED <<store, active, lock, managed, recovering, hold, todo, supervisor, late,
                        struck, crashes>>
<1>1. /\ Name(c) = n /\ c \in managed /\ c \notin stopping /\ saga[c] = "connected"
      /\ hold = Nobody /\ lock = Free
      /\ stopping' = stopping \cup {c} /\ stopped' = stopped \cup {n}
      /\ UNCHANGED <<store, active, lock, managed, recovering, hold, todo, supervisor, late,
                     struck, crashes>>
      /\ desired' = MarkStoppedIfGeneration(c)
  BY DEF StopsConnected
<1>2. \A m \in Names : decom'[m] = decom[m] \/ (m = n /\ decom'[m] = c)
  <2>1. decom' = decom \/ decom' = [decom EXCEPT ![n] = c]
    BY DEF StopsConnected, Awaits
  <2>2. decom \in [Names -> {"none", "stop", "ready"} \cup Ids]
    BY DEF TypeOK
  <2> QED BY <2>1, <2>2
<1>3. CASE desired[n].cmd = c /\ desired[n].state # "decommissioned"
  BY <1>1, <1>2, <1>3, MarkStoppedWrites
<1>4. CASE desired[n].cmd # c \/ desired[n].state = "decommissioned"
  BY <1>1, <1>2, <1>4, MarkStoppedWrites
<1> QED BY <1>3, <1>4

(* A request fills the row of a command never seen, and enters both        *)
(* mutexes.                                                                *)
LEMMA RequestEffect ==
  ASSUME TypeOK, NEW c \in Ids, NEW n \in Names, NEW p \in BOOLEAN, NEW kind, NEW who,
         Request(c, n, p, kind, who)
  PROVE  /\ lock = Free /\ saga[c] = "none"
         /\ ord'[c].name = n /\ saga'[c] = "requested" /\ rec'[c] = "prepared"
         /\ \A d \in Ids : d # c => /\ ord'[d] = ord[d] /\ saga'[d] = saga[d]
                                    /\ rec'[d] = rec[d]
         /\ lock'.op = kind /\ lock'.id = c /\ hold'.who = who /\ hold'.id = c
         /\ UNCHANGED <<desired, active, daemon, todo, supervisor, late, history, crashes>>
  BY DEF Request, TypeOK

(* The three orders are such requests.                                     *)
LEMMA OrderEffect ==
  ASSUME TypeOK, Tables
  PROVE  /\ \A c \in Commands, n \in Names, p \in BOOLEAN :
              SpawnOrder(c, n, p) => \E q \in BOOLEAN : Request(c, n, q, "spawn", "client")
         /\ \A c \in Commands, n \in Names :
              RelaunchOrder(c, n) => \E q \in BOOLEAN : Request(c, n, q, "relaunch", "client")
         /\ \A c \in RecoveryIds, n \in Names :
              EntryRecovers(n, c) => \E q \in BOOLEAN : Request(c, n, q, "recovery", "boot")
<1>1. ASSUME NEW c \in Commands, NEW n \in Names, RelaunchOrder(c, n)
      PROVE  \E q \in BOOLEAN : Request(c, n, q, "relaunch", "client")
  <2>1. desired[n] \in [cmd : Ids \cup {None}, state : Lifecycles] /\ desired[n].cmd # None
    BY <1>1 DEF RelaunchOrder, TypeOK, Tables
  <2>2. ord[desired[n].cmd].persistent \in BOOLEAN
    BY <2>1 DEF TypeOK
  <2> QED BY <1>1, <2>2 DEF RelaunchOrder
<1> QED BY <1>1 DEF SpawnOrder, EntryRecovers

(* A restart keeps the launches whose own entry says running and fails the *)
(* others; nothing else survives but the two stores.                       *)
LEMMA RestartEffect ==
  ASSUME TypeOK, Tables, Fresh, DaemonRestarts
  PROVE  /\ desired' \in [Names -> Entries]
         /\ \A n \in Names :
              /\ desired'[n].cmd = desired[n].cmd
              /\ \/ desired'[n].state = desired[n].state
                 \/ desired[n].state = "running" /\ desired'[n].state = "stopped"
         /\ active' \subseteq active
         /\ \A c \in active' : /\ saga[c] = "starting"
                               /\ desired'[Name(c)].cmd = c
                               /\ desired'[Name(c)].state = "running"
         /\ \A c \in Ids : /\ saga[c] \in InFlight /\ c \notin active'
                              => saga'[c] = "failed" /\ rec'[c] = "rejected"
                           /\ ~(saga[c] \in InFlight /\ c \notin active')
                              => saga'[c] = saga[c] /\ rec'[c] = rec[c]
         /\ saga' \in [Ids -> Sagas]
         /\ rec' \in [Ids -> {"absent", "prepared", "dispatching", "accepted", "rejected"}]
         /\ todo' \subseteq Names
         /\ \A n \in todo' : desired'[n].state = "running"
         /\ lock' = Free /\ hold' = Booting /\ crashes' = crashes + 1
         /\ managed' = {} /\ recovering' = {} /\ stopping' = {} /\ attempted' = {}
         /\ decom' = [n \in Names |-> "none"] /\ proc' = [c \in Ids |-> "none"]
         /\ events' = <<>> /\ UNCHANGED <<ord, late, stopped, struck>>
<1>1. /\ desired' = NonPersistentStopped /\ active' = Resumed
      /\ saga' = [c \in Ids |-> IF saga[c] \in InFlight /\ c \notin Resumed
                                  THEN "failed" ELSE saga[c]]
      /\ rec' = [c \in Ids |-> IF saga[c] \in InFlight /\ c \notin Resumed
                                 THEN "rejected" ELSE rec[c]]
      /\ todo' = {n \in Names : desired'[n].state = "running" \/ Named(n, active') # {}}
      /\ lock' = Free /\ hold' = Booting /\ crashes' = crashes + 1
      /\ managed' = {} /\ recovering' = {} /\ stopping' = {} /\ attempted' = {}
      /\ decom' = [n \in Names |-> "none"] /\ proc' = [c \in Ids |-> "none"]
      /\ events' = <<>> /\ UNCHANGED <<ord, late, stopped, struck>>
  BY DEF DaemonRestarts
<1>2. /\ saga' \in [Ids -> Sagas]
      /\ rec' \in [Ids -> {"absent", "prepared", "dispatching", "accepted", "rejected"}]
  BY <1>1 DEF TypeOK, Sagas
<1>3. desired' \in [Names -> Entries]
  BY <1>1 DEF NonPersistentStopped, TypeOK, Lifecycles, Entries
<1>4. \A n \in Names : /\ desired'[n].cmd = desired[n].cmd
                       /\ \/ desired'[n].state = desired[n].state
                          \/ desired[n].state = "running" /\ desired'[n].state = "stopped"
  BY <1>1 DEF NonPersistentStopped
<1>5. ASSUME NEW c \in active'
      PROVE  /\ c \in Ids /\ saga[c] = "starting" /\ Name(c) \in Names
             /\ desired'[Name(c)].cmd = c /\ desired'[Name(c)].state = "running"
  <2>1. /\ c \in Ids /\ saga[c] \in InFlight
        /\ desired'[Name(c)] = [cmd |-> c, state |-> "running"]
    BY <1>1 DEF Resumed
  <2>2. Name(c) \in Names
    BY <2>1 DEF Tables, InFlight
  <2>3. desired[Name(c)].cmd = c
    BY <1>4, <2>1, <2>2
  <2>4. saga[c] \notin Unborn
    BY <2>1, <2>2, <2>3 DEF Fresh
  <2> QED BY <2>1, <2>2, <2>4 DEF Unborn, InFlight
<1>6. active' \subseteq active
  BY <1>5 DEF Tables
<1>7. todo' \subseteq Names /\ \A n \in todo' : desired'[n].state = "running"
  <2>1. ASSUME NEW n \in todo', NEW c \in active', Name(c) = n
        PROVE  desired'[n].state = "running"
    BY <1>5, <2>1
  <2>2. \A n \in todo' : \/ desired'[n].state = "running"
                         \/ \E c \in active' : Name(c) = n
    BY <1>1
  <2> QED BY <1>1, <2>1, <2>2
<1> QED BY <1>1, <1>2, <1>3, <1>4, <1>5, <1>6, <1>7

(* Every step keeps the types.                                             *)
LEMMA TypeOKNext ==
  ASSUME TypeOK, Tables, Sections, Fresh, [Next]_vars
  PROVE  TypeOK'
<1>1. ASSUME NEW c \in Commands, NEW n \in Names, RelaunchOrder(c, n) PROVE TypeOK'
  <2>1. PICK q \in BOOLEAN : Request(c, n, q, "relaunch", "client")
    BY <1>1, OrderEffect
  <2> QED BY <2>1 DEF Request, TypeOK, Sagas, InFlight, Requests
<1>2. ASSUME NEW c \in Ids, Refuses(c) PROVE TypeOK'
  <2>1. Name(c) \in Names
    BY <1>2 DEF Refuses, Sections, Tables
  <2>2. desired' \in [Names -> Entries]
    BY <1>2, <2>1, SetLifecycleWrites DEF Refuses, Lifecycles, TypeOK, Entries
  <2> QED BY <1>2, <2>1, <2>2 DEF Refuses, Answered, TypeOK, Entries, Sagas
<1>3. ASSUME NEW c \in Ids,
             PreparationFails(c) \/ LaunchFails(c) \/ CandidateFails(c) \/ StartUndelivered(c)
               \/ ExpireWrites(c) \/ CandidateExpires(c)
      PROVE TypeOK'
  BY <1>3, EndingWrites
     DEF TypeOK, Entries, PreparationFails, LaunchFails, CandidateFails,
         StartUndelivered, ExpireWrites,
         CandidateExpires
<1>4. ASSUME NEW c \in Ids, ProcessLaunches(c) \/ WrapperRegisters(c) PROVE TypeOK'
  <2>1. proc' \in [Ids -> Procs]
    BY <1>4 DEF ProcessLaunches, WrapperRegisters, TypeOK, Procs, Launching
  <2> QED BY <1>4, <2>1 DEF ProcessLaunches, WrapperRegisters, TypeOK
<1>5. ASSUME NEW c \in Ids, SupervisorStops(c) PROVE TypeOK'
  <2>1. CASE UNCHANGED <<proc, events>>
    BY <1>5, <2>1 DEF SupervisorStops, TypeOK
  <2>2. CASE /\ proc' = [proc EXCEPT ![c] = "none"] /\ UNCHANGED attempted
             /\ events' = Append(events, Event("stopped", c))
    <3>1. events' \in Seq(EventSet)
      BY <2>2, EventSent DEF EventTypes
    <3> QED BY <1>5, <2>2, <3>1 DEF SupervisorStops, TypeOK, EventSet, EventTypes, Procs
  <2> QED BY <1>5, <2>1, <2>2 DEF SupervisorStops
<1>6. ASSUME NEW c \in Ids, ProcessExits(c) PROVE TypeOK'
  <2>1. events' = events \/ events' = Append(events, Event("exited", c))
    BY <1>6 DEF ProcessExits
  <2>2. events' \in Seq(EventSet)
    BY <2>1, EventSent DEF EventTypes
  <2> QED BY <1>6, <2>2 DEF ProcessExits, TypeOK, EventSet, EventTypes, Procs
<1>7. ASSUME NEW c \in Ids, DrainLost(c) PROVE TypeOK'
  <2>1. Name(c) \in Names
    BY <1>7, EventName DEF DrainLost, EventTypes
  <2>2. desired' \in [Names -> Entries]
    BY <1>7, <2>1, SetLifecycleWrites DEF DrainLost, Lifecycles
  <2>3. decom' \in [Names -> {"none", "stop", "ready"} \cup Ids]
    BY <1>7 DEF DrainLost, Completes, TypeOK, Drains
  <2>4. struck' \subseteq Ids
    BY <1>7, <2>1 DEF DrainLost, TypeOK, Tables
  <2>5. events' \in Seq(EventSet)
    BY <1>7, EventDrained DEF DrainLost
  <2> QED BY <1>7, <2>2, <2>3, <2>4, <2>5
          DEF DrainLost, Drains, TypeOK, Entries, EventSet, EventTypes
<1>8. ASSUME NEW n \in Names, NEW c \in Ids, StopWrites(n, c) PROVE TypeOK'
  BY <1>8, StopEffect DEF TypeOK, Entries
<1>9. ASSUME NEW c \in Ids, StopFinishes(c) PROVE TypeOK'
  <2>1. Name(c) \in Names /\ c \in Ids
    BY <1>9 DEF StopFinishes, Sections, Tables
  <2>2. decom' \in [Names -> {"none", "stop", "ready"} \cup Ids]
    BY <1>9, <2>1 DEF StopFinishes, Awaits, TypeOK
  <2> QED BY <1>9, <2>1, <2>2 DEF StopFinishes, FinishSpawn, TypeOK, Sagas
<1>10. ASSUME NEW n \in Names, DecommissionStarts(n) \/ DecommissionTimesOut(n) PROVE TypeOK'
  <2>1. decom' \in [Names -> {"none", "stop", "ready"} \cup Ids]
    BY <1>10 DEF DecommissionStarts, DecommissionTimesOut, TypeOK
  <2> QED BY <1>10, <2>1 DEF DecommissionStarts, DecommissionTimesOut, TypeOK
<1>11. ASSUME NEW n \in Names, DecommissionFindsStop(n) PROVE TypeOK'
  <2>1. \E v \in {"none", "ready"} \cup Ids : decom' = [decom EXCEPT ![n] = v]
    BY <1>11 DEF DecommissionFindsStop, TypeOK
  <2>2. decom' \in [Names -> {"none", "stop", "ready"} \cup Ids]
    BY <2>1 DEF TypeOK
  <2> QED BY <1>11, <2>2 DEF DecommissionFindsStop, TypeOK
<1>12. CASE DaemonRestarts
  <2>1. /\ active' \subseteq Ids /\ crashes' \in Nat
        /\ proc' \in [Ids -> Procs] /\ decom' \in [Names -> {"none", "stop", "ready"} \cup Ids]
    BY <1>12, RestartEffect DEF TypeOK, Procs
  <2>2. lock' \in [op : Requests \cup {"none", "fail", "expire", "connect", "stop"},
                   id : Ids \cup {None}]
    BY <1>12, RestartEffect
  <2>3. hold' \in [who : {"nobody", "client", "boot"}, id : Ids \cup {None}]
    BY <1>12, RestartEffect
  <2>4. /\ UNCHANGED <<ord, late, stopped, struck>> /\ managed' = {} /\ recovering' = {}
        /\ stopping' = {} /\ attempted' = {} /\ todo' \subseteq Names /\ events' = <<>>
    BY <1>12, RestartEffect
  <2>5. /\ saga' \in [Ids -> Sagas]
        /\ rec' \in [Ids -> {"absent", "prepared", "dispatching", "accepted", "rejected"}]
        /\ desired' \in [Names -> Entries]
    BY <1>12, RestartEffect
  <2> QED BY <2>1, <2>2, <2>3, <2>4, <2>5 DEF TypeOK, Entries
<1> USE DEF TypeOK, Sagas, InFlight, Lifecycles, Requests, Launching, Procs
<1>13. ASSUME NEW c \in Commands, NEW n \in Names, NEW p \in BOOLEAN, SpawnOrder(c, n, p)
       PROVE  TypeOK'
  BY <1>13 DEF SpawnOrder, Request
<1>14. ASSUME NEW c \in RecoveryIds, NEW n \in Names, EntryRecovers(n, c) PROVE TypeOK'
  BY <1>14 DEF EntryRecovers, Request
<1>15. ASSUME NEW c \in Ids, Reserves(c) PROVE TypeOK'
  BY <1>15 DEF Reserves, Refusable, AllowedExisting
<1>16. ASSUME NEW c \in Ids, Prepares(c) PROVE TypeOK'
  <2>1. /\ saga' \in [Ids -> Sagas] /\ todo' \subseteq Names
        /\ hold' \in [who : {"nobody", "client", "boot"}, id : Ids \cup {None}]
    BY <1>16 DEF Prepares, Answered
  <2>2. managed' \subseteq Ids /\ proc' \in [Ids -> Procs]
    BY <1>16 DEF Prepares
  <2> QED BY <1>16, <2>1, <2>2 DEF Prepares
<1>17. ASSUME NEW c \in Ids, HandlerFinishes(c) PROVE TypeOK'
  BY <1>17 DEF HandlerFinishes, FinishSpawn, Ending, Answered
<1>18. ASSUME NEW c \in Ids, SupervisorFinishes(c) PROVE TypeOK'
  BY <1>18 DEF SupervisorFinishes, FinishSpawn, Ending, Reaped
<1>19. ASSUME NEW c \in Ids, ConnectWrites(c) PROVE TypeOK'
  BY <1>19 DEF ConnectWrites, Upsert
<1>20. ASSUME NEW c \in Ids, ConnectFinishes(c) PROVE TypeOK'
  BY <1>20 DEF ConnectFinishes, FinishSpawn
<1>21. ASSUME NEW c \in Ids, StaleLaunchFails(c) PROVE TypeOK'
  BY <1>21 DEF StaleLaunchFails, Reaped
<1>22. ASSUME NEW c \in Ids, DrainConnected(c) PROVE TypeOK'
  BY <1>22 DEF DrainConnected, Drains
<1>23. ASSUME NEW c \in Ids, DrainStopped(c) PROVE TypeOK'
  BY <1>23 DEF DrainStopped, Drains, Completes
<1>24. ASSUME NEW n \in Names, NEW c \in Ids, StopsConnected(n, c) PROVE TypeOK'
  BY <1>24 DEF StopsConnected, Awaits, MarkStoppedIfGeneration, SetLifecycle
<1>25. ASSUME NEW n \in Names, DecommissionEnds(n) PROVE TypeOK'
  BY <1>25 DEF DecommissionEnds, SetLifecycle
<1>26. ASSUME NEW c \in Ids, CandidateKept(c) \/ DeadlinePasses(c) PROVE TypeOK'
  BY <1>26 DEF CandidateKept, DeadlinePasses
<1>27. ASSUME BootEnds PROVE TypeOK'
  BY <1>27 DEF BootEnds
<1>28. CASE UNCHANGED vars
  BY <1>28
<1> HIDE DEF TypeOK, Sagas, InFlight, Lifecycles, Requests, Launching, Procs
<1> QED BY <1>1, <1>2, <1>3, <1>4, <1>5, <1>6, <1>7, <1>8, <1>9, <1>10, <1>11, <1>12, <1>13,
          <1>14, <1>15, <1>16, <1>17, <1>18, <1>19, <1>20, <1>21, <1>22, <1>23, <1>24, <1>25,
          <1>26, <1>27, <1>28
        DEF Next, ClientStep, HandlerStep, DecommissionStep, SupervisorStep, DrainStep,
            BootStep

(* The saga, its record and FleetInner move together, and the entry of a   *)
(* name stays about that name.                                             *)
LEMMA TablesNext ==
  ASSUME TypeOK, Tables, Sections, Fresh, [Next]_vars
  PROVE  Tables'
<1>1. ASSUME NEW c \in Ids, NEW n \in Names, NEW p \in BOOLEAN, NEW kind, NEW who,
             Request(c, n, p, kind, who)
      PROVE  Tables'
  <2>1. \A m \in Names : desired[m].cmd # c
    BY <1>1, RequestEffect DEF Fresh, Unborn
  <2>2. \A m \in Names : desired[m].cmd # None => desired[m].cmd \in Ids
    BY DEF TypeOK
  <2>3. ASSUME NEW m \in Names, desired[m].cmd # None
        PROVE  Name(desired[m].cmd)' = m
    BY <1>1, <2>1, <2>2, <2>3, RequestEffect DEF Tables
  <2>4. ASSUME NEW d \in Ids PROVE /\ rec'[d] = RecordOf[saga'[d]]
                                   /\ saga'[d] # "none" => Name(d)' \in Names
    BY <1>1, RequestEffect DEF Tables, RecordOf
  <2>5. active' = {d \in Ids : saga'[d] \in {"reserved", "starting"}}
    BY <1>1, RequestEffect DEF Tables
  <2> QED BY <1>1, <2>3, <2>4, <2>5, RequestEffect DEF Tables
<1>2. ASSUME NEW c \in Commands, NEW n \in Names, NEW p \in BOOLEAN, SpawnOrder(c, n, p)
      PROVE  Tables'
  BY <1>2, <1>1, OrderEffect
<1>3. ASSUME NEW c \in Commands, NEW n \in Names, RelaunchOrder(c, n) PROVE Tables'
  BY <1>3, <1>1, OrderEffect
<1>4. ASSUME NEW c \in RecoveryIds, NEW n \in Names, EntryRecovers(n, c) PROVE Tables'
  BY <1>4, <1>1, OrderEffect
<1>5. ASSUME NEW c \in Ids, Refuses(c) PROVE Tables'
  <2>1. /\ saga[c] = "requested" /\ saga'[c] = "failed" /\ rec'[c] = "rejected"
        /\ \A d \in Ids : d # c => saga'[d] = saga[d] /\ rec'[d] = rec[d]
        /\ Name(c) \in Names /\ UNCHANGED <<ord, active>>
    BY <1>5, RefusalEffect
  <2>2. /\ \A m \in Names : desired'[m].cmd = desired[m].cmd
        /\ \A m \in Names : desired'[m].state = "absent" <=> desired[m].state = "absent"
    BY <1>5, RefusalEffect DEF Tables
  <2>3. \A d \in Ids : /\ rec'[d] = RecordOf[saga'[d]]
                       /\ d \in active <=> saga'[d] \in {"reserved", "starting"}
    BY <2>1 DEF Tables, RecordOf
  <2> QED BY <2>1, <2>2, <2>3 DEF Tables
<1>6. ASSUME NEW c \in Ids,
             PreparationFails(c) \/ LaunchFails(c) \/ CandidateFails(c) \/ StartUndelivered(c)
               \/ ExpireWrites(c) \/ CandidateExpires(c)
      PROVE Tables'
  BY <1>6, EndingWrites DEF Tables
<1>7. ASSUME NEW n \in Names, NEW c \in Ids, StopWrites(n, c) PROVE Tables'
  <2>1. c \notin {None} /\ Name(c)' = Name(c)
    BY <1>7, StopEffect
  <2> QED BY <1>7, <2>1, StopEffect DEF Tables
<1>8. ASSUME NEW n \in Names, NEW c \in Ids, StopsConnected(n, c) PROVE Tables'
  <2>1. /\ Name(c) = n /\ desired' = MarkStoppedIfGeneration(c)
        /\ UNCHANGED <<ord, saga, rec, active>>
    BY <1>8 DEF StopsConnected
  <2>2. /\ \A m \in Names : desired'[m].cmd = desired[m].cmd
        /\ \A m \in Names : desired'[m].state = "absent" <=> desired[m].state = "absent"
    BY <2>1, MarkStoppedWrites DEF Tables
  <2> QED BY <2>1, <2>2 DEF Tables
<1>9. CASE DaemonRestarts
  <2>1. ASSUME NEW c \in Ids
        PROVE  /\ rec'[c] = RecordOf[saga'[c]]
               /\ saga'[c] # "none" => Name(c)' \in Names
               /\ c \in active' <=> saga'[c] \in {"reserved", "starting"}
    BY <1>9, RestartEffect DEF Tables, RecordOf, InFlight
  <2>2. ASSUME NEW n \in Names
        PROVE  /\ desired'[n].cmd = None <=> desired'[n].state = "absent"
               /\ desired'[n].cmd # None => ord'[desired'[n].cmd].name = n
    BY <1>9, RestartEffect DEF Tables
  <2>3. active' = {c \in Ids : saga'[c] \in {"reserved", "starting"}}
    BY <1>9, <2>1, RestartEffect DEF TypeOK
  <2> QED BY <2>1, <2>2, <2>3 DEF Tables
<1> USE DEF TypeOK, Tables, Sections, RecordOf, Requests, InFlight, Lifecycles
<1>10. ASSUME NEW c \in Ids, Reserves(c) PROVE Tables'
  BY <1>10 DEF Reserves, Refusable, AllowedExisting
<1>11. ASSUME NEW c \in Ids, Prepares(c) PROVE Tables'
  BY <1>11 DEF Prepares, Answered
<1>12. ASSUME NEW c \in Ids, HandlerFinishes(c) PROVE Tables'
  BY <1>12 DEF HandlerFinishes, FinishSpawn, Ending, Answered
<1>13. ASSUME NEW c \in Ids, SupervisorFinishes(c) PROVE Tables'
  BY <1>13 DEF SupervisorFinishes, FinishSpawn, Ending, Reaped
<1>14. ASSUME NEW c \in Ids, ConnectWrites(c) PROVE Tables'
  BY <1>14 DEF ConnectWrites, Upsert
<1>15. ASSUME NEW c \in Ids, ConnectFinishes(c) PROVE Tables'
  BY <1>15 DEF ConnectFinishes, FinishSpawn
<1>16. ASSUME NEW c \in Ids, ProcessLaunches(c) \/ WrapperRegisters(c) PROVE Tables'
  BY <1>16 DEF ProcessLaunches, WrapperRegisters
<1>17. ASSUME NEW c \in Ids, StaleLaunchFails(c) PROVE Tables'
  BY <1>17 DEF StaleLaunchFails, Reaped
<1>18. ASSUME NEW c \in Ids, SupervisorStops(c) PROVE Tables'
  BY <1>18 DEF SupervisorStops
<1>19. ASSUME NEW c \in Ids, ProcessExits(c) PROVE Tables'
  BY <1>19 DEF ProcessExits
<1>20. ASSUME NEW c \in Ids, DrainConnected(c) PROVE Tables'
  BY <1>20 DEF DrainConnected, Drains
<1>21. ASSUME NEW c \in Ids, DrainLost(c) PROVE Tables'
  BY <1>21, LostEffect
<1>22. ASSUME NEW c \in Ids, DrainStopped(c) PROVE Tables'
  BY <1>22 DEF DrainStopped, Drains, Completes
<1>23. ASSUME NEW c \in Ids, StopFinishes(c) PROVE Tables'
  BY <1>23 DEF StopFinishes, FinishSpawn, Awaits
<1>24. ASSUME NEW n \in Names, DecommissionStarts(n) \/ DecommissionTimesOut(n) PROVE Tables'
  BY <1>24 DEF DecommissionStarts, DecommissionTimesOut
<1>25. ASSUME NEW n \in Names, DecommissionFindsStop(n) PROVE Tables'
  BY <1>25 DEF DecommissionFindsStop
<1>26. ASSUME NEW n \in Names, DecommissionEnds(n) PROVE Tables'
  BY <1>26 DEF DecommissionEnds, SetLifecycle
<1>27. ASSUME NEW c \in Ids, CandidateKept(c) \/ DeadlinePasses(c) PROVE Tables'
  BY <1>27 DEF CandidateKept, DeadlinePasses
<1>28. ASSUME BootEnds PROVE Tables'
  BY <1>28 DEF BootEnds
<1>29. CASE UNCHANGED vars
  BY <1>29
<1> HIDE DEF TypeOK, Tables, Sections, RecordOf, Requests, InFlight, Lifecycles
<1> QED BY <1>2, <1>3, <1>4, <1>5, <1>6, <1>7, <1>8, <1>9, <1>10, <1>11, <1>12, <1>13, <1>14,
          <1>15, <1>16, <1>17, <1>18, <1>19, <1>20, <1>21, <1>22, <1>23, <1>24, <1>25, <1>26,
          <1>27, <1>28, <1>29
        DEF Next, ClientStep, HandlerStep, DecommissionStep, SupervisorStep, DrainStep,
            BootStep

(* The sections inside the mutexes follow one another.                     *)
LEMMA SectionsNext ==
  ASSUME TypeOK, Tables, Sections, Fresh, BootAlone, [Next]_vars
  PROVE  Sections'
<1>1. CASE DaemonRestarts
  <2>1. lock' = Free /\ hold' = Booting
    BY <1>1, RestartEffect
  <2>2. \A c \in Ids : saga'[c] \notin {"requested", "reserved"} /\ hold'.id # c
    BY <1>1, RestartEffect DEF InFlight
  <2> QED BY <2>1, <2>2 DEF Sections, Requests
<1> USE DEF TypeOK, Tables, Sections, Fresh, BootAlone, Requests
<1>2. ASSUME NEW c \in Commands, NEW n \in Names, NEW p \in BOOLEAN, SpawnOrder(c, n, p)
      PROVE  Sections'
  BY <1>2 DEF SpawnOrder, Request
<1>3. ASSUME NEW c \in Commands, NEW n \in Names, RelaunchOrder(c, n) PROVE Sections'
  BY <1>3 DEF RelaunchOrder, Request
<1>4. ASSUME NEW c \in RecoveryIds, NEW n \in Names, EntryRecovers(n, c) PROVE Sections'
  BY <1>4 DEF EntryRecovers, Request
<1>5. ASSUME NEW c \in Ids, Refuses(c) PROVE Sections'
  BY <1>5 DEF Refuses, Answered
<1>6. ASSUME NEW c \in Ids, Reserves(c) PROVE Sections'
  BY <1>6 DEF Reserves, Refusable, AllowedExisting
<1>7. ASSUME NEW c \in Ids, Prepares(c) PROVE Sections'
  BY <1>7 DEF Prepares, Answered
<1>8. ASSUME NEW c \in Ids,
             PreparationFails(c) \/ LaunchFails(c) \/ CandidateFails(c) \/ StartUndelivered(c)
               \/ ExpireWrites(c) \/ CandidateExpires(c)
      PROVE Sections'
  BY <1>8 DEF PreparationFails, LaunchFails, CandidateFails,
         StartUndelivered, FailWrites, ExpireWrites,
         CandidateExpires
<1>9. ASSUME NEW c \in Ids, HandlerFinishes(c) PROVE Sections'
  BY <1>9 DEF HandlerFinishes, FinishSpawn, Ending, Answered
<1>10. ASSUME NEW c \in Ids, SupervisorFinishes(c) PROVE Sections'
  BY <1>10 DEF SupervisorFinishes, FinishSpawn, Ending, Reaped
<1>11. ASSUME NEW c \in Ids, ConnectWrites(c) PROVE Sections'
  BY <1>11 DEF ConnectWrites
<1>12. ASSUME NEW c \in Ids, ConnectFinishes(c) PROVE Sections'
  BY <1>12 DEF ConnectFinishes, FinishSpawn
<1>13. ASSUME NEW c \in Ids, ProcessLaunches(c) \/ WrapperRegisters(c) PROVE Sections'
  BY <1>13 DEF ProcessLaunches, WrapperRegisters
<1>14. ASSUME NEW c \in Ids, StaleLaunchFails(c) PROVE Sections'
  BY <1>14 DEF StaleLaunchFails, Reaped
<1>15. ASSUME NEW c \in Ids, SupervisorStops(c) PROVE Sections'
  BY <1>15 DEF SupervisorStops
<1>16. ASSUME NEW c \in Ids, ProcessExits(c) PROVE Sections'
  BY <1>16 DEF ProcessExits
<1>17. ASSUME NEW c \in Ids, DrainConnected(c) PROVE Sections'
  BY <1>17 DEF DrainConnected, Drains
<1>18. ASSUME NEW c \in Ids, DrainLost(c) PROVE Sections'
  BY <1>18 DEF DrainLost, Drains, Completes
<1>19. ASSUME NEW c \in Ids, DrainStopped(c) PROVE Sections'
  BY <1>19 DEF DrainStopped, Drains, Completes
<1>20. ASSUME NEW n \in Names, NEW c \in Ids, StopWrites(n, c) PROVE Sections'
  BY <1>20 DEF StopWrites
<1>21. ASSUME NEW c \in Ids, StopFinishes(c) PROVE Sections'
  BY <1>21 DEF StopFinishes, FinishSpawn, Awaits
<1>22. ASSUME NEW n \in Names, NEW c \in Ids, StopsConnected(n, c) PROVE Sections'
  BY <1>22 DEF StopsConnected, Awaits
<1>23. ASSUME NEW n \in Names, DecommissionStarts(n) \/ DecommissionTimesOut(n) PROVE Sections'
  BY <1>23 DEF DecommissionStarts, DecommissionTimesOut
<1>24. ASSUME NEW n \in Names, DecommissionFindsStop(n) PROVE Sections'
  BY <1>24 DEF DecommissionFindsStop
<1>25. ASSUME NEW n \in Names, DecommissionEnds(n) PROVE Sections'
  BY <1>25 DEF DecommissionEnds
<1>26. ASSUME NEW c \in Ids, CandidateKept(c) \/ DeadlinePasses(c) PROVE Sections'
  BY <1>26 DEF CandidateKept, DeadlinePasses
<1>27. ASSUME BootEnds PROVE Sections'
  BY <1>27 DEF BootEnds
<1>28. CASE UNCHANGED vars
  BY <1>28
<1> HIDE DEF TypeOK, Tables, Sections, Fresh, BootAlone, Requests
<1> QED BY <1>1, <1>2, <1>3, <1>4, <1>5, <1>6, <1>7, <1>8, <1>9, <1>10, <1>11, <1>12, <1>13,
          <1>14, <1>15, <1>16, <1>17, <1>18, <1>19, <1>20, <1>21, <1>22, <1>23, <1>24, <1>25,
          <1>26, <1>27, <1>28
        DEF Next, ClientStep, HandlerStep, DecommissionStep, SupervisorStep, DrainStep,
            BootStep

(* What a command leaves, it leaves once it is starting.                   *)
LEMMA FreshNext ==
  ASSUME TypeOK, Tables, Sections, Fresh, BootAlone, Processes, [Next]_vars
  PROVE  Fresh'
<1>1. ASSUME NEW c \in Ids,
             PreparationFails(c) \/ LaunchFails(c) \/ CandidateFails(c) \/ StartUndelivered(c)
               \/ ExpireWrites(c) \/ CandidateExpires(c)
      PROVE Fresh'
  BY <1>1, EndingWrites DEF Fresh
<1>2. ASSUME NEW c \in Ids, SupervisorStops(c) PROVE Fresh'
  <2>1. CASE events' = events
    BY <1>2, <2>1 DEF SupervisorStops, Fresh, TypeOK
  <2>2. CASE /\ proc' = [proc EXCEPT ![c] = "none"]
             /\ events' = Append(events, Event("stopped", c))
    <3>1. saga[c] \notin Unborn
      BY <1>2 DEF SupervisorStops, Fresh
    <3>2. \A i \in 1..Len(events') : events'[i].id = c
                                      \/ (i \in 1..Len(events) /\ events'[i] = events[i])
      BY <2>2, EventSent DEF EventTypes
    <3> QED BY <1>2, <2>2, <3>1, <3>2 DEF SupervisorStops, Fresh, TypeOK
  <2> QED BY <1>2, <2>1, <2>2 DEF SupervisorStops
<1>3. ASSUME NEW c \in Ids, DrainLost(c) PROVE Fresh'
  <2>1. /\ UNCHANGED <<saga, proc, stopping>> /\ managed' = managed \ {c}
        /\ \A i \in 1..Len(events') : i + 1 \in 1..Len(events) /\ events'[i] = events[i + 1]
        /\ \A m \in Names : desired'[m].cmd = desired[m].cmd
    BY <1>3, LostEffect
  <2> QED BY <2>1 DEF Fresh
<1>4. ASSUME NEW n \in Names, NEW c \in Ids, StopWrites(n, c) PROVE Fresh'
  <2>1. /\ UNCHANGED <<saga, proc, managed, stopping, events>> /\ c \in managed
        /\ \A m \in Names : desired'[m].cmd \in {desired[m].cmd, c}
    BY <1>4, StopEffect
  <2>2. saga[c] \notin Unborn
    BY <2>1 DEF Fresh
  <2> QED BY <2>1, <2>2 DEF Fresh
<1>5. CASE DaemonRestarts
  <2> SUFFICES ASSUME NEW c \in Ids, saga'[c] \in Unborn
               PROVE  /\ proc'[c] = "none" /\ c \notin managed' \cup stopping'
                      /\ \A i \in 1..Len(events') : events'[i].id # c
                      /\ \A n \in Names : desired'[n].cmd # c
    BY DEF Fresh
  <2>1. saga[c] \in Unborn
    BY <1>5, RestartEffect DEF Unborn
  <2>2. \A n \in Names : desired'[n].cmd # c
    BY <1>5, <2>1, RestartEffect DEF Fresh
  <2> QED BY <1>5, <2>2, RestartEffect
<1> USE DEF TypeOK, Tables, Sections, Fresh, BootAlone, Processes, Unborn, Requests, Launching
<1>6. ASSUME NEW c \in Commands, NEW n \in Names, NEW p \in BOOLEAN, SpawnOrder(c, n, p)
      PROVE  Fresh'
  BY <1>6 DEF SpawnOrder, Request
<1>7. ASSUME NEW c \in Commands, NEW n \in Names, RelaunchOrder(c, n) PROVE Fresh'
  BY <1>7 DEF RelaunchOrder, Request
<1>8. ASSUME NEW c \in RecoveryIds, NEW n \in Names, EntryRecovers(n, c) PROVE Fresh'
  BY <1>8 DEF EntryRecovers, Request
<1>9. ASSUME NEW c \in Ids, Refuses(c) PROVE Fresh'
  BY <1>9, RefusalEffect
<1>10. ASSUME NEW c \in Ids, Reserves(c) PROVE Fresh'
  BY <1>10 DEF Reserves, Refusable, AllowedExisting
<1>11. ASSUME NEW c \in Ids, Prepares(c) PROVE Fresh'
  BY <1>11 DEF Prepares, Answered
<1>12. ASSUME NEW c \in Ids, HandlerFinishes(c) PROVE Fresh'
  BY <1>12 DEF HandlerFinishes, FinishSpawn, Ending, Answered
<1>13. ASSUME NEW c \in Ids, SupervisorFinishes(c) PROVE Fresh'
  BY <1>13 DEF SupervisorFinishes, FinishSpawn, Ending, Reaped
<1>14. ASSUME NEW c \in Ids, ConnectWrites(c) PROVE Fresh'
  BY <1>14 DEF ConnectWrites, Upsert
<1>15. ASSUME NEW c \in Ids, ConnectFinishes(c) PROVE Fresh'
  BY <1>15 DEF ConnectFinishes, FinishSpawn
<1>16. ASSUME NEW c \in Ids, ProcessLaunches(c) \/ WrapperRegisters(c) PROVE Fresh'
  BY <1>16 DEF ProcessLaunches, WrapperRegisters
<1>17. ASSUME NEW c \in Ids, StaleLaunchFails(c) PROVE Fresh'
  BY <1>17 DEF StaleLaunchFails, Reaped
<1>18. ASSUME NEW c \in Ids, ProcessExits(c) PROVE Fresh'
  BY <1>18 DEF ProcessExits
<1>19. ASSUME NEW c \in Ids, DrainConnected(c) PROVE Fresh'
  BY <1>19 DEF DrainConnected, Drains
<1>20. ASSUME NEW c \in Ids, DrainStopped(c) PROVE Fresh'
  BY <1>20 DEF DrainStopped, Drains, Completes
<1>21. ASSUME NEW c \in Ids, StopFinishes(c) PROVE Fresh'
  BY <1>21 DEF StopFinishes, FinishSpawn, Awaits
<1>22. ASSUME NEW n \in Names, NEW c \in Ids, StopsConnected(n, c) PROVE Fresh'
  BY <1>22, ConnectedStopEffect
<1>23. ASSUME NEW n \in Names, DecommissionStarts(n) \/ DecommissionTimesOut(n) PROVE Fresh'
  BY <1>23 DEF DecommissionStarts, DecommissionTimesOut
<1>24. ASSUME NEW n \in Names, DecommissionFindsStop(n) PROVE Fresh'
  BY <1>24 DEF DecommissionFindsStop
<1>25. ASSUME NEW n \in Names, DecommissionEnds(n) PROVE Fresh'
  BY <1>25 DEF DecommissionEnds, SetLifecycle
<1>26. ASSUME NEW c \in Ids, CandidateKept(c) \/ DeadlinePasses(c) PROVE Fresh'
  BY <1>26 DEF CandidateKept, DeadlinePasses
<1>27. ASSUME BootEnds PROVE Fresh'
  BY <1>27 DEF BootEnds
<1>28. CASE UNCHANGED vars
  BY <1>28
<1> HIDE DEF TypeOK, Tables, Sections, Fresh, BootAlone, Processes, Unborn, Requests, Launching
<1> QED BY <1>1, <1>2, <1>3, <1>4, <1>5, <1>6, <1>7, <1>8, <1>9, <1>10, <1>11, <1>12, <1>13,
          <1>14, <1>15, <1>16, <1>17, <1>18, <1>19, <1>20, <1>21, <1>22, <1>23, <1>24, <1>25,
          <1>26, <1>27, <1>28
        DEF Next, ClientStep, HandlerStep, DecommissionStep, SupervisorStep, DrainStep,
            BootStep

(* Nothing moves beside the start-up.                                      *)
LEMMA BootAloneNext ==
  ASSUME TypeOK, Tables, Sections, Fresh, BootAlone, Processes,
         [Next]_vars
  PROVE  BootAlone'
<1>1. ASSUME NEW c \in Ids,
             PreparationFails(c) \/ LaunchFails(c) \/ CandidateFails(c) \/ StartUndelivered(c)
               \/ ExpireWrites(c) \/ CandidateExpires(c)
      PROVE BootAlone'
  <2>1. hold.who = "boot" => hold'.id = c /\ hold'.who = "boot"
    BY <1>1 DEF BootAlone, PreparationFails, LaunchFails, CandidateFails,
         StartUndelivered, ExpireWrites,
             CandidateExpires, Launching
  <2>2. hold.who # "boot" => hold' = hold
    BY <1>1 DEF PreparationFails, LaunchFails, CandidateFails,
         StartUndelivered, ExpireWrites, CandidateExpires
  <2>3. lock'.id = c /\ todo \subseteq Names
    BY <1>1, EndingWrites DEF TypeOK
  <2>4. hold.who = "boot" => \A n \in todo : desired'[n].state # "decommissioned"
    BY <1>1, <2>3, EndingWrites DEF BootAlone
  <2> QED BY <1>1, <2>1, <2>2, <2>3, <2>4, EndingWrites DEF BootAlone
<1>2. CASE DaemonRestarts
  BY <1>2, RestartEffect DEF BootAlone
<1> USE DEF TypeOK, Tables, Sections, Fresh, BootAlone, Processes, Requests, Launching
<1>3. ASSUME NEW c \in Commands, NEW n \in Names, NEW p \in BOOLEAN, SpawnOrder(c, n, p)
      PROVE  BootAlone'
  BY <1>3 DEF SpawnOrder, Request
<1>4. ASSUME NEW c \in Commands, NEW n \in Names, RelaunchOrder(c, n) PROVE BootAlone'
  BY <1>4 DEF RelaunchOrder, Request
<1>5. ASSUME NEW c \in RecoveryIds, NEW n \in Names, EntryRecovers(n, c) PROVE BootAlone'
  BY <1>5 DEF EntryRecovers, Request
<1>6. ASSUME NEW c \in Ids, Refuses(c) PROVE BootAlone'
  BY <1>6, RefusalEffect
<1>7. ASSUME NEW c \in Ids, Reserves(c) PROVE BootAlone'
  BY <1>7 DEF Reserves, Refusable, AllowedExisting
<1>8. ASSUME NEW c \in Ids, Prepares(c) PROVE BootAlone'
  BY <1>8 DEF Prepares, Answered
<1>9. ASSUME NEW c \in Ids, HandlerFinishes(c) PROVE BootAlone'
  BY <1>9 DEF HandlerFinishes, FinishSpawn, Ending, Answered
<1>10. ASSUME NEW c \in Ids, SupervisorFinishes(c) PROVE BootAlone'
  BY <1>10 DEF SupervisorFinishes, FinishSpawn, Ending, Reaped
<1>11. ASSUME NEW c \in Ids, ConnectWrites(c) PROVE BootAlone'
  BY <1>11 DEF ConnectWrites, Upsert
<1>12. ASSUME NEW c \in Ids, ConnectFinishes(c) PROVE BootAlone'
  BY <1>12 DEF ConnectFinishes, FinishSpawn
<1>13. ASSUME NEW c \in Ids, ProcessLaunches(c) \/ WrapperRegisters(c) PROVE BootAlone'
  BY <1>13 DEF ProcessLaunches, WrapperRegisters
<1>14. ASSUME NEW c \in Ids, StaleLaunchFails(c) PROVE BootAlone'
  BY <1>14 DEF StaleLaunchFails, Reaped
<1>15. ASSUME NEW c \in Ids, SupervisorStops(c) PROVE BootAlone'
  BY <1>15 DEF SupervisorStops
<1>16. ASSUME NEW c \in Ids, ProcessExits(c) PROVE BootAlone'
  BY <1>16 DEF ProcessExits
<1>17. ASSUME NEW c \in Ids, DrainConnected(c) PROVE BootAlone'
  BY <1>17 DEF DrainConnected, Drains
<1>18. ASSUME NEW c \in Ids, DrainLost(c) PROVE BootAlone'
  BY <1>18, LostEffect
<1>19. ASSUME NEW c \in Ids, DrainStopped(c) PROVE BootAlone'
  BY <1>19 DEF DrainStopped, Drains, Completes
<1>20. ASSUME NEW n \in Names, NEW c \in Ids, StopWrites(n, c) PROVE BootAlone'
  BY <1>20, StopEffect
<1>21. ASSUME NEW c \in Ids, StopFinishes(c) PROVE BootAlone'
  BY <1>21 DEF StopFinishes, FinishSpawn, Awaits
<1>22. ASSUME NEW n \in Names, NEW c \in Ids, StopsConnected(n, c) PROVE BootAlone'
  BY <1>22, ConnectedStopEffect
<1>23. ASSUME NEW n \in Names, DecommissionStarts(n) \/ DecommissionTimesOut(n) PROVE BootAlone'
  BY <1>23 DEF DecommissionStarts, DecommissionTimesOut
<1>24. ASSUME NEW n \in Names, DecommissionFindsStop(n) PROVE BootAlone'
  BY <1>24 DEF DecommissionFindsStop
<1>25. ASSUME NEW n \in Names, DecommissionEnds(n) PROVE BootAlone'
  BY <1>25 DEF DecommissionEnds, SetLifecycle
<1>26. ASSUME NEW c \in Ids, CandidateKept(c) \/ DeadlinePasses(c) PROVE BootAlone'
  BY <1>26 DEF CandidateKept, DeadlinePasses
<1>27. ASSUME BootEnds PROVE BootAlone'
  BY <1>27 DEF BootEnds
<1>28. CASE UNCHANGED vars
  BY <1>28
<1> HIDE DEF TypeOK, Tables, Sections, Fresh, BootAlone, Processes, Requests, Launching
<1> QED BY <1>1, <1>2, <1>3, <1>4, <1>5, <1>6, <1>7, <1>8, <1>9, <1>10, <1>11, <1>12, <1>13,
          <1>14, <1>15, <1>16, <1>17, <1>18, <1>19, <1>20, <1>21, <1>22, <1>23, <1>24, <1>25,
          <1>26, <1>27, <1>28
        DEF Next, ClientStep, HandlerStep, DecommissionStep, SupervisorStep, DrainStep,
            BootStep

(* Every live process stays managed, and every agent has an entry.         *)
LEMMA ProcessesNext ==
  ASSUME TypeOK, Tables, Sections, Fresh, BootAlone, Processes,
         EventsOnce, Claims, Stops, [Next]_vars
  PROVE  Processes'
<1>1. ASSUME UNCHANGED <<ord, saga, active, managed, stopping, proc>>,
             hold'.who # "boot" => hold.who # "boot",
             \A n \in Names : Exists(n) => Exists(n)'
      PROVE  Processes'
  <2>1. \A c \in stopping : saga[c] # "none"
    BY DEF Fresh, Unborn, TypeOK
  <2> QED BY <1>1, <2>1 DEF Processes, Tables, TypeOK
<1>2. ASSUME NEW c \in Ids, Refuses(c) PROVE Processes'
  <2>1. /\ saga[c] = "requested" /\ saga'[c] = "failed"
        /\ \A d \in Ids : d # c => saga'[d] = saga[d]
        /\ UNCHANGED <<ord, active, managed, stopping, proc>>
        /\ \A m \in Names : desired'[m].cmd = desired[m].cmd
        /\ hold'.who = "boot" <=> hold.who = "boot"
    BY <1>2, RefusalEffect
  <2>2. /\ \A d \in stopping : d \in Ids /\ Name(d) \in Names
        /\ \A d \in Ids : saga[d] = "connected" => Name(d) \in Names
        /\ proc[c] = "none"
    BY <2>1 DEF Fresh, Unborn, Tables, TypeOK
  <2> QED BY <2>1, <2>2 DEF Processes, Launching
<1>3. ASSUME NEW c \in Ids,
             PreparationFails(c) \/ LaunchFails(c) \/ CandidateFails(c) \/ StartUndelivered(c)
               \/ ExpireWrites(c) \/ CandidateExpires(c)
      PROVE Processes'
  <2>1. hold'.who # "boot" => hold.who # "boot"
    BY <1>3 DEF PreparationFails, LaunchFails, CandidateFails,
         StartUndelivered, ExpireWrites, CandidateExpires
  <2> QED BY <1>3, <1>1, <2>1, EndingWrites
<1>4. ASSUME NEW c \in Ids, DrainLost(c) PROVE Processes'
  <2>1. /\ UNCHANGED <<ord, saga, active, stopping, proc, hold>> /\ managed' = managed \ {c}
        /\ \A m \in Names : desired'[m].cmd = desired[m].cmd
        /\ 1 \in 1..Len(events) /\ events[1].id = c /\ Lost(events[1])
    BY <1>4, LostEffect
  <2>2. c \notin active /\ proc[c] \notin Alive
    BY <2>1 DEF EventsOnce, Gone, Lost
  <2>3. /\ \A d \in stopping : d \in Ids /\ Name(d) \in Names
        /\ \A d \in Ids : saga[d] = "connected" => Name(d) \in Names
        /\ \A d \in Ids : saga[d] = "starting" => d \in active
    BY DEF Fresh, Unborn, Tables, TypeOK
  <2> QED BY <2>1, <2>2, <2>3 DEF Processes, Alive
<1>5. ASSUME NEW n \in Names, NEW c \in Ids, StopWrites(n, c) PROVE Processes'
  BY <1>5, <1>1, StopEffect
<1>6. CASE DaemonRestarts
  <2>1. ASSUME NEW c \in Ids, saga'[c] = "connected"
        PROVE  Exists(Name(c))'
    BY <1>6, <2>1, RestartEffect DEF Processes, Tables
  <2> QED BY <1>6, <2>1, RestartEffect DEF Processes, Launching
<1> USE DEF TypeOK, Tables, Sections, Fresh, BootAlone, Processes, EventsOnce, Claims, Requests,
        Launching, Procs, Alive, Lost, Gone, Unborn
<1>7. ASSUME NEW c \in Commands, NEW n \in Names, NEW p \in BOOLEAN, SpawnOrder(c, n, p)
      PROVE  Processes'
  BY <1>7 DEF SpawnOrder, Request
<1>8. ASSUME NEW c \in Commands, NEW n \in Names, RelaunchOrder(c, n) PROVE Processes'
  BY <1>8 DEF RelaunchOrder, Request
<1>9. ASSUME NEW c \in RecoveryIds, NEW n \in Names, EntryRecovers(n, c) PROVE Processes'
  BY <1>9 DEF EntryRecovers, Request
<1>10. ASSUME NEW c \in Ids, Reserves(c) PROVE Processes'
  BY <1>10 DEF Reserves, Refusable, AllowedExisting
<1>11. ASSUME NEW c \in Ids, Prepares(c) PROVE Processes'
  BY <1>11 DEF Prepares, Answered
<1>12. ASSUME NEW c \in Ids, HandlerFinishes(c) PROVE Processes'
  <2>1. proc[c] = "none" /\ c \notin stopping
    BY <1>12 DEF HandlerFinishes
  <2> QED BY <1>12, <2>1 DEF HandlerFinishes, FinishSpawn, Ending, Answered
<1>13. ASSUME NEW c \in Ids, SupervisorFinishes(c) PROVE Processes'
  BY <1>13 DEF SupervisorFinishes, FinishSpawn, Ending, Reaped
<1>14. ASSUME NEW c \in Ids, ConnectWrites(c) PROVE Processes'
  BY <1>14 DEF ConnectWrites, Upsert
<1>15. ASSUME NEW c \in Ids, ConnectFinishes(c) PROVE Processes'
  <2>1. lock.op = "connect" /\ lock.id = c
    BY <1>15 DEF ConnectFinishes
  <2>2. saga[c] = "starting" /\ hold.who # "boot"
    BY <2>1
  <2>3. c \in managed /\ Exists(Name(c)) /\ c \in Ids /\ c \notin stopping
    BY <2>1, <2>2
  <2> QED BY <1>15, <2>2, <2>3 DEF ConnectFinishes, FinishSpawn
<1>16. ASSUME NEW c \in Ids, ProcessLaunches(c) \/ WrapperRegisters(c) PROVE Processes'
  BY <1>16 DEF ProcessLaunches, WrapperRegisters
<1>17. ASSUME NEW c \in Ids, StaleLaunchFails(c) PROVE Processes'
  BY <1>17 DEF StaleLaunchFails, Reaped
<1>18. ASSUME NEW c \in Ids, SupervisorStops(c) PROVE Processes'
  BY <1>18 DEF SupervisorStops
<1>19. ASSUME NEW c \in Ids, ProcessExits(c) PROVE Processes'
  BY <1>19 DEF ProcessExits
<1>20. ASSUME NEW c \in Ids, DrainConnected(c) PROVE Processes'
  BY <1>20 DEF DrainConnected, Drains
<1>21. ASSUME NEW c \in Ids, DrainStopped(c) PROVE Processes'
  BY <1>21 DEF DrainStopped, Drains, Completes
<1>22. ASSUME NEW c \in Ids, StopFinishes(c) PROVE Processes'
  <2>1. lock.op = "stop" /\ lock.id = c
    BY <1>22 DEF StopFinishes
  <2>2. c \in managed /\ Exists(Name(c))
    BY <2>1 DEF Stops
  <2> QED BY <1>22, <2>1, <2>2 DEF StopFinishes, FinishSpawn
<1>23. ASSUME NEW n \in Names, NEW c \in Ids, StopsConnected(n, c) PROVE Processes'
  BY <1>23, ConnectedStopEffect
<1>24. ASSUME NEW n \in Names, DecommissionStarts(n) \/ DecommissionTimesOut(n) PROVE Processes'
  BY <1>24 DEF DecommissionStarts, DecommissionTimesOut
<1>25. ASSUME NEW n \in Names, DecommissionFindsStop(n) PROVE Processes'
  BY <1>25 DEF DecommissionFindsStop
<1>26. ASSUME NEW n \in Names, DecommissionEnds(n) PROVE Processes'
  BY <1>26 DEF DecommissionEnds, SetLifecycle
<1>27. ASSUME NEW c \in Ids, CandidateKept(c) \/ DeadlinePasses(c) PROVE Processes'
  BY <1>27 DEF CandidateKept, DeadlinePasses
<1>28. ASSUME BootEnds PROVE Processes'
  BY <1>28 DEF BootEnds
<1>29. CASE UNCHANGED vars
  BY <1>29
<1> HIDE DEF TypeOK, Tables, Sections, Fresh, BootAlone, Processes, EventsOnce, Claims,
         Requests, Launching, Procs, Alive, Lost, Gone, Unborn
<1> QED BY <1>2, <1>3, <1>4, <1>5, <1>6, <1>7, <1>8, <1>9, <1>10, <1>11, <1>12, <1>13, <1>14,
          <1>15, <1>16, <1>17, <1>18, <1>19, <1>20, <1>21, <1>22, <1>23, <1>24, <1>25, <1>26,
          <1>27, <1>28, <1>29
        DEF Next, ClientStep, HandlerStep, DecommissionStep, SupervisorStep, DrainStep,
            BootStep

(* Events keep their order; what is appended ends a process that was       *)
(* alive.                                                                  *)
LEMMA EventsOnceNext ==
  ASSUME TypeOK, Tables, Sections, Fresh, BootAlone, Processes,
         EventsOnce, Claims, [Next]_vars
  PROVE  EventsOnce'
<1>1. ASSUME UNCHANGED <<ord, saga, active, managed, stopping, proc, events>>
      PROVE  EventsOnce'
  BY <1>1 DEF EventsOnce, Lost, Gone, Alive
<1> DEFINE Kept(i) == LET d == events[i].id IN
              /\ d \notin active' /\ proc'[d] \notin Alive
              /\ d \in managed' => d \in managed
              /\ d \in stopping' => d \in stopping
              /\ saga'[d] = "connected" => saga[d] = "connected"
              /\ Lost(events[i]) => d \in managed'
<1>2. ASSUME UNCHANGED <<ord, events>>, \A i \in 1..Len(events) : Gone(events[i]) => Kept(i)
      PROVE  EventsOnce'
  BY <1>2 DEF EventsOnce, Lost, Gone
<1>3. ASSUME NEW t \in EventTypes, NEW c \in Ids, events' = Append(events, Event(t, c)),
             UNCHANGED ord, \A i \in 1..Len(events) : Gone(events[i]) => Kept(i),
             t # "connected" => c \notin active' /\ proc'[c] \notin Alive,
             t \in {"failed", "exited"} =>
               /\ c \in managed'
               /\ \A i \in 1..Len(events) : Gone(events[i]) =>
                    /\ events[i].id # c
                    /\ Name(events[i].id) = Name(c) /\ events[i].id \in managed
                         => events[i].id \notin stopping' /\ saga'[events[i].id] # "connected"
      PROVE  EventsOnce'
  <2>1. /\ Len(events) \in Nat /\ Len(events') = Len(events) + 1
        /\ \A i \in 1..Len(events) : events'[i] = events[i]
        /\ events'[Len(events) + 1].id = c /\ events'[Len(events) + 1].type = t
    BY <1>3, EventSent
  <2>2. \A i \in 1..Len(events') : i \in 1..Len(events) \/ i = Len(events) + 1
    BY <2>1
  <2>3. ASSUME NEW i \in 1..Len(events'), Gone(events'[i])
        PROVE  /\ events'[i].id \notin active' /\ proc'[events'[i].id] \notin Alive
               /\ Lost(events'[i]) => events'[i].id \in managed'
    BY <1>3, <2>1, <2>2, <2>3 DEF Gone, Lost, EventTypes
  <2>4. ASSUME NEW i \in 1..Len(events'), NEW j \in 1..Len(events'), i < j,
               Gone(events'[i]), Lost(events'[j])
        PROVE  /\ events'[i].id # events'[j].id
               /\ Name(events'[i].id) = Name(events'[j].id) /\ events'[i].id \in managed'
                    => events'[i].id \notin stopping' /\ saga'[events'[i].id] # "connected"
    <3>1. i \in 1..Len(events) /\ events'[i] = events[i] /\ Gone(events[i]) /\ Kept(i)
      BY <1>3, <2>1, <2>2, <2>4
    <3>2. CASE j \in 1..Len(events)
      BY <2>1, <2>4, <3>1, <3>2 DEF EventsOnce
    <3>3. CASE j = Len(events) + 1
      BY <1>3, <2>1, <2>4, <3>1, <3>3 DEF Lost
    <3> QED BY <2>2, <3>2, <3>3
  <2> QED BY <1>3, <2>3, <2>4 DEF EventsOnce, Gone, Lost
<1>4. ASSUME NEW c \in Ids, Drains, Head(events).id = c, Gone(Head(events)),
             managed' = managed \ {c}
      PROVE  EventsOnce'
  <2>1. /\ Len(events) \in Nat \ {0} /\ Len(events') = Len(events) - 1
        /\ \A i \in 1..Len(events') : i + 1 \in 1..Len(events) /\ events'[i] = events[i + 1]
        /\ Gone(events[1]) /\ events[1].id = c
    BY <1>4, EventDrained
  <2>2. UNCHANGED <<ord, saga, active, stopping, proc>>
    BY <1>4 DEF Drains
  <2>3. \A i \in 1..Len(events') : Lost(events'[i]) => events'[i].id # c
    <3> SUFFICES ASSUME NEW i \in 1..Len(events'), Lost(events[i + 1])
                 PROVE  events[i + 1].id # c
      BY <2>1
    <3>1. 1 \in 1..Len(events) /\ i + 1 \in 1..Len(events) /\ 1 < i + 1
      BY <2>1
    <3> QED BY <2>1, <3>1 DEF EventsOnce
  <2>4. ASSUME NEW i \in 1..Len(events'), NEW j \in 1..Len(events'), i < j,
               Gone(events'[i]), Lost(events'[j])
        PROVE  /\ events'[i].id # events'[j].id
               /\ Name(events'[i].id) = Name(events'[j].id) /\ events'[i].id \in managed'
                    => events'[i].id \notin stopping /\ saga[events'[i].id] # "connected"
    <3> DEFINE k == i + 1  l == j + 1
    <3>1. /\ k \in 1..Len(events) /\ l \in 1..Len(events) /\ k < l
          /\ events'[i] = events[k] /\ events'[j] = events[l]
      BY <2>1, <2>4
    <3> HIDE DEF k, l
    <3>2. Gone(events[k]) /\ Lost(events[l])
      BY <2>4, <3>1
    <3>3. /\ events[k].id # events[l].id
          /\ Name(events[k].id) = Name(events[l].id) /\ events[k].id \in managed
               => events[k].id \notin stopping /\ saga[events[k].id] # "connected"
      BY <3>1, <3>2 DEF EventsOnce
    <3> QED BY <1>4, <2>2, <3>1, <3>3
  <2>5. ASSUME NEW i \in 1..Len(events'), Gone(events'[i])
        PROVE  /\ events'[i].id \notin active /\ proc[events'[i].id] \notin Alive
               /\ Lost(events'[i]) => events'[i].id \in managed
    BY <2>1, <2>5 DEF EventsOnce
  <2>6. \A i \in 1..Len(events') : Lost(events'[i]) => events'[i].id \in managed'
    BY <1>4, <2>3, <2>5 DEF Gone, Lost
  <2> QED BY <2>2, <2>4, <2>5, <2>6 DEF EventsOnce, Gone, Lost
<1>6. ASSUME NEW c \in Ids, Reserves(c) PROVE EventsOnce'
  <2>1. \A i \in 1..Len(events) : events[i].id # c /\ events[i].id \in Ids
    BY <1>6, EventIds DEF Reserves, Sections, Fresh, Unborn
  <2>2. \A i \in 1..Len(events) : Gone(events[i]) => Kept(i)
    BY <1>6, <2>1 DEF Reserves, EventsOnce, TypeOK, Gone, Lost
  <2> QED BY <1>6, <1>2, <2>2 DEF Reserves
<1>7. ASSUME NEW c \in Ids, Prepares(c) PROVE EventsOnce'
  <2>1. \A i \in 1..Len(events) : events[i].id # c /\ events[i].id \in Ids
    BY <1>7, EventIds DEF Prepares, Fresh, Unborn
  <2>2. \A i \in 1..Len(events) : Gone(events[i]) => Kept(i)
    BY <1>7, <2>1 DEF Prepares, EventsOnce, TypeOK, Gone, Lost
  <2> QED BY <1>7, <1>2, <2>2 DEF Prepares
<1>8. ASSUME NEW c \in Ids,
             PreparationFails(c) \/ LaunchFails(c) \/ CandidateFails(c) \/ StartUndelivered(c)
               \/ ExpireWrites(c) \/ CandidateExpires(c)
      PROVE EventsOnce'
  BY <1>8, <1>1, EndingWrites DEF PreparationFails, LaunchFails, CandidateFails,
         StartUndelivered, FailWrites,
         ExpireWrites, CandidateExpires
<1>9. ASSUME NEW c \in Ids, ConnectWrites(c) PROVE EventsOnce'
  BY <1>9, <1>1 DEF ConnectWrites
<1>10. ASSUME NEW c \in Ids, ConnectFinishes(c) PROVE EventsOnce'
  <2>1. c \in active
    BY <1>10 DEF ConnectFinishes, Sections
  <2>2. \A i \in 1..Len(events) : Gone(events[i]) => events[i].id # c /\ events[i].id \in Ids
    BY <2>1, EventIds DEF EventsOnce
  <2>3. \A i \in 1..Len(events) : Gone(events[i]) => Kept(i)
    BY <1>10, <2>2 DEF ConnectFinishes, FinishSpawn, EventsOnce, TypeOK, Gone, Lost
  <2> QED BY <1>10, <1>3, <2>3 DEF ConnectFinishes, EventTypes
<1>11. ASSUME NEW c \in Ids, ProcessLaunches(c) \/ WrapperRegisters(c) PROVE EventsOnce'
  <2>1. \A i \in 1..Len(events) : Gone(events[i]) => events[i].id # c /\ events[i].id \in Ids
    BY <1>11, EventIds DEF ProcessLaunches, WrapperRegisters, EventsOnce, Alive, Launching
  <2>2. \A i \in 1..Len(events) : Gone(events[i]) => Kept(i)
    BY <1>11, <2>1 DEF ProcessLaunches, WrapperRegisters, EventsOnce, TypeOK, Gone, Lost
  <2> QED BY <1>11, <1>2, <2>2 DEF ProcessLaunches, WrapperRegisters
<1>12. ASSUME NEW c \in Ids, StaleLaunchFails(c) PROVE EventsOnce'
  <2>1. c \in managed /\ c \in stopping /\ proc[c] \in Alive
    BY <1>12 DEF StaleLaunchFails, Processes, Alive
  <2>2. \A i \in 1..Len(events) : Gone(events[i]) => events[i].id # c /\ events[i].id \in Ids
    BY <2>1, EventIds DEF EventsOnce
  <2>3. /\ \A d \in Ids : d # c => proc'[d] = proc[d]
        /\ proc'[c] \notin Alive /\ c \notin active
        /\ events' = Append(events, Event("failed", c))
        /\ UNCHANGED <<ord, saga, active, managed, stopping>>
    BY <1>12 DEF StaleLaunchFails, Reaped, TypeOK, Alive, Launching
  <2>4. \A i \in 1..Len(events) : Gone(events[i]) => Kept(i)
    BY <2>2, <2>3 DEF EventsOnce, Gone, Lost
  <2>5. \A d \in Ids : d # c /\ Name(d) = Name(c) /\ d \in managed
                       => d \notin stopping /\ saga[d] # "connected"
    BY <2>1 DEF Claims, Leaving
  <2> QED BY <1>3, <2>1, <2>2, <2>3, <2>4, <2>5 DEF EventTypes
<1>13. ASSUME NEW c \in Ids, SupervisorStops(c) PROVE EventsOnce'
  <2>1. CASE UNCHANGED <<proc, events>>
    BY <1>13, <1>1, <2>1 DEF SupervisorStops
  <2>2. CASE /\ proc' = [proc EXCEPT ![c] = "none"]
             /\ events' = Append(events, Event("stopped", c))
    <3>1. UNCHANGED <<ord, saga, active, managed, stopping>> /\ c \notin active
      BY <1>13 DEF SupervisorStops, Processes
    <3>2. \A d \in Ids : proc'[d] \in Alive => proc[d] \in Alive
      BY <2>2 DEF TypeOK, Alive, Launching
    <3>4. \A i \in 1..Len(events) : Gone(events[i]) => Kept(i)
      BY <3>1, <3>2, EventIds DEF EventsOnce, Gone, Lost
    <3>5. proc'[c] \notin Alive
      BY <2>2 DEF TypeOK, Alive, Launching
    <3> QED BY <1>3, <2>2, <3>1, <3>4, <3>5 DEF EventTypes
  <2> QED BY <1>13, <2>1, <2>2 DEF SupervisorStops
<1>14. ASSUME NEW c \in Ids, DrainLost(c) PROVE EventsOnce'
  BY <1>14, <1>4 DEF DrainLost, Gone
<1>15. ASSUME NEW c \in Ids, DrainStopped(c) PROVE EventsOnce'
  BY <1>15, <1>4 DEF DrainStopped, Gone
<1>16. ASSUME NEW n \in Names, NEW c \in Ids, StopWrites(n, c) PROVE EventsOnce'
  BY <1>16, <1>1, StopEffect DEF StopWrites
<1>17. ASSUME NEW c \in Ids, StopFinishes(c) PROVE EventsOnce'
  <2>1. c \in active
    BY <1>17 DEF StopFinishes, Sections
  <2>2. \A i \in 1..Len(events) : Gone(events[i]) => events[i].id # c /\ events[i].id \in Ids
    BY <2>1, EventIds DEF EventsOnce
  <2>3. \A i \in 1..Len(events) : Gone(events[i]) => Kept(i)
    BY <1>17, <2>2 DEF StopFinishes, FinishSpawn, EventsOnce, TypeOK, Gone, Lost
  <2> QED BY <1>17, <1>2, <2>3 DEF StopFinishes
<1>18. ASSUME NEW n \in Names, DecommissionStarts(n) \/ DecommissionTimesOut(n)
       PROVE  EventsOnce'
  BY <1>18, <1>1 DEF DecommissionStarts, DecommissionTimesOut
<1>19. ASSUME NEW n \in Names, DecommissionFindsStop(n) PROVE EventsOnce'
  BY <1>19, <1>1 DEF DecommissionFindsStop
<1>20. ASSUME NEW n \in Names, DecommissionEnds(n) PROVE EventsOnce'
  BY <1>20, <1>1 DEF DecommissionEnds
<1>21. ASSUME NEW c \in Ids, CandidateKept(c) \/ DeadlinePasses(c) PROVE EventsOnce'
  BY <1>21, <1>1 DEF CandidateKept, DeadlinePasses
<1> USE DEF TypeOK, Tables, Sections, Fresh, BootAlone, Processes, EventsOnce, Claims, Requests,
        Launching, Procs, Alive, Lost, Gone, Unborn, Holder, Leaving
<1>22. ASSUME NEW c \in Commands, NEW n \in Names, NEW p \in BOOLEAN, SpawnOrder(c, n, p)
       PROVE  EventsOnce'
  BY <1>22 DEF SpawnOrder, Request
<1>23. ASSUME NEW c \in Commands, NEW n \in Names, RelaunchOrder(c, n) PROVE EventsOnce'
  BY <1>23 DEF RelaunchOrder, Request
<1>24. ASSUME NEW c \in RecoveryIds, NEW n \in Names, EntryRecovers(n, c) PROVE EventsOnce'
  BY <1>24 DEF EntryRecovers, Request
<1>25. ASSUME NEW c \in Ids, Refuses(c) PROVE EventsOnce'
  BY <1>25 DEF Refuses, Answered
<1>26. ASSUME NEW c \in Ids, HandlerFinishes(c) PROVE EventsOnce'
  BY <1>26 DEF HandlerFinishes, FinishSpawn, Ending, Answered
<1>27. ASSUME NEW c \in Ids, SupervisorFinishes(c) PROVE EventsOnce'
  BY <1>27 DEF SupervisorFinishes, FinishSpawn, Ending, Reaped
<1>28. ASSUME NEW c \in Ids, ProcessExits(c) PROVE EventsOnce'
  BY <1>28 DEF ProcessExits
<1>29. ASSUME NEW c \in Ids, DrainConnected(c) PROVE EventsOnce'
  BY <1>29 DEF DrainConnected, Drains
<1>30. ASSUME NEW n \in Names, NEW c \in Ids, StopsConnected(n, c) PROVE EventsOnce'
  BY <1>30 DEF StopsConnected, Awaits
<1>31. CASE DaemonRestarts
  BY <1>31 DEF DaemonRestarts
<1>32. ASSUME BootEnds PROVE EventsOnce'
  BY <1>32 DEF BootEnds
<1>33. CASE UNCHANGED vars
  BY <1>33
<1> HIDE DEF TypeOK, Tables, Sections, Fresh, BootAlone, Processes, EventsOnce, Claims,
         Requests, Launching, Procs, Alive, Lost, Gone, Unborn, Holder, Leaving
<1> QED BY <1>6, <1>7, <1>8, <1>9, <1>10, <1>11, <1>12, <1>13, <1>14, <1>15, <1>16, <1>17,
          <1>18, <1>19, <1>20, <1>21, <1>22, <1>23, <1>24, <1>25, <1>26, <1>27, <1>28, <1>29,
          <1>30, <1>31, <1>32, <1>33
        DEF Next, ClientStep, HandlerStep, DecommissionStep, SupervisorStep, DrainStep,
            BootStep

(* A name is given to a launch only when nobody holds it.                  *)
LEMMA ClaimsNext ==
  ASSUME TypeOK, Tables, Sections, Fresh, BootAlone, Processes, EventsOnce,
         Claims, [Next]_vars
  PROVE  Claims'
<1>1. ASSUME NEW c \in Ids,
             PreparationFails(c) \/ LaunchFails(c) \/ CandidateFails(c) \/ StartUndelivered(c)
               \/ ExpireWrites(c) \/ CandidateExpires(c)
      PROVE Claims'
  <2>1. /\ UNCHANGED <<ord, saga, active, managed, stopping>> /\ lock'.op \in {"fail", "expire"}
        /\ \A n \in Names : desired'[n].cmd = desired[n].cmd
    BY <1>1, EndingWrites
  <2>2. \A d \in managed : saga[d] = "connected" => Name(d) \in Names
    BY DEF Tables, TypeOK
  <2> QED BY <2>1, <2>2 DEF Claims, Holder, Leaving
<1>2. ASSUME NEW n \in Names, NEW c \in Ids, StopsConnected(n, c) PROVE Claims'
  <2>1. /\ Name(c) = n /\ c \in managed /\ c \notin stopping /\ saga[c] = "connected"
        /\ lock = Free /\ stopping' = stopping \cup {c}
        /\ UNCHANGED <<ord, saga, active, lock, managed>>
        /\ \A m \in Names : desired'[m].cmd = desired[m].cmd
    BY <1>2, ConnectedStopEffect
  <2>2. \A d \in Ids : Name(d) = n =>
          /\ d \notin active
          /\ d \in managed /\ saga[d] = "connected" => d = c
          /\ d \notin Leaving
    BY <2>1 DEF Claims, Holder, Leaving, Tables
  <2>3. \A d \in managed : saga[d] = "connected" => Name(d) \in Names
    BY DEF Tables, TypeOK
  <2> QED BY <2>1, <2>2, <2>3 DEF Claims, Holder, Leaving, TypeOK
<1>3. CASE DaemonRestarts
  <2>1. \A c \in active' : c \in Ids /\ desired'[Name(c)].cmd = c
    BY <1>3, RestartEffect DEF TypeOK
  <2>2. managed' = {} /\ lock' = Free /\ ord' = ord
    BY <1>3, RestartEffect
  <2>3. \A c \in Ids : Holder(c)' => c \in active'
    BY <2>2 DEF Holder
  <2> QED BY <2>1, <2>2, <2>3 DEF Claims, Leaving
<1> USE DEF TypeOK, Tables, Sections, Fresh, BootAlone, Processes, EventsOnce, Claims, Requests,
        Launching, Procs, Alive, Lost, Gone, Unborn, Holder, Leaving
<1>4. ASSUME NEW c \in Commands, NEW n \in Names, NEW p \in BOOLEAN, SpawnOrder(c, n, p)
      PROVE  Claims'
  BY <1>4 DEF SpawnOrder, Request
<1>5. ASSUME NEW c \in Commands, NEW n \in Names, RelaunchOrder(c, n) PROVE Claims'
  BY <1>5 DEF RelaunchOrder, Request
<1>6. ASSUME NEW c \in RecoveryIds, NEW n \in Names, EntryRecovers(n, c) PROVE Claims'
  BY <1>6 DEF EntryRecovers, Request
<1>7. ASSUME NEW c \in Ids, Refuses(c) PROVE Claims'
  BY <1>7, RefusalEffect
<1>8. ASSUME NEW c \in Ids, Reserves(c) PROVE Claims'
  BY <1>8 DEF Reserves, Refusable, AllowedExisting
<1>9. ASSUME NEW c \in Ids, Prepares(c) PROVE Claims'
  BY <1>9 DEF Prepares, Answered
<1>10. ASSUME NEW c \in Ids, HandlerFinishes(c) PROVE Claims'
  BY <1>10 DEF HandlerFinishes, FinishSpawn, Ending, Answered
<1>11. ASSUME NEW c \in Ids, SupervisorFinishes(c) PROVE Claims'
  BY <1>11 DEF SupervisorFinishes, FinishSpawn, Ending, Reaped
<1>12. ASSUME NEW c \in Ids, ConnectWrites(c) PROVE Claims'
  BY <1>12 DEF ConnectWrites, Upsert
<1>13. ASSUME NEW c \in Ids, ConnectFinishes(c) PROVE Claims'
  BY <1>13 DEF ConnectFinishes, FinishSpawn
<1>14. ASSUME NEW c \in Ids, ProcessLaunches(c) \/ WrapperRegisters(c) PROVE Claims'
  BY <1>14 DEF ProcessLaunches, WrapperRegisters
<1>15. ASSUME NEW c \in Ids, StaleLaunchFails(c) PROVE Claims'
  BY <1>15 DEF StaleLaunchFails, Reaped
<1>16. ASSUME NEW c \in Ids, SupervisorStops(c) PROVE Claims'
  BY <1>16 DEF SupervisorStops
<1>17. ASSUME NEW c \in Ids, ProcessExits(c) PROVE Claims'
  BY <1>17 DEF ProcessExits
<1>18. ASSUME NEW c \in Ids, DrainConnected(c) PROVE Claims'
  BY <1>18 DEF DrainConnected, Drains
<1>19. ASSUME NEW c \in Ids, DrainLost(c) PROVE Claims'
  BY <1>19, LostEffect
<1>20. ASSUME NEW c \in Ids, DrainStopped(c) PROVE Claims'
  BY <1>20 DEF DrainStopped, Drains, Completes
<1>21. ASSUME NEW n \in Names, NEW c \in Ids, StopWrites(n, c) PROVE Claims'
  BY <1>21, StopEffect
<1>22. ASSUME NEW c \in Ids, StopFinishes(c) PROVE Claims'
  BY <1>22 DEF StopFinishes, FinishSpawn, Awaits
<1>23. ASSUME NEW n \in Names, DecommissionStarts(n) \/ DecommissionTimesOut(n) PROVE Claims'
  BY <1>23 DEF DecommissionStarts, DecommissionTimesOut
<1>24. ASSUME NEW n \in Names, DecommissionFindsStop(n) PROVE Claims'
  BY <1>24 DEF DecommissionFindsStop
<1>25. ASSUME NEW n \in Names, DecommissionEnds(n) PROVE Claims'
  BY <1>25 DEF DecommissionEnds, SetLifecycle
<1>26. ASSUME NEW c \in Ids, CandidateKept(c) \/ DeadlinePasses(c) PROVE Claims'
  BY <1>26 DEF CandidateKept, DeadlinePasses
<1>27. ASSUME BootEnds PROVE Claims'
  BY <1>27 DEF BootEnds
<1>28. CASE UNCHANGED vars
  BY <1>28
<1> HIDE DEF TypeOK, Tables, Sections, Fresh, BootAlone, Processes, EventsOnce, Claims,
         Requests, Launching, Procs, Alive, Lost, Gone, Unborn, Holder, Leaving
<1> QED BY <1>1, <1>2, <1>3, <1>4, <1>5, <1>6, <1>7, <1>8, <1>9, <1>10, <1>11, <1>12, <1>13,
          <1>14, <1>15, <1>16, <1>17, <1>18, <1>19, <1>20, <1>21, <1>22, <1>23, <1>24, <1>25,
          <1>26, <1>27, <1>28
        DEF Next, ClientStep, HandlerStep, DecommissionStep, SupervisorStep, DrainStep,
            BootStep

(* A name is ready to be retired once the end of its last command is       *)
(* drained, and a retired name stays silent.                               *)
LEMMA RetiringNext ==
  ASSUME TypeOK, Tables, Sections, Fresh, BootAlone, Processes,
         EventsOnce, Claims, Retiring, Stops, [Next]_vars
  PROVE  Retiring'
<1>1. ASSUME NEW n \in Names, hold = Nobody, Named(n, managed) = {}
      PROVE  Retired(n)
  <2>1. \A c \in Named(n, Ids) : c \notin active /\ proc[c] \notin Alive
    BY <1>1 DEF Sections, Tables, Processes, Alive
  <2> QED BY <1>1, <2>1, EventIds DEF Retired, EventsOnce
<1>2. ASSUME NEW c \in Ids, c \in Leaving, 1 \in 1..Len(events), events[1].id = c, Gone(events[1]),
             UNCHANGED <<ord, active, proc>>,
             \A i \in 1..Len(events') : i + 1 \in 1..Len(events) /\ events'[i] = events[i + 1]
      PROVE  Retired(Name(c))'
  <2>1. c \notin active /\ proc[c] \notin Alive
    BY <1>2 DEF EventsOnce
  <2>2. \A d \in Named(Name(c), Ids) : d \notin active /\ proc[d] \notin Alive
    BY <1>2, <2>1 DEF Claims, Processes, Leaving, Alive
  <2>3. ASSUME NEW i \in 1..Len(events'), Name(events'[i].id) = Name(c)
        PROVE  ~Lost(events'[i])
    <3>1. i + 1 \in 1..Len(events) /\ events'[i] = events[i + 1] /\ 1 < i + 1
      BY <1>2, EventIds
    <3> DEFINE j == i + 1
    <3> HIDE DEF j
    <3>2. j \in 1..Len(events) /\ events'[i] = events[j] /\ 1 < j
      BY <3>1 DEF j
    <3>3. events[1].id \notin stopping \/ events[1].id \notin managed \/ ~Lost(events[j])
      BY <1>2, <2>3, <3>2 DEF EventsOnce
    <3> QED BY <1>2, <3>2, <3>3 DEF Leaving
  <2> QED BY <1>2, <2>2, <2>3 DEF Retired, Lost
<1>3. ASSUME NEW c \in Ids,
             PreparationFails(c) \/ LaunchFails(c) \/ CandidateFails(c) \/ StartUndelivered(c)
               \/ ExpireWrites(c) \/ CandidateExpires(c)
      PROVE Retiring'
  <2>1. /\ UNCHANGED <<ord, active, managed, stopping, proc, events, decom>>
        /\ \A n \in Names : desired'[n].cmd = desired[n].cmd
        /\ \A n \in Names : desired'[n].state = "decommissioned"
                             => desired[n].state = "decommissioned"
    BY <1>3, EndingWrites
  <2>2. \A n \in Names : Retired(n)' <=> Retired(n)
    BY <2>1 DEF Retired, Lost, Alive
  <2>3. \A n \in Names : decom[n] # "none" => Exists(n)'
    BY <2>1 DEF Retiring
  <2>4. \A n \in Names : decom[n] \in Ids => decom[n] \in Leaving' /\ Name(decom[n])' = n
    BY <2>1 DEF Retiring, Leaving
  <2>5. \A n \in Names : decom[n] = "ready" \/ desired'[n].state = "decommissioned"
                          => Retired(n)'
    BY <2>1, <2>2 DEF Retiring
  <2> QED BY <2>1, <2>3, <2>4, <2>5 DEF Retiring
<1>4. ASSUME NEW c \in Ids, SupervisorStops(c) PROVE Retiring'
  <2>1. CASE UNCHANGED <<proc, events>>
    <3>1. \A n \in Names : Retired(n)' <=> Retired(n)
      BY <1>4, <2>1 DEF SupervisorStops, Retired, Lost, Alive
    <3> QED BY <1>4, <3>1 DEF SupervisorStops, Retiring, Leaving
  <2>2. CASE /\ proc' = [proc EXCEPT ![c] = "none"]
             /\ events' = Append(events, Event("stopped", c))
    <3>1. \A i \in 1..Len(events') :
             Lost(events'[i]) => i \in 1..Len(events) /\ events'[i] = events[i]
      BY <2>2, EventSent, EventIds DEF EventTypes, Lost
    <3>2. \A d \in Ids : proc'[d] \in Alive => proc[d] \in Alive
      BY <2>2 DEF TypeOK, Alive, Launching
    <3>3. UNCHANGED <<ord, active, managed, stopping, decom, desired>>
      BY <1>4 DEF SupervisorStops
    <3>4. \A n \in Names : Retired(n) => Retired(n)'
      BY <3>1, <3>2, <3>3 DEF Retired, Lost
    <3> QED BY <3>3, <3>4 DEF Retiring, Leaving
  <2> QED BY <1>4, <2>1, <2>2 DEF SupervisorStops
<1>5. ASSUME NEW c \in Ids, DrainLost(c) PROVE Retiring'
  <2>1. /\ 1 \in 1..Len(events) /\ events[1].id = c /\ Lost(events[1]) /\ Name(c) \in Names
        /\ UNCHANGED <<ord, saga, active, stopping, proc>> /\ managed' = managed \ {c}
        /\ \A i \in 1..Len(events') : i + 1 \in 1..Len(events) /\ events'[i] = events[i + 1]
    BY <1>5, LostEffect
  <2>2. /\ \A n \in Names : desired'[n].cmd = desired[n].cmd
        /\ \A n \in Names : desired'[n].state = "decommissioned"
                             => desired[n].state = "decommissioned"
    BY <1>5, LostEffect
  <2>3. \A n \in Names : Retired(n) => Retired(n)'
    BY <2>1 DEF Retired, Lost
  <2>4. c \in managed
    BY <2>1 DEF EventsOnce
  <2>5. ASSUME c \in stopping PROVE Retired(Name(c))'
    BY <1>2, <2>1, <2>4, <2>5 DEF Leaving, Gone, Lost
  <2>6. CASE c \in stopping
    BY <1>5, <2>1, <2>2, <2>3, <2>5, <2>6 DEF DrainLost, Completes, Retiring, Leaving, TypeOK
  <2>7. CASE c \notin stopping
    BY <1>5, <2>1, <2>2, <2>3, <2>7 DEF DrainLost, Retiring, Leaving
  <2> QED BY <2>6, <2>7
<1>6. ASSUME NEW c \in Ids, DrainStopped(c) PROVE Retiring'
  <2>1. /\ Name(c) \in Names /\ 1 \in 1..Len(events) /\ events[1].id = c /\ Gone(events[1])
        /\ \A i \in 1..Len(events') : i + 1 \in 1..Len(events) /\ events'[i] = events[i + 1]
    BY <1>6, EventName, EventDrained DEF DrainStopped, EventTypes, Gone
  <2>2. /\ UNCHANGED <<ord, saga, active, stopping, proc, desired>> /\ managed' = managed \ {c}
        /\ \A n \in Names : decom'[n] = IF decom[n] = c THEN "ready" ELSE decom[n]
    BY <1>6 DEF DrainStopped, Drains, Completes
  <2>3. \A n \in Names : Retired(n) => Retired(n)'
    BY <2>1, <2>2 DEF Retired, Lost
  <2>4. ASSUME c \in Leaving PROVE Retired(Name(c))'
    BY <1>2, <2>1, <2>2, <2>4
  <2> QED BY <2>2, <2>3, <2>4 DEF Retiring, Leaving
<1>7. ASSUME NEW n \in Names, NEW c \in Ids, StopWrites(n, c) PROVE Retiring'
  <2>1. /\ UNCHANGED <<ord, managed, stopping, active, proc, events, decom>>
        /\ \A m \in Names : desired[m].cmd # None => desired'[m].cmd # None
        /\ \A m \in Names : desired'[m].state = "decommissioned"
                             => desired[m].state = "decommissioned"
    BY <1>7, StopEffect
  <2>2. \A m \in Names : Retired(m)' <=> Retired(m)
    BY <2>1 DEF Retired, Lost, Alive
  <2>3. \A m \in Names : decom[m] # "none" => Exists(m)'
    BY <2>1 DEF Retiring
  <2>4. \A m \in Names : decom[m] \in Ids => decom[m] \in Leaving' /\ Name(decom[m])' = m
    BY <2>1 DEF Retiring, Leaving
  <2>5. \A m \in Names : decom[m] = "ready" \/ desired'[m].state = "decommissioned"
                          => Retired(m)'
    BY <2>1, <2>2 DEF Retiring
  <2> QED BY <2>1, <2>3, <2>4, <2>5 DEF Retiring
<1>8. ASSUME NEW c \in Ids, StopFinishes(c) PROVE Retiring'
  <2>1. lock.op = "stop" /\ lock.id = c
    BY <1>8 DEF StopFinishes
  <2>2. c \in active /\ c \in managed /\ Name(c) \in Names /\ Exists(Name(c))
    BY <2>1 DEF Sections, Stops, Tables
  <2>3. /\ UNCHANGED <<ord, managed, proc, events, desired>>
        /\ active' = active \ {c} /\ stopping' = stopping \cup {c}
    BY <1>8 DEF StopFinishes, FinishSpawn
  <2>4. \A n \in Names : Retired(n) => Retired(n)'
    BY <2>3 DEF Retired, Lost, Alive
  <2>5. \A n \in Names : decom'[n] = decom[n] \/ (n = Name(c) /\ decom'[n] = c)
    BY <1>8, <2>2 DEF StopFinishes, Awaits, TypeOK
  <2> QED BY <2>2, <2>3, <2>4, <2>5 DEF Retiring, Leaving
<1>9. ASSUME NEW n \in Names, NEW c \in Ids, StopsConnected(n, c) PROVE Retiring'
  <2>1. /\ Name(c) = n /\ c \in managed /\ stopping' = stopping \cup {c}
        /\ UNCHANGED <<ord, active, managed, proc, events>>
        /\ \A m \in Names : desired'[m].cmd = desired[m].cmd
        /\ \A m \in Names : desired'[m].state = "decommissioned"
                             => desired[m].state = "decommissioned"
        /\ \A m \in Names : decom'[m] = decom[m] \/ (m = n /\ decom'[m] = c)
    BY <1>9, ConnectedStopEffect
  <2>2. \A m \in Names : Retired(m)' <=> Retired(m)
    BY <2>1 DEF Retired, Lost, Alive
  <2>3. Exists(n)
    BY <1>9, ConnectedStopEffect DEF Processes
  <2>4. \A m \in Names : decom'[m] # "none" => Exists(m)'
    BY <2>1, <2>3 DEF Retiring
  <2>5. \A m \in Names : decom'[m] \in Ids => decom'[m] \in Leaving' /\ ord'[decom'[m]].name = m
    BY <2>1 DEF Retiring, Leaving
  <2>6. \A m \in Names : decom'[m] = "ready" \/ desired'[m].state = "decommissioned"
                          => Retired(m)'
    BY <2>1, <2>2 DEF Retiring
  <2> QED BY <2>4, <2>5, <2>6 DEF Retiring
<1>10. ASSUME NEW n \in Names, DecommissionStarts(n) \/ DecommissionTimesOut(n) PROVE Retiring'
  <2>1. UNCHANGED <<ord, managed, stopping, active, proc, events, desired>>
    BY <1>10 DEF DecommissionStarts, DecommissionTimesOut
  <2>2. \A m \in Names : Retired(m)' <=> Retired(m)
    BY <2>1 DEF Retired, Lost, Alive
  <2>4. \/ /\ decom'[n] = "none" \/ decom'[n] = "stop"
        \/ decom'[n] = "ready" /\ hold = Nobody /\ Named(n, managed) = {}
    BY <1>10 DEF DecommissionStarts, DecommissionTimesOut, TypeOK
  <2>5. \A m \in Names : m # n => decom'[m] = decom[m]
    BY <1>10 DEF DecommissionStarts, DecommissionTimesOut, TypeOK
  <2>6. Exists(n)
    BY <1>10 DEF DecommissionStarts, DecommissionTimesOut, Tables, Retiring
  <2> QED BY <1>1, <2>1, <2>2, <2>4, <2>5, <2>6 DEF Retiring, Leaving
<1>11. ASSUME NEW n \in Names, DecommissionFindsStop(n) PROVE Retiring'
  <2>1. UNCHANGED <<ord, managed, stopping, active, proc, events, desired>>
    BY <1>11 DEF DecommissionFindsStop
  <2>2. \A m \in Names : Retired(m)' <=> Retired(m)
    BY <2>1 DEF Retired, Lost, Alive
  <2>3. \A m \in Names : m # n => decom'[m] = decom[m]
    BY <1>11 DEF DecommissionFindsStop, TypeOK
  <2>4. \/ decom'[n] = "none"
        \/ decom'[n] \in Named(n, managed) \cap stopping
        \/ decom'[n] = "ready" /\ hold = Nobody /\ Named(n, managed) = {}
    BY <1>11 DEF DecommissionFindsStop, TypeOK
  <2>5. Exists(n)
    BY <1>11 DEF DecommissionFindsStop, Retiring
  <2>6. decom'[n] \in Named(n, managed) => decom'[n] \in Ids /\ decom'[n] # "ready"
    BY DEF TypeOK
  <2> QED BY <1>1, <2>1, <2>2, <2>3, <2>4, <2>5, <2>6 DEF Retiring, Leaving
<1>12. CASE DaemonRestarts
  <2>1. /\ \A n \in Names : decom'[n] = "none"
        /\ \A c \in Ids : proc'[c] = "none"
        /\ events' = <<>> /\ ord' = ord
    BY <1>12, RestartEffect
  <2>2. ASSUME NEW n \in Names, desired'[n].state = "decommissioned"
        PROVE  Retired(n)'
    BY <1>12, <2>1, <2>2, RestartEffect DEF Retired, Alive, Launching
  <2> QED BY <2>1, <2>2 DEF Retiring
<1> USE DEF TypeOK, Tables, Sections, Fresh, BootAlone, Processes, EventsOnce, Claims, Retiring,
        Requests, Launching, Procs, Alive, Lost, Gone, Unborn, Holder, Leaving, Retired
<1>13. ASSUME NEW c \in Commands, NEW n \in Names, NEW p \in BOOLEAN, SpawnOrder(c, n, p)
       PROVE  Retiring'
  BY <1>13 DEF SpawnOrder, Request
<1>14. ASSUME NEW c \in Commands, NEW n \in Names, RelaunchOrder(c, n) PROVE Retiring'
  BY <1>14 DEF RelaunchOrder, Request
<1>15. ASSUME NEW c \in RecoveryIds, NEW n \in Names, EntryRecovers(n, c) PROVE Retiring'
  BY <1>15 DEF EntryRecovers, Request
<1>16. ASSUME NEW c \in Ids, Refuses(c) PROVE Retiring'
  BY <1>16, RefusalEffect
<1>17. ASSUME NEW c \in Ids, Reserves(c) PROVE Retiring'
  BY <1>17 DEF Reserves, Refusable, AllowedExisting
<1>18. ASSUME NEW c \in Ids, Prepares(c) PROVE Retiring'
  BY <1>18 DEF Prepares, Answered
<1>19. ASSUME NEW c \in Ids, HandlerFinishes(c) PROVE Retiring'
  BY <1>19 DEF HandlerFinishes, FinishSpawn, Ending, Answered
<1>20. ASSUME NEW c \in Ids, SupervisorFinishes(c) PROVE Retiring'
  BY <1>20 DEF SupervisorFinishes, FinishSpawn, Ending, Reaped
<1>21. ASSUME NEW c \in Ids, ConnectWrites(c) PROVE Retiring'
  BY <1>21 DEF ConnectWrites, Upsert
<1>22. ASSUME NEW c \in Ids, ConnectFinishes(c) PROVE Retiring'
  BY <1>22 DEF ConnectFinishes, FinishSpawn
<1>23. ASSUME NEW c \in Ids, ProcessLaunches(c) \/ WrapperRegisters(c) PROVE Retiring'
  BY <1>23 DEF ProcessLaunches, WrapperRegisters
<1>24. ASSUME NEW c \in Ids, StaleLaunchFails(c) PROVE Retiring'
  BY <1>24 DEF StaleLaunchFails, Reaped
<1>25. ASSUME NEW c \in Ids, ProcessExits(c) PROVE Retiring'
  BY <1>25 DEF ProcessExits
<1>26. ASSUME NEW c \in Ids, DrainConnected(c) PROVE Retiring'
  BY <1>26 DEF DrainConnected, Drains
<1>27. ASSUME NEW n \in Names, DecommissionEnds(n) PROVE Retiring'
  BY <1>27 DEF DecommissionEnds, SetLifecycle
<1>28. ASSUME NEW c \in Ids, CandidateKept(c) \/ DeadlinePasses(c) PROVE Retiring'
  BY <1>28 DEF CandidateKept, DeadlinePasses
<1>29. ASSUME BootEnds PROVE Retiring'
  BY <1>29 DEF BootEnds
<1>30. CASE UNCHANGED vars
  BY <1>30
<1> HIDE DEF TypeOK, Tables, Sections, Fresh, BootAlone, Processes, EventsOnce, Claims,
         Retiring, Requests, Launching, Procs, Alive, Lost, Gone, Unborn, Holder, Leaving,
         Retired
<1> QED BY <1>3, <1>4, <1>5, <1>6, <1>7, <1>8, <1>9, <1>10, <1>11, <1>12, <1>13, <1>14, <1>15,
          <1>16, <1>17, <1>18, <1>19, <1>20, <1>21, <1>22, <1>23, <1>24, <1>25, <1>26, <1>27,
          <1>28, <1>29, <1>30
        DEF Next, ClientStep, HandlerStep, DecommissionStep, SupervisorStep, DrainStep,
            BootStep

(* A stopped name stays so until a client asks for it again.               *)
LEMMA StopsNext ==
  ASSUME TypeOK, Tables, Sections, Fresh, BootAlone, Processes, Claims,
         Retiring, Stops, [Next]_vars
  PROVE  Stops'
<1>1. ASSUME NEW c \in Ids,
             PreparationFails(c) \/ LaunchFails(c) \/ CandidateFails(c) \/ StartUndelivered(c)
               \/ ExpireWrites(c) \/ CandidateExpires(c)
      PROVE Stops'
  <2>1. /\ UNCHANGED <<ord, active, stopping, stopped, proc>> /\ lock'.op \in {"fail", "expire"}
        /\ \A n \in Names : desired'[n].state \in {desired[n].state, "stopped"}
    BY <1>1, EndingWrites
  <2> QED BY <2>1 DEF Stops, StoppedStaysStopped, TypeOK
<1>2. CASE DaemonRestarts
  <2>1. /\ UNCHANGED <<ord, stopped>> /\ lock' = Free /\ \A c \in Ids : proc'[c] = "none"
        /\ \A n \in Names : desired'[n].state \in {desired[n].state, "stopped"}
        /\ \A c \in active' : c \in active /\ desired'[Name(c)].state = "running"
    BY <1>2, RestartEffect
  <2>2. \A n \in stopped : n \in Names /\ desired'[n].state \notin {"running", "absent"}
    BY <2>1 DEF Stops, TypeOK
  <2> QED BY <2>1, <2>2 DEF Stops, StoppedStaysStopped, Launching
<1> USE DEF TypeOK, Tables, Sections, Fresh, BootAlone, Processes, Claims, Retiring, Stops,
        Requests, Launching, Procs, Alive, Unborn, Holder, Leaving, Retired,
        StoppedStaysStopped, Lifecycles
<1>3. ASSUME NEW c \in Commands, NEW n \in Names, NEW p \in BOOLEAN, SpawnOrder(c, n, p)
      PROVE  Stops'
  BY <1>3 DEF SpawnOrder, Request
<1>4. ASSUME NEW c \in Commands, NEW n \in Names, RelaunchOrder(c, n) PROVE Stops'
  BY <1>4 DEF RelaunchOrder, Request
<1>5. ASSUME NEW c \in RecoveryIds, NEW n \in Names, EntryRecovers(n, c) PROVE Stops'
  BY <1>5 DEF EntryRecovers, Request
<1>6. ASSUME NEW c \in Ids, Refuses(c) PROVE Stops'
  BY <1>6, RefusalEffect
<1>7. ASSUME NEW c \in Ids, Reserves(c) PROVE Stops'
  BY <1>7 DEF Reserves, Refusable, AllowedExisting
<1>8. ASSUME NEW c \in Ids, Prepares(c) PROVE Stops'
  BY <1>8 DEF Prepares, Answered
<1>9. ASSUME NEW c \in Ids, HandlerFinishes(c) PROVE Stops'
  BY <1>9 DEF HandlerFinishes, FinishSpawn, Ending, Answered
<1>10. ASSUME NEW c \in Ids, SupervisorFinishes(c) PROVE Stops'
  BY <1>10 DEF SupervisorFinishes, FinishSpawn, Ending, Reaped
<1>11. ASSUME NEW c \in Ids, ConnectWrites(c) PROVE Stops'
  BY <1>11 DEF ConnectWrites, Upsert
<1>12. ASSUME NEW c \in Ids, ConnectFinishes(c) PROVE Stops'
  BY <1>12 DEF ConnectFinishes, FinishSpawn
<1>13. ASSUME NEW c \in Ids, ProcessLaunches(c) \/ WrapperRegisters(c) PROVE Stops'
  BY <1>13 DEF ProcessLaunches, WrapperRegisters
<1>14. ASSUME NEW c \in Ids, StaleLaunchFails(c) PROVE Stops'
  BY <1>14 DEF StaleLaunchFails, Reaped
<1>15. ASSUME NEW c \in Ids, SupervisorStops(c) PROVE Stops'
  BY <1>15 DEF SupervisorStops
<1>16. ASSUME NEW c \in Ids, ProcessExits(c) PROVE Stops'
  BY <1>16 DEF ProcessExits
<1>17. ASSUME NEW c \in Ids, DrainConnected(c) PROVE Stops'
  BY <1>17 DEF DrainConnected, Drains
<1>18. ASSUME NEW c \in Ids, DrainLost(c) PROVE Stops'
  BY <1>18, LostEffect
<1>19. ASSUME NEW c \in Ids, DrainStopped(c) PROVE Stops'
  BY <1>19 DEF DrainStopped, Drains, Completes
<1>20. ASSUME NEW n \in Names, NEW c \in Ids, StopWrites(n, c) PROVE Stops'
  BY <1>20, StopEffect
<1>21. ASSUME NEW c \in Ids, StopFinishes(c) PROVE Stops'
  BY <1>21 DEF StopFinishes, FinishSpawn, Awaits
<1>22. ASSUME NEW n \in Names, NEW c \in Ids, StopsConnected(n, c) PROVE Stops'
  BY <1>22, ConnectedStopEffect
<1>23. ASSUME NEW n \in Names, DecommissionStarts(n) \/ DecommissionTimesOut(n) PROVE Stops'
  BY <1>23 DEF DecommissionStarts, DecommissionTimesOut
<1>24. ASSUME NEW n \in Names, DecommissionFindsStop(n) PROVE Stops'
  BY <1>24 DEF DecommissionFindsStop
<1>25. ASSUME NEW n \in Names, DecommissionEnds(n) PROVE Stops'
  BY <1>25 DEF DecommissionEnds, SetLifecycle
<1>26. ASSUME NEW c \in Ids, CandidateKept(c) \/ DeadlinePasses(c) PROVE Stops'
  BY <1>26 DEF CandidateKept, DeadlinePasses
<1>27. ASSUME BootEnds PROVE Stops'
  BY <1>27 DEF BootEnds
<1>28. CASE UNCHANGED vars
  BY <1>28
<1> HIDE DEF TypeOK, Tables, Sections, Fresh, BootAlone, Processes, Claims, Retiring, Stops,
         Requests, Launching, Procs, Alive, Unborn, Holder, Leaving, Retired,
         StoppedStaysStopped, Lifecycles
<1> QED BY <1>1, <1>2, <1>3, <1>4, <1>5, <1>6, <1>7, <1>8, <1>9, <1>10, <1>11, <1>12, <1>13,
          <1>14, <1>15, <1>16, <1>17, <1>18, <1>19, <1>20, <1>21, <1>22, <1>23, <1>24, <1>25,
          <1>26, <1>27, <1>28
        DEF Next, ClientStep, HandlerStep, DecommissionStep, SupervisorStep, DrainStep,
            BootStep

(* Nothing but its own end, or the late event of another launch, takes     *)
(* away the entry of an agent.                                             *)
LEMMA RememberedNext ==
  ASSUME TypeOK, Tables, Sections, Fresh, BootAlone, Processes,
         EventsOnce, Claims, Retiring, Remembered, [Next]_vars
  PROVE  Remembered'
<1>1. ASSUME NEW c \in Ids,
             PreparationFails(c) \/ LaunchFails(c) \/ CandidateFails(c) \/ StartUndelivered(c)
               \/ ExpireWrites(c) \/ CandidateExpires(c)
      PROVE Remembered'
  <2>1. /\ UNCHANGED <<ord, saga, stopping, struck, proc>> /\ lock'.op \in {"fail", "expire"}
        /\ c \in active /\ \A n \in Names : n # Name(c) => desired'[n] = desired[n]
    BY <1>1, EndingWrites
  <2>2. ASSUME NEW d \in Ids, proc[d] = "connected"
        PROVE  Name(d) \in Names /\ Name(d) # Name(c)
    BY <2>1, <2>2 DEF Processes, Claims, Holder, Tables
  <2> QED BY <2>1, <2>2 DEF Remembered
<1> USE DEF TypeOK, Tables, Sections, Fresh, BootAlone, Processes, EventsOnce, Claims, Retiring,
        Remembered, Requests, Launching, Procs, Alive, Lost, Gone, Unborn, Holder, Leaving,
        Retired
<1>2. ASSUME NEW c \in Commands, NEW n \in Names, NEW p \in BOOLEAN, SpawnOrder(c, n, p)
      PROVE  Remembered'
  BY <1>2 DEF SpawnOrder, Request
<1>3. ASSUME NEW c \in Commands, NEW n \in Names, RelaunchOrder(c, n) PROVE Remembered'
  BY <1>3 DEF RelaunchOrder, Request
<1>4. ASSUME NEW c \in RecoveryIds, NEW n \in Names, EntryRecovers(n, c) PROVE Remembered'
  BY <1>4 DEF EntryRecovers, Request
<1>5. ASSUME NEW c \in Ids, Refuses(c) PROVE Remembered'
  BY <1>5, RefusalEffect
<1>6. ASSUME NEW c \in Ids, Reserves(c) PROVE Remembered'
  BY <1>6 DEF Reserves, Refusable, AllowedExisting
<1>7. ASSUME NEW c \in Ids, Prepares(c) PROVE Remembered'
  BY <1>7 DEF Prepares, Answered
<1>8. ASSUME NEW c \in Ids, HandlerFinishes(c) PROVE Remembered'
  BY <1>8 DEF HandlerFinishes, FinishSpawn, Ending, Answered
<1>9. ASSUME NEW c \in Ids, SupervisorFinishes(c) PROVE Remembered'
  BY <1>9 DEF SupervisorFinishes, FinishSpawn, Ending, Reaped
<1>10. ASSUME NEW c \in Ids, ConnectWrites(c) PROVE Remembered'
  BY <1>10 DEF ConnectWrites, Upsert
<1>11. ASSUME NEW c \in Ids, ConnectFinishes(c) PROVE Remembered'
  BY <1>11 DEF ConnectFinishes, FinishSpawn
<1>12. ASSUME NEW c \in Ids, ProcessLaunches(c) \/ WrapperRegisters(c) PROVE Remembered'
  BY <1>12 DEF ProcessLaunches, WrapperRegisters
<1>13. ASSUME NEW c \in Ids, StaleLaunchFails(c) PROVE Remembered'
  BY <1>13 DEF StaleLaunchFails, Reaped
<1>14. ASSUME NEW c \in Ids, SupervisorStops(c) PROVE Remembered'
  BY <1>14 DEF SupervisorStops
<1>15. ASSUME NEW c \in Ids, ProcessExits(c) PROVE Remembered'
  BY <1>15 DEF ProcessExits
<1>16. ASSUME NEW c \in Ids, DrainConnected(c) PROVE Remembered'
  BY <1>16 DEF DrainConnected, Drains
<1>17. ASSUME NEW c \in Ids, DrainLost(c) PROVE Remembered'
  BY <1>17, LostEffect
<1>18. ASSUME NEW c \in Ids, DrainStopped(c) PROVE Remembered'
  BY <1>18 DEF DrainStopped, Drains, Completes
<1>19. ASSUME NEW n \in Names, NEW c \in Ids, StopWrites(n, c) PROVE Remembered'
  BY <1>19, StopEffect
<1>20. ASSUME NEW c \in Ids, StopFinishes(c) PROVE Remembered'
  BY <1>20 DEF StopFinishes, FinishSpawn, Awaits
<1>21. ASSUME NEW n \in Names, NEW c \in Ids, StopsConnected(n, c) PROVE Remembered'
  BY <1>21, ConnectedStopEffect
<1>22. ASSUME NEW n \in Names, DecommissionStarts(n) \/ DecommissionTimesOut(n)
       PROVE  Remembered'
  BY <1>22 DEF DecommissionStarts, DecommissionTimesOut
<1>23. ASSUME NEW n \in Names, DecommissionFindsStop(n) PROVE Remembered'
  BY <1>23 DEF DecommissionFindsStop
<1>24. ASSUME NEW n \in Names, DecommissionEnds(n) PROVE Remembered'
  BY <1>24 DEF DecommissionEnds, SetLifecycle
<1>25. CASE DaemonRestarts
  BY <1>25 DEF DaemonRestarts
<1>26. ASSUME NEW c \in Ids, CandidateKept(c) \/ DeadlinePasses(c) PROVE Remembered'
  BY <1>26 DEF CandidateKept, DeadlinePasses
<1>27. ASSUME BootEnds PROVE Remembered'
  BY <1>27 DEF BootEnds
<1>28. CASE UNCHANGED vars
  BY <1>28
<1> HIDE DEF TypeOK, Tables, Sections, Fresh, BootAlone, Processes, EventsOnce, Claims,
         Retiring, Remembered, Requests, Launching, Procs, Alive, Lost, Gone, Unborn, Holder,
         Leaving, Retired
<1> QED BY <1>1, <1>2, <1>3, <1>4, <1>5, <1>6, <1>7, <1>8, <1>9, <1>10, <1>11, <1>12, <1>13,
          <1>14, <1>15, <1>16, <1>17, <1>18, <1>19, <1>20, <1>21, <1>22, <1>23, <1>24, <1>25,
          <1>26, <1>27, <1>28
        DEF Next, ClientStep, HandlerStep, DecommissionStep, SupervisorStep, DrainStep,
            BootStep

-----------------------------------------------------------------------------
(* The theorems.                                                           *)

LEMMA InvInit == Init => Inv
<1> SUFFICES ASSUME Init PROVE Inv
  OBVIOUS
<1>1. TypeOK
  BY DEF Init, TypeOK, NoEntry, Sagas, InFlight, Lifecycles, Requests, Procs
<1>2. Tables /\ Sections /\ Fresh /\ BootAlone
  BY DEF Init, Tables, RecordOf, NoEntry, Sections, Requests, Fresh, BootAlone
<1>3. Processes /\ EventsOnce /\ Claims
  BY DEF Init, Processes, Launching, EventsOnce, Claims, Holder, Leaving
<1>4. Retiring /\ Stops /\ Remembered
  BY DEF Init, NoEntry, Retiring, Retired, Stops, StoppedStaysStopped, Remembered, Leaving
<1> QED BY <1>1, <1>2, <1>3, <1>4 DEF Inv

LEMMA InvNext ==
  ASSUME Inv, [Next]_vars
  PROVE  Inv'
<1>1. TypeOK' /\ Tables' /\ Sections' /\ Fresh' /\ BootAlone'
  BY TypeOKNext, TablesNext, SectionsNext, FreshNext, BootAloneNext DEF Inv
<1>2. Processes' /\ EventsOnce' /\ Claims' /\ Retiring' /\ Stops' /\ Remembered'
  BY ProcessesNext, EventsOnceNext, ClaimsNext, RetiringNext, StopsNext, RememberedNext DEF Inv
<1> QED BY <1>1, <1>2 DEF Inv

(* Every reachable state satisfies the invariant.                          *)
THEOREM Invariance == Spec => []Inv
<1>1. Init => Inv
  BY InvInit
<1>2. Inv /\ [Next]_vars => Inv'
  BY InvNext
<1> QED BY <1>1, <1>2, PTL DEF Spec

(* Every variable keeps its type.                                          *)
THEOREM TypeCorrect == Spec => []TypeOK
<1>1. Inv => TypeOK
  BY DEF Inv
<1> QED BY <1>1, Invariance, PTL

(* Never two connected processes under one name: both would hold it.       *)
THEOREM OneAgent == Spec => []OneAgentPerName
<1>1. Inv => OneAgentPerName
  BY DEF Inv, Processes, Claims, Holder, OneAgentPerName
<1> QED BY <1>1, Invariance, PTL

(* A stopped agent is never brought back, neither by the supervisor nor by *)
(* a restart.                                                              *)
THEOREM StoppedStays == Spec => []StoppedStaysStopped
<1>1. Inv => StoppedStaysStopped
  BY DEF Inv, Stops
<1> QED BY <1>1, Invariance, PTL

(* An agent that runs is one the next start-up finds in fleet.json.        *)
THEOREM RunningRemembered == Spec => []RunningIsRemembered
<1>1. Inv => RunningIsRemembered
  BY DEF Inv, Remembered, RunningIsRemembered
<1> QED BY <1>1, Invariance, PTL

(* The step behind the next theorem: every write of fleet.json avoids a    *)
(* retired entry, because no command of its name is active or has an event *)
(* under way.                                                              *)
LEMMA RetiredEntryKept ==
  ASSUME Inv, [Next]_vars, NEW n \in Names, desired[n].state = "decommissioned"
  PROVE  desired'[n] = desired[n]
<1>1. TypeOK /\ Tables /\ Sections /\ Fresh /\ BootAlone /\ Retired(n)
  BY DEF Inv, Retiring
<1>2. \A c \in active : c \in Ids /\ Name(c) # n /\ Name(c) \in Names
  BY <1>1 DEF Retired, Tables
<1>3. ASSUME NEW c \in Ids, Refuses(c) PROVE desired'[n] = desired[n]
  <2>1. Name(c) \in Names /\ (lock.op = "recovery" => Name(c) # n)
    BY <1>1, <1>3 DEF Refuses, Sections, BootAlone, Tables
  <2> QED BY <1>1, <1>3, <2>1, SetLifecycleWrites DEF Refuses, Lifecycles
<1>4. ASSUME NEW c \in Ids,
             PreparationFails(c) \/ LaunchFails(c) \/ CandidateFails(c) \/ StartUndelivered(c)
                              \/ ExpireWrites(c) \/ CandidateExpires(c)
      PROVE  desired'[n] = desired[n]
  BY <1>1, <1>2, <1>4, EndingWrites
<1>5. ASSUME NEW c \in Ids, ConnectWrites(c) PROVE desired'[n] = desired[n]
  BY <1>1, <1>2, <1>5, UpsertWrites DEF ConnectWrites, Lifecycles
<1>6. ASSUME NEW c \in Ids, DrainLost(c) PROVE desired'[n] = desired[n]
  <2>1. /\ Name(c) \in Names /\ 1 \in 1..Len(events) /\ events[1].id = c /\ Lost(events[1])
    BY <1>1, <1>6, EventName, EventDrained DEF DrainLost, EventTypes, Lost
  <2>2. Name(c) # n
    BY <1>1, <2>1 DEF Retired
  <2> QED BY <1>1, <1>6, <2>1, <2>2, SetLifecycleWrites DEF DrainLost, Lifecycles
<1>7. ASSUME NEW m \in Names, NEW c \in Ids, StopWrites(m, c) PROVE desired'[n] = desired[n]
  BY <1>1, <1>2, <1>7, StopEffect
<1>8. ASSUME NEW m \in Names, NEW c \in Ids, StopsConnected(m, c)
      PROVE  desired'[n] = desired[n]
  <2>1. Name(c) = m /\ desired' = MarkStoppedIfGeneration(c)
    BY <1>8 DEF StopsConnected
  <2>2. CASE n = m
    <3>1. MarkStoppedIfGeneration(c) = desired
      BY <2>1, <2>2 DEF MarkStoppedIfGeneration
    <3> QED BY <2>1, <3>1
  <2>3. CASE n # m
    BY <1>1, <2>1, <2>3, MarkStoppedWrites
  <2> QED BY <2>2, <2>3
<1>9. ASSUME NEW m \in Names, DecommissionEnds(m) PROVE desired'[n] = desired[n]
  BY <1>1, <1>9 DEF DecommissionEnds, SetLifecycle, TypeOK
<1>10. CASE DaemonRestarts
  <2>1. desired' = NonPersistentStopped
    BY <1>10 DEF DaemonRestarts
  <2> QED BY <2>1 DEF NonPersistentStopped
<1>11. ASSUME UNCHANGED desired PROVE desired'[n] = desired[n]
  BY <1>11
<1>12. CASE ClientStep
  BY <1>7, <1>8, <1>11, <1>12
     DEF ClientStep, SpawnOrder, RelaunchOrder, Request, DecommissionStarts
<1>13. CASE HandlerStep
  BY <1>3, <1>4, <1>11, <1>13
     DEF HandlerStep, Reserves, Prepares, HandlerFinishes, StopFinishes, ConnectFinishes,
         SupervisorFinishes
<1>14. CASE DecommissionStep
  BY <1>9, <1>11, <1>14
     DEF DecommissionStep, DecommissionFindsStop, DecommissionTimesOut
<1>15. CASE SupervisorStep
  BY <1>4, <1>5, <1>11, <1>15
     DEF SupervisorStep, ProcessLaunches, WrapperRegisters, StaleLaunchFails,
         SupervisorStops, ProcessExits
<1>16. CASE DrainStep
  BY <1>6, <1>11, <1>16 DEF DrainStep, DrainConnected, DrainStopped
<1>17. CASE BootStep
  BY <1>4, <1>11, <1>17 DEF BootStep, CandidateKept, EntryRecovers, Request, BootEnds
<1> QED BY <1>10, <1>11, <1>12, <1>13, <1>14, <1>15, <1>16, <1>17
        DEF Next, DeadlinePasses

(* A decommissioned agent cannot come back.                                *)
THEOREM DecommissionedFinal == Spec => DecommissionedIsFinal
<1>1. Inv /\ [Next]_vars =>
        [\A n \in Names : desired[n].state = "decommissioned" => desired'[n] = desired[n]]_vars
  BY RetiredEntryKept
<1> QED BY <1>1, Invariance, PTL DEF Spec, DecommissionedIsFinal

(* Along every step the record of a command stays, is reserved, or takes   *)
(* one of the edges of the contract.                                       *)
RecordEdges == {<<"absent", "prepared">>, <<"prepared", "dispatching">>,
                <<"prepared", "rejected">>, <<"dispatching", "accepted">>,
                <<"dispatching", "rejected">>}

LEMMA RecordSteps ==
  ASSUME Inv, [Next]_vars, NEW d \in Ids
  PROVE  rec'[d] = rec[d] \/ <<rec[d], rec'[d]>> \in RecordEdges
<1>1. TypeOK /\ Tables /\ Sections /\ Fresh
  BY DEF Inv
<1> USE DEF RecordEdges
<1>2. ASSUME NEW c \in Ids, NEW n \in Names, NEW p \in BOOLEAN, NEW kind, NEW who,
             Request(c, n, p, kind, who)
      PROVE  rec'[d] = rec[d] \/ <<rec[d], rec'[d]>> \in RecordEdges
  BY <1>1, <1>2, RequestEffect DEF Tables, RecordOf
<1>3. ASSUME NEW c \in Ids, Refuses(c) \/ Reserves(c)
      PROVE  rec'[d] = rec[d] \/ <<rec[d], rec'[d]>> \in RecordEdges
  <2>1. rec[c] = "prepared"
    BY <1>1, <1>3 DEF Refuses, Reserves, Sections, Tables, RecordOf
  <2> QED BY <1>1, <1>3, <2>1 DEF Refuses, Reserves, TypeOK
<1>4. ASSUME NEW c \in Ids, HandlerFinishes(c) \/ SupervisorFinishes(c) \/ ConnectFinishes(c)
                              \/ StopFinishes(c)
      PROVE  rec'[d] = rec[d] \/ <<rec[d], rec'[d]>> \in RecordEdges
  <2>1. c \in active
    BY <1>1, <1>4 DEF HandlerFinishes, SupervisorFinishes, ConnectFinishes, StopFinishes,
                      Sections
  <2>2. rec[c] = "dispatching"
    BY <1>1, <2>1 DEF Tables, RecordOf
  <2>3. \E r \in {"accepted", "rejected"} : rec' = [rec EXCEPT ![c] = r]
    BY <1>4 DEF HandlerFinishes, SupervisorFinishes, ConnectFinishes, StopFinishes, FinishSpawn
  <2> QED BY <1>1, <2>2, <2>3 DEF TypeOK
<1>5. CASE DaemonRestarts
  <2>1. /\ saga[d] \in InFlight /\ d \notin active' => rec'[d] = "rejected"
        /\ ~(saga[d] \in InFlight /\ d \notin active') => rec'[d] = rec[d]
    BY <1>1, <1>5, RestartEffect
  <2>2. saga[d] \in InFlight => rec[d] \in {"prepared", "dispatching"}
    BY <1>1 DEF Tables, RecordOf, InFlight
  <2> QED BY <2>1, <2>2
<1>6. ASSUME UNCHANGED rec PROVE rec'[d] = rec[d] \/ <<rec[d], rec'[d]>> \in RecordEdges
  BY <1>6
<1> HIDE DEF RecordEdges
<1>7. CASE ClientStep
  BY <1>1, <1>2, <1>6, <1>7, OrderEffect
     DEF ClientStep, StopWrites, StopsConnected, DecommissionStarts
<1>8. CASE HandlerStep
  BY <1>3, <1>4, <1>6, <1>8 DEF HandlerStep, Prepares, PreparationFails
<1>9. CASE DecommissionStep \/ SupervisorStep
  BY <1>6, <1>9
     DEF DecommissionStep, DecommissionFindsStop, DecommissionTimesOut, DecommissionEnds,
         SupervisorStep, ProcessLaunches, WrapperRegisters, ConnectWrites, ExpireWrites,
         LaunchFails, StaleLaunchFails, SupervisorStops, ProcessExits
<1>10. CASE DrainStep
  BY <1>6, <1>10 DEF DrainStep, DrainConnected, DrainLost, DrainStopped, Drains
<1>11. CASE BootStep
  BY <1>1, <1>2, <1>6, <1>11, OrderEffect
     DEF BootStep, CandidateKept, CandidateExpires, CandidateFails,
         StartUndelivered, BootEnds
<1> QED BY <1>5, <1>6, <1>7, <1>8, <1>9, <1>10, <1>11 DEF Next, DeadlinePasses

(* To the client a spawn command is an idempotent operation: Fleet         *)
(* implements IdempotentOperation.                                         *)
THEOREM FleetImplements == Spec => ImplementsContract
<1>1. Init => Contract!Init
  BY DEF Init, Contract!Init
<1>2. Inv /\ [Next]_vars => [Contract!Next]_(Contract!vars)
  <2> SUFFICES ASSUME Inv, [Next]_vars
               PROVE  Contract!Next
    OBVIOUS
  <2>1. ASSUME NEW k \in Ids
        PROVE  Contract!Reserved(k) \/ Contract!Advanced(k) \/ Contract!Kept(k)
    BY <2>1, RecordSteps
       DEF RecordEdges, Contract!Reserved, Contract!Advanced, Contract!Kept, Contract!Edges,
           Contract!Results
  <2> QED BY <2>1 DEF Contract!Next
<1> QED BY <1>1, <1>2, Invariance, PTL DEF Spec, ImplementsContract, Contract!Spec
=============================================================================
