--------------------------- MODULE WakeSchedules ---------------------------
(* Wakes: the schedules of the agents (wake_schedules.rs and               *)
(* store/wake_schedules.rs), the one-shot wakes of the command line        *)
(* (idempotency.rs) and the tick that makes them leave (daemon.rs:         *)
(* scheduled_wakes_tick, deliver_frozen_wake).                             *)
(*                                                                         *)
(* The tick is one thread. It reads the schedules once, then works without *)
(* the daemon's mutex except for a few short holds; requests, pauses,      *)
(* acknowledgements, the end of the owner, a change of time zone and a     *)
(* stop of the daemon come between them. A wake goes to an agent (an       *)
(* idempotent delivery, which departs when begin_send_delivery commits) or *)
(* to a thread (a contribution, committed under an operation id).          *)
EXTENDS Integers, FiniteSets

CONSTANTS Schedules,          \* ids of schedules, each created at most once
          AtSchedules,        \* those with a calendar cadence; the others have an interval
          ThreadSchedules,    \* those that wake a thread; the others wake an agent
          Clis,               \* number of one-shot wakes of the command line
          ThreadClis,         \* those that go to a thread
          PageSize,           \* one-shot wakes read in one tick (128)
          Limit,              \* rows kept (16 for an owner, 128 in all)
          Zones, Offset,      \* time zones and their distance to UTC
          Skipped,            \* [Zones -> dates with no such hour, or not a chosen weekday]
          Day, Hour,          \* length of a day, hour of the calendar schedules
          Horizon,            \* days looked at for the next due (8)
          Step,               \* period of the interval schedules
          Grace,              \* what a wake may wait before it departs (600 s)
          MaxTime, MaxCrashes, MaxZoneChanges,
          LastRequest,        \* bound: latest time of a request
          MaxLag,             \* bound: longest tick
          Mixed               \* bound: schedules and one-shot wakes in one behaviour

None == -1
Times == 0..MaxTime
Dates == 0..((MaxTime + 2 * Day) \div Day + Horizon)
Cli == "cli"
CliWakes == {Cli} \X (1..Clis)
ScheduledWakes == Schedules \X Times
Wakes == ScheduledWakes \cup CliWakes
NoWake == <<"none", 0>>

ASSUME WakesAssumption ==
  /\ Clis \in Nat /\ PageSize \in Nat \ {0} /\ Limit \in Nat \ {0}
  /\ Offset \in [Zones -> (-Day)..Day] /\ Skipped \in [Zones -> SUBSET Dates]
  /\ Day \in Nat \ {0} /\ Hour \in 0..(Day - 1) /\ Step \in Nat \ {0} /\ Grace \in Nat \ {0}
  /\ Horizon \in Nat
  /\ MaxTime \in Nat /\ MaxCrashes \in Nat /\ MaxZoneChanges \in Nat
  /\ LastRequest \in Nat /\ MaxLag \in Nat /\ Mixed \in BOOLEAN
  /\ AtSchedules \subseteq Schedules /\ ThreadSchedules \subseteq Schedules
  /\ ThreadClis \subseteq 1..Clis /\ Cli \notin Schedules /\ "none" \notin Schedules

(* WakePhase, "none" where there has been no occurrence yet.               *)
Terminal == {"committed_thread", "confirmed", "outcome_unknown",
             "missed_before_departure", "owner_unavailable"}
Unsettled == {"prepared", "deferred", "dispatching_agent"}
Phases == Terminal \cup Unsettled \cup {"none"}

(* A row of wake_schedules, with the occurrence frozen last. Its civil     *)
(* date, for a calendar schedule, is pdate.                                *)
Rows == [status : {"unborn", "kept", "removed"}, anchor : Int, next : Int, tz : Zones,
         ndate : Dates \cup {None}, pdate : Dates \cup {None},
         cancelled : Times \cup {None}, due : Int, phase : Phases]
NoRow == [status |-> "unborn", anchor |-> 0, next |-> 0, tz |-> CHOOSE z \in Zones : TRUE,
          ndate |-> None, pdate |-> None, cancelled |-> None, due |-> None, phase |-> "none"]

(* The record of a one-shot wake: its state and, when terminal, result.    *)
CliStates == {"absent", "prepared", "dispatching", "accepted", "rejected", "orphaned"}
CliRecords == [state : CliStates, issued : Times]
CliPending == {"prepared", "dispatching"}

VARIABLES now, zone, paused, ownerLives,
          rows, cli,       \* the schedules, the one-shot wakes
          delivery,        \* send_deliveries: phase of the delivery of a wake
          posted,          \* wakes whose thread operation is committed
          left,            \* history: what reached the recipient or the thread, per wake
          frozen,          \* history: the occurrences frozen, per schedule
          pc, at, snap, todo, page, cursor, wake, look, verdict,   \* the tick
          crashes, zoneChanges

clocks == <<now, zone, paused, ownerLives, crashes, zoneChanges>>
stores == <<rows, cli, delivery, posted, left, frozen>>
reading == <<at, snap, todo, page, cursor>>
item == <<wake, look, verdict>>
vars == <<clocks, stores, reading, item, pc>>

Calendars == [next : Int, due : Int, date : Dates \cup {None}, ndate : Dates \cup {None}, tz : Zones]
NoCalendar == [next |-> 0, due |-> None, date |-> None, ndate |-> None, tz |-> NoRow.tz]
NoLook == [closed |-> FALSE, ends |-> "none", cal |-> NoCalendar]

Init == /\ now = 0 /\ zone \in Zones /\ paused = FALSE /\ ownerLives = TRUE
        /\ crashes = 0 /\ zoneChanges = 0
        /\ rows = [s \in Schedules |-> NoRow]
        /\ cli = [c \in 1..Clis |-> [state |-> "absent", issued |-> 0]]
        /\ delivery = [w \in Wakes |-> "none"] /\ posted = {}
        /\ left = [w \in Wakes |-> 0] /\ frozen = [s \in Schedules |-> {}]
        /\ pc = "idle" /\ at = 0 /\ snap = [s \in Schedules |-> NoRow]
        /\ todo = {} /\ page = {} /\ cursor = <<None, 0>>
        /\ wake = NoWake /\ look = NoLook /\ verdict = "none"

-----------------------------------------------------------------------------
(* calculate_cadence.                                                      *)

(* The dates are numbered from the day before time 0: a zone is up to a    *)
(* day behind UTC.                                                         *)
LocalDate(t, z) == (t + Offset[z] + Day) \div Day
CivilEpoch(d, z) == (d - 1) * Day + Hour - Offset[z]
Least(S) == CHOOSE d \in S : \A e \in S : d <= e

(* The days looked at from t on, without the date taken last, and those    *)
(* whose hour is still to come.                                            *)
Days(r, t, z) == {d \in Dates : LocalDate(t, z) <= d /\ d < LocalDate(t, z) + Horizon
                                /\ d \notin Skipped[z] /\ d # r.pdate}
Ahead(r, t, z) == {d \in Days(r, t, z) : CivilEpoch(d, z) > t}

(* Without a next due there is no calendar, calendar_unavailable: nothing  *)
(* is scheduled, looked at or settled by it.                               *)
CalendarAvailable(s, r, t, z) == s \in AtSchedules => Ahead(r, t, z) # {}

CadenceInterval(r, t, z) ==
  LET last == r.anchor + ((t - r.anchor) \div Step) * Step
  IN [next |-> last + Step, due |-> IF last >= r.next THEN last ELSE None,
      date |-> None, ndate |-> None, tz |-> z]

\* Faulty variant: the date taken last is not remembered.
CadenceAt_ForgetsDate(r, t, z) ==
  LET days == {d \in Dates : LocalDate(t, z) <= d /\ d < LocalDate(t, z) + Horizon /\ d \notin Skipped[z]}
      ahead == {d \in days : CivilEpoch(d, z) > t}
      late == {d \in days : CivilEpoch(d, z) \in (t - Grace)..t /\ CivilEpoch(d, z) >= r.next}
      kept == r.next \in (t - Grace)..t /\ r.ndate # None
  IN [next |-> CivilEpoch(Least(ahead), z), ndate |-> Least(ahead), tz |-> z,
      due |-> IF kept THEN r.next ELSE IF late # {} THEN CivilEpoch(Least(late), z) ELSE None,
      date |-> IF kept THEN r.ndate ELSE IF late # {} THEN Least(late) ELSE None]

(* The due already computed stays due after midnight and in a new zone;    *)
(* a date whose occurrence was frozen is not taken again.                  *)
CadenceAt(r, t, z) ==
  LET next == Least(Ahead(r, t, z))
      late == {d \in Days(r, t, z) : CivilEpoch(d, z) \in (t - Grace)..t /\ CivilEpoch(d, z) >= r.next}
      kept == r.next \in (t - Grace)..t /\ r.ndate # None /\ r.pdate # r.ndate
  IN [next |-> CivilEpoch(next, z), ndate |-> next, tz |-> z,
      due |-> IF kept THEN r.next ELSE IF late # {} THEN CivilEpoch(Least(late), z) ELSE None,
      date |-> IF kept THEN r.ndate ELSE IF late # {} THEN Least(late) ELSE None]

CalculateCadence(s, r, t, z) == IF s \in AtSchedules THEN CadenceAt(r, t, z)
                                ELSE CadenceInterval(r, t, z)

-----------------------------------------------------------------------------
(* store/wake_schedules.rs.                                                *)

Kept(s) == rows[s].status = "kept"
Pending(r) == r.phase \in Unsettled
Key(s, r) == <<s, r.due>>

(* create_wake_schedule: at the limit, the oldest cancelled row that is    *)
(* settled makes room.                                                     *)
Removable(s) == Kept(s) /\ rows[s].cancelled # None /\ ~Pending(rows[s])
Full == Cardinality({s \in Schedules : Kept(s)}) >= Limit
Oldest(s) == Removable(s) /\ \A o \in Schedules :
                               Removable(o) => rows[s].cancelled <= rows[o].cancelled
CreateWakeSchedule(s, r) ==
  \/ ~Full /\ rows' = [rows EXCEPT ![s] = r]
  \/ Full /\ \E o \in Schedules :
               /\ Oldest(o)
               /\ rows' = [rows EXCEPT ![s] = r, ![o] = [NoRow EXCEPT !.status = "removed"]]

Cancelled(R, s, t) ==
  IF R[s].status = "kept" /\ R[s].cancelled = None THEN [R EXCEPT ![s].cancelled = t] ELSE R

(* advance_wake_calendar and freeze_wake_occurrence compare the due with   *)
(* the one they were computed from. The zone they also compare was read    *)
(* before the mutex was taken: it may have changed once more.              *)
Unchanged(s, r) ==
  Kept(s) /\ rows[s].next = r.next /\ rows[s].cancelled = None /\ ~Pending(rows[s])

AdvanceWakeCalendar(s, r, cal, t) ==
  IF cal.next > t /\ Unchanged(s, r)
  THEN rows' = [rows EXCEPT ![s].next = cal.next, ![s].ndate = cal.ndate, ![s].tz = cal.tz]
  ELSE UNCHANGED rows

FreezeWakeOccurrence(s, r, cal) ==
  /\ Unchanged(s, r)
  /\ cal.due >= r.next /\ cal.next > cal.due
  /\ rows' = [rows EXCEPT ![s].next = cal.next, ![s].ndate = cal.ndate, ![s].tz = cal.tz,
                          ![s].pdate = IF cal.date = None THEN rows[s].pdate ELSE cal.date,
                          ![s].due = cal.due, ![s].phase = "prepared"]

(* settle_wake_occurrence.                                                 *)
Settleable(r, due, phase, next) ==
  /\ r.status = "kept" /\ r.due = due /\ Pending(r)
  /\ r.phase = "dispatching_agent" =>
       phase \in {"confirmed", "outcome_unknown"}
  /\ phase \in Terminal => next > due /\ next >= r.next

Settled(R, s, due, phase, next, ndate) ==
  IF ~Settleable(R[s], due, phase, next) THEN R
  ELSE [R EXCEPT ![s].phase = phase,
                 ![s].next = IF phase \in Terminal THEN next ELSE R[s].next,
                 ![s].ndate = IF phase \in Terminal THEN ndate ELSE R[s].ndate]

-----------------------------------------------------------------------------
(* Requests and reports. They take the mutex, which the tick keeps while   *)
(* it commits and writes a departure.                                      *)

MutexFree == pc \notin {"missed", "post", "accept", "write"}
tick == <<reading, item, pc>>

(* handle_wake_request, Schedule: the first due is in the future, and is   *)
(* refused where there is none.                                            *)
RequestSchedule(s) ==
  /\ MutexFree /\ ownerLives /\ rows[s].status = "unborn" /\ now <= LastRequest
  /\ Mixed \/ \A c \in 1..Clis : cli[c].state = "absent"
  /\ LET new == [NoRow EXCEPT !.status = "kept", !.anchor = now,
                            !.next = IF s \in AtSchedules THEN now + 1 ELSE now + Step]
         cal == CalculateCadence(s, new, now, zone)
     IN /\ CalendarAvailable(s, new, now, zone)
        /\ CreateWakeSchedule(s, [new EXCEPT !.next = cal.next, !.ndate = cal.ndate, !.tz = zone])
  /\ UNCHANGED <<clocks, cli, delivery, posted, left, frozen, tick>>

(* Cancel, by the owner or by a human; cancelling again changes nothing.   *)
RequestCancel(s) ==
  /\ MutexFree /\ Kept(s) /\ rows[s].cancelled = None
  /\ rows' = Cancelled(rows, s, now)
  /\ UNCHANGED <<clocks, cli, delivery, posted, left, frozen, tick>>

(* CliOnce: reserve_cli_wake. A replayed id answers from its record.       *)
RequestCliOnce(c) ==
  /\ MutexFree /\ cli[c].state = "absent" /\ now <= LastRequest
  /\ Mixed \/ \A s \in Schedules : rows[s].status = "unborn"
  /\ cli' = [cli EXCEPT ![c] = [state |-> "prepared", issued |-> now]]
  /\ UNCHANGED <<clocks, rows, delivery, posted, left, frozen, tick>>

(* acknowledge_send_delivery: the record of a one-shot wake must still be  *)
(* open, else the whole transaction is refused.                            *)
Acknowledged(w) ==
  /\ MutexFree /\ left[w] > 0 /\ delivery[w] = "dispatching"
  /\ w \in CliWakes => cli[w[2]].state = "dispatching"
  /\ delivery' = [delivery EXCEPT ![w] = "acked"]
  /\ cli' = IF w \in CliWakes THEN [cli EXCEPT ![w[2]].state = "accepted"] ELSE cli
  /\ UNCHANGED <<clocks, rows, posted, left, frozen, tick>>

(* mark_delivery_indeterminate, reported by the wrapper: the record of a   *)
(* one-shot wake stays open.                                               *)
BecomesUnknown(w) ==
  /\ MutexFree /\ delivery[w] = "dispatching"
  /\ delivery' = [delivery EXCEPT ![w] = "unknown"]
  /\ UNCHANGED <<clocks, rows, cli, posted, left, frozen, tick>>

Dispatching == {w \in Wakes : delivery[w] = "dispatching"}

(* orphan_dispatching_for_instance, once a presence is purged: W is what   *)
(* is under way to that instance. The records of the one-shot wakes are    *)
(* closed as orphaned in the same transaction; when one of them is         *)
(* terminal already, the whole transaction is refused.                     *)
PresencePurged(W) ==
  /\ MutexFree /\ W # {}
  /\ \A w \in W \cap CliWakes : cli[w[2]].state = "dispatching"
  /\ delivery' = [w \in Wakes |-> IF w \in W THEN "unknown" ELSE delivery[w]]
  /\ cli' = [c \in 1..Clis |-> IF <<Cli, c>> \in W THEN [cli[c] EXCEPT !.state = "orphaned"]
                              ELSE cli[c]]
  /\ UNCHANGED <<clocks, rows, posted, left, frozen, tick>>

(* The pause of the referent control.                                      *)
PauseChanges ==
  /\ MutexFree /\ paused' = ~paused
  /\ UNCHANGED <<now, zone, ownerLives, crashes, zoneChanges, stores, tick>>

(* wake_native_origin no longer finds, or finds again, the task, the       *)
(* connection and the link of the owner. Only a schedule has such an owner *)
(* and reads the zone: changes before there is one are in Init.            *)
OwnerChanges ==
  /\ MutexFree /\ \E s \in Schedules : Kept(s)
  /\ ownerLives' = ~ownerLives
  /\ UNCHANGED <<now, zone, paused, crashes, zoneChanges, stores, tick>>

TimePasses ==
  /\ now < MaxTime /\ now' = now + 1 /\ (pc # "idle" => now < at + MaxLag)
  /\ UNCHANGED <<zone, paused, ownerLives, crashes, zoneChanges, stores, tick>>

ZoneChanges(z) ==
  /\ z # zone /\ zoneChanges < MaxZoneChanges
  /\ \E s \in Schedules : Kept(s)
  /\ zone' = z /\ zoneChanges' = zoneChanges + 1
  /\ UNCHANGED <<now, paused, ownerLives, crashes, stores, tick>>

-----------------------------------------------------------------------------
(* scheduled_wakes_tick: the schedules.                                    *)

(* The snapshot: every later decision starts from it.                      *)
TickStarts ==
  /\ pc = "idle" /\ pc' = "schedules"
  /\ at' = now /\ snap' = rows /\ todo' = {s \in Schedules : Kept(s)}
  /\ UNCHANGED <<clocks, stores, page, cursor, item>>

(* Done with the schedule in hand.                                         *)
NextSchedule(s) ==
  /\ pc' = "schedules"
  /\ todo' = todo \ {s} /\ snap' = [snap EXCEPT ![s] = NoRow]
  /\ wake' = NoWake /\ look' = NoLook /\ verdict' = "none"
  /\ UNCHANGED <<at, page, cursor>>

(* The phase a cancelled or orphaned occurrence ends in; "none" while its  *)
(* delivery may still be acknowledged.                                     *)
EndPhase(s, r, closed) ==
  LET w == Key(s, r)
  IN IF ~Pending(r) THEN "none"
     ELSE IF s \in ThreadSchedules /\ w \in posted THEN "committed_thread"
     ELSE IF r.cancelled = None /\ ~closed THEN "none"
     ELSE CASE delivery[w] = "none" -> "owner_unavailable"
            [] delivery[w] = "acked" -> "confirmed"
            [] delivery[w] = "dispatching" /\ at < r.due + Grace -> "none"
            [] OTHER -> "outcome_unknown"

(* What the tick reads of a schedule before it takes the mutex to act: the *)
(* proofs of departure, the owner, the zone, the calendar.                 *)
LookAtSchedule(s) ==
  LET r == snap[s]
      ends == EndPhase(s, r, ~ownerLives)
      due == (~Pending(r) /\ (r.next <= at \/ r.tz # zone)) \/ (ends # "none" /\ r.next <= at)
  IN /\ pc = "schedules" /\ s \in todo /\ wake = NoWake
     /\ IF (r.cancelled # None /\ ~Pending(r)) \/ (due /\ ~CalendarAvailable(s, r, at, zone))
        THEN NextSchedule(s)
        ELSE /\ pc' = "commit" /\ wake' = <<s, r.due>>
             /\ look' = [closed |-> ~ownerLives, ends |-> ends,
                         cal |-> IF due THEN CalculateCadence(s, r, at, zone)
                                 ELSE [next |-> r.next, due |-> None, date |-> None,
                                       ndate |-> r.ndate, tz |-> zone]]
             /\ UNCHANGED <<reading, verdict>>
     /\ UNCHANGED <<clocks, stores>>

(* The occurrence ends without leaving, or its departure is known: the     *)
(* schedule of an owner that is gone is cancelled with it.                 *)
CommitEnds ==
  LET s == wake[1]  r == snap[s]  next == IF look.cal.next > r.next THEN look.cal.next ELSE r.next
      R == IF look.closed THEN Cancelled(rows, s, at) ELSE rows
  IN /\ pc = "commit" /\ (look.closed \/ look.ends # "none")
     /\ rows' = IF look.ends = "none" THEN R ELSE Settled(R, s, r.due, look.ends, next, look.cal.ndate)
     /\ NextSchedule(s)
     /\ UNCHANGED <<clocks, cli, delivery, posted, left, frozen>>

(* Nothing is frozen under a pause, for a target that is refused, when the *)
(* two readings of the zone differ, or without a due; the calendar may     *)
(* then move on.                                                           *)
CommitAdvances ==
  LET s == wake[1]  r == snap[s]
  IN /\ pc = "commit" /\ ~look.closed /\ look.ends = "none" /\ ~Pending(r)
     /\ \/ UNCHANGED rows
        \/ /\ ~paused /\ look.cal.due = None /\ (look.cal.next # r.next \/ look.cal.tz # r.tz)
           /\ AdvanceWakeCalendar(s, r, look.cal, at)
     /\ NextSchedule(s)
     /\ UNCHANGED <<clocks, cli, delivery, posted, left, frozen>>

(* The freeze. A thread wake gets a new operation id: nothing is committed *)
(* under it. dormant: the target sleeps, the occurrence is closed at once. *)
CommitFreezes(dormant) ==
  LET s == wake[1]  r == snap[s]  w == <<s, look.cal.due>>
  IN /\ pc = "commit" /\ ~look.closed /\ look.ends = "none" /\ ~Pending(r)
     /\ ~paused /\ look.cal.due # None
     /\ FreezeWakeOccurrence(s, r, look.cal)
     /\ frozen' = [frozen EXCEPT ![s] = @ \cup {[due |-> look.cal.due, date |-> look.cal.date]}]
     /\ posted' = posted \ {w}
     /\ wake' = w /\ pc' = IF dormant THEN "missed" ELSE "guards"
     /\ UNCHANGED <<clocks, cli, delivery, left, reading, look, verdict>>

CommitMissed ==
  /\ pc = "missed"
  /\ rows' = Settled(rows, wake[1], wake[2], "missed_before_departure", look.cal.next, look.cal.ndate)
  /\ NextSchedule(wake[1])
  /\ UNCHANGED <<clocks, cli, delivery, posted, left, frozen>>

(* An occurrence frozen earlier is tried again.                            *)
CommitResumes ==
  /\ pc = "commit" /\ ~look.closed /\ look.ends = "none" /\ Pending(snap[wake[1]])
  /\ pc' = "guards"
  /\ UNCHANGED <<clocks, stores, reading, item>>

-----------------------------------------------------------------------------
(* deliver_frozen_wake.                                                    *)

Scheduled(w) == w[1] # Cli
ToThread(w) == IF Scheduled(w) THEN w[1] \in ThreadSchedules ELSE w[2] \in ThreadClis
GraceUntil(w) == Grace + IF Scheduled(w) THEN w[2] ELSE cli[w[2]].issued

(* The row still asks for this occurrence.                                 *)
Current(w) == rows[w[1]].cancelled = None /\ rows[w[1]].due = w[2]

\* Faulty variant: the phase of the delivery is passed on as it is.
Proven_DeliveryPhase(w) ==
  CASE ToThread(w) /\ w \in posted -> "committed_thread"
    [] delivery[w] # "none" -> delivery[w]
    [] OTHER -> IF at < GraceUntil(w) THEN "none" ELSE "missed_before_departure"

\* Faulty variant: the grace is looked at before the departure.
Proven_GraceFirst(w) ==
  CASE at >= GraceUntil(w) -> "missed_before_departure"
    [] ToThread(w) /\ w \in posted -> "committed_thread"
    [] delivery[w] = "acked" -> "confirmed"
    [] delivery[w] = "unknown" -> "outcome_unknown"
    [] delivery[w] = "dispatching" -> "dispatching_agent"
    [] OTHER -> "none"

(* The first hold of the mutex. What has left already is looked for before *)
(* anything that may have changed since; then the end of the grace.        *)
Proven(w) ==
  CASE ToThread(w) /\ w \in posted -> "committed_thread"
    [] delivery[w] = "acked" -> "confirmed"
    [] delivery[w] = "unknown" -> "outcome_unknown"
    [] delivery[w] = "dispatching" ->
         IF at < GraceUntil(w) THEN "dispatching_agent" ELSE "outcome_unknown"
    [] OTHER -> IF at < GraceUntil(w) THEN "none" ELSE "missed_before_departure"

Concludes(phase) ==
  /\ verdict' = phase /\ pc' = "settle"
  /\ UNCHANGED <<reading, wake, look>>

(* A one-shot wake whose contribution is found is closed on the way.       *)
GuardsFindProof ==
  /\ pc = "guards" /\ Proven(wake) # "none"
  /\ cli' = IF ~Scheduled(wake) /\ Proven(wake) = "committed_thread"
            THEN [cli EXCEPT ![wake[2]].state = "accepted"] ELSE cli
  /\ Concludes(Proven(wake))
  /\ UNCHANGED <<clocks, rows, delivery, posted, left, frozen>>

(* Cancelled since the snapshot.                                           *)
GuardsFindCancelled ==
  /\ pc = "guards" /\ Proven(wake) = "none"
  /\ Scheduled(wake) /\ Kept(wake[1]) /\ ~Current(wake)
  /\ Concludes("owner_unavailable")
  /\ UNCHANGED <<clocks, stores>>

MayLeave(w) == Scheduled(w) => Kept(w[1]) /\ Current(w)

(* The row was removed, the project or the target is refused, or the owner *)
(* is gone: no phase is stored. A one-shot wake is rejected in that last   *)
(* case only.                                                              *)
GuardsFail(gone) ==
  /\ pc = "guards" /\ Proven(wake) = "none"
  /\ Scheduled(wake) => ~Kept(wake[1]) \/ Current(wake)
  /\ Concludes(IF gone /\ ~Scheduled(wake) THEN "owner_unavailable" ELSE "error")
  /\ UNCHANGED <<clocks, stores>>

(* A pause or an agent that does not want to be disturbed: later.          *)
GuardsDefer ==
  /\ pc = "guards" /\ Proven(wake) = "none" /\ MayLeave(wake) /\ (Scheduled(wake) => ownerLives)
  /\ paused \/ ~ToThread(wake)
  /\ Concludes("deferred")
  /\ UNCHANGED <<clocks, stores>>

(* The grace of a contribution has passed since the tick began, or the     *)
(* agent of a one-shot wake sleeps; for a schedule that is a refusal.      *)
GuardsMiss ==
  /\ pc = "guards" /\ Proven(wake) = "none" /\ MayLeave(wake) /\ (Scheduled(wake) => ownerLives)
  /\ ~paused
  /\ IF ToThread(wake) THEN now >= GraceUntil(wake) ELSE ~Scheduled(wake)
  /\ Concludes("missed_before_departure")
  /\ UNCHANGED <<clocks, stores>>

(* To a thread: the command is marked, the mutex kept until the post.      *)
GuardsPost ==
  /\ pc = "guards" /\ Proven(wake) = "none" /\ MayLeave(wake) /\ (Scheduled(wake) => ownerLives)
  /\ ~paused /\ ToThread(wake) /\ now < GraceUntil(wake)
  /\ cli' = IF Scheduled(wake) THEN cli ELSE [cli EXCEPT ![wake[2]].state = "dispatching"]
  /\ pc' = "post"
  /\ UNCHANGED <<clocks, rows, delivery, posted, left, frozen, reading, item>>

(* Posting under an operation id that is committed replays its answer.     *)
PostCommits ==
  /\ pc = "post" /\ now < GraceUntil(wake)
  /\ posted' = posted \cup {wake}
  /\ left' = IF wake \in posted THEN left ELSE [left EXCEPT ![wake] = @ + 1]
  /\ verdict' = "committed_thread" /\ pc' = IF Scheduled(wake) THEN "settle" ELSE "accept"
  /\ UNCHANGED <<clocks, rows, cli, delivery, frozen, reading, wake, look>>

(* The post is refused, or too late.                                       *)
PostFails ==
  /\ pc = "post"
  /\ Concludes(IF now >= GraceUntil(wake) THEN "missed_before_departure" ELSE "error")
  /\ UNCHANGED <<clocks, stores>>

PostAccepted ==
  /\ pc = "accept" /\ pc' = "settle"
  /\ cli' = [cli EXCEPT ![wake[2]].state = "accepted"]
  /\ UNCHANGED <<clocks, rows, delivery, posted, left, frozen, reading, item>>

(* To an agent: the route is taken, the mutex given back until the         *)
(* connection can be written.                                              *)
GuardsRoute ==
  /\ pc = "guards" /\ Proven(wake) = "none" /\ MayLeave(wake) /\ (Scheduled(wake) => ownerLives)
  /\ ~paused /\ ~ToThread(wake)
  /\ pc' = "depart"
  /\ UNCHANGED <<clocks, stores, reading, item>>

\* Faulty variant: what the guards said is taken for granted.
DepartCommits_TrustsGuards ==
  /\ pc = "depart" /\ delivery[wake] = "none"
  /\ ~Scheduled(wake) => cli[wake[2]].state = "prepared"
  /\ delivery' = [delivery EXCEPT ![wake] = "dispatching"]
  /\ cli' = IF Scheduled(wake) THEN cli ELSE [cli EXCEPT ![wake[2]].state = "dispatching"]
  /\ pc' = "write"
  /\ UNCHANGED <<clocks, rows, posted, left, frozen, reading, item>>

(* The callback of the write checks everything again, then commits the     *)
(* departure.                                                              *)
DepartCommits ==
  /\ pc = "depart" /\ MayLeave(wake) /\ (Scheduled(wake) => ownerLives)
  /\ ~paused /\ now < GraceUntil(wake) /\ delivery[wake] = "none"
  /\ ~Scheduled(wake) => cli[wake[2]].state = "prepared"
  /\ delivery' = [delivery EXCEPT ![wake] = "dispatching"]
  /\ cli' = IF Scheduled(wake) THEN cli ELSE [cli EXCEPT ![wake[2]].state = "dispatching"]
  /\ pc' = "write"
  /\ UNCHANGED <<clocks, rows, posted, left, frozen, reading, item>>

(* One of these checks refuses, the target included, or the second that    *)
(* the departure has is over.                                              *)
DepartRefused ==
  /\ pc = "depart"
  /\ Concludes("deferred")
  /\ UNCHANGED <<clocks, stores>>

Writes ==
  /\ pc = "write"
  /\ left' = [left EXCEPT ![wake] = @ + 1]
  /\ Concludes("dispatching_agent")
  /\ UNCHANGED <<clocks, rows, cli, delivery, posted, frozen>>

(* An error of the write proves nothing: the frame may have arrived.       *)
WriteFails(arrived) ==
  /\ pc = "write" /\ pc' = "mark"
  /\ left' = IF arrived THEN [left EXCEPT ![wake] = @ + 1] ELSE left
  /\ UNCHANGED <<clocks, rows, cli, delivery, posted, frozen, reading, item>>

WriteMarked ==
  /\ pc = "mark"
  /\ delivery' = IF delivery[wake] = "dispatching" THEN [delivery EXCEPT ![wake] = "unknown"]
                 ELSE delivery
  /\ Concludes("dispatching_agent")
  /\ UNCHANGED <<clocks, rows, cli, posted, left, frozen>>

(* Back in the tick: the phase of the occurrence is stored, and the        *)
(* calendar jumps over the dues that passed meanwhile.                     *)
SettleSchedule ==
  LET s == wake[1]  r == snap[s]
      jumps == verdict \in Terminal /\ r.next <= at
      cal == IF jumps THEN CalculateCadence(s, r, at, zone) ELSE look.cal
      next == IF cal.next > r.next THEN cal.next ELSE r.next
  IN /\ pc = "settle" /\ Scheduled(wake)
     /\ rows' = IF verdict = "error" \/ (jumps /\ ~CalendarAvailable(s, r, at, zone)) THEN rows
                ELSE Settled(rows, s, wake[2], verdict, next, cal.ndate)
     /\ NextSchedule(s)
     /\ UNCHANGED <<clocks, cli, delivery, posted, left, frozen>>

-----------------------------------------------------------------------------
(* scheduled_wakes_tick: the one-shot wakes, page by page behind a cursor  *)
(* that starts again once nothing is left behind it.                       *)

Rank(c) == <<cli[c].issued, c>>
Before(a, b) == a[1] < b[1] \/ (a[1] = b[1] /\ a[2] < b[2])
PendingCliWakes == {c \in 1..Clis : cli[c].state \in CliPending /\ Before(cursor, Rank(c))}
FirstPage == {c \in PendingCliWakes :
                Cardinality({o \in PendingCliWakes : Before(Rank(o), Rank(c))}) < PageSize}

\* Faulty variant: the cursor never starts again.
ReadsPage_KeepsCursor ==
  /\ pc = "schedules" /\ todo = {} /\ pc' = "page"
  /\ page' = FirstPage
  /\ UNCHANGED <<clocks, stores, at, snap, todo, cursor, item>>

ReadsPage ==
  /\ pc = "schedules" /\ todo = {} /\ pc' = "page"
  /\ page' = FirstPage
  /\ cursor' = IF FirstPage = {} THEN <<None, 0>> ELSE cursor
  /\ UNCHANGED <<clocks, stores, at, snap, todo, item>>

TakesCliWake ==
  /\ pc = "page" /\ page # {} /\ pc' = "guards"
  /\ \E c \in page : /\ \A o \in page : ~Before(Rank(o), Rank(c))
                     /\ wake' = <<Cli, c>>
  /\ UNCHANGED <<clocks, stores, reading, look, verdict>>

(* finalize refuses a record that is terminal: an acknowledgement that     *)
(* came meanwhile stays.                                                   *)
SettleCli ==
  LET c == wake[2]
      result == CASE verdict \in {"missed_before_departure", "owner_unavailable"} -> "rejected"
                  [] verdict = "outcome_unknown" -> "orphaned"
                  [] OTHER -> cli[c].state
  IN /\ pc = "settle" /\ ~Scheduled(wake)
     /\ cli' = IF cli[c].state \in CliPending THEN [cli EXCEPT ![c].state = result] ELSE cli
     /\ cursor' = Rank(c) /\ page' = page \ {c} /\ pc' = "page"
     /\ wake' = NoWake /\ verdict' = "none"
     /\ UNCHANGED <<clocks, rows, delivery, posted, left, frozen, at, snap, todo, look>>

TickEnds ==
  /\ pc = "page" /\ page = {} /\ pc' = "idle"
  /\ at' = 0 /\ snap' = [s \in Schedules |-> NoRow]
  /\ UNCHANGED <<clocks, stores, todo, page, cursor, item>>

(* The daemon stops wherever it is and starts again: the two databases are *)
(* what is left.                                                           *)
DaemonRestarts ==
  /\ crashes < MaxCrashes /\ crashes' = crashes + 1
  /\ pc' = "idle" /\ at' = 0 /\ snap' = [s \in Schedules |-> NoRow]
  /\ todo' = {} /\ page' = {} /\ cursor' = <<None, 0>>
  /\ wake' = NoWake /\ look' = NoLook /\ verdict' = "none"
  /\ UNCHANGED <<now, zone, paused, ownerLives, zoneChanges, stores>>

-----------------------------------------------------------------------------
Requests ==
  \/ \E s \in Schedules : RequestSchedule(s) \/ RequestCancel(s)
  \/ \E c \in 1..Clis : RequestCliOnce(c)
  \/ \E w \in Wakes : Acknowledged(w) \/ BecomesUnknown(w)
  \/ \E W \in SUBSET Dispatching : PresencePurged(W)

Surroundings == PauseChanges \/ OwnerChanges \/ TimePasses \/ \E z \in Zones : ZoneChanges(z)

Deliver ==
  \/ GuardsFindProof \/ GuardsFindCancelled \/ GuardsDefer \/ GuardsMiss \/ GuardsPost \/ GuardsRoute
  \/ \E gone \in BOOLEAN : GuardsFail(gone)
  \/ PostCommits \/ PostFails \/ PostAccepted
  \/ DepartCommits \/ DepartRefused \/ Writes \/ WriteMarked
  \/ \E arrived \in BOOLEAN : WriteFails(arrived)

Tick ==
  \/ TickStarts \/ \E s \in Schedules : LookAtSchedule(s)
  \/ CommitEnds \/ CommitAdvances \/ CommitMissed \/ CommitResumes
  \/ \E dormant \in BOOLEAN : CommitFreezes(dormant)
  \/ Deliver \/ SettleSchedule
  \/ ReadsPage \/ TakesCliWake \/ SettleCli \/ TickEnds

Next == Requests \/ Surroundings \/ Tick \/ DaemonRestarts

Spec == Init /\ [][Next]_vars

(* The reminder thread runs the tick every second as long as the daemon    *)
(* lives, and time goes on. Nobody has to answer, cancel or unpause.       *)
FairSpec == Spec /\ WF_vars(Tick) /\ WF_vars(TimePasses)

-----------------------------------------------------------------------------
TypeOK ==
  /\ now \in Times /\ zone \in Zones /\ paused \in BOOLEAN /\ ownerLives \in BOOLEAN
  /\ rows \in [Schedules -> Rows] /\ snap \in [Schedules -> Rows]
  /\ cli \in [1..Clis -> CliRecords]
  /\ delivery \in [Wakes -> {"none", "dispatching", "acked", "unknown"}]
  /\ posted \subseteq Wakes /\ left \in [Wakes -> Nat]
  /\ frozen \in [Schedules -> SUBSET [due : Int, date : Dates \cup {None}]]
  /\ pc \in {"idle", "schedules", "commit", "missed", "guards", "post", "accept", "depart",
             "write", "mark", "settle", "page"}
  /\ at \in Times /\ todo \subseteq Schedules /\ page \subseteq 1..Clis
  /\ wake \in (Schedules \X Int) \cup CliWakes \cup {NoWake}
  /\ look \in [closed : BOOLEAN, ends : Phases, cal : Calendars]
  /\ verdict \in Phases \cup {"error"}
  /\ crashes \in 0..MaxCrashes /\ zoneChanges \in 0..MaxZoneChanges

(* An occurrence is new: its due is later than every earlier one and its   *)
(* civil date is not the one taken last, however the zone changed and      *)
(* whatever the tick had read before.                                      *)
EachDueOnce ==
  [][\A s \in Schedules :
       Pending(rows'[s]) /\ ~Pending(rows[s]) =>
         /\ \A o \in frozen[s] : o.due < rows'[s].due
         /\ s \in AtSchedules => rows'[s].pdate # rows[s].pdate]_vars

(* A civil date is taken once (docs/delegation-native.fr.md: "une seule    *)
(* occurrence par date civile", offsets between -24h and +24h). The code   *)
(* remembers the last date only, and the clock of a zone more than a day   *)
(* behind the former one goes through the date before it again.            *)
OncePerDate ==
  [][\A s \in Schedules :
       Pending(rows'[s]) /\ ~Pending(rows[s]) =>
         \A o \in frozen[s] : o.date # None => o.date # rows'[s].pdate]_vars

(* Nothing leaves for a schedule that is cancelled, whose owner is gone or *)
(* that has another occurrence, under a pause, or after the grace; the     *)
(* moment is that of the commit, not of the snapshot.                      *)
NoForbiddenDeparture ==
  [][\A w \in Wakes :
       (delivery[w] = "none" /\ delivery'[w] # "none") \/ (w \notin posted /\ w \in posted') =>
         /\ ~paused /\ now < GraceUntil(w)
         /\ Scheduled(w) => Kept(w[1]) /\ Current(w) /\ Pending(rows[w[1]]) /\ ownerLives]_vars

(* A wake leaves at most once, through any number of ticks and stops, and  *)
(* what the daemon says of it is true: confirmed and accepted wakes left,  *)
(* missed, rejected and abandoned ones never did.                          *)
VerdictIsTrue ==
  /\ \A w \in Wakes : left[w] <= 1
  /\ \A s \in Schedules : LET r == rows[s]  w == Key(s, r) IN
       /\ r.phase = "confirmed" => left[w] = 1 /\ delivery[w] = "acked"
       /\ r.phase = "committed_thread" => left[w] = 1
       /\ r.phase \in {"missed_before_departure", "owner_unavailable"} =>
            left[w] = 0 /\ delivery[w] = "none"
       /\ r.phase \in {"dispatching_agent", "outcome_unknown"} => delivery[w] # "none"
  /\ \A c \in 1..Clis : LET w == <<Cli, c>> IN
       /\ cli[c].state = "accepted" => left[w] = 1
       /\ cli[c].state = "rejected" => left[w] = 0 /\ delivery[w] = "none"
       /\ cli[c].state = "orphaned" => delivery[w] \in {"dispatching", "unknown"}

(* Every occurrence and every one-shot wake ends once its grace is over,   *)
(* whether the target, the owner or the referent lets it leave or not.     *)
EveryWakeSettles ==
  /\ \A s \in Schedules :
       (Pending(rows[s]) /\ rows[s].due + Grace <= MaxTime) ~> ~Pending(rows[s])
  /\ \A c \in 1..Clis :
       (cli[c].state \in CliPending /\ cli[c].issued + Grace <= MaxTime) ~> cli[c].state \notin CliPending
=============================================================================
