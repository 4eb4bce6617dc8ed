----------------------------- MODULE HeldQueue -----------------------------
(***************************************************************************)
(* The messages the daemon holds back for one agent that attests its turns *)
(* (turn_attest): who waits, in which order, when the next one leaves, and *)
(* the edits of the queue.                                                 *)
(*                                                                         *)
(*   durable   phase, rank   rows of send_deliveries, queue_rank           *)
(*             gate          rows with turn_gate = 1 (turn reservation)    *)
(*             request       tracked_requests of the messages with a reply *)
(*             receipts      queue_edits, by request id                    *)
(*             paused, interrupted   referent control, pending pause       *)
(*             asleep        agent_tracking.dormant                        *)
(*   volatile  pres          the agent's presence                          *)
(*             refused       its Register was refused, the rest was kept   *)
(*             heldIds, tracked      held_ids and pending_replies          *)
(*             lock          the handler that holds the State mutex        *)
(*   history   left          how a message got past the queue              *)
(*             cycle         what was reserved since a turn was last seen  *)
(*                                                                         *)
(* Time is a set of flags that only age: lapsed (the send expired), aged   *)
(* (acknowledged for more than 30 s), the freshness of the attestation (90 *)
(* s) and the length of the busy period. What the wrapper does with a      *)
(* pushed message is module Delivery's business; here its signals (turn    *)
(* state, acknowledgement, indeterminacy) come at any time.                *)
(***************************************************************************)
EXTENDS Naturals, FiniteSets

CONSTANTS Messages,      \* messages to the agent, one delivery each
          Replies,       \* those that expect a reply
          Unqueueable,   \* those never held: steering, missions, wakes, notices, the
                         \* human's outside the mobile API; all but the Mobile ones
                         \* when the type has no held_queue or the transport is t3code
          Mobile,        \* those of a human through the mobile API, without intent
          Resumes,       \* restarts of an execution that a pause interrupted
          EditIds,       \* request ids of queue edits
          Capacity,      \* queue_capacity of the agent type
          MobileCapacity, \* the capacity a mobile message meets (32)
          MaxPauses,     \* bound of the model: pauses of the control, sleeps of the agent
          MaxLapses,     \* bound of the model: sends that expire before they are over
          MaxFaults      \* bound of the model: lost connections, purges, restarts,
                         \* refused registrations

ASSUME HeldQueueConstants ==
  /\ Replies \subseteq Messages /\ Unqueueable \subseteq Messages
  /\ Resumes \subseteq Unqueueable \ Replies
  /\ Mobile \subseteq Messages \ (Replies \cup Unqueueable)
  /\ Capacity \in Nat /\ MobileCapacity \in Nat /\ MaxPauses \in Nat
  /\ MaxLapses \in Nat /\ MaxFaults \in Nat

VARIABLES phase, rank, nextRank, gate, request, lapsed, aged, receipts,
          paused, interrupted, asleep, pres, refused, heldIds, tracked, lock,
          left, cycle, pauses, faults

rows    == <<phase, rank, nextRank, gate>>
clocks  == <<lapsed, aged>>
link    == <<pres, refused>>
control == <<paused, interrupted, asleep, pauses>>
memory  == <<heldIds, tracked>>
history == <<left, cycle>>
vars == <<phase, rank, nextRank, gate, request, lapsed, aged, receipts,
          paused, interrupted, asleep, pres, refused, heldIds, tracked, lock,
          left, cycle, pauses, faults>>

Phases == {"unsent", "refused", "held", "dispatching", "acked", "indeterminate",
           "orphaned", "cancelled"}
Presences == [state : {"absent", "unreachable", "connected", "busy"},
              attest : {"fresh", "stale"}, period : {"none", "short", "long"}]
Absent == [state |-> "absent", attest |-> "stale", period |-> "none"]
Departures == {"no", "bypass", "direct", "released", "promoted", "withdrawn"}

InPhase(ph) == {m \in Messages : phase[m] = ph}
Held == InPhase("held")
Routed(p) == p.state \in {"connected", "busy"}
Idle == lock = "free"

Init == /\ phase = [m \in Messages |-> "unsent"]
        /\ rank = [m \in Messages |-> 0] /\ nextRank = 1
        /\ gate = {} /\ lapsed = {} /\ aged = {} /\ receipts = {}
        /\ request = [m \in Messages |-> "none"]
        /\ paused = FALSE /\ interrupted = FALSE /\ asleep = FALSE /\ pauses = 0
        /\ pres = Absent /\ refused = FALSE /\ heldIds = {} /\ tracked = {} /\ lock = "free"
        /\ left = [m \in Messages |-> "no"] /\ cycle = {}
        /\ faults = 0

-----------------------------------------------------------------------------
(* Admission.                                                              *)

(* should_hold, and mobile_hold for a human's message.                     *)
ShouldHold(m) == m \notin Unqueueable /\ (pres.state = "busy" \/ Held # {})

(* Each kind of message has its own limit on the whole queue.              *)
QueueFull(m) ==
  Cardinality(Held) >= IF m \in Mobile THEN MobileCapacity ELSE Capacity

(* The row, its rank and the tracked request of a message, in one          *)
(* transaction; then the daemon's memory.                                  *)
Inserted(m, ph) ==
  /\ phase' = [phase EXCEPT ![m] = ph]
  /\ rank' = [rank EXCEPT ![m] = nextRank] /\ nextRank' = nextRank + 1
  /\ request' = [request EXCEPT ![m] = IF m \in Replies THEN "open" ELSE @]
  /\ tracked' = tracked \cup ({m} \cap Replies)

SendHeld(m) ==
  /\ Idle /\ Routed(pres) /\ phase[m] = "unsent"
  /\ ShouldHold(m) /\ ~QueueFull(m)
  /\ Inserted(m, "held")
  /\ heldIds' = heldIds \cup {m}
  /\ UNCHANGED <<gate, clocks, receipts, control, link, lock, history, faults>>

SendRefused(m) ==
  /\ Idle /\ Routed(pres) /\ phase[m] = "unsent"
  /\ ShouldHold(m) /\ QueueFull(m)
  /\ phase' = [phase EXCEPT ![m] = "refused"]
  /\ UNCHANGED <<rank, nextRank, gate, request, clocks, receipts, control, link,
                 memory, lock, history, faults>>

SendDirect(m) ==
  /\ Idle /\ Routed(pres) /\ phase[m] = "unsent" /\ m \notin Resumes
  /\ ~ShouldHold(m)
  /\ Inserted(m, "dispatching")
  /\ left' = [left EXCEPT ![m] = IF m \in Unqueueable THEN "bypass" ELSE "direct"]
  /\ UNCHANGED <<gate, clocks, receipts, control, link, heldIds, lock, cycle, faults>>

-----------------------------------------------------------------------------
(* Leaving the queue.                                                      *)

(* The send expired, or nobody waits for the reply any more.               *)
Closed(m) == m \in lapsed \/ (m \in Replies /\ request[m] # "open")

\* Faulty variant: the request of a withdrawn message stays open.
Settled_RequestLeftOpen(M) ==
  /\ phase' = [m \in Messages |-> IF m \in M THEN "cancelled" ELSE phase[m]]
  /\ heldIds' = heldIds \ M /\ tracked' = tracked \ M
  /\ left' = [m \in Messages |-> IF m \in M THEN "withdrawn" ELSE left[m]]
  /\ UNCHANGED request

\* Faulty variant: a phase that the CHECK of the table does not know.
Settled_UnknownPhase(M) ==
  /\ phase' = [m \in Messages |-> IF m \in M THEN "expired" ELSE phase[m]]
  /\ request' = [m \in Messages |->
                   IF m \in M /\ request[m] # "none" THEN "closed" ELSE request[m]]
  /\ heldIds' = heldIds \ M /\ tracked' = tracked \ M
  /\ left' = [m \in Messages |-> IF m \in M THEN "withdrawn" ELSE left[m]]

(* settle_held_in_transaction: the message, its request (timed out or      *)
(* cancelled, if it was still open), then the daemon's memory.             *)
Settled(M) ==
  /\ phase' = [m \in Messages |-> IF m \in M THEN "cancelled" ELSE phase[m]]
  /\ request' = [m \in Messages |->
                   IF m \in M /\ request[m] # "none" THEN "closed" ELSE request[m]]
  /\ heldIds' = heldIds \ M /\ tracked' = tracked \ M
  /\ left' = [m \in Messages |-> IF m \in M THEN "withdrawn" ELSE left[m]]

(* held -> dispatching with the turn reservation, committed before the     *)
(* push; a push that cannot be built quarantines the delivery.             *)
Pushed(m, how) ==
  /\ \/ /\ phase' = [phase EXCEPT ![m] = "dispatching"]
        /\ gate' = {m} /\ cycle' = cycle \cup {m}
     \/ /\ phase' = [phase EXCEPT ![m] = "indeterminate"]
        /\ gate' = {} /\ UNCHANGED cycle
  /\ heldIds' = heldIds \ {m}
  /\ left' = [left EXCEPT ![m] = how]
  /\ UNCHANGED <<request, tracked>>

(* An attested rest, or the forced exit of a busy period nobody attests.   *)
Resting(p) ==
  /\ p.state = "connected"
  /\ \/ p.attest = "fresh" /\ p.period = "none"
     \/ p.attest = "stale" /\ p.period = "long"

\* Faulty variant: the oldest row is not looked for.
IsNext_Any(m) == m \in Held

IsNext(m) == m \in Held /\ \A x \in Held : rank[m] <= rank[x]

(* schedule_held_release, called by handlers that leave the presence p and *)
(* the pause flag deferred: at most one message leaves. Reservations       *)
(* acknowledged for more than 30 s are dropped on the way, unless another  *)
(* one stops the transaction. An agent asleep is sent nothing from here.   *)
ReleaseNext(p, deferred) ==
  /\ UNCHANGED <<rank, nextRank>>
  /\ LET open == ~asleep /\ Resting(p) /\ ~deferred /\ gate \subseteq aged
     IN \/ /\ ~open
           /\ UNCHANGED <<phase, gate, request, memory, history>>
        \/ /\ open /\ Held = {}
           /\ gate' = {}
           /\ UNCHANGED <<phase, request, memory, history>>
        \/ /\ open
           /\ \E m \in Messages :
                /\ IsNext(m)
                /\ \/ Closed(m) /\ Settled({m}) /\ gate' = {} /\ UNCHANGED cycle
                   \/ ~Closed(m) /\ Pushed(m, "released")

-----------------------------------------------------------------------------
(* The agent's presence.                                                   *)

(* TurnState true: a turn is seen, so what was reserved has started.       *)
TurnBegins ==
  /\ Idle /\ Routed(pres) /\ ~refused
  /\ gate' = {} /\ cycle' = {}
  /\ pres' = [state |-> "busy", attest |-> "fresh",
              period |-> IF pres.period = "none" THEN "short" ELSE pres.period]
  /\ UNCHANGED <<phase, rank, nextRank, request, clocks, receipts, control, refused,
                 memory, lock, left, faults>>

\* Faulty variant: the restarted execution reserves no turn.
Resumed_WithoutGate(m) ==
  /\ interrupted /\ phase[m] = "unsent"
  /\ Inserted(m, "dispatching")
  /\ cycle' = cycle \cup (IF Held # {} THEN {m} ELSE {})
  /\ left' = [left EXCEPT ![m] = "bypass"]
  /\ interrupted' = FALSE
  /\ UNCHANGED <<gate, heldIds>>

(* resume_executions_after_pause: the restarted execution goes first, with *)
(* a reservation when messages are held.                                   *)
Resumed(m) ==
  /\ interrupted /\ phase[m] = "unsent"
  /\ Inserted(m, "dispatching")
  /\ gate' = gate \cup (IF Held # {} THEN {m} ELSE {})
  /\ cycle' = cycle \cup (IF Held # {} THEN {m} ELSE {})
  /\ left' = [left EXCEPT ![m] = "bypass"]
  /\ interrupted' = FALSE
  /\ UNCHANGED heldIds

(* The execution of another agent is restarted instead.                    *)
ResumedElsewhere ==
  /\ pauses > 0
  /\ UNCHANGED <<rows, request, memory, history, interrupted>>

(* TurnState false: a resumption if one waits, else a release.             *)
TurnEnds ==
  /\ Idle /\ Routed(pres) /\ ~refused
  /\ pres' = [state |-> "connected", attest |-> "fresh", period |-> "none"]
  /\ \/ ~paused /\ \E m \in Resumes : Resumed(m)
     \/ ~paused /\ ResumedElsewhere
     \/ ReleaseNext(pres', paused \/ interrupted) /\ UNCHANGED interrupted
  /\ UNCHANGED <<clocks, receipts, paused, asleep, pauses, refused, lock, faults>>

(* The turn of another agent ends: its handler looks for every pending     *)
(* resumption.                                                             *)
OtherTurnEnds ==
  /\ Idle /\ pres.state = "connected" /\ ~paused
  /\ \E m \in Resumes : Resumed(m)
  /\ UNCHANGED <<clocks, receipts, paused, asleep, pauses, link, lock, faults>>

(* An execution of the agent reaches a terminal state: only a release, for *)
(* this does not attest that the agent rests.                              *)
ExecutionEnds ==
  /\ Idle
  /\ ReleaseNext(pres, paused \/ interrupted)
  /\ UNCHANGED <<clocks, receipts, control, link, lock, faults>>

(* The presence and the route a Register sets up before anything else.     *)
Attested(inProgress) ==
  /\ Idle /\ ~Routed(pres)
  /\ pres' = [state |-> IF inProgress THEN "busy" ELSE "connected", attest |-> "fresh",
              period |-> IF inProgress THEN "short" ELSE "none"]

\* Faulty variant: the rows in flight are adopted without their reservation.
Register_AdoptsWithoutGate(inProgress, A, Q, online) ==
  /\ Attested(inProgress)
  /\ A \cup Q \subseteq InPhase("dispatching") \ lapsed
  /\ phase' = [m \in Messages |-> IF m \in Q THEN "indeterminate" ELSE phase[m]]
  /\ gate' = gate \ Q /\ cycle' = cycle \cup A
  /\ tracked' = IF online THEN tracked \cup {m \in Messages : request[m] \in {"open", "late"}}
                ELSE tracked
  /\ lock' = "registered"
  /\ UNCHANGED <<rank, nextRank, request, clocks, receipts, control, refused, heldIds,
                 left, faults>>

\* Faulty variant: the refused recovery keeps the reservation it was adopted with.
Register_KeepsRefusedGate(inProgress, A, Q, online) ==
  /\ Attested(inProgress)
  /\ A \cup Q \subseteq InPhase("dispatching") \ lapsed
  /\ phase' = [m \in Messages |-> IF m \in Q THEN "indeterminate" ELSE phase[m]]
  /\ gate' = (gate \ Q) \cup A /\ cycle' = cycle \cup A
  /\ tracked' = IF online THEN tracked \cup {m \in Messages : request[m] \in {"open", "late"}}
                ELSE tracked
  /\ lock' = "registered"
  /\ UNCHANGED <<rank, nextRank, request, clocks, receipts, control, refused, heldIds,
                 left, faults>>

(* Register: the held messages are adopted, and so are the rows A in       *)
(* flight, each with a turn reservation (those of an earlier instance,     *)
(* when the type recovers them). Q is the part of the recovery that is     *)
(* refused. The requests of a sender that is online are tracked again.     *)
Register(inProgress, A, Q, online) ==
  /\ Attested(inProgress)
  /\ A \cup Q \subseteq InPhase("dispatching") \ lapsed
  /\ phase' = [m \in Messages |-> IF m \in Q THEN "indeterminate" ELSE phase[m]]
  /\ gate' = (gate \cup A) \ Q /\ cycle' = cycle \cup A
  /\ tracked' = IF online THEN tracked \cup {m \in Messages : request[m] \in {"open", "late"}}
                ELSE tracked
  /\ lock' = "registered"
  /\ UNCHANGED <<rank, nextRank, request, clocks, receipts, control, refused, heldIds,
                 left, faults>>

(* The adoption fails: the Register is refused, while the presence and the *)
(* route stay. The wrapper leaves without another word.                    *)
RegisterRefused(inProgress) ==
  /\ faults < MaxFaults /\ faults' = faults + 1
  /\ Attested(inProgress)
  /\ refused' = TRUE
  /\ UNCHANGED <<rows, request, clocks, receipts, control, memory, lock, history>>

(* The end of the handler: the release of                                  *)
(* schedule_idempotent_delivery_recovery, then the resumption of           *)
(* schedule_execution_recovery, which only finds something to do when an   *)
(* interruption made that release wait.                                    *)
RegisterEnds ==
  /\ lock = "registered" /\ lock' = "free"
  /\ \/ ~paused /\ pres.state = "connected" /\ \E m \in Resumes : Resumed(m)
     \/ ReleaseNext(pres, paused \/ interrupted) /\ UNCHANGED interrupted
  /\ UNCHANGED <<clocks, receipts, paused, asleep, pauses, link, faults>>

(* Sooner or later for a wrapper that was refused.                         *)
Disconnect ==
  /\ Idle /\ Routed(pres) /\ (refused \/ faults < MaxFaults)
  /\ faults' = IF refused THEN faults ELSE faults + 1
  /\ pres' = [pres EXCEPT !.state = "unreachable"] /\ refused' = FALSE
  /\ UNCHANGED <<rows, request, clocks, receipts, control, memory, lock, history>>

(* release_stale_busy_turns: busy, unattested and too long.                *)
BusyTurnGivenUp ==
  /\ Idle
  /\ pres.state = "busy" /\ pres.attest = "stale" /\ pres.period = "long"
  /\ pres' = [pres EXCEPT !.state = "connected"]
  /\ UNCHANGED <<rows, request, clocks, receipts, control, refused, memory, lock, history,
                 faults>>

(* orphan_dispatching_for_instance: the held messages, and those in flight *)
(* to the purged instance. The daemon's memory is left alone.              *)
PurgePresence(D) ==
  /\ Idle /\ pres.state # "absent" /\ faults < MaxFaults
  /\ faults' = faults + 1
  /\ D \subseteq InPhase("dispatching")
  /\ phase' = [m \in Messages |-> IF m \in Held \cup D THEN "orphaned" ELSE phase[m]]
  /\ left' = [m \in Messages |-> IF m \in Held THEN "withdrawn" ELSE left[m]]
  /\ gate' = gate \ D
  /\ pres' = Absent /\ refused' = FALSE
  /\ UNCHANGED <<rank, nextRank, request, clocks, receipts, control, memory, lock, cycle>>

-----------------------------------------------------------------------------
(* Signals of the wrapper about a message in flight.                       *)

AckArrives(m) ==
  /\ Idle /\ Routed(pres) /\ ~refused /\ phase[m] = "dispatching"
  /\ phase' = [phase EXCEPT ![m] = "acked"]
  /\ UNCHANGED <<rank, nextRank, gate, request, clocks, receipts, control, link, memory,
                 lock, history, faults>>

\* Faulty variant: the quarantine forgets the reservation.
BecomesIndeterminate_KeepsGate(m) ==
  /\ Idle /\ Routed(pres) /\ ~refused /\ phase[m] = "dispatching"
  /\ phase' = [phase EXCEPT ![m] = "indeterminate"]
  /\ UNCHANGED <<rank, nextRank, gate, request, clocks, receipts, control, link, memory,
                 lock, history, faults>>

BecomesIndeterminate(m) ==
  /\ Idle /\ Routed(pres) /\ ~refused /\ phase[m] = "dispatching"
  /\ phase' = [phase EXCEPT ![m] = "indeterminate"]
  /\ gate' = gate \ {m}
  /\ UNCHANGED <<rank, nextRank, request, clocks, receipts, control, link, memory,
                 lock, history, faults>>

(* The request is answered, cancelled or timed out; the entry of a timeout *)
(* stays in pending_replies for a while.                                   *)
RequestCloses(m) ==
  /\ Idle /\ request[m] \in {"open", "late"}
  /\ request' = [request EXCEPT ![m] = "closed"]
  /\ tracked' \in {tracked, tracked \ {m}}
  /\ UNCHANGED <<rows, clocks, receipts, control, link, heldIds, lock, history, faults>>

(* ... unless the message is believed held. *)
TrackingEnds(m) ==
  /\ Idle /\ m \in tracked \ heldIds /\ request[m] = "closed"
  /\ tracked' = tracked \ {m}
  /\ UNCHANGED <<rows, request, clocks, receipts, control, link, heldIds, lock, history,
                 faults>>

-----------------------------------------------------------------------------
(* The reminder tick (a release, then a sweep) and the maintenance pass (a *)
(* sweep, then the settlement of what expired in flight), both under the   *)
(* mutex from beginning to end.                                            *)

ReminderTick ==
  /\ Idle /\ lock' = "tick"
  /\ ReleaseNext(pres, paused \/ interrupted)
  /\ UNCHANGED <<clocks, receipts, control, link, faults>>

(* A pass that finds nothing to settle changes nothing. *)
MaintenanceStarts ==
  /\ Idle /\ lock' = "maintain"
  /\ \/ \E m \in Held : Closed(m)
     \/ InPhase("dispatching") \cap lapsed # {}
  /\ UNCHANGED <<rows, request, clocks, receipts, control, link, memory, history, faults>>

SweepHeld(m) ==
  /\ lock \in {"tick", "maintain"}
  /\ m \in Held /\ Closed(m)
  /\ Settled({m})
  /\ UNCHANGED <<rank, nextRank, gate, clocks, receipts, control, link, lock, cycle, faults>>

SweepEnds ==
  /\ lock \in {"tick", "maintain"}
  /\ \A m \in Held : ~Closed(m)
  /\ LET E == IF lock = "tick" THEN {} ELSE InPhase("dispatching") \cap lapsed
     IN /\ phase' = [m \in Messages |-> IF m \in E THEN "indeterminate" ELSE phase[m]]
        /\ gate' = gate \ E
  /\ lock' = "free"
  /\ UNCHANGED <<rank, nextRank, request, clocks, receipts, control, link, memory, history, faults>>

-----------------------------------------------------------------------------
(* Edits of the queue: a request id takes effect once, later calls read    *)
(* the receipt.                                                            *)

(* Not held, reserved, paused, no active turn, no queue fallback; also a   *)
(* reordering that leaves the list as it is.                               *)
EditRefused(r) ==
  /\ Idle /\ r \notin receipts
  /\ receipts' = receipts \cup {r}
  /\ UNCHANGED <<rows, request, clocks, control, link, memory, lock, history, faults>>

EditCancels(r, m) ==
  /\ Idle /\ r \notin receipts
  /\ receipts' = receipts \cup {r}
  /\ m \in Held
  /\ Settled({m})
  /\ UNCHANGED <<rank, nextRank, gate, clocks, control, link, lock, cycle, faults>>

\* Faulty variant: the message lands behind its mark.
ComesBefore_AfterMark(x, y, m, b) ==
  IF x = m THEN b # m /\ rank[b] < rank[y] /\ y # b
  ELSE IF y = m THEN b = m \/ rank[x] <= rank[b]
  ELSE rank[x] < rank[y]

(* The order once m has been taken out and put back right before b, or at  *)
(* the end (b = m stands for no mark).                                     *)
ComesBefore(x, y, m, b) ==
  IF x = m THEN b # m /\ rank[b] <= rank[y]
  ELSE IF y = m THEN b = m \/ rank[x] < rank[b]
  ELSE rank[x] < rank[y]

(* The held rows exchange their ranks to follow the new order; no other    *)
(* row moves.                                                              *)
EditReorders(r, m, b) ==
  /\ Idle /\ r \notin receipts
  /\ receipts' = receipts \cup {r}
  /\ m \in Held /\ b \in Held
  /\ \E new \in [Held -> {rank[x] : x \in Held}] :
       /\ \A x, y \in Held : x # y => (new[x] < new[y] <=> ComesBefore(x, y, m, b))
       /\ rank' = [x \in Messages |-> IF x \in Held THEN new[x] ELSE rank[x]]
  /\ UNCHANGED <<phase, nextRank, gate, request, clocks, control, link, memory, lock,
                 history, faults>>

(* A promotion finds the message expired: withdrawn, the edit refused.     *)
EditFindsClosed(r, m) ==
  /\ Idle /\ r \notin receipts
  /\ receipts' = receipts \cup {r}
  /\ m \in Held /\ Closed(m)
  /\ Settled({m})
  /\ UNCHANGED <<rank, nextRank, gate, clocks, control, link, lock, cycle, faults>>

(* apply_promote: into the turn that is being attested; a human may do so  *)
(* during a pause.                                                         *)
EditPromotes(r, m, human) ==
  /\ Idle /\ r \notin receipts
  /\ receipts' = receipts \cup {r}
  /\ m \in Held /\ ~Closed(m) /\ gate = {}
  /\ human \/ ~(paused \/ interrupted)
  /\ pres.state = "busy" /\ pres.attest = "fresh"
  /\ Pushed(m, "promoted")
  /\ UNCHANGED <<rank, nextRank, clocks, control, link, lock, faults>>

-----------------------------------------------------------------------------
(* Pause of the referent control, time, restart.                           *)

Pause(active) ==
  /\ Idle /\ ~paused /\ pauses < MaxPauses
  /\ paused' = TRUE /\ pauses' = pauses + 1
  /\ interrupted' = (interrupted \/ active)
  /\ UNCHANGED <<rows, request, clocks, receipts, asleep, link, memory, lock, history, faults>>

Unpause ==
  /\ Idle /\ paused
  /\ paused' = FALSE
  /\ \/ pres.state = "connected" /\ \E m \in Resumes : Resumed(m)
     \/ ResumedElsewhere
     \/ ReleaseNext(pres, interrupted) /\ UNCHANGED interrupted
  /\ UNCHANGED <<clocks, receipts, asleep, pauses, link, lock, faults>>

AbandonInterruption ==
  /\ Idle /\ interrupted
  /\ interrupted' = FALSE
  /\ UNCHANGED <<rows, request, clocks, receipts, paused, asleep, pauses, link, memory, lock,
                 history, faults>>

(* agent_tracking: the user puts the agent to sleep, or wakes it. No       *)
(* release follows, the next tick makes it.                                *)
SleepChanges ==
  /\ Idle /\ (asleep \/ pauses < MaxPauses)
  /\ asleep' = ~asleep /\ pauses' = IF asleep THEN pauses ELSE pauses + 1
  /\ UNCHANGED <<rows, request, clocks, receipts, paused, interrupted, link, memory, lock,
                 history, faults>>

(* The expiry of a send that is over changes nothing any more.             *)
Lapse(m) ==
  /\ phase[m] \in {"held", "dispatching"} /\ m \notin lapsed
  /\ Cardinality(lapsed) < MaxLapses
  /\ lapsed' = lapsed \cup {m}
  /\ UNCHANGED <<rows, request, aged, receipts, control, link, memory, lock, history, faults>>

DeadlinePasses(m) ==
  /\ request[m] = "open"
  /\ request' = [request EXCEPT ![m] = "late"]
  /\ UNCHANGED <<rows, clocks, receipts, control, link, memory, lock, history, faults>>

(* Only the age of a reservation is ever read.                             *)
AckAges(m) ==
  /\ phase[m] = "acked" /\ m \in gate \ aged
  /\ aged' = aged \cup {m}
  /\ UNCHANGED <<rows, request, lapsed, receipts, control, link, memory, lock, history, faults>>

(* Nobody reads the ages of the presence of an agent that is away.         *)
PresenceAges ==
  /\ Routed(pres)
  /\ \/ pres.attest = "fresh" /\ pres' = [pres EXCEPT !.attest = "stale"]
     \/ pres.period = "short" /\ pres' = [pres EXCEPT !.period = "long"]
  /\ UNCHANGED <<rows, request, clocks, receipts, control, refused, memory, lock, history,
                 faults>>

\* Faulty variant: held_ids starts empty.
DaemonRestarts_ForgetsHeld ==
  /\ faults < MaxFaults
  /\ faults' = faults + 1
  /\ pres' = Absent /\ refused' = FALSE /\ lock' = "free"
  /\ heldIds' = {} /\ tracked' = {}
  /\ UNCHANGED <<rows, request, clocks, receipts, control, history>>

(* held_ids is rebuilt from the database; the presences and the tracked    *)
(* replies come back with the registrations.                               *)
DaemonRestarts ==
  /\ faults < MaxFaults
  /\ faults' = faults + 1
  /\ pres' = Absent /\ refused' = FALSE /\ lock' = "free"
  /\ heldIds' = Held /\ tracked' = {}
  /\ UNCHANGED <<rows, request, clocks, receipts, control, history>>

-----------------------------------------------------------------------------
SendStep == \E m \in Messages : SendHeld(m) \/ SendRefused(m) \/ SendDirect(m)

SessionStep ==
  \/ TurnBegins \/ TurnEnds \/ OtherTurnEnds \/ ExecutionEnds \/ RegisterEnds
  \/ Disconnect \/ BusyTurnGivenUp
  \/ \E inProgress \in BOOLEAN : RegisterRefused(inProgress)
  \/ \E inProgress, online \in BOOLEAN : \E A \in SUBSET InPhase("dispatching") :
       \E Q \in SUBSET InPhase("dispatching") : Register(inProgress, A, Q, online)
  \/ \E D \in SUBSET InPhase("dispatching") : PurgePresence(D)

ReportStep == \E m \in Messages :
  AckArrives(m) \/ BecomesIndeterminate(m) \/ RequestCloses(m) \/ TrackingEnds(m)

SweepStep == SweepEnds \/ \E m \in Messages : SweepHeld(m)

EditStep == \E r \in EditIds :
  \/ EditRefused(r)
  \/ \E m \in Messages : \/ EditCancels(r, m) \/ EditFindsClosed(r, m)
                         \/ \E human \in BOOLEAN : EditPromotes(r, m, human)
                         \/ \E b \in Messages : EditReorders(r, m, b)

ControlStep == Unpause \/ AbandonInterruption \/ SleepChanges \/ \E active \in BOOLEAN : Pause(active)

TimeStep == PresenceAges \/ \E m \in Messages : Lapse(m) \/ DeadlinePasses(m) \/ AckAges(m)

Next == \/ SendStep \/ SessionStep \/ ReportStep
        \/ ReminderTick \/ MaintenanceStarts \/ SweepStep
        \/ EditStep \/ ControlStep \/ TimeStep \/ DaemonRestarts

Spec == Init /\ [][Next]_vars

(* The agent is registered again after a fault, a wrapper that was refused *)
(* leaves (it closes its socket on the Nack), turns end and the agent says *)
(* so (it attests at least every 30 s), it acknowledges or refuses what it *)
(* is sent, the clock goes on and a handler runs to its end. The fairness  *)
(* is strong where the handler has to get the mutex from the others.       *)
Fairness ==
  /\ SF_vars(SessionStep /\ lock' = "registered")
  /\ SF_vars(refused /\ Disconnect)
  /\ SF_vars(TurnEnds)
  /\ WF_vars(RegisterEnds) /\ WF_vars(SweepStep)
  /\ \A m \in Messages : /\ SF_vars(AckArrives(m) \/ BecomesIndeterminate(m))
                         /\ WF_vars(AckAges(m))

FairSpec == Spec /\ Fairness

-----------------------------------------------------------------------------
(* Properties.                                                             *)

(* Every variable keeps its type (the columns of send_deliveries and the   *)
(* fields of Presence).                                                    *)
TypeOK ==
  /\ phase \in [Messages -> Phases]
  /\ rank \in [Messages -> Nat] /\ nextRank \in Nat
  /\ gate \subseteq Messages /\ lapsed \subseteq Messages /\ aged \subseteq Messages
  /\ request \in [Messages -> {"none", "open", "late", "closed"}]
  /\ receipts \subseteq EditIds
  /\ paused \in BOOLEAN /\ interrupted \in BOOLEAN /\ asleep \in BOOLEAN /\ pauses \in Nat
  /\ pres \in Presences /\ refused \in BOOLEAN
  /\ heldIds \subseteq Messages /\ tracked \subseteq Messages
  /\ lock \in {"free", "registered", "tick", "maintain"}
  /\ left \in [Messages -> Departures] /\ cycle \subseteq Messages
  /\ faults \in Nat

(* The queue never outgrows its limits, whatever registrations and edits   *)
(* do to it: the messages that are not mobile keep to the capacity of the  *)
(* agent type, the whole to the larger of that and the mobile one          *)
(* (begin_send_delivery).                                                  *)
WithinCapacity ==
  /\ Cardinality(Held \ Mobile) <= Capacity
  /\ Cardinality(Held) <= Capacity \/ Cardinality(Held) <= MobileCapacity

(* A message in flight, or acknowledged so recently that its turn may      *)
(* still be to come.                                                       *)
Outstanding(m) == phase[m] = "dispatching" \/ (phase[m] = "acked" /\ m \notin aged)

(* At most one departure per turn: nothing leaves the queue while what was *)
(* let through since the last turn began, or was adopted in flight from an *)
(* earlier instance, is outstanding, also across restarts and              *)
(* reconnections (turn_gate).                                              *)
OneDeparturePerTurn ==
  [][\A m \in Messages : phase[m] = "held" /\ phase'[m] = "dispatching"
       => \A x \in cycle : ~Outstanding(x)]_vars

(* The order of those who wait only changes by a reordering: whoever waits *)
(* stays before those who came later or stood behind, through              *)
(* registrations of other instances, refusals, purges and restarts         *)
(* (queue_rank).                                                           *)
OrderIsKept ==
  [][\A x, y \in Messages :
       /\ phase[x] = "held" /\ phase'[x] = "held" /\ phase'[y] = "held" /\ x # y
       /\ phase[y] = "held" => rank[x] < rank[y]
       => \/ rank'[x] < rank'[y]
          \/ \E r \in EditIds : \E m, b \in Messages : EditReorders(r, m, b)]_vars

(* A reservation is always one that something ends: a turn, a report or    *)
(* the 30 seconds after an acknowledgement. No settled delivery keeps the  *)
(* queue shut (every UPDATE of phase that resets turn_gate).               *)
NoReservationIsStuck ==
  \A m \in gate : phase[m] \in {"dispatching", "acked"}

(* The agent is never reminded of a request it was not given yet: a held   *)
(* request is filtered from the reminders, also after a restart            *)
(* (collect_reminder_actions, held_ids).                                   *)
HeldIsNotReminded == Held \cap tracked \subseteq heldIds

(* A withdrawn message leaves nobody waiting: its request is closed, in    *)
(* the database and in memory, for good (settle_held_in_transaction).      *)
WithdrawnIsForgotten ==
  \A m \in Messages : phase[m] = "cancelled" =>
    request[m] \in {"none", "closed"} /\ m \notin tracked \cup heldIds

(* held_ids is what its comment says, the ids of the messages held.        *)
HeldIdsAreHeld == heldIds = Held

(* Without pauses, an agent that keeps attesting its turns empties its     *)
(* queue: no message waits for ever behind a reservation.                  *)
EveryHeldLeaves == \A m \in Messages : phase[m] = "held" ~> phase[m] # "held"
=============================================================================
