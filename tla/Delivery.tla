------------------------------ MODULE Delivery ------------------------------
(***************************************************************************)
(* The idempotent send of Bridget, end to end, for the messages addressed  *)
(* to ONE agent: from the client's key, through the daemon's SQLite        *)
(* records and deliveries, over a socket that may break, to the wrapper's  *)
(* durable receipts and the provider's prompt, and back.                   *)
(*                                                                         *)
(*   daemon, durable   rec     idempotency_records, one row per key        *)
(*                     dlv     send_deliveries, one row per delivery_id    *)
(*                     notice  orphan_emitter_notices, per delivery_id     *)
(*                     captured  replies retained by the delegation store  *)
(*   daemon, volatile  conn, presence   route and presence of the agent    *)
(*                     refused          the route was set by a Register    *)
(*                                      that ended in a Nack               *)
(*                     lock, req        the handler holding the State mutex*)
(*                     resolved         reports between two holds of it    *)
(*   sockets           toWrapper, toDaemon                                 *)
(*   wrapper, durable  receipt  one file per (instance, delivery_id)       *)
(*   wrapper, volatile up, pending                                         *)
(*   history           injected[i][d]  times prompt d entered instance i   *)
(*                                                                         *)
(* Every handler of the daemon runs under the State mutex; each of its     *)
(* SQLite transactions is one action here, so that the daemon may stop     *)
(* between any two of them. Wrapper steps interleave with all of this.     *)
(* The order of the held queue and its turn gate are in module HeldQueue;  *)
(* here a held delivery is just one that has not been pushed yet.          *)
(***************************************************************************)
EXTENDS Naturals, FiniteSets

CONSTANTS Keys,               \* idempotency keys of the issuing clients
          Missions,           \* keys whose message is a native mission
          Envelopes,          \* canonical contents a client may put behind a key
          Deliveries,         \* delivery_id values (UUIDs drawn by the daemon)
          Instances,          \* wrapper instance ids of the recipient agent
          None,
          Horizon,            \* CLIENT_IDEMPOTENCY_HORIZON_SECS
          Tolerance,          \* CLIENT_ISSUED_AT_TOLERANCE_SECS
          Grace,              \* SEND_PURGE_GRACE_SECS
          RecoverDispatching, \* the agent's definition enables held_queue recovery
          MaxReceipts,        \* ReceiptQuota.max_entries
          MaxTime,            \* bound of the model: last instant of the clock
          MaxCrashes          \* bound of the model: daemon and wrapper crashes

ASSUME DeliveryConstants ==
  /\ Horizon \in Nat \ {0} /\ Tolerance \in Nat /\ Grace \in Nat
  /\ MaxTime \in Nat /\ MaxCrashes \in Nat /\ MaxReceipts \in Nat
  /\ RecoverDispatching \in BOOLEAN
  /\ Missions \subseteq Keys
  /\ None \notin Keys \cup Envelopes \cup Instances

VARIABLES now, rec, dlv, notice, captured, conn, presence, refused, lock, req,
          resolved, toWrapper, toDaemon, receipt, up, pending, injected, crashes

durable  == <<rec, dlv, notice, captured>>
session  == <<conn, presence, refused>>
handler  == <<lock, req, resolved>>
sockets  == <<toWrapper, toDaemon>>
wrapper  == <<receipt, up, pending, injected>>
vars == <<now, rec, dlv, notice, captured, conn, presence, refused, lock, req,
          resolved, toWrapper, toDaemon, receipt, up, pending, injected, crashes>>

RecordStates == {"absent", "prepared", "dispatching", "terminal"}
PublicResults == {"none", "accepted", "rejected", "orphaned"}
Records == [state : RecordStates, result : PublicResults,
            env : Envelopes \cup {None}, expires : Nat]

(* "unused" and "purged" stand for the absence of the row, before the      *)
(* INSERT and after the cascading DELETE.                                  *)
Phases == {"unused", "held", "dispatching", "acked", "indeterminate",
           "orphaned", "cancelled", "purged"}
Rows == [phase : Phases, key : Keys \cup {None}, env : Envelopes \cup {None},
         expires : Nat, inst : Instances \cup {None}]

LockStates == {"free", "admit", "captured", "finalize", "sweep", "settle", "purge"}
Requests == [key : Keys, env : Envelopes]

(* DeliverIdempotent written on the socket of instance sock, addressed to  *)
(* recipient_instance_id inst; and the wrapper's two reports.              *)
Frames == [id : Deliveries, sock : Instances, inst : Instances]
Reports == [id : Deliveries, kind : {"DeliverAcked", "DeliveryIndeterminate"}]
Resolutions == [id : Deliveries, inst : Instances]

NoRecord == [state |-> "absent", result |-> "none", env |-> None, expires |-> 0]
NoRow == [phase |-> "unused", key |-> None, env |-> None, expires |-> 0, inst |-> None]

InFlight(d) == dlv[d].phase \in {"held", "dispatching"}
Stored(d) == dlv[d].phase \notin {"unused", "purged"}

Init == /\ now = 0
        /\ rec = [k \in Keys |-> NoRecord]
        /\ dlv = [d \in Deliveries |-> NoRow]
        /\ notice = [d \in Deliveries |-> "none"]
        /\ captured = [k \in Keys |-> FALSE]
        /\ conn = None /\ presence = None /\ refused = FALSE
        /\ lock = "free" /\ req = None /\ resolved = {}
        /\ toWrapper = {} /\ toDaemon = {}
        /\ receipt = [i \in Instances |-> [d \in Deliveries |-> "none"]]
        /\ up = {}
        /\ pending = [i \in Instances |-> [d \in Deliveries |-> "none"]]
        /\ injected = [i \in Instances |-> [d \in Deliveries |-> 0]]
        /\ crashes = 0

-----------------------------------------------------------------------------
(* The client's call: reserve the key or recognise a replay.               *)

\* Faulty variant: any replay matches.
SameCanonical_Ignored(k, e, t) == TRUE

(* The canonical bytes hold the message and issued_at; with a fixed        *)
(* horizon, issued_at and expires_at determine each other.                 *)
SameCanonical(k, e, t) == rec[k].env = e /\ rec[k].expires = t + Horizon

ReplayExisting(k, e, t) ==
  IF rec[k].expires <= now THEN "expired"
  ELSE IF ~SameCanonical(k, e, t) THEN "envelope_mismatch"
  ELSE IF rec[k].state = "prepared" THEN "resumed"
  ELSE "replayed"

Reserve(k, e, t) ==
  IF t > now + Tolerance THEN "invalid_issued_at"
  ELSE IF rec[k].state # "absent" THEN ReplayExisting(k, e, t)
  ELSE IF t + Horizon <= now THEN "expired"
  ELSE "prepared"

(* The two reservations that go on; every other one only answers the       *)
(* client, and leaves no trace.                                            *)
SendReserves(k, e, t) ==
  /\ lock = "free"
  /\ Reserve(k, e, t) = "prepared"
  /\ rec' = [rec EXCEPT ![k] = [state |-> "prepared", result |-> "none",
                                env |-> e, expires |-> t + Horizon]]
  /\ lock' = "admit" /\ req' = [key |-> k, env |-> e]
  /\ UNCHANGED <<now, dlv, notice, captured, session, resolved, sockets, wrapper, crashes>>

SendResumes(k, e, t) ==
  /\ lock = "free"
  /\ Reserve(k, e, t) = "resumed"
  /\ lock' = "admit" /\ req' = [key |-> k, env |-> e]
  /\ UNCHANGED <<now, durable, session, resolved, sockets, wrapper, crashes>>

(* Admission: refused, interrupted by an error that leaves the key         *)
(* prepared, captured by the delegation store, or handed to a delivery.    *)
RejectPrepared ==
  /\ lock = "admit"
  /\ rec[req.key].state = "prepared"
  /\ rec' = [rec EXCEPT ![req.key].state = "terminal", ![req.key].result = "rejected"]
  /\ lock' = "free" /\ req' = None
  /\ UNCHANGED <<now, dlv, notice, captured, session, resolved, sockets, wrapper, crashes>>

NackKeepsPrepared ==
  /\ lock = "admit"
  /\ lock' = "free" /\ req' = None
  /\ UNCHANGED <<now, durable, session, resolved, sockets, wrapper, crashes>>

\* Faulty variant: the handler loses the request it is serving.
CaptureReply_LosesRequest ==
  /\ lock = "admit"
  /\ captured' = [captured EXCEPT ![req.key] = TRUE]
  /\ lock' = "captured" /\ req' = None
  /\ UNCHANGED <<now, rec, dlv, notice, session, resolved, sockets, wrapper, crashes>>

CaptureReply ==
  /\ lock = "admit"
  /\ captured' = [captured EXCEPT ![req.key] = TRUE]
  /\ lock' = "captured"
  /\ UNCHANGED <<now, rec, dlv, notice, session, req, resolved, sockets, wrapper, crashes>>

CaptureTransition ==
  /\ lock = "captured"
  /\ rec[req.key].state = "prepared"
  /\ rec' = [rec EXCEPT ![req.key].state = "dispatching"]
  /\ lock' = "finalize"
  /\ UNCHANGED <<now, dlv, notice, captured, session, req, resolved, sockets, wrapper, crashes>>

CaptureFinalize ==
  /\ lock = "finalize"
  /\ rec[req.key].state = "dispatching"
  /\ rec' = [rec EXCEPT ![req.key].state = "terminal", ![req.key].result = "accepted"]
  /\ lock' = "free" /\ req' = None
  /\ UNCHANGED <<now, dlv, notice, captured, session, resolved, sockets, wrapper, crashes>>

(* begin_send_delivery: record and delivery in one transaction; the frame  *)
(* is written once the mutex is released, unless the delivery is held.     *)
BeginDelivery(d, phase) ==
  /\ lock = "admit"
  /\ conn # None
  /\ rec[req.key].state = "prepared"
  /\ dlv[d].phase = "unused"
  /\ phase = "held" => req.key \notin Missions
  /\ rec' = [rec EXCEPT ![req.key].state = "dispatching"]
  /\ dlv' = [dlv EXCEPT ![d] = [phase |-> phase, key |-> req.key, env |-> req.env,
                                expires |-> rec[req.key].expires, inst |-> conn]]
  /\ toWrapper' = toWrapper \cup
       (IF phase = "held" THEN {} ELSE {[id |-> d, sock |-> conn, inst |-> conn]})
  /\ lock' = "free" /\ req' = None
  /\ UNCHANGED <<now, notice, captured, session, resolved, toDaemon, wrapper, crashes>>

-----------------------------------------------------------------------------
(* The held queue, as far as a delivery is concerned.                      *)

\* Faulty variant: the withdrawal leaves the record open.
SettledHeld_RecordLeftOpen(D) ==
  /\ dlv' = [d \in Deliveries |->
               IF d \in D THEN [dlv[d] EXCEPT !.phase = "cancelled"] ELSE dlv[d]]
  /\ notice' = [d \in Deliveries |->
                  IF d \in D /\ notice[d] = "none" THEN "pending" ELSE notice[d]]
  /\ UNCHANGED rec

(* settle_held_in_transaction: the delivery, its record and the notice to  *)
(* the emitter, together. *)
SettledHeld(D) ==
  /\ dlv' = [d \in Deliveries |->
               IF d \in D THEN [dlv[d] EXCEPT !.phase = "cancelled"] ELSE dlv[d]]
  /\ rec' = [k \in Keys |->
               IF \E d \in D : dlv[d].key = k
               THEN [rec[k] EXCEPT !.state = "terminal", !.result = "rejected"]
               ELSE rec[k]]
  /\ notice' = [d \in Deliveries |->
                  IF d \in D /\ notice[d] = "none" THEN "pending" ELSE notice[d]]

\* Faulty variant: a delivery already pushed can be withdrawn.
CancelHeld_AnyInFlight(d) ==
  /\ lock = "free"
  /\ InFlight(d)
  /\ SettledHeld({d})
  /\ UNCHANGED <<now, captured, session, handler, sockets, wrapper, crashes>>

(* apply_cancel, or a release that finds the reply request closed.         *)
CancelHeld(d) ==
  /\ lock = "free"
  /\ dlv[d].phase = "held"
  /\ SettledHeld({d})
  /\ UNCHANGED <<now, captured, session, handler, sockets, wrapper, crashes>>

(* schedule_held_release and the promotion of a queue edit: the row is     *)
(* committed as dispatching before anything is pushed, and quarantined     *)
(* when the push cannot be built. Which held delivery leaves, and when, is *)
(* the queue's business (turn attestation, gate, rank, pause): module      *)
(* HeldQueue. Here any of them may leave at any time, also right after     *)
(* Register, whose handler ends with such a release.                       *)
ReleaseHeld(d) ==
  /\ lock = "free"
  /\ conn # None /\ presence = conn
  /\ dlv[d].phase = "held"
  /\ dlv[d].expires > now
  /\ \/ /\ dlv' = [dlv EXCEPT ![d].phase = "dispatching"]
        /\ toWrapper' = toWrapper \cup {[id |-> d, sock |-> conn, inst |-> dlv[d].inst]}
     \/ /\ dlv' = [dlv EXCEPT ![d].phase = "indeterminate"]
        /\ UNCHANGED toWrapper
  /\ UNCHANGED <<now, rec, notice, captured, session, handler, toDaemon, wrapper, crashes>>

-----------------------------------------------------------------------------
(* Registration, loss of the connection, purge of the presence.            *)

(* reassign_dispatching_deliveries, when another instance of the agent was *)
(* still present.                                                          *)
Reassigned(i, d) ==
  /\ presence \notin {None, i}
  /\ dlv[d].inst = presence
  /\ InFlight(d)
  /\ dlv[d].expires > now

\* Faulty variant: held deliveries keep the instance they were queued for.
Adopted_NotHeld(i, d) ==
  /\ RecoverDispatching
  /\ dlv[d].phase = "dispatching"
  /\ dlv[d].expires > now

(* adopt_held_for_agent, which does not need the old presence.             *)
Adopted(i, d) ==
  \/ dlv[d].phase = "held"
  \/ /\ RecoverDispatching
     /\ dlv[d].phase = "dispatching"
     /\ dlv[d].expires > now

(* The two moves are transactions of their own, and each may fail: done is *)
(* the set of those that commit.                                           *)
Moves == {"reassign", "adopt"}

NewInstance(i, done, d) ==
  IF \/ "reassign" \in done /\ Reassigned(i, d)
     \/ "adopt" \in done /\ Adopted(i, d)
  THEN i ELSE dlv[d].inst

(* dispatching_deliveries_for_instance after both moves; a Register whose  *)
(* adoption fails returns before it recovers anything.                     *)
Recoverable(i, done) ==
  {d \in Deliveries : /\ "adopt" \in done
                      /\ dlv[d].phase = "dispatching"
                      /\ NewInstance(i, done, d) = i
                      /\ dlv[d].expires > now}

\* Faulty variant: a mission is recovered like a message.
MissionRows_Replayed(D) == {}

MissionRows(D) == {d \in D : dlv[d].key \in Missions}

(* The Register handler. quarantined holds the deliveries whose recovery   *)
(* is refused: native missions always, others when their frame cannot be   *)
(* rebuilt. Frames still unread on the old socket of i are lost. A failed  *)
(* reassignment is only logged. A failed adoption is answered by a Nack    *)
(* and nothing is recovered, but route, connection and presence are already*)
(* those of i: the daemon keeps writing on a socket whose wrapper has given*)
(* up. Otherwise the handler's transactions (reassign, adopt, quarantine)  *)
(* are taken together: each only moves rows towards i or settles them, and *)
(* the next Register repeats what a stop between two of them left undone.  *)
Register(i, done, quarantined) ==
  /\ lock = "free"
  /\ conn = None /\ i \in up
  /\ quarantined \subseteq Recoverable(i, done)
  /\ MissionRows(Recoverable(i, done)) \subseteq quarantined
  /\ conn' = i /\ presence' = i /\ refused' = ("adopt" \notin done)
  /\ dlv' = [d \in Deliveries |->
               [dlv[d] EXCEPT !.inst = NewInstance(i, done, d),
                              !.phase = IF d \in quarantined THEN "indeterminate" ELSE @]]
  /\ toWrapper' = {f \in toWrapper : f.sock # i}
                    \cup {[id |-> d, sock |-> i, inst |-> i] :
                            d \in Recoverable(i, done) \ quarantined}
  /\ UNCHANGED <<now, rec, notice, captured, handler, toDaemon, wrapper, crashes>>

(* A wrapper whose Register is refused drops the socket and tries again    *)
(* later: nobody reads what the daemon writes there.                       *)
Unread(f) == refused /\ f.sock = conn

(* What is left on the sockets once the daemon has lost the connection.    *)
StillRead == {f \in toWrapper : ~Unread(f)}

(* mark_unreachable: the presence outlives the connection. *)
Disconnect ==
  /\ lock = "free"
  /\ conn # None
  /\ conn' = None /\ refused' = FALSE
  /\ toWrapper' = StillRead /\ toDaemon' = {}
  /\ UNCHANGED <<now, durable, presence, handler, wrapper, crashes>>

(* orphan_dispatching_for_instance, all rows or none.                      *)
OrphanRows(i) == {d \in Deliveries : dlv[d].inst = i /\ InFlight(d)}

\* Faulty variant: the emitter of an orphan is not told.
Orphaned_WithoutNotice(D) ==
  /\ dlv' = [d \in Deliveries |->
               IF d \in D THEN [dlv[d] EXCEPT !.phase = "orphaned"] ELSE dlv[d]]
  /\ rec' = [k \in Keys |->
               IF \E d \in D : dlv[d].key = k
               THEN [rec[k] EXCEPT !.state = "terminal", !.result = "orphaned"]
               ELSE rec[k]]
  /\ UNCHANGED notice

Orphaned(D) ==
  /\ dlv' = [d \in Deliveries |->
               IF d \in D THEN [dlv[d] EXCEPT !.phase = "orphaned"] ELSE dlv[d]]
  /\ rec' = [k \in Keys |->
               IF \E d \in D : dlv[d].key = k
               THEN [rec[k] EXCEPT !.state = "terminal", !.result = "orphaned"]
               ELSE rec[k]]
  /\ notice' = [d \in Deliveries |->
                  IF d \in D /\ notice[d] = "none" THEN "pending" ELSE notice[d]]

(* The route of a dropped presence goes with it.                           *)
DropsRoute ==
  IF conn = presence
  THEN /\ conn' = None /\ refused' = FALSE
       /\ toWrapper' = StillRead /\ toDaemon' = {}
  ELSE UNCHANGED <<conn, refused, toWrapper, toDaemon>>

(* agent_infos: a presence whose link has been silent too long is dropped, *)
(* connected or not; its route goes with it, and its deliveries are        *)
(* orphaned. What is already on the socket can still reach the wrapper.    *)
PurgePresence ==
  /\ lock = "free"
  /\ presence # None
  /\ Orphaned(OrphanRows(presence))
  /\ presence' = None
  /\ DropsRoute
  /\ UNCHANGED <<now, captured, handler, wrapper, crashes>>

(* The same when the transaction fails: the error is logged, the presence  *)
(* is gone all the same, and only the clock will settle what it leaves.    *)
PurgeWithoutOrphans ==
  /\ lock = "free"
  /\ presence # None
  /\ presence' = None
  /\ DropsRoute
  /\ UNCHANGED <<now, durable, handler, wrapper, crashes>>

(* flush_pending_orphan_emitter_notices, for an emitter found online.      *)
NotifyEmitter(d) ==
  /\ lock = "free"
  /\ notice[d] = "pending"
  /\ notice' = [notice EXCEPT ![d] = "notified"]
  /\ UNCHANGED <<now, rec, dlv, captured, session, handler, sockets, wrapper, crashes>>

-----------------------------------------------------------------------------
(* The wrapper.                                                            *)

(* send_wrapper_message: a report only reaches the daemon through a        *)
(* connection the daemon still attributes to this instance.                *)
ReportBack(i, d, kind) ==
  toDaemon' = IF conn = i /\ ~refused THEN toDaemon \cup {[id |-> d, kind |-> kind]} ELSE toDaemon

\* Faulty variant: a receipt that is only Seen does not stop a second injection.
ReceiptDecision_SeenInjectsAgain(i, d) ==
  IF dlv[d].expires <= now THEN "Indeterminate"
  ELSE IF receipt[i][d] = "acked" THEN "Acked"
  ELSE "Inject"

\* Faulty variant: a receipt that is only Seen is reported as an acknowledgement.
ReceiptDecision_SeenIsAcked(i, d) ==
  IF dlv[d].expires <= now THEN "Indeterminate"
  ELSE IF receipt[i][d] \in {"seen", "acked"} THEN "Acked"
  ELSE "Inject"

(* ReceiptStore::receive. *)
ReceiptDecision(i, d) ==
  IF dlv[d].expires <= now THEN "Indeterminate"
  ELSE IF receipt[i][d] = "acked" THEN "Acked"
  ELSE IF receipt[i][d] = "seen" THEN "Indeterminate"
  ELSE IF Cardinality({x \in Deliveries : receipt[i][x] # "none"}) >= MaxReceipts
       THEN "RejectedQuota"
  ELSE "Inject"

(* IdempotentDeliveryTracker::receive: Seen is durable before the message  *)
(* goes to the provider.                                                   *)
WrapperInjects(f) ==
  /\ f \in toWrapper /\ f.sock \in up /\ ~Unread(f)
  /\ f.inst = f.sock /\ ReceiptDecision(f.sock, f.id) = "Inject"
  /\ toWrapper' = toWrapper \ {f}
  /\ receipt' = [receipt EXCEPT ![f.sock][f.id] = "seen"]
  /\ pending' = [pending EXCEPT ![f.sock][f.id] = "queued"]
  /\ UNCHANGED <<now, durable, session, handler, toDaemon, up, injected, crashes>>

WrapperReports(f) ==
  /\ f \in toWrapper /\ f.sock \in up /\ ~Unread(f)
  /\ LET decision == ReceiptDecision(f.sock, f.id)
     IN \/ /\ f.inst = f.sock /\ decision = "Acked"
           /\ ReportBack(f.sock, f.id, "DeliverAcked")
        \/ /\ f.inst # f.sock \/ decision \in {"Indeterminate", "RejectedQuota"}
           /\ ReportBack(f.sock, f.id, "DeliveryIndeterminate")
  /\ toWrapper' = toWrapper \ {f}
  /\ UNCHANGED <<now, durable, session, handler, wrapper, crashes>>

(* The prompt enters the provider's turn; the wrapper learns it later.     *)
PromptEnters(i, d) ==
  /\ i \in up
  /\ pending[i][d] = "queued"
  /\ pending' = [pending EXCEPT ![i][d] = "sent"]
  /\ injected' = [injected EXCEPT ![i][d] = @ + 1]
  /\ UNCHANGED <<now, durable, session, handler, sockets, receipt, up, crashes>>

(* prompt_dispatched: the receipt becomes Acked, then the report leaves.   *)
PromptDispatched(i, d) ==
  /\ i \in up
  /\ pending[i][d] = "sent"
  /\ pending' = [pending EXCEPT ![i][d] = "none"]
  /\ IF receipt[i][d] # "none"
     THEN /\ receipt' = [receipt EXCEPT ![i][d] = "acked"]
          /\ ReportBack(i, d, "DeliverAcked")
     ELSE /\ UNCHANGED receipt
          /\ ReportBack(i, d, "DeliveryIndeterminate")
  /\ UNCHANGED <<now, durable, session, handler, toWrapper, up, injected, crashes>>

(* injection_failed and injection_rejected. *)
InjectionFailed(i, d) ==
  /\ i \in up
  /\ pending[i][d] # "none"
  /\ pending' = [pending EXCEPT ![i][d] = "none"]
  /\ ReportBack(i, d, "DeliveryIndeterminate")
  /\ UNCHANGED <<now, durable, session, handler, toWrapper, receipt, up, injected, crashes>>

-----------------------------------------------------------------------------
(* The wrapper's reports, back in the daemon.                              *)

\* Faulty variant: the acknowledgement does not look at the phase.
AckAccepted_AnyPhase(d) ==
  dlv[d].inst = conn /\ dlv[d].phase \in {"dispatching", "orphaned", "indeterminate"}

(* acknowledge_send_delivery: the row must still be addressed to the       *)
(* instance behind the connection, and be dispatching.                     *)
AckAccepted(d) == dlv[d].inst = conn /\ dlv[d].phase = "dispatching"

HandleDeliveryAck(d) ==
  /\ lock = "free"
  /\ [id |-> d, kind |-> "DeliverAcked"] \in toDaemon
  /\ toDaemon' = toDaemon \ {[id |-> d, kind |-> "DeliverAcked"]}
  /\ IF AckAccepted(d)
     THEN /\ dlv' = [dlv EXCEPT ![d].phase = "acked"]
          /\ rec' = [rec EXCEPT ![dlv[d].key].state = "terminal",
                                ![dlv[d].key].result = "accepted"]
     ELSE UNCHANGED <<dlv, rec>>
  /\ UNCHANGED <<now, notice, captured, session, handler, toWrapper, wrapper, crashes>>

(* DeliveryIndeterminate takes the mutex twice: to learn which instance is *)
(* behind the connection, then to mark the delivery of that instance. The  *)
(* connection may be lost, and another one come, between the two. The      *)
(* thread of a connection handles one report at a time.                    *)
ResolveReporter(d) ==
  /\ lock = "free"
  /\ conn # None /\ \A r \in resolved : r.inst # conn
  /\ [id |-> d, kind |-> "DeliveryIndeterminate"] \in toDaemon
  /\ toDaemon' = toDaemon \ {[id |-> d, kind |-> "DeliveryIndeterminate"]}
  /\ resolved' = resolved \cup {[id |-> d, inst |-> conn]}
  /\ UNCHANGED <<now, durable, session, lock, req, toWrapper, wrapper, crashes>>

HandleDeliveryIndeterminate(d) ==
  /\ lock = "free"
  /\ \E r \in resolved :
       /\ r.id = d
       /\ resolved' = resolved \ {r}
       /\ IF dlv[d].inst = r.inst /\ dlv[d].phase = "dispatching"
          THEN dlv' = [dlv EXCEPT ![d].phase = "indeterminate"]
          ELSE UNCHANGED dlv
  /\ UNCHANGED <<now, rec, notice, captured, session, lock, req, sockets, wrapper, crashes>>

-----------------------------------------------------------------------------
(* Maintenance: one pass under the mutex, three kinds of transaction. The  *)
(* code reads the clock once per pass; nothing but a wrapper, which has    *)
(* its own clock, moves during a pass, so reading it at each transaction   *)
(* only adds behaviours.                                                   *)

\* Faulty variant: deliveries in flight are never settled by the clock.
ExpiredRows_HeldOnly(phase) ==
  {d \in Deliveries : phase = "held" /\ dlv[d].phase = phase /\ dlv[d].expires <= now}

ExpiredRows(phase) == {d \in Deliveries : dlv[d].phase = phase /\ dlv[d].expires <= now}

MaintenanceDue ==
  \/ ExpiredRows("held") \cup ExpiredRows("dispatching") # {}
  \/ \E k \in Keys : rec[k].state # "absent" /\ rec[k].expires + Grace <= now

(* A pass that finds nothing due changes nothing and is left out.          *)
MaintainStarts ==
  /\ lock = "free"
  /\ MaintenanceDue
  /\ lock' = "sweep"
  /\ UNCHANGED <<now, durable, session, req, resolved, sockets, wrapper, crashes>>

(* sweep_held: one transaction per expired delivery.                       *)
SweepHeld(d) ==
  /\ lock = "sweep"
  /\ d \in ExpiredRows("held")
  /\ SettledHeld({d})
  /\ UNCHANGED <<now, captured, session, handler, sockets, wrapper, crashes>>

SweepDone ==
  /\ lock = "sweep"
  /\ ExpiredRows("held") = {}
  /\ lock' = "settle"
  /\ UNCHANGED <<now, durable, session, req, resolved, sockets, wrapper, crashes>>

SettleExpiredDispatching ==
  /\ lock = "settle"
  /\ dlv' = [d \in Deliveries |-> IF d \in ExpiredRows("dispatching")
                                  THEN [dlv[d] EXCEPT !.phase = "indeterminate"]
                                  ELSE dlv[d]]
  /\ lock' = "purge"
  /\ UNCHANGED <<now, rec, notice, captured, session, req, resolved, sockets, wrapper, crashes>>

\* Faulty variant: the purge forgets a key as soon as it expires.
PurgeableKeys_NoGrace == {k \in Keys : rec[k].state # "absent" /\ rec[k].expires <= now}

PurgeableKeys == {k \in Keys : rec[k].state # "absent" /\ rec[k].expires + Grace <= now}

(* purge_expired_sends: the deliveries follow their record in cascade, the *)
(* notices do not.                                                         *)
PurgeExpiredSends ==
  /\ lock = "purge"
  /\ rec' = [k \in Keys |-> IF k \in PurgeableKeys THEN NoRecord ELSE rec[k]]
  /\ dlv' = [d \in Deliveries |-> IF Stored(d) /\ dlv[d].key \in PurgeableKeys
                                  THEN [dlv[d] EXCEPT !.phase = "purged"]
                                  ELSE dlv[d]]
  /\ captured' = [k \in Keys |-> captured[k] /\ k \notin PurgeableKeys]
  /\ lock' = "free"
  /\ UNCHANGED <<now, notice, session, req, resolved, sockets, wrapper, crashes>>

(* A database error: a failed sweep suspends the rest of the pass, a       *)
(* failed settlement does not.                                             *)
MaintenanceFails ==
  /\ lock \in {"sweep", "settle", "purge"}
  /\ lock' = IF lock = "settle" THEN "purge" ELSE "free"
  /\ UNCHANGED <<now, durable, session, req, resolved, sockets, wrapper, crashes>>

-----------------------------------------------------------------------------
(* The environment: time, crashes, restarts.                               *)

Tick == /\ now < MaxTime
        /\ now' = now + 1
        /\ UNCHANGED <<durable, session, handler, sockets, wrapper, crashes>>

(* The daemon stops anywhere, even inside a handler, and starts again with *)
(* its database only.                                                      *)
DaemonRestarts ==
  /\ crashes < MaxCrashes
  /\ crashes' = crashes + 1
  /\ conn' = None /\ presence' = None /\ refused' = FALSE
  /\ lock' = "free" /\ req' = None /\ resolved' = {}
  /\ toWrapper' = StillRead /\ toDaemon' = {}
  /\ UNCHANGED <<now, durable, wrapper>>

WrapperStarts(i) ==
  /\ i \notin up
  /\ up' = up \cup {i}
  /\ UNCHANGED <<now, durable, session, handler, sockets, receipt, pending, injected, crashes>>

WrapperCrashes(i) ==
  /\ crashes < MaxCrashes
  /\ crashes' = crashes + 1
  /\ i \in up
  /\ up' = up \ {i}
  /\ pending' = [pending EXCEPT ![i] = [d \in Deliveries |-> "none"]]
  /\ toWrapper' = {f \in toWrapper : f.sock # i}
  /\ UNCHANGED <<now, durable, session, handler, toDaemon, receipt, injected>>

-----------------------------------------------------------------------------
(* Bound of the model: a reservation expires within the modelled time.     *)
IssueTimes == {t \in 0..MaxTime : t + Horizon <= MaxTime}

ClientStep == \E k \in Keys, e \in Envelopes, t \in IssueTimes :
                SendReserves(k, e, t) \/ SendResumes(k, e, t)

AdmissionStep ==
  \/ RejectPrepared \/ NackKeepsPrepared
  \/ CaptureReply \/ CaptureTransition \/ CaptureFinalize
  \/ \E d \in Deliveries, phase \in {"held", "dispatching"} : BeginDelivery(d, phase)

QueueStep == \E d \in Deliveries : CancelHeld(d) \/ ReleaseHeld(d)

SessionStep ==
  \/ \E i \in Instances, done \in SUBSET Moves :
       \E q \in SUBSET Recoverable(i, done) : Register(i, done, q)
  \/ Disconnect
  \/ PurgePresence \/ PurgeWithoutOrphans
  \/ \E d \in Deliveries : NotifyEmitter(d)

WrapperStep ==
  \/ \E f \in toWrapper : WrapperInjects(f) \/ WrapperReports(f)
  \/ \E i \in Instances, d \in Deliveries :
       PromptEnters(i, d) \/ PromptDispatched(i, d) \/ InjectionFailed(i, d)

ReportStep == \E d \in Deliveries :
  HandleDeliveryAck(d) \/ ResolveReporter(d) \/ HandleDeliveryIndeterminate(d)

SweepStep == SweepDone \/ \E d \in Deliveries : SweepHeld(d)

MaintenanceStep ==
  SweepStep \/ SettleExpiredDispatching \/ PurgeExpiredSends \/ MaintenanceFails

CrashStep ==
  \/ DaemonRestarts
  \/ \E i \in Instances : WrapperStarts(i) \/ WrapperCrashes(i)

Next == \/ ClientStep \/ AdmissionStep \/ QueueStep \/ SessionStep
        \/ WrapperStep \/ ReportStep
        \/ MaintainStarts \/ MaintenanceStep
        \/ Tick \/ CrashStep

Spec == Init /\ [][Next]_vars

(* Time passes, a handler that holds the mutex runs to its end, the        *)
(* maintenance thread obtains the mutex again and again, and the database  *)
(* does not refuse its sweep and its settlement for ever.                  *)
Fairness == /\ WF_vars(Tick)
            /\ WF_vars(AdmissionStep)
            /\ SF_vars(MaintainStarts)
            /\ WF_vars(MaintenanceStep)
            /\ SF_vars(SweepStep) /\ SF_vars(SettleExpiredDispatching)

FairSpec == Spec /\ Fairness

-----------------------------------------------------------------------------
(* Properties.                                                             *)

(* Every variable keeps its type; a handler that holds the mutex for a     *)
(* send knows its key (the State mutex of daemon.rs), and a stored         *)
(* delivery its key and its instance (the columns of send_deliveries).     *)
TypeOK ==
  /\ now \in Nat
  /\ rec \in [Keys -> Records]
  /\ dlv \in [Deliveries -> Rows]
  /\ \A d \in Deliveries : Stored(d) => dlv[d].key \in Keys /\ dlv[d].inst \in Instances
  /\ notice \in [Deliveries -> {"none", "pending", "notified"}]
  /\ captured \in [Keys -> BOOLEAN]
  /\ conn \in Instances \cup {None} /\ presence \in Instances \cup {None}
  /\ refused \in BOOLEAN
  /\ lock \in LockStates
  /\ lock \in {"admit", "captured", "finalize"} => req \in Requests
  /\ resolved \subseteq Resolutions
  /\ toWrapper \subseteq Frames /\ toDaemon \subseteq Reports
  /\ receipt \in [Instances -> [Deliveries -> {"none", "seen", "acked"}]]
  /\ up \subseteq Instances
  /\ pending \in [Instances -> [Deliveries -> {"none", "queued", "sent"}]]
  /\ injected \in [Instances -> [Deliveries -> Nat]]
  /\ crashes \in Nat

(* A delivery enters the prompt of one wrapper instance at most once,      *)
(* whatever is redelivered after reconnections and crashes: the receipt is *)
(* durable before the injection (receipt_store.rs, receive).               *)
AtMostOncePerInstance ==
  \A i \in Instances, d \in Deliveries : injected[i][d] <= 1

(* A native mission is never executed by two instances: an uncertain       *)
(* mission is quarantined at Register, where an ordinary message would be  *)
(* sent again (schedule_idempotent_delivery_recovery).                     *)
MissionNeverRepeated ==
  \A d \in Deliveries : dlv[d].key \in Missions =>
    \A i, j \in Instances : injected[i][d] > 0 /\ injected[j][d] > 0 => i = j

(* "accepted" is never a guess: the prompt did enter the instance the      *)
(* delivery is addressed to, or the delegation store captured the reply    *)
(* (acknowledge_send_delivery, the captured branch of the send handler).   *)
AcceptedWasInjected ==
  \A k \in Keys : rec[k].result = "accepted" =>
    \/ captured[k]
    \/ \E d \in Deliveries : /\ dlv[d].key = k /\ dlv[d].phase = "acked"
                             /\ dlv[d].inst \in Instances
                             /\ injected[dlv[d].inst][d] > 0

(* "It will not be delivered", says the notice of a withdrawn message: it  *)
(* was not, no copy is on a socket and no wrapper is about to inject it    *)
(* (settle_held_in_transaction).                                           *)
CancelledNeverInjected ==
  \A d \in Deliveries : dlv[d].phase = "cancelled" =>
    /\ \A f \in toWrapper : f.id # d
    /\ \A i \in Instances : pending[i][d] = "none" /\ injected[i][d] = 0

(* The record and the delivery of a key tell the same story after any      *)
(* crash: an open delivery has an open record, and each terminal phase     *)
(* exactly its public result (send_delivery.rs, one transaction for both). *)
ResultOf(phase) ==
  CASE phase = "acked" -> "accepted"
    [] phase = "orphaned" -> "orphaned"
    [] phase = "cancelled" -> "rejected"
    [] OTHER -> "none"

RecordMatchesDelivery ==
  \A d \in Deliveries : Stored(d) =>
    LET k == dlv[d].key
    IN /\ k \in Keys
       /\ rec[k].result = ResultOf(dlv[d].phase)
       /\ rec[k].state = IF rec[k].result = "none" THEN "dispatching" ELSE "terminal"

(* What a delivery carries is what the key was reserved for, even when the *)
(* reservation was resumed by a later call (replay_existing).              *)
DeliveredAsReserved ==
  \A d \in Deliveries : Stored(d) =>
    rec[dlv[d].key].env = dlv[d].env /\ rec[dlv[d].key].expires = dlv[d].expires

(* One submission (key, content, issued_at) becomes at most one delivery,  *)
(* even if it is replayed after its record was purged (reserve).           *)
OneDeliveryPerSubmission ==
  \A c, d \in Deliveries :
    /\ dlv[c].phase # "unused" /\ dlv[d].phase # "unused"
    /\ dlv[c].key = dlv[d].key /\ dlv[c].env = dlv[d].env
    /\ dlv[c].expires = dlv[d].expires
    => c = d

(* A delivery that will never happen has a durable notice for its emitter, *)
(* written in the same transaction (orphan_emitter_notices).               *)
EmitterIsTold ==
  \A d \in Deliveries : dlv[d].phase \in {"orphaned", "cancelled"} => notice[d] # "none"

(* A wrapper only ever reads frames that name it, although rows outlive    *)
(* instances: the one socket on which the daemon may write a frame for     *)
(* another instance is that of a Register it has just refused, which has   *)
(* no reader (Register, schedule_held_release).                            *)
ReadFramesNameTheirReader ==
  \A f \in toWrapper : Unread(f) \/ f.inst = f.sock

(* The held messages of an agent are "retrouvés et libérés pour la nouvelle*)
(* instance", found again and released for the new instance: no frame is   *)
(* written on the socket of another instance than the one it names         *)
(* (adopt_held_for_agent, schedule_held_release).                          *)
FramesReachTheirInstance == \A f \in toWrapper : f.inst = f.sock

(* The four settled phases are absorbing: a late acknowledgement, a        *)
(* redelivery or a restart never reopens a delivery.                       *)
SettledIsFinal ==
  [][\A d \in Deliveries :
       dlv[d].phase \in {"acked", "indeterminate", "orphaned", "cancelled"}
         => dlv'[d].phase \in {dlv[d].phase, "purged"}]_vars

(* The life cycle the client sees through its key. *)
PublicStatus(k) == IF rec[k].state = "terminal" THEN rec[k].result ELSE rec[k].state

Contract == INSTANCE IdempotentOperation
              WITH status <- [k \in Keys |-> PublicStatus(k)],
                   expires <- [k \in Keys |-> rec[k].expires]

(* The daemon implements the contract of an idempotency key: one result    *)
(* per key, kept until the key has been expired for Grace (idempotency.rs).*)
ImplementsContract == Contract!Spec

(* Under maintenance, no delivery stays held or in flight for ever, even   *)
(* when its recipient has silently disappeared (settle_expired_dispatching,*)
(* sweep_held).                                                            *)
EveryDeliverySettles == \A d \in Deliveries : InFlight(d) ~> ~InFlight(d)

(* What the notice of an orphaned delivery tells the emitter: "n'a pas été *)
(* livré", it was not delivered (orphan_dispatching_for_instance).         *)
OrphanedNeverInjected ==
  \A d \in Deliveries : dlv[d].phase = "orphaned" =>
    \A i \in Instances : injected[i][d] = 0
=============================================================================
