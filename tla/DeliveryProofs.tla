--------------------------- MODULE DeliveryProofs ---------------------------
(***************************************************************************)
(* The safety of the send path, for every number of keys, deliveries,      *)
(* instances, restarts and for every clock. None of the properties is      *)
(* inductive alone; the parts of the inductive invariant are named below,  *)
(* each followed by the lemma that a step preserves it.                    *)
(***************************************************************************)
EXTENDS DeliveryEffects

USE DEF vars, durable, session, handler, sockets, wrapper

(* The wrappers own their receipts, prompts and injections: no step of the *)
(* daemon touches them. *)
LEMMA WrapperSteps ==
  ASSUME [Next]_vars
  PROVE  \/ UNCHANGED <<receipt, pending, injected>>
         \/ \E f \in toWrapper : WrapperInjects(f)
         \/ \E i \in Instances, d \in Deliveries :
              PromptEnters(i, d) \/ PromptDispatched(i, d) \/ InjectionFailed(i, d)
         \/ \E i \in Instances : WrapperCrashes(i)
  <1>1. CASE ClientStep \/ AdmissionStep
    BY <1>1 DEF ClientStep, SendReserves, SendResumes, AdmissionStep, RejectPrepared,
       NackKeepsPrepared, CaptureReply, CaptureTransition, CaptureFinalize, BeginDelivery
  <1>2. CASE QueueStep \/ SessionStep
    BY <1>2 DEF QueueStep, CancelHeld, ReleaseHeld, SessionStep, Register, Disconnect,
       PurgeWithoutOrphans, PurgePresence, NotifyEmitter
  <1>3. CASE WrapperStep
    BY <1>3 DEF WrapperStep, WrapperReports
  <1>4. CASE ReportStep
    BY <1>4 DEF ReportStep, HandleDeliveryAck, ResolveReporter,
       HandleDeliveryIndeterminate
  <1>5. CASE MaintainStarts \/ MaintenanceStep
    BY <1>5 DEF MaintainStarts, MaintenanceStep, SweepStep, SweepHeld, SweepDone,
       SettleExpiredDispatching, PurgeExpiredSends, MaintenanceFails
  <1>6. CASE Tick \/ CrashStep \/ UNCHANGED vars
    BY <1>6 DEF Tick, CrashStep, DaemonRestarts, WrapperStarts
  <1> QED
    BY <1>1, <1>2, <1>3, <1>4, <1>5, <1>6 DEF Next

(* The steps that leave both tables alone, and what they do to the handler *)
(* and to the notices.                                                     *)
QuietStep ==
  /\ UNCHANGED <<rec, dlv>>
  /\ \A d \in Deliveries : notice[d] # "none" => notice'[d] # "none"
  /\ \/ lock' \in {"free", "sweep", "settle", "purge"}
     \/ UNCHANGED <<lock, req>>
     \/ \E k \in Keys, e \in Envelopes, t \in IssueTimes : SendResumes(k, e, t)
     \/ CaptureReply

(* A step leaves both tables alone or is one of the thirteen that do not.  *)
LEMMA TableSteps ==
  ASSUME TypeOK, [Next]_vars
  PROVE  \/ QuietStep
         \/ \E k \in Keys, e \in Envelopes, t \in IssueTimes : SendReserves(k, e, t)
         \/ RejectPrepared \/ CaptureTransition \/ CaptureFinalize
         \/ \E d \in Deliveries, phase \in {"held", "dispatching"} : BeginDelivery(d, phase)
         \/ \E d \in Deliveries : CancelHeld(d) \/ ReleaseHeld(d) \/ SweepHeld(d)
         \/ \E i \in Instances, done \in SUBSET Moves :
               \E q \in SUBSET Recoverable(i, done) : Register(i, done, q)
         \/ PurgePresence
         \/ \E d \in Deliveries : HandleDeliveryAck(d) \/ HandleDeliveryIndeterminate(d)
         \/ SettleExpiredDispatching \/ PurgeExpiredSends
  <1>1. CASE ClientStep
    BY <1>1 DEF ClientStep, SendResumes, QuietStep
  <1>2. CASE AdmissionStep
    BY <1>2 DEF AdmissionStep, NackKeepsPrepared, CaptureReply, QuietStep
  <1>3. CASE QueueStep
    BY <1>3 DEF QueueStep
  <1>4. CASE SessionStep
    <2>1. ASSUME NEW d \in Deliveries, NotifyEmitter(d) PROVE QuietStep
      BY <2>1 DEF NotifyEmitter, QuietStep, TypeOK
    <2>2. CASE Disconnect \/ PurgeWithoutOrphans
      BY <2>2 DEF Disconnect, PurgeWithoutOrphans, QuietStep
    <2> QED
      BY <1>4, <2>1, <2>2 DEF SessionStep
  <1>5. CASE WrapperStep
    BY <1>5 DEF WrapperStep, WrapperInjects, WrapperReports, PromptEnters, PromptDispatched,
       InjectionFailed, QuietStep
  <1>6. CASE ReportStep
    BY <1>6 DEF ReportStep, ResolveReporter, QuietStep
  <1>7. CASE MaintainStarts \/ MaintenanceStep
    BY <1>7 DEF MaintainStarts, MaintenanceStep, SweepStep, SweepDone, MaintenanceFails, QuietStep
  <1>8. CASE Tick \/ CrashStep \/ UNCHANGED vars
    BY <1>8 DEF Tick, CrashStep, DaemonRestarts, WrapperStarts, WrapperCrashes, QuietStep
  <1> QED
    BY <1>1, <1>2, <1>3, <1>4, <1>5, <1>6, <1>7, <1>8 DEF Next

-----------------------------------------------------------------------------
(* The receipt is durable before the prompt: what a receipt says about the *)
(* injections of its instance.                                             *)
ReceiptFirst ==
  \A i \in Instances, d \in Deliveries :
    /\ receipt[i][d] = "none" => pending[i][d] = "none" /\ injected[i][d] = 0
    /\ pending[i][d] = "queued" => injected[i][d] = 0
    /\ pending[i][d] = "sent" => injected[i][d] = 1
    /\ receipt[i][d] = "acked" => injected[i][d] = 1
    /\ injected[i][d] \in {0, 1}

LEMMA ReceiptFirstStep == TypeOK /\ ReceiptFirst /\ [Next]_vars => ReceiptFirst'
  <1> SUFFICES ASSUME TypeOK, ReceiptFirst, [Next]_vars PROVE ReceiptFirst'
    OBVIOUS
  <1> USE DEF ReceiptFirst
  <1>1. CASE UNCHANGED <<receipt, pending, injected>>
    BY <1>1
  <1>2. ASSUME NEW f \in toWrapper, WrapperInjects(f) PROVE ReceiptFirst'
    <2>1. f.sock \in Instances /\ f.id \in Deliveries
      BY DEF TypeOK, Frames
    <2>2. receipt[f.sock][f.id] = "none"
      BY <1>2, <2>1 DEF WrapperInjects, ReceiptDecision, TypeOK
    <2> QED
      BY <1>2, <2>1, <2>2 DEF WrapperInjects, TypeOK
  <1>3. ASSUME NEW i \in Instances, NEW d \in Deliveries, PromptEnters(i, d)
        PROVE  ReceiptFirst'
    BY <1>3 DEF PromptEnters, TypeOK
  <1>4. ASSUME NEW i \in Instances, NEW d \in Deliveries, PromptDispatched(i, d)
        PROVE  ReceiptFirst'
    <2>1. receipt' = [receipt EXCEPT ![i][d] = "acked"]
      BY <1>4 DEF PromptDispatched
    <2> QED
      BY <1>4, <2>1 DEF PromptDispatched, TypeOK
  <1>5. ASSUME NEW i \in Instances, NEW d \in Deliveries, InjectionFailed(i, d)
        PROVE  ReceiptFirst'
    BY <1>5 DEF InjectionFailed, TypeOK
  <1>6. ASSUME NEW i \in Instances, WrapperCrashes(i) PROVE ReceiptFirst'
    BY <1>6 DEF WrapperCrashes, TypeOK
  <1> QED
    BY <1>1, <1>2, <1>3, <1>4, <1>5, <1>6, WrapperSteps

-----------------------------------------------------------------------------
(* The life of a delivery row: the phases it may go through. *)
PhaseEdges ==
  ({"unused"} \X {"held", "dispatching"})
    \cup ({"held"} \X {"dispatching", "indeterminate", "cancelled", "orphaned", "purged"})
    \cup ({"dispatching"} \X {"acked", "indeterminate", "orphaned", "purged"})
    \cup ({"acked", "indeterminate", "orphaned", "cancelled"} \X {"purged"})

(* One step of one row: its phase follows an edge or stays, and once it    *)
(* is used, its key, content and expiry are fixed.                         *)
RowStep(d) ==
  /\ \/ dlv'[d].phase = dlv[d].phase
     \/ <<dlv[d].phase, dlv'[d].phase>> \in PhaseEdges
  /\ dlv[d].phase # "unused" => /\ dlv'[d].key = dlv[d].key
                               /\ dlv'[d].env = dlv[d].env
                               /\ dlv'[d].expires = dlv[d].expires

LEMMA RowSteps ==
  ASSUME TypeOK, [Next]_vars
  PROVE  \A d \in Deliveries : RowStep(d)
  <1> USE DEF RowStep, PhaseEdges
  <1>1. CASE UNCHANGED dlv
    BY <1>1
  <1>2. ASSUME NEW c \in Deliveries, NEW phase \in {"held", "dispatching"},
               BeginDelivery(c, phase)
        PROVE  \A d \in Deliveries : RowStep(d)
    BY <1>2, BeginDeliveryEffect DEF BeginDelivery
  <1>3. ASSUME NEW c \in Deliveries, dlv[c].phase = "held", SettledHeld({c})
        PROVE  \A d \in Deliveries : RowStep(d)
    BY <1>3, SettledHeldEffect DEF RowsMoved
  <1>4. ASSUME NEW c \in Deliveries, ReleaseHeld(c)
        PROVE  \A d \in Deliveries : RowStep(d)
    <2>1. PICK p \in {"dispatching", "indeterminate"} : RowsMoved({c}, p)
      BY <1>4, ReleaseHeldEffect
    <2> QED
      BY <1>4, <2>1 DEF ReleaseHeld, RowsMoved
  <1>5. ASSUME NEW i \in Instances, NEW done \in SUBSET Moves,
               NEW q \in SUBSET Recoverable(i, done), Register(i, done, q)
        PROVE  \A d \in Deliveries : RowStep(d)
    <2>1. \A c \in q : c \in Deliveries /\ dlv[c].phase = "dispatching"
      BY DEF Recoverable
    <2> QED
      BY <1>5, <2>1, RegisterEffect
  <1>6. CASE PurgePresence
    <2>1. RowsMoved(OrphanRows(presence), "orphaned")
      BY <1>6, OrphanedEffect DEF PurgePresence
    <2> QED
      BY <2>1 DEF RowsMoved, OrphanRows, InFlight
  <1>7. ASSUME NEW c \in Deliveries, HandleDeliveryAck(c)
        PROVE  \A d \in Deliveries : RowStep(d)
    <2>1. CASE AckAccepted(c)
      BY <1>7, <2>1, AckEffect DEF AckAccepted, RowsMoved
    <2>2. CASE ~AckAccepted(c)
      BY <1>7, <2>2, <1>1 DEF HandleDeliveryAck
    <2> QED
      BY <2>1, <2>2
  <1>8. ASSUME NEW c \in Deliveries, HandleDeliveryIndeterminate(c)
        PROVE  \A d \in Deliveries : RowStep(d)
    <2>1. CASE Quarantined(c)
      <3>1. RowsMoved({c}, "indeterminate")
        BY <2>1, RowsMovedByOne DEF Quarantined, TypeOK, Phases
      <3> QED
        BY <2>1, <3>1 DEF RowsMoved, Quarantined
    <2> QED
      BY <1>1, <1>8, <2>1, IndeterminateEffect
  <1>9. CASE SettleExpiredDispatching
    <2>1. RowsMoved(ExpiredRows("dispatching"), "indeterminate")
      BY <1>9, RowsMovedBySet DEF TypeOK, SettleExpiredDispatching, Phases
    <2> QED
      BY <2>1 DEF RowsMoved, ExpiredRows
  <1>10. CASE PurgeExpiredSends
    <2>1. \A d \in Deliveries : Stored(d) => dlv[d].phase \in Phases \ {"unused", "purged"}
      BY DEF TypeOK, Rows, Stored
    <2> QED
      BY <1>10, <2>1, PurgeEffect DEF RowsMoved, Phases
  <1>11. CASE QuietStep
    BY <1>1, <1>11 DEF QuietStep
  <1>12. ASSUME NEW k \in Keys, NEW e \in Envelopes, NEW t \in IssueTimes,
                SendReserves(k, e, t)
         PROVE  UNCHANGED dlv
    BY <1>12 DEF SendReserves
  <1>13. CASE RejectPrepared \/ CaptureTransition \/ CaptureFinalize
    BY <1>1, <1>13 DEF RejectPrepared, CaptureTransition, CaptureFinalize
  <1>14. ASSUME NEW d \in Deliveries, CancelHeld(d) \/ SweepHeld(d)
         PROVE  dlv[d].phase = "held" /\ SettledHeld({d})
    BY <1>14 DEF CancelHeld, SweepHeld, ExpiredRows
  <1> HIDE DEF RowStep, PhaseEdges
  <1> QED
    BY <1>1, <1>2, <1>3, <1>4, <1>5, <1>6, <1>7, <1>8, <1>9, <1>10, <1>11, <1>12, <1>13,
       <1>14, TableSteps

(* A row is first used by begin_send_delivery. *)
LEMMA UnusedSteps ==
  ASSUME TypeOK, [Next]_vars, NEW d \in Deliveries, dlv[d].phase = "unused",
         ~ \E c \in Deliveries, phase \in {"held", "dispatching"} : BeginDelivery(c, phase)
  PROVE  dlv'[d].phase = "unused"
  <1>1. ASSUME NEW c \in Deliveries, CancelHeld(c) \/ SweepHeld(c)
        PROVE  dlv'[d].phase = "unused"
    <2>1. dlv[c].phase = "held" /\ SettledHeld({c})
      BY <1>1 DEF CancelHeld, SweepHeld, ExpiredRows
    <2> QED
      BY <2>1, SettledHeldEffect DEF RowsMoved
  <1>2. ASSUME NEW c \in Deliveries, ReleaseHeld(c) PROVE dlv'[d].phase = "unused"
    BY <1>2 DEF ReleaseHeld, TypeOK
  <1>3. ASSUME NEW i \in Instances, NEW done \in SUBSET Moves,
               NEW q \in SUBSET Recoverable(i, done), Register(i, done, q)
        PROVE  dlv'[d].phase = "unused"
    <2>1. \A c \in q : c \in Deliveries /\ dlv[c].phase = "dispatching"
      BY DEF Recoverable
    <2> QED
      BY <1>3, <2>1, RegisterEffect
  <1>4. CASE PurgePresence
    BY <1>4, OrphanedEffect DEF PurgePresence, RowsMoved, OrphanRows, InFlight
  <1>5. ASSUME NEW c \in Deliveries, HandleDeliveryAck(c) PROVE dlv'[d].phase = "unused"
    BY <1>5, AckEffect DEF HandleDeliveryAck, AckAccepted, RowsMoved
  <1>6. ASSUME NEW c \in Deliveries, HandleDeliveryIndeterminate(c)
        PROVE  dlv'[d].phase = "unused"
    BY <1>6, IndeterminateEffect DEF Quarantined, TypeOK
  <1>7. CASE SettleExpiredDispatching
    BY <1>7 DEF SettleExpiredDispatching, ExpiredRows
  <1>8. CASE PurgeExpiredSends
    BY <1>8 DEF PurgeExpiredSends, Stored
  <1> QED
    BY <1>1, <1>2, <1>3, <1>4, <1>5, <1>6, <1>7, <1>8, TableSteps
       DEF QuietStep, SendReserves, RejectPrepared, CaptureTransition, CaptureFinalize

(* A row is purged by purge_expired_sends only. *)
LEMMA PurgedSteps ==
  ASSUME TypeOK, [Next]_vars, NEW d \in Deliveries,
         dlv[d].phase # "purged", dlv'[d].phase = "purged"
  PROVE  PurgeExpiredSends /\ Stored(d) /\ dlv[d].key \in PurgeableKeys
  <1>1. ASSUME NEW c \in Deliveries, CancelHeld(c) \/ SweepHeld(c) PROVE FALSE
    <2>1. SettledHeld({c})
      BY <1>1 DEF CancelHeld, SweepHeld
    <2> QED
      BY <2>1, SettledHeldEffect DEF RowsMoved
  <1>2. ASSUME NEW c \in Deliveries, ReleaseHeld(c) PROVE FALSE
    BY <1>2, ReleaseHeldEffect DEF RowsMoved
  <1>3. ASSUME NEW i \in Instances, NEW done \in SUBSET Moves,
               NEW q \in SUBSET Recoverable(i, done), Register(i, done, q)
        PROVE  FALSE
    BY <1>3, RegisterEffect
  <1>4. ~PurgePresence
    BY OrphanedEffect DEF PurgePresence, RowsMoved
  <1>5. ASSUME NEW c \in Deliveries, HandleDeliveryAck(c) PROVE FALSE
    BY <1>5, AckEffect DEF HandleDeliveryAck, RowsMoved
  <1>6. ASSUME NEW c \in Deliveries, HandleDeliveryIndeterminate(c) PROVE FALSE
    BY <1>6, IndeterminateEffect DEF Quarantined, TypeOK, Rows
  <1>7. ~SettleExpiredDispatching
    <2>1. SettleExpiredDispatching => RowsMoved(ExpiredRows("dispatching"), "indeterminate")
      BY RowsMovedBySet DEF TypeOK, SettleExpiredDispatching, Phases
    <2> QED
      BY <2>1 DEF RowsMoved
  <1>8. ASSUME NEW c \in Deliveries, NEW phase \in {"held", "dispatching"},
               BeginDelivery(c, phase)
        PROVE  FALSE
    BY <1>8, BeginDeliveryEffect
  <1>9. PurgeExpiredSends
    BY <1>1, <1>2, <1>3, <1>4, <1>5, <1>6, <1>7, <1>8, TableSteps
       DEF QuietStep, SendReserves, RejectPrepared, CaptureTransition, CaptureFinalize
  <1> QED
    BY <1>9, PurgeEffect DEF RowsMoved

(* The clock moves by ticks. *)
LEMMA ClockSteps ==
  ASSUME [Next]_vars
  PROVE  now' = now \/ now' = now + 1
  <1>1. CASE ClientStep \/ AdmissionStep \/ QueueStep \/ SessionStep
    BY <1>1 DEF ClientStep, SendReserves, SendResumes, AdmissionStep, RejectPrepared,
       NackKeepsPrepared, CaptureReply, CaptureTransition, CaptureFinalize, BeginDelivery,
       QueueStep, CancelHeld, ReleaseHeld, SessionStep, Register, Disconnect,
       PurgeWithoutOrphans, PurgePresence,
       NotifyEmitter
  <1>2. CASE WrapperStep \/ ReportStep
    BY <1>2 DEF WrapperStep, WrapperInjects, WrapperReports, PromptEnters, PromptDispatched,
       InjectionFailed, ReportStep, HandleDeliveryAck, ResolveReporter,
       HandleDeliveryIndeterminate
  <1>3. CASE MaintainStarts \/ MaintenanceStep
    BY <1>3 DEF MaintainStarts, MaintenanceStep, SweepStep, SweepHeld, SweepDone,
       SettleExpiredDispatching, PurgeExpiredSends, MaintenanceFails
  <1>4. CASE Tick \/ CrashStep \/ UNCHANGED vars
    BY <1>4 DEF Tick, CrashStep, DaemonRestarts, WrapperStarts, WrapperCrashes
  <1> QED
    BY <1>1, <1>2, <1>3, <1>4 DEF Next

(* The settled phases absorb: no late acknowledgement, redelivery, purge   *)
(* of a presence or restart ever reopens a settled delivery.               *)
THEOREM SettledForGood == Spec => SettledIsFinal
  <1>1. TypeOK /\ [Next]_vars =>
          \A d \in Deliveries :
             dlv[d].phase \in {"acked", "indeterminate", "orphaned", "cancelled"}
               => dlv'[d].phase \in {dlv[d].phase, "purged"}
    BY RowSteps DEF RowStep, PhaseEdges
  <1> QED
    BY <1>1, TypeCorrect, PTL DEF Spec, SettledIsFinal

-----------------------------------------------------------------------------
(* Delivery d has reached instance i: a frame for d is on its socket, or   *)
(* its receipt store knows d.                                              *)
Reached(i, d) ==
  receipt[i][d] # "none" \/ \E f \in toWrapper : f.sock = i /\ f.id = d

(* The only three ways of reaching an instance. *)
LEMMA ReachedSteps ==
  ASSUME TypeOK, [Next]_vars, NEW i \in Instances, NEW d \in Deliveries, Reached(i, d)'
  PROVE  \/ Reached(i, d)
         \/ BeginDelivery(d, "dispatching") /\ i = conn
         \/ ReleaseHeld(d) /\ dlv' = [dlv EXCEPT ![d].phase = "dispatching"]
         \/ \E done \in SUBSET Moves : \E q \in SUBSET Recoverable(i, done) :
              Register(i, done, q) /\ d \in Recoverable(i, done) \ q
  <1>1. CASE receipt'[i][d] # "none"
    <2>1. CASE UNCHANGED receipt
      BY <1>1, <2>1 DEF Reached
    <2>2. ASSUME NEW f \in toWrapper, WrapperInjects(f) PROVE Reached(i, d)
      BY <1>1, <2>2 DEF WrapperInjects, Reached, TypeOK, Frames
    <2>3. ASSUME NEW j \in Instances, NEW c \in Deliveries, PromptDispatched(j, c)
          PROVE  Reached(i, d)
      <3>1. ASSUME receipt' = receipt PROVE receipt[i][d] # "none"
        BY <1>1, <3>1
      <3>2. ASSUME receipt[j][c] # "none", receipt' = [receipt EXCEPT ![j][c] = "acked"]
            PROVE  receipt[i][d] # "none"
        BY <1>1, <3>2 DEF TypeOK
      <3> QED
        BY <2>3, <3>1, <3>2 DEF PromptDispatched, Reached
    <2>4. ASSUME NEW j \in Instances, NEW c \in Deliveries, PromptEnters(j, c) \/ InjectionFailed(j, c) \/ WrapperCrashes(j)
          PROVE  UNCHANGED receipt
      BY <2>4 DEF PromptEnters, InjectionFailed, WrapperCrashes
    <2> QED
      BY <2>1, <2>2, <2>3, <2>4, WrapperSteps
  <1>2. CASE receipt'[i][d] = "none"
    <2>1. PICK f \in toWrapper' : f.sock = i /\ f.id = d
      BY <1>2 DEF Reached
    <2>2. CASE f \in toWrapper
      BY <2>1, <2>2 DEF Reached
    <2>3. CASE f \notin toWrapper
      <3>1. ~ (ClientStep \/ WrapperStep \/ ReportStep \/ MaintainStarts
               \/ MaintenanceStep \/ Tick \/ CrashStep \/ UNCHANGED vars)
        BY <2>3 DEF ClientStep, SendReserves, SendResumes, WrapperStep, WrapperInjects,
           WrapperReports, PromptEnters, PromptDispatched, InjectionFailed, ReportStep,
           HandleDeliveryAck, ResolveReporter, HandleDeliveryIndeterminate,
       MaintainStarts, MaintenanceStep,
           SweepStep, SweepHeld, SweepDone, SettleExpiredDispatching, PurgeExpiredSends,
           MaintenanceFails, Tick, CrashStep, DaemonRestarts, StillRead, WrapperStarts,
           WrapperCrashes
      <3>2. CASE AdmissionStep
        <4>1. PICK c \in Deliveries, phase \in {"held", "dispatching"} : BeginDelivery(c, phase)
          BY <2>3, <3>2 DEF AdmissionStep, RejectPrepared, NackKeepsPrepared, CaptureReply,
             CaptureTransition, CaptureFinalize
        <4>2. phase = "dispatching" /\ f = [id |-> c, sock |-> conn, inst |-> conn]
          BY <2>3, <4>1 DEF BeginDelivery
        <4> QED
          BY <2>1, <4>1, <4>2
      <3>3. CASE QueueStep
        <4>1. PICK c \in Deliveries : ReleaseHeld(c)
          BY <2>3, <3>3 DEF QueueStep, CancelHeld
        <4>2. /\ dlv' = [dlv EXCEPT ![c].phase = "dispatching"]
              /\ f = [id |-> c, sock |-> conn, inst |-> dlv[c].inst]
          BY <2>3, <4>1 DEF ReleaseHeld
        <4> QED
          BY <2>1, <4>1, <4>2
      <3>4. CASE SessionStep
        <4>1. PICK j \in Instances, done \in SUBSET Moves :
                \E q \in SUBSET Recoverable(j, done) : Register(j, done, q)
          BY <2>3, <3>4 DEF SessionStep, Disconnect, PurgeWithoutOrphans, PurgePresence,
             DropsRoute, StillRead, NotifyEmitter
        <4>2. PICK q \in SUBSET Recoverable(j, done) : Register(j, done, q)
          BY <4>1
        <4>3. PICK c \in Recoverable(j, done) \ q : f = [id |-> c, sock |-> j, inst |-> j]
          BY <2>3, <4>2 DEF Register
        <4>4. c = d /\ j = i
          BY <2>1, <4>3
        <4> QED
          BY <4>2, <4>3, <4>4
      <3> QED
        BY <3>1, <3>2, <3>3, <3>4 DEF Next
    <2> QED
      BY <2>2, <2>3
  <1> QED
    BY <1>1, <1>2

-----------------------------------------------------------------------------
(* A delivery that was never pushed has reached nobody. *)
HeldUnsent ==
  \A d \in Deliveries : dlv[d].phase \in {"unused", "held", "cancelled"} =>
    \A i \in Instances : ~Reached(i, d)

LEMMA HeldUnsentStep == TypeOK /\ HeldUnsent /\ [Next]_vars => HeldUnsent'
  <1> SUFFICES ASSUME TypeOK, HeldUnsent, [Next]_vars,
                      NEW d \in Deliveries, NEW i \in Instances, Reached(i, d)'
               PROVE  dlv'[d].phase \notin {"unused", "held", "cancelled"}
    BY DEF HeldUnsent
  <1>1. CASE Reached(i, d)
    <2>1. dlv[d].phase \notin {"unused", "held", "cancelled"}
      BY <1>1 DEF HeldUnsent
    <2> QED
      BY <2>1, RowSteps DEF RowStep, PhaseEdges
  <1>2. CASE BeginDelivery(d, "dispatching")
    BY <1>2, BeginDeliveryEffect
  <1>3. CASE dlv' = [dlv EXCEPT ![d].phase = "dispatching"]
    BY <1>3, RowsMovedByOne DEF TypeOK, Phases, RowsMoved
  <1>4. ASSUME NEW done \in SUBSET Moves, NEW q \in SUBSET Recoverable(i, done),
               Register(i, done, q), d \in Recoverable(i, done) \ q
        PROVE  dlv'[d].phase \notin {"unused", "held", "cancelled"}
    BY <1>4, RegisterEffect DEF Recoverable
  <1> QED
    BY <1>1, <1>2, <1>3, <1>4, ReachedSteps

(* A native mission is never held, and reaches at most one instance. *)
MissionReachesOne ==
  \A d \in Deliveries : dlv[d].key \in Missions /\ dlv[d].phase # "unused" =>
    /\ dlv[d].phase # "held"
    /\ \A i, j \in Instances : Reached(i, d) /\ Reached(j, d) => i = j

LEMMA MissionReachesOneStep ==
  TypeOK /\ HeldUnsent /\ MissionReachesOne /\ [Next]_vars => MissionReachesOne'
  <1> SUFFICES ASSUME TypeOK, HeldUnsent, MissionReachesOne, [Next]_vars,
                      NEW d \in Deliveries, dlv'[d].key \in Missions, dlv'[d].phase # "unused"
               PROVE  /\ dlv'[d].phase # "held"
                      /\ \A i, j \in Instances : Reached(i, d)' /\ Reached(j, d)' => i = j
    BY DEF MissionReachesOne
  <1>1. CASE dlv[d].phase = "unused"
    <2>1. \A i \in Instances : ~Reached(i, d)
      BY <1>1 DEF HeldUnsent
    <2>2. \A i \in Instances : Reached(i, d)' => i = conn
      BY <1>1, <2>1, ReachedSteps DEF ReleaseHeld, Recoverable
    <2>3. dlv'[d].phase # "held"
      <3>1. ASSUME dlv'[d].phase = "held" PROVE FALSE
        <4>1. ASSUME NEW c \in Deliveries, NEW phase \in {"held", "dispatching"},
                     BeginDelivery(c, phase)
              PROVE  FALSE
          <5>1. c = d
            BY <1>1, <3>1, <4>1, BeginDeliveryEffect
          <5>2. phase = "held" /\ req.key \in Missions
            BY <3>1, <4>1, <5>1, BeginDeliveryEffect
          <5> QED
            BY <4>1, <5>2 DEF BeginDelivery
        <4>2. ~ \E c \in Deliveries, phase \in {"held", "dispatching"} : BeginDelivery(c, phase)
          BY <4>1
        <4>3. dlv'[d].phase = "unused"
          BY <1>1, <4>2, UnusedSteps
        <4> QED
          BY <3>1, <4>3
      <3> QED
        BY <3>1
    <2> QED
      BY <2>2, <2>3
  <1>2. CASE dlv[d].phase # "unused"
    <2>1. dlv[d].key \in Missions
      BY <1>2, RowSteps DEF RowStep
    <2>2. dlv[d].phase # "held" /\ dlv'[d].phase # "held"
      BY <1>2, <2>1, RowSteps DEF MissionReachesOne, RowStep, PhaseEdges
    <2>3. \A i \in Instances : Reached(i, d)' => Reached(i, d)
      <3> SUFFICES ASSUME NEW i \in Instances, Reached(i, d)' PROVE Reached(i, d)
        OBVIOUS
      <3>1. ~BeginDelivery(d, "dispatching") /\ ~ReleaseHeld(d)
        BY <1>2, <2>2 DEF BeginDelivery, ReleaseHeld
      <3>2. ASSUME NEW done \in SUBSET Moves, NEW q \in SUBSET Recoverable(i, done),
                   Register(i, done, q), d \in Recoverable(i, done) \ q
            PROVE  FALSE
        BY <2>1, <3>2 DEF Register, MissionRows
      <3> QED
        BY <3>1, <3>2, ReachedSteps
    <2> QED
      BY <1>2, <2>1, <2>2, <2>3 DEF MissionReachesOne
  <1> QED
    BY <1>1, <1>2

-----------------------------------------------------------------------------
(* A frame names the instance whose socket it is written on, because every *)
(* held row follows the connection, unless its Register was refused.       *)
HeldFollowsConnection ==
  conn # None /\ ~refused => \A d \in Deliveries : dlv[d].phase = "held" => dlv[d].inst = conn

(* The session changes only at Register, Disconnect, the purge of the      *)
(* presence and a restart; a lost session also loses the reports in it and *)
(* what nobody reads.                                                      *)
LEMMA SessionSteps ==
  ASSUME [Next]_vars
  PROVE  \/ UNCHANGED <<conn, refused>>
         \/ conn' = None /\ toDaemon' = {} /\ toWrapper' = StillRead
         \/ \E i \in Instances, done \in SUBSET Moves :
               \E q \in SUBSET Recoverable(i, done) : Register(i, done, q)
  <1>1. CASE ClientStep \/ AdmissionStep
    BY <1>1 DEF ClientStep, SendReserves, SendResumes, AdmissionStep, RejectPrepared,
       NackKeepsPrepared, CaptureReply, CaptureTransition, CaptureFinalize, BeginDelivery
  <1>2. CASE QueueStep
    BY <1>2 DEF QueueStep, CancelHeld, ReleaseHeld
  <1>3. CASE SessionStep
    BY <1>3 DEF SessionStep, Disconnect, PurgeWithoutOrphans, PurgePresence, DropsRoute,
       NotifyEmitter
  <1>4. CASE WrapperStep
    BY <1>4 DEF WrapperStep, WrapperInjects, WrapperReports, PromptEnters, PromptDispatched,
       InjectionFailed
  <1>5. CASE ReportStep
    BY <1>5 DEF ReportStep, HandleDeliveryAck, ResolveReporter,
       HandleDeliveryIndeterminate
  <1>6. CASE MaintainStarts \/ MaintenanceStep
    BY <1>6 DEF MaintainStarts, MaintenanceStep, SweepStep, SweepHeld, SweepDone,
       SettleExpiredDispatching, PurgeExpiredSends, MaintenanceFails
  <1>7. CASE Tick \/ CrashStep \/ UNCHANGED vars
    BY <1>7 DEF Tick, CrashStep, DaemonRestarts, WrapperStarts, WrapperCrashes
  <1> QED
    BY <1>1, <1>2, <1>3, <1>4, <1>5, <1>6, <1>7 DEF Next

(* A row changes its instance only at Register, or when it is opened. *)
LEMMA InstanceSteps ==
  ASSUME TypeOK, [Next]_vars,
         ~ \E i \in Instances, done \in SUBSET Moves :
               \E q \in SUBSET Recoverable(i, done) : Register(i, done, q),
         NEW d \in Deliveries
  PROVE  \/ dlv'[d].inst = dlv[d].inst
         \/ dlv[d].phase = "unused" /\ conn # None /\ dlv'[d].inst = conn
  <1>1. ASSUME NEW c \in Deliveries, NEW phase \in {"held", "dispatching"},
               BeginDelivery(c, phase)
        PROVE  \/ dlv'[d].inst = dlv[d].inst
               \/ dlv[d].phase = "unused" /\ conn # None /\ dlv'[d].inst = conn
    BY <1>1, BeginDeliveryEffect DEF BeginDelivery
  <1>2. ASSUME NEW c \in Deliveries, CancelHeld(c) \/ SweepHeld(c)
        PROVE  dlv'[d].inst = dlv[d].inst
    <2>1. SettledHeld({c})
      BY <1>2 DEF CancelHeld, SweepHeld
    <2> QED
      BY <2>1, SettledHeldEffect DEF RowsMoved
  <1>3. ASSUME NEW c \in Deliveries, ReleaseHeld(c) PROVE dlv'[d].inst = dlv[d].inst
    BY <1>3, ReleaseHeldEffect DEF RowsMoved
  <1>4. CASE PurgePresence
    BY <1>4, OrphanedEffect DEF PurgePresence, RowsMoved
  <1>5. ASSUME NEW c \in Deliveries, HandleDeliveryAck(c) PROVE dlv'[d].inst = dlv[d].inst
    BY <1>5, AckEffect DEF HandleDeliveryAck, RowsMoved
  <1>6. ASSUME NEW c \in Deliveries, HandleDeliveryIndeterminate(c)
        PROVE  dlv'[d].inst = dlv[d].inst
    <2>1. CASE Quarantined(c)
      BY <2>1, RowsMovedByOne DEF Quarantined, RowsMoved, TypeOK, Phases
    <2> QED
      BY <1>6, <2>1, IndeterminateEffect
  <1>7. CASE SettleExpiredDispatching
    <2>1. RowsMoved(ExpiredRows("dispatching"), "indeterminate")
      BY <1>7, RowsMovedBySet DEF TypeOK, SettleExpiredDispatching, Phases
    <2> QED
      BY <2>1 DEF RowsMoved
  <1>8. CASE PurgeExpiredSends
    BY <1>8, PurgeEffect DEF RowsMoved
  <1> QED
    BY <1>1, <1>2, <1>3, <1>4, <1>5, <1>6, <1>7, <1>8, TableSteps
       DEF QuietStep, SendReserves, RejectPrepared, CaptureTransition, CaptureFinalize

LEMMA HeldFollowsConnectionStep ==
  TypeOK /\ HeldFollowsConnection /\ [Next]_vars => HeldFollowsConnection'
  <1> SUFFICES ASSUME TypeOK, HeldFollowsConnection, [Next]_vars, conn' # None, ~refused',
                      NEW d \in Deliveries, dlv'[d].phase = "held"
               PROVE  dlv'[d].inst = conn'
    BY DEF HeldFollowsConnection
  <1>1. dlv[d].phase \in {"unused", "held"}
    BY RowSteps DEF RowStep, PhaseEdges
  <1>2. ASSUME NEW i \in Instances, NEW done \in SUBSET Moves,
               NEW q \in SUBSET Recoverable(i, done), Register(i, done, q)
        PROVE  dlv'[d].inst = conn'
    <2>1. dlv[d].phase = "held"
      BY <1>1, <1>2, RegisterEffect DEF Recoverable
    <2>2. NewInstance(i, done, d) = i
      BY <1>2, <2>1 DEF Register, NewInstance, Adopted
    <2>3. conn' = i
      BY <1>2 DEF Register
    <2> QED
      BY <1>2, <2>2, <2>3, RegisterEffect
  <1>3. CASE ~ \E i \in Instances, done \in SUBSET Moves :
               \E q \in SUBSET Recoverable(i, done) : Register(i, done, q)
    <2>1. conn' = conn /\ refused' = refused
      BY <1>3, SessionSteps
    <2>2. CASE dlv[d].phase = "held"
      BY <1>3, <2>1, <2>2, InstanceSteps DEF HeldFollowsConnection
    <2>3. CASE dlv[d].phase = "unused"
      <3>1. PICK c \in Deliveries, phase \in {"held", "dispatching"} : BeginDelivery(c, phase)
        BY <2>3, UnusedSteps
      <3>2. c = d
        BY <2>3, <3>1, BeginDeliveryEffect
      <3> QED
        BY <2>1, <3>1, <3>2, BeginDeliveryEffect
    <2> QED
      BY <1>1, <2>2, <2>3
  <1> QED
    BY <1>2, <1>3

LEMMA FramesStep ==
  TypeOK /\ HeldFollowsConnection /\ ReadFramesNameTheirReader /\ [Next]_vars
    => ReadFramesNameTheirReader'
  <1> SUFFICES ASSUME TypeOK, HeldFollowsConnection, ReadFramesNameTheirReader, [Next]_vars,
                      NEW f \in toWrapper'
               PROVE  Unread(f)' \/ f.inst = f.sock
    BY DEF ReadFramesNameTheirReader, Unread
  <1>1. ~ (ClientStep \/ WrapperStep \/ ReportStep \/ MaintainStarts
           \/ MaintenanceStep \/ Tick \/ CrashStep \/ UNCHANGED vars) \/ f \in toWrapper
    BY DEF ClientStep, SendReserves, SendResumes, WrapperStep, WrapperInjects,
       WrapperReports, PromptEnters, PromptDispatched, InjectionFailed, ReportStep,
       HandleDeliveryAck, ResolveReporter, HandleDeliveryIndeterminate,
       MaintainStarts, MaintenanceStep,
       SweepStep, SweepHeld, SweepDone, SettleExpiredDispatching, PurgeExpiredSends,
       MaintenanceFails, Tick, CrashStep, DaemonRestarts, StillRead, WrapperStarts,
       WrapperCrashes
  <1>2. CASE f \in toWrapper
    <2>1. CASE f.inst = f.sock
      BY <2>1
    <2>2. CASE Unread(f)
      <3>1. conn # None
        BY <1>2, <2>2, DeliveryConstants DEF Unread, TypeOK, Frames
      <3>2. f \notin StillRead
        BY <2>2 DEF StillRead
      <3>3. UNCHANGED <<conn, refused>>
        BY <3>1, <3>2, SessionSteps DEF Register
      <3> QED
        BY <2>2, <3>3 DEF Unread
    <2> QED
      BY <1>2, <2>1, <2>2 DEF ReadFramesNameTheirReader
  <1>3. CASE f \notin toWrapper /\ AdmissionStep
    <2>1. PICK c \in Deliveries, phase \in {"held", "dispatching"} : BeginDelivery(c, phase)
      BY <1>3 DEF AdmissionStep, RejectPrepared, NackKeepsPrepared, CaptureReply,
         CaptureTransition, CaptureFinalize
    <2> QED
      BY <1>3, <2>1 DEF BeginDelivery
  <1>4. CASE f \notin toWrapper /\ QueueStep
    <2>1. PICK c \in Deliveries : ReleaseHeld(c)
      BY <1>4 DEF QueueStep, CancelHeld
    <2>2. f = [id |-> c, sock |-> conn, inst |-> dlv[c].inst]
      BY <1>4, <2>1 DEF ReleaseHeld
    <2>3. ~refused => dlv[c].inst = conn
      BY <2>1 DEF ReleaseHeld, HeldFollowsConnection
    <2>4. UNCHANGED <<conn, refused>>
      BY <2>1 DEF ReleaseHeld
    <2> QED
      BY <2>2, <2>3, <2>4 DEF Unread, TypeOK
  <1>5. CASE f \notin toWrapper /\ SessionStep
    <2>1. PICK j \in Instances, done \in SUBSET Moves :
            \E q \in SUBSET Recoverable(j, done) : Register(j, done, q)
      BY <1>5 DEF SessionStep, Disconnect, PurgeWithoutOrphans, PurgePresence,
         DropsRoute, StillRead, NotifyEmitter
    <2>2. PICK q \in SUBSET Recoverable(j, done) : Register(j, done, q)
      BY <2>1
    <2>3. PICK c \in Recoverable(j, done) \ q : f = [id |-> c, sock |-> j, inst |-> j]
      BY <1>5, <2>2 DEF Register
    <2> QED
      BY <2>3
  <1> QED
    BY <1>1, <1>2, <1>3, <1>4, <1>5 DEF Next

LEMMA EmitterStep == TypeOK /\ EmitterIsTold /\ [Next]_vars => EmitterIsTold'
  <1> SUFFICES ASSUME TypeOK, EmitterIsTold, [Next]_vars PROVE EmitterIsTold'
    OBVIOUS
  <1>1. ASSUME \A d \in Deliveries :
                 dlv'[d].phase \in {"orphaned", "cancelled"} => dlv'[d].phase = dlv[d].phase,
               UNCHANGED notice
        PROVE  EmitterIsTold'
    BY <1>1 DEF EmitterIsTold
  <1>2. ASSUME NEW c \in Deliveries, CancelHeld(c) \/ SweepHeld(c) PROVE EmitterIsTold'
    <2>1. SettledHeld({c})
      BY <1>2 DEF CancelHeld, SweepHeld
    <2>2. \A d \in Deliveries : notice'[d] = IF d = c /\ notice[d] = "none" THEN "pending" ELSE notice[d]
      BY <2>1 DEF SettledHeld
    <2> QED
      BY <2>1, <2>2, SettledHeldEffect DEF RowsMoved, EmitterIsTold
  <1>3. CASE PurgePresence
    <2> DEFINE D == OrphanRows(presence)
    <2>1. Orphaned(D)
      BY <1>3 DEF PurgePresence
    <2>2. \A d \in Deliveries : notice'[d] = IF d \in D /\ notice[d] = "none" THEN "pending" ELSE notice[d]
      BY <2>1 DEF Orphaned
    <2> QED
      BY <2>1, <2>2, OrphanedEffect DEF RowsMoved, EmitterIsTold
  <1>4. ASSUME NEW c \in Deliveries, NEW phase \in {"held", "dispatching"},
               BeginDelivery(c, phase)
        PROVE  EmitterIsTold'
    BY <1>1, <1>4, BeginDeliveryEffect DEF BeginDelivery
  <1>5. ASSUME NEW c \in Deliveries, ReleaseHeld(c) PROVE EmitterIsTold'
    <2>1. \A d \in Deliveries : dlv'[d].phase \in {dlv[d].phase, "dispatching", "indeterminate"}
      BY <1>5, ReleaseHeldEffect DEF RowsMoved
    <2> QED
      BY <1>1, <1>5, <2>1 DEF ReleaseHeld
  <1>6. ASSUME NEW i \in Instances, NEW done \in SUBSET Moves,
               NEW q \in SUBSET Recoverable(i, done), Register(i, done, q)
        PROVE  EmitterIsTold'
    <2>1. \A d \in Deliveries : dlv'[d].phase \in {dlv[d].phase, "indeterminate"}
      BY <1>6, RegisterEffect
    <2>2. UNCHANGED notice
      BY <1>6 DEF Register
    <2> QED
      BY <1>1, <2>1, <2>2
  <1>7. ASSUME NEW c \in Deliveries, HandleDeliveryAck(c) PROVE EmitterIsTold'
    <2>1. \A d \in Deliveries : dlv'[d].phase \in {dlv[d].phase, "acked"}
      BY <1>7, AckEffect DEF HandleDeliveryAck, RowsMoved
    <2> QED
      BY <1>1, <1>7, <2>1 DEF HandleDeliveryAck
  <1>8. ASSUME NEW c \in Deliveries, HandleDeliveryIndeterminate(c) PROVE EmitterIsTold'
    <2>1. \A d \in Deliveries : dlv'[d].phase \in {dlv[d].phase, "indeterminate"}
      <3>1. CASE Quarantined(c)
        BY <3>1, RowsMovedByOne DEF Quarantined, RowsMoved, TypeOK, Phases
      <3> QED
        BY <1>8, <3>1, IndeterminateEffect
    <2> QED
      BY <1>1, <1>8, <2>1 DEF HandleDeliveryIndeterminate
  <1>9. CASE SettleExpiredDispatching
    <2>1. RowsMoved(ExpiredRows("dispatching"), "indeterminate")
      BY <1>9, RowsMovedBySet DEF TypeOK, SettleExpiredDispatching, Phases
    <2> QED
      BY <1>1, <1>9, <2>1 DEF RowsMoved, SettleExpiredDispatching
  <1>10. CASE PurgeExpiredSends
    BY <1>1, <1>10, PurgeEffect DEF RowsMoved, PurgeExpiredSends
  <1>11. CASE QuietStep
    BY <1>11 DEF QuietStep, EmitterIsTold
  <1>12. ASSUME NEW k \in Keys, NEW e \in Envelopes, NEW t \in IssueTimes,
                SendReserves(k, e, t)
         PROVE  EmitterIsTold'
    BY <1>1, <1>12 DEF SendReserves
  <1>13. CASE RejectPrepared \/ CaptureTransition \/ CaptureFinalize
    BY <1>1, <1>13 DEF RejectPrepared, CaptureTransition, CaptureFinalize
  <1> QED
    BY <1>2, <1>3, <1>4, <1>5, <1>6, <1>7, <1>8, <1>9, <1>10, <1>11, <1>12, <1>13, TableSteps

-----------------------------------------------------------------------------
(* Record and delivery tell the same story. Beside RecordMatchesDelivery,  *)
(* the invariant says that a record has a result exactly when it is        *)
(* terminal, that a key has at most one stored delivery, and that the      *)
(* captured branch of the send handler runs without any.                   *)
ResultIffTerminal ==
  \A k \in Keys : rec[k].state = "terminal" <=> rec[k].result # "none"

OneStoredPerKey ==
  \A c, d \in Deliveries : Stored(c) /\ Stored(d) /\ dlv[c].key = dlv[d].key => c = d

CapturedAlone ==
  lock = "finalize" => \A d \in Deliveries : Stored(d) => dlv[d].key # req.key

Matching == /\ ResultIffTerminal /\ RecordMatchesDelivery
            /\ OneStoredPerKey /\ CapturedAlone

LEMMA ResultOfPhases ==
  /\ ResultOf("held") = "none" /\ ResultOf("dispatching") = "none"
  /\ ResultOf("indeterminate") = "none" /\ ResultOf("acked") = "accepted"
  /\ ResultOf("orphaned") = "orphaned" /\ ResultOf("cancelled") = "rejected"
  BY DEF ResultOf

(* A key whose record is absent or prepared has no stored delivery. *)
LEMMA UnopenedKey ==
  ASSUME TypeOK, Matching, NEW k \in Keys, rec[k].state \in {"absent", "prepared"},
         NEW d \in Deliveries, Stored(d)
  PROVE  dlv[d].key # k
  BY DEF Matching, RecordMatchesDelivery

(* Moving stored rows D to phase p and the records of their keys to the    *)
(* result of p keeps the two tables matched.                               *)
LEMMA MatchedMove ==
  ASSUME TypeOK, Matching, NEW D, NEW p \in {"acked", "orphaned", "cancelled"},
         NEW K,
         \A k \in Keys : k \in K <=> \E d \in D : dlv[d].key = k,
         \A d \in D : d \in Deliveries /\ InFlight(d),
         RowsMoved(D, p), RecordsMoved(K, "terminal", ResultOf(p)),
         lock' = lock, req' = req
  PROVE  Matching'
  <1> DEFINE R == ResultOf(p)
  <1>1. R # "none"
    BY ResultOfPhases
  <1>2. \A d \in D : Stored(d) /\ dlv[d].key \in Keys
    BY DEF TypeOK, InFlight, Stored
  <1>3. \A d \in Deliveries : Stored(d)' <=> Stored(d)
    BY <1>2 DEF RowsMoved, Stored
  <1>4. ResultIffTerminal'
    BY <1>1 DEF Matching, ResultIffTerminal, RecordsMoved
  <1>5. OneStoredPerKey' /\ CapturedAlone'
    BY <1>3 DEF Matching, OneStoredPerKey, CapturedAlone, RowsMoved
  <1>6. ASSUME NEW d \in Deliveries, Stored(d)'
        PROVE  /\ dlv'[d].key \in Keys
               /\ rec'[dlv'[d].key].result = ResultOf(dlv'[d].phase)
               /\ rec'[dlv'[d].key].state =
                    IF rec'[dlv'[d].key].result = "none" THEN "dispatching" ELSE "terminal"
    <2>1. Stored(d) /\ dlv[d].key \in Keys /\ dlv'[d].key = dlv[d].key
      BY <1>3, <1>6 DEF TypeOK, RowsMoved
    <2>2. CASE d \in D
      <3>1. dlv[d].key \in K
        BY <2>1, <2>2
      <3>2. dlv'[d].phase = p
        BY <2>2 DEF RowsMoved
      <3>3. rec'[dlv[d].key].result = R /\ rec'[dlv[d].key].state = "terminal"
        BY <2>1, <3>1 DEF RecordsMoved
      <3> QED
        BY <1>1, <2>1, <3>2, <3>3
    <2>3. CASE d \notin D
      <3>1. dlv[d].key \notin K
        BY <1>2, <2>1, <2>3 DEF Matching, OneStoredPerKey
      <3>2. dlv'[d].phase = dlv[d].phase
        BY <2>3 DEF RowsMoved
      <3>3. /\ rec'[dlv[d].key].result = rec[dlv[d].key].result
            /\ rec'[dlv[d].key].state = rec[dlv[d].key].state
        BY <2>1, <3>1 DEF RecordsMoved
      <3> QED
        BY <2>1, <3>2, <3>3 DEF Matching, RecordMatchesDelivery
    <2> QED
      BY <2>2, <2>3
  <1>7. RecordMatchesDelivery'
    BY <1>6 DEF RecordMatchesDelivery
  <1> QED
    BY <1>4, <1>5, <1>7 DEF Matching

(* Steps that move rows between phases without a result. *)
LEMMA MatchedStay ==
  ASSUME TypeOK, Matching, UNCHANGED rec,
         lock' # "finalize" \/ (lock' = lock /\ req' = req),
         \A d \in Deliveries :
            /\ dlv'[d].key = dlv[d].key
            /\ \/ dlv'[d].phase = dlv[d].phase
               \/ /\ dlv[d].phase \in {"held", "dispatching"}
                  /\ dlv'[d].phase \in {"dispatching", "indeterminate"}
  PROVE  Matching'
  <1>1. \A d \in Deliveries : Stored(d)' <=> Stored(d)
    BY DEF Stored
  <1>2. \A d \in Deliveries : ResultOf(dlv'[d].phase) = ResultOf(dlv[d].phase)
    BY ResultOfPhases
  <1>3. ResultIffTerminal' /\ OneStoredPerKey' /\ CapturedAlone'
    BY <1>1 DEF Matching, ResultIffTerminal, OneStoredPerKey, CapturedAlone
  <1>4. RecordMatchesDelivery'
    BY <1>1, <1>2 DEF Matching, RecordMatchesDelivery
  <1> QED
    BY <1>3, <1>4 DEF Matching

(* Steps that move the record of a key without delivery. *)
LEMMA MatchedRecord ==
  ASSUME TypeOK, Matching, UNCHANGED dlv, NEW k \in Keys,
         \A d \in Deliveries : Stored(d) => dlv[d].key # k,
         \A c \in Keys \ {k} : rec'[c].state = rec[c].state /\ rec'[c].result = rec[c].result,
         rec'[k].state = "terminal" <=> rec'[k].result # "none",
         lock' = "finalize" => req'.key = k
  PROVE  Matching'
  <1>1. ResultIffTerminal'
    BY DEF Matching, ResultIffTerminal
  <1>2. OneStoredPerKey' /\ CapturedAlone'
    BY DEF Matching, OneStoredPerKey, CapturedAlone, Stored
  <1>3. RecordMatchesDelivery'
    BY DEF Matching, RecordMatchesDelivery, Stored
  <1> QED
    BY <1>1, <1>2, <1>3 DEF Matching

LEMMA MatchingStep == TypeOK /\ Matching /\ [Next]_vars => Matching'
  <1> SUFFICES ASSUME TypeOK, Matching, [Next]_vars PROVE Matching'
    OBVIOUS
  <1>1. CASE QuietStep
    <2>1. lock' # "finalize" \/ (lock' = lock /\ req' = req)
      BY <1>1 DEF QuietStep, SendResumes, CaptureReply
    <2> QED
      BY <1>1, <2>1, MatchedStay DEF QuietStep
  <1>2. ASSUME NEW k \in Keys, NEW e \in Envelopes, NEW t \in IssueTimes,
               SendReserves(k, e, t)
        PROVE  Matching'
    <2>1. rec[k].state = "absent"
      BY <1>2 DEF SendReserves, Reserve, ReplayExisting
    <2>2. \A d \in Deliveries : Stored(d) => dlv[d].key # k
      BY <2>1, UnopenedKey
    <2>3. UNCHANGED dlv /\ lock' = "admit"
      BY <1>2 DEF SendReserves
    <2>4. /\ rec'[k] = [state |-> "prepared", result |-> "none",
                        env |-> e, expires |-> t + Horizon]
          /\ \A c \in Keys \ {k} : rec'[c] = rec[c]
      BY <1>2, SendReservesEffect
    <2>5. rec'[k].state = "prepared" /\ rec'[k].result = "none"
      BY <2>4
    <2> QED
      BY <2>2, <2>3, <2>4, <2>5, MatchedRecord
  <1>3. CASE RejectPrepared
    <2>1. req.key \in Keys /\ rec[req.key].state = "prepared" /\ UNCHANGED dlv /\ lock' = "free"
      BY <1>3 DEF TypeOK, RejectPrepared, Requests
    <2>2. RecordsMoved({req.key}, "terminal", "rejected")
      BY <1>3, <2>1, RecordsMovedByOne DEF TypeOK, RejectPrepared, RecordStates, PublicResults
    <2>3. \A d \in Deliveries : Stored(d) => dlv[d].key # req.key
      BY <2>1, UnopenedKey
    <2> QED
      BY <2>1, <2>2, <2>3, MatchedRecord DEF RecordsMoved
  <1>4. CASE CaptureTransition
    <2>1. /\ req.key \in Keys /\ rec[req.key].state = "prepared" /\ UNCHANGED dlv
          /\ req' = req
      BY <1>4 DEF TypeOK, CaptureTransition, Requests
    <2>2. StateMoved(req.key, "dispatching")
      BY <1>4, <2>1, StateMovedByOne DEF TypeOK, CaptureTransition, RecordStates
    <2>3. \A d \in Deliveries : Stored(d) => dlv[d].key # req.key
      BY <2>1, UnopenedKey
    <2>4. rec[req.key].result = "none"
      BY <2>1 DEF Matching, ResultIffTerminal
    <2> QED
      BY <2>1, <2>2, <2>3, <2>4, MatchedRecord DEF StateMoved
  <1>5. CASE CaptureFinalize
    <2>1. req.key \in Keys /\ UNCHANGED dlv /\ lock' = "free"
      BY <1>5 DEF TypeOK, CaptureFinalize, Requests
    <2>2. RecordsMoved({req.key}, "terminal", "accepted")
      BY <1>5, <2>1, RecordsMovedByOne DEF TypeOK, CaptureFinalize, RecordStates, PublicResults
    <2>3. \A d \in Deliveries : Stored(d) => dlv[d].key # req.key
      BY <1>5 DEF CaptureFinalize, Matching, CapturedAlone
    <2> QED
      BY <2>1, <2>2, <2>3, MatchedRecord DEF RecordsMoved
  <1>6. ASSUME NEW d \in Deliveries, NEW phase \in {"held", "dispatching"},
               BeginDelivery(d, phase)
        PROVE  Matching'
    <2>1. rec[req.key].state = "prepared" /\ lock' = "free" /\ dlv[d].phase = "unused"
      BY <1>6 DEF BeginDelivery
    <2>2. /\ req.key \in Keys /\ StateMoved(req.key, "dispatching")
          /\ dlv'[d].phase = phase /\ dlv'[d].key = req.key
          /\ \A c \in Deliveries \ {d} : dlv'[c] = dlv[c]
      BY <1>6, BeginDeliveryEffect
    <2>3. \A c \in Deliveries : Stored(c) => dlv[c].key # req.key
      BY <2>1, <2>2, UnopenedKey
    <2>4. rec[req.key].result = "none"
      BY <2>1, <2>2 DEF Matching, ResultIffTerminal
    <2>5. \A c \in Deliveries : Stored(c)' => c = d \/ Stored(c)
      BY <2>2 DEF Stored
    <2>6. ResultIffTerminal'
      BY <2>2, <2>4 DEF Matching, ResultIffTerminal, StateMoved
    <2>7. OneStoredPerKey' /\ CapturedAlone'
      BY <2>1, <2>2, <2>3, <2>5 DEF Matching, OneStoredPerKey, CapturedAlone
    <2>8. RecordMatchesDelivery'
      BY <2>2, <2>3, <2>4, <2>5, ResultOfPhases
         DEF Matching, RecordMatchesDelivery, StateMoved
    <2> QED
      BY <2>6, <2>7, <2>8 DEF Matching
  <1>7. ASSUME NEW d \in Deliveries, CancelHeld(d) \/ SweepHeld(d) PROVE Matching'
    <2>1. dlv[d].phase = "held" /\ SettledHeld({d}) /\ lock' = lock /\ req' = req
      BY <1>7 DEF CancelHeld, SweepHeld, ExpiredRows
    <2>2. RowsMoved({d}, "cancelled") /\ RecordsMoved(KeysOf({d}), "terminal", "rejected")
      BY <2>1, SettledHeldEffect
    <2>3. InFlight(d)
      BY <2>1 DEF InFlight
    <2> QED
      BY <2>1, <2>2, <2>3, ResultOfPhases, MatchedMove DEF KeysOf
  <1>8. ASSUME NEW d \in Deliveries, ReleaseHeld(d) PROVE Matching'
    <2>1. PICK p \in {"dispatching", "indeterminate"} : RowsMoved({d}, p)
      BY <1>8, ReleaseHeldEffect
    <2>2. dlv[d].phase = "held" /\ UNCHANGED rec /\ lock' = lock /\ req' = req
      BY <1>8 DEF ReleaseHeld
    <2> QED
      BY <2>1, <2>2, MatchedStay DEF RowsMoved
  <1>9. ASSUME NEW i \in Instances, NEW done \in SUBSET Moves,
               NEW q \in SUBSET Recoverable(i, done), Register(i, done, q)
        PROVE  Matching'
    <2>1. \A d \in q : dlv[d].phase = "dispatching"
      BY DEF Recoverable
    <2>2. UNCHANGED rec /\ lock' = lock /\ req' = req
      BY <1>9 DEF Register
    <2> QED
      BY <1>9, <2>1, <2>2, RegisterEffect, MatchedStay
  <1>10. CASE PurgePresence
    <2> DEFINE D == OrphanRows(presence)
    <2>1. RowsMoved(D, "orphaned") /\ RecordsMoved(KeysOf(D), "terminal", "orphaned")
      BY <1>10, OrphanedEffect DEF PurgePresence
    <2>2. lock' = lock /\ req' = req
      BY <1>10 DEF PurgePresence
    <2>3. \A d \in D : d \in Deliveries /\ InFlight(d)
      BY DEF OrphanRows
    <2>4. \A k \in Keys : k \in KeysOf(D) <=> \E d \in D : dlv[d].key = k
      BY DEF KeysOf
    <2> HIDE DEF D
    <2> QED
      BY <2>1, <2>2, <2>3, <2>4, ResultOfPhases, MatchedMove
  <1>11. ASSUME NEW d \in Deliveries, HandleDeliveryAck(d) PROVE Matching'
    <2>1. lock' = lock /\ req' = req
      BY <1>11 DEF HandleDeliveryAck
    <2>2. CASE AckAccepted(d)
      <3>1. /\ dlv[d].key \in Keys /\ RowsMoved({d}, "acked")
            /\ RecordsMoved({dlv[d].key}, "terminal", "accepted")
        BY <1>11, <2>2, AckEffect
      <3>2. InFlight(d)
        BY <2>2 DEF AckAccepted, InFlight
      <3> QED
        BY <2>1, <3>1, <3>2, ResultOfPhases, MatchedMove
    <2>3. CASE ~AckAccepted(d)
      <3>1. UNCHANGED <<rec, dlv>>
        BY <1>11, <2>3 DEF HandleDeliveryAck
      <3> QED
        BY <2>1, <3>1, MatchedStay
    <2> QED
      BY <2>2, <2>3
  <1>12. ASSUME NEW d \in Deliveries, HandleDeliveryIndeterminate(d) PROVE Matching'
    <2>1. UNCHANGED rec /\ lock' = lock /\ req' = req
      BY <1>12 DEF HandleDeliveryIndeterminate
    <2>2. CASE Quarantined(d)
      <3>1. RowsMoved({d}, "indeterminate")
        BY <2>2, RowsMovedByOne DEF Quarantined, TypeOK, Phases
      <3> QED
        BY <2>1, <2>2, <3>1, MatchedStay DEF RowsMoved, Quarantined
    <2>3. CASE UNCHANGED dlv
      BY <2>1, <2>3, MatchedStay
    <2> QED
      BY <1>12, <2>2, <2>3, IndeterminateEffect
  <1>13. CASE SettleExpiredDispatching
    <2>1. RowsMoved(ExpiredRows("dispatching"), "indeterminate")
      BY <1>13, RowsMovedBySet DEF TypeOK, SettleExpiredDispatching, Phases
    <2>2. UNCHANGED rec /\ lock' = "purge"
      BY <1>13 DEF SettleExpiredDispatching
    <2>3. \A d \in ExpiredRows("dispatching") : dlv[d].phase = "dispatching"
      BY DEF ExpiredRows
    <2> QED
      BY <2>1, <2>2, <2>3, MatchedStay DEF RowsMoved
  <1>14. CASE PurgeExpiredSends
    <2>1. \A d \in Deliveries : Stored(d)' =>
            /\ Stored(d) /\ dlv[d].key \in Keys /\ dlv[d].key \notin PurgeableKeys
            /\ dlv'[d].phase = dlv[d].phase /\ dlv'[d].key = dlv[d].key
      BY <1>14, PurgeEffect DEF RowsMoved, Stored, TypeOK
    <2>2. \A k \in Keys : rec'[k] = IF k \in PurgeableKeys THEN NoRecord ELSE rec[k]
      BY <1>14, PurgeEffect
    <2>3. lock' = "free"
      BY <1>14 DEF PurgeExpiredSends
    <2>4. ResultIffTerminal'
      BY <2>2 DEF Matching, ResultIffTerminal, NoRecord
    <2>5. OneStoredPerKey' /\ CapturedAlone'
      BY <2>1, <2>3 DEF Matching, OneStoredPerKey, CapturedAlone
    <2>6. RecordMatchesDelivery'
      BY <2>1, <2>2 DEF Matching, RecordMatchesDelivery
    <2> QED
      BY <2>4, <2>5, <2>6 DEF Matching
  <1> QED
    BY <1>1, <1>2, <1>3, <1>4, <1>5, <1>6, <1>7, <1>8, <1>9, <1>10, <1>11, <1>12, <1>13,
       <1>14, TableSteps

-----------------------------------------------------------------------------
(* A delivery carries what its key was reserved for, because the admission *)
(* handler works on the record it has reserved or recognised.              *)
AdmitsReserved == lock = "admit" => rec[req.key].env = req.env

(* What a purged delivery leaves behind: it had expired, so any later      *)
(* reservation of its key expires later.                                   *)
PurgedIsPast ==
  \A d \in Deliveries : dlv[d].phase = "purged" =>
    /\ dlv[d].expires <= now
    /\ \A k \in Keys : k = dlv[d].key /\ rec[k].state # "absent"
         => dlv[d].expires < rec[k].expires

(* The content and the expiry of a record change only when it is reserved  *)
(* or purged.                                                              *)
LEMMA RecordSteps ==
  ASSUME TypeOK, Matching, [Next]_vars, NEW k \in Keys
  PROVE  \/ /\ rec'[k].env = rec[k].env /\ rec'[k].expires = rec[k].expires
            /\ rec[k].state = "absent" => rec'[k].state = "absent"
            /\ rec[k].state # "absent" => rec'[k].state # "absent"
         \/ \E e \in Envelopes, t \in IssueTimes : SendReserves(k, e, t)
         \/ PurgeExpiredSends /\ k \in PurgeableKeys /\ rec'[k] = NoRecord
  <1> DEFINE Kept == /\ rec'[k].env = rec[k].env /\ rec'[k].expires = rec[k].expires
                     /\ rec[k].state = "absent" => rec'[k].state = "absent"
                     /\ rec[k].state # "absent" => rec'[k].state # "absent"
  <1>1. ASSUME NEW c \in Keys, NEW e \in Envelopes, NEW t \in IssueTimes,
               SendReserves(c, e, t), c # k
        PROVE  Kept
    BY <1>1, SendReservesEffect
  <1>2. CASE RejectPrepared
    <2>1. req.key \in Keys /\ rec[req.key].state = "prepared"
      BY <1>2 DEF TypeOK, RejectPrepared, Requests
    <2>2. RecordsMoved({req.key}, "terminal", "rejected")
      BY <1>2, <2>1, RecordsMovedByOne DEF TypeOK, RejectPrepared, RecordStates, PublicResults
    <2> QED
      BY <2>1, <2>2 DEF RecordsMoved
  <1>3. CASE CaptureTransition
    <2>1. req.key \in Keys /\ rec[req.key].state = "prepared"
      BY <1>3 DEF TypeOK, CaptureTransition, Requests
    <2>2. StateMoved(req.key, "dispatching")
      BY <1>3, <2>1, StateMovedByOne DEF TypeOK, CaptureTransition, RecordStates
    <2> QED
      BY <2>1, <2>2 DEF StateMoved
  <1>4. CASE CaptureFinalize
    <2>1. req.key \in Keys /\ rec[req.key].state = "dispatching"
      BY <1>4 DEF TypeOK, CaptureFinalize, Requests
    <2>2. RecordsMoved({req.key}, "terminal", "accepted")
      BY <1>4, <2>1, RecordsMovedByOne DEF TypeOK, CaptureFinalize, RecordStates, PublicResults
    <2> QED
      BY <2>1, <2>2 DEF RecordsMoved
  <1>5. ASSUME NEW d \in Deliveries, NEW phase \in {"held", "dispatching"},
               BeginDelivery(d, phase)
        PROVE  Kept
    <2>1. rec[req.key].state = "prepared"
      BY <1>5 DEF BeginDelivery
    <2> QED
      BY <1>5, <2>1, BeginDeliveryEffect DEF StateMoved
  <1>6. ASSUME NEW D, \A d \in D : d \in Deliveries /\ Stored(d), NEW p,
               RecordsMoved(KeysOf(D), "terminal", p)
        PROVE  Kept
    <2>1. \A c \in KeysOf(D) : rec[c].state # "absent"
      BY <1>6 DEF KeysOf, Matching, RecordMatchesDelivery
    <2> QED
      BY <1>6, <2>1 DEF RecordsMoved
  <1>7. ASSUME NEW d \in Deliveries, CancelHeld(d) \/ SweepHeld(d) PROVE Kept
    <2>1. dlv[d].phase = "held" /\ SettledHeld({d})
      BY <1>7 DEF CancelHeld, SweepHeld, ExpiredRows
    <2>2. RecordsMoved(KeysOf({d}), "terminal", "rejected")
      BY <2>1, SettledHeldEffect
    <2>3. Stored(d)
      BY <2>1 DEF Stored
    <2> QED
      BY <1>6, <2>2, <2>3
  <1>8. CASE PurgePresence
    <2> DEFINE D == OrphanRows(presence)
    <2>1. RecordsMoved(KeysOf(D), "terminal", "orphaned")
      BY <1>8, OrphanedEffect DEF PurgePresence
    <2>2. \A d \in D : d \in Deliveries /\ Stored(d)
      BY DEF OrphanRows, InFlight, Stored
    <2> QED
      BY <1>6, <2>1, <2>2
  <1>9. ASSUME NEW d \in Deliveries, HandleDeliveryAck(d) PROVE Kept
    <2>1. CASE AckAccepted(d)
      <3>1. Stored(d) /\ RecordsMoved({dlv[d].key}, "terminal", "accepted")
        BY <1>9, <2>1, AckEffect DEF AckAccepted, Stored
      <3>2. rec[dlv[d].key].state # "absent"
        BY <3>1 DEF Matching, RecordMatchesDelivery
      <3> QED
        BY <3>1, <3>2 DEF RecordsMoved
    <2>2. CASE ~AckAccepted(d)
      BY <1>9, <2>2 DEF HandleDeliveryAck
    <2> QED
      BY <2>1, <2>2
  <1>10. CASE PurgeExpiredSends
    BY <1>10, PurgeEffect
  <1>11. CASE UNCHANGED rec
    BY <1>11
  <1>12. ASSUME NEW d \in Deliveries, ReleaseHeld(d) \/ HandleDeliveryIndeterminate(d)
         PROVE  UNCHANGED rec
    BY <1>12 DEF ReleaseHeld, HandleDeliveryIndeterminate
  <1>13. ASSUME NEW i \in Instances, NEW done \in SUBSET Moves,
               NEW q \in SUBSET Recoverable(i, done), Register(i, done, q)
         PROVE  UNCHANGED rec
    BY <1>13 DEF Register
  <1>14. CASE QuietStep \/ SettleExpiredDispatching
    BY <1>11, <1>14 DEF QuietStep, SettleExpiredDispatching
  <1> QED
    BY <1>1, <1>2, <1>3, <1>4, <1>5, <1>7, <1>8, <1>9, <1>10, <1>11, <1>12, <1>13, <1>14,
       TableSteps

LEMMA AdmitsReservedStep ==
  TypeOK /\ Matching /\ AdmitsReserved /\ [Next]_vars => AdmitsReserved'
  <1> SUFFICES ASSUME TypeOK, Matching, AdmitsReserved, [Next]_vars, lock' = "admit"
               PROVE  rec'[req'.key].env = req'.env
    BY DEF AdmitsReserved
  <1>1. CASE QuietStep
    <2>1. ASSUME NEW k \in Keys, NEW e \in Envelopes, NEW t \in IssueTimes,
                 SendResumes(k, e, t)
          PROVE  rec'[req'.key].env = req'.env
      <3>1. rec[k].env = e
        BY <2>1 DEF SendResumes, Reserve, ReplayExisting, SameCanonical
      <3>2. req'.key = k /\ req'.env = e /\ rec' = rec
        BY <2>1 DEF SendResumes
      <3> QED
        BY <3>1, <3>2
    <2>2. ~CaptureReply
      BY DEF CaptureReply
    <2>3. CASE UNCHANGED <<lock, req>>
      BY <1>1, <2>3 DEF QuietStep, AdmitsReserved
    <2> QED
      BY <1>1, <2>1, <2>2, <2>3 DEF QuietStep
  <1>2. ASSUME NEW k \in Keys, NEW e \in Envelopes, NEW t \in IssueTimes,
               SendReserves(k, e, t)
        PROVE  rec'[req'.key].env = req'.env
    <2>1. rec'[k] = [state |-> "prepared", result |-> "none",
                     env |-> e, expires |-> t + Horizon]
      BY <1>2, SendReservesEffect
    <2>2. req'.key = k /\ req'.env = e
      BY <1>2 DEF SendReserves
    <2> QED
      BY <2>1, <2>2
  <1>3. CASE lock = "free" /\ lock' = lock
    BY <1>3
  <1>4. ~ (RejectPrepared \/ CaptureTransition \/ CaptureFinalize \/ PurgePresence
           \/ SettleExpiredDispatching \/ PurgeExpiredSends)
    BY DEF RejectPrepared, CaptureTransition, CaptureFinalize, PurgePresence,
       SettleExpiredDispatching, PurgeExpiredSends
  <1>5. ASSUME NEW d \in Deliveries,
               \/ \E phase \in {"held", "dispatching"} : BeginDelivery(d, phase)
               \/ CancelHeld(d) \/ ReleaseHeld(d) \/ SweepHeld(d)
               \/ HandleDeliveryAck(d) \/ HandleDeliveryIndeterminate(d)
        PROVE  FALSE
    BY <1>5 DEF BeginDelivery, CancelHeld, ReleaseHeld, SweepHeld, HandleDeliveryAck,
       HandleDeliveryIndeterminate
  <1>6. ASSUME NEW i \in Instances, NEW done \in SUBSET Moves,
               NEW q \in SUBSET Recoverable(i, done), Register(i, done, q)
        PROVE  FALSE
    BY <1>6 DEF Register
  <1> QED
    BY <1>1, <1>2, <1>4, <1>5, <1>6, TableSteps

LEMMA DeliveredAsReservedStep ==
  TypeOK /\ Matching /\ AdmitsReserved /\ DeliveredAsReserved /\ [Next]_vars
    => DeliveredAsReserved'
  <1> SUFFICES ASSUME TypeOK, Matching, AdmitsReserved, DeliveredAsReserved, [Next]_vars,
                      NEW d \in Deliveries, Stored(d)'
               PROVE  /\ rec'[dlv'[d].key].env = dlv'[d].env
                      /\ rec'[dlv'[d].key].expires = dlv'[d].expires
    BY DEF DeliveredAsReserved
  <1>1. CASE Stored(d)
    <2>1. /\ dlv'[d].key = dlv[d].key /\ dlv'[d].env = dlv[d].env
          /\ dlv'[d].expires = dlv[d].expires /\ dlv[d].key \in Keys
      BY <1>1, RowSteps DEF RowStep, Stored, TypeOK
    <2>2. rec[dlv[d].key].state # "absent"
      BY <1>1 DEF Matching, RecordMatchesDelivery
    <2>3. ASSUME NEW e \in Envelopes, NEW t \in IssueTimes, SendReserves(dlv[d].key, e, t)
          PROVE  FALSE
      BY <2>2, <2>3 DEF SendReserves, Reserve, ReplayExisting
    <2>4. ASSUME PurgeExpiredSends, dlv[d].key \in PurgeableKeys PROVE FALSE
      BY <1>1, <2>4, PurgeEffect DEF RowsMoved, Stored
    <2> QED
      BY <1>1, <2>1, <2>3, <2>4, RecordSteps DEF DeliveredAsReserved
  <1>2. CASE ~Stored(d)
    <2>1. dlv[d].phase = "unused" /\ dlv'[d].phase # "unused"
      BY <1>2, RowSteps DEF RowStep, PhaseEdges, Stored
    <2>2. PICK c \in Deliveries, phase \in {"held", "dispatching"} : BeginDelivery(c, phase)
      BY <2>1, UnusedSteps
    <2>3. c = d
      BY <2>1, <2>2, BeginDeliveryEffect
    <2>4. /\ dlv'[d] = [phase |-> phase, key |-> req.key, env |-> req.env,
                        expires |-> rec[req.key].expires, inst |-> conn]
          /\ req.key \in Keys /\ StateMoved(req.key, "dispatching")
      BY <2>2, <2>3, BeginDeliveryEffect
    <2>5. rec[req.key].env = req.env
      BY <2>2 DEF BeginDelivery, AdmitsReserved
    <2> QED
      BY <2>4, <2>5 DEF StateMoved
  <1> QED
    BY <1>1, <1>2

LEMMA PurgedIsPastStep ==
  TypeOK /\ Matching /\ DeliveredAsReserved /\ PurgedIsPast /\ [Next]_vars => PurgedIsPast'
  <1> SUFFICES ASSUME TypeOK, Matching, DeliveredAsReserved, PurgedIsPast, [Next]_vars,
                      NEW d \in Deliveries, dlv'[d].phase = "purged"
               PROVE  /\ dlv'[d].expires <= now'
                      /\ \A k \in Keys : k = dlv'[d].key /\ rec'[k].state # "absent"
                           => dlv'[d].expires < rec'[k].expires
    BY DEF PurgedIsPast
  <1>1. now \in Nat /\ now' \in Nat /\ now <= now' /\ dlv[d].expires \in Nat
    <2>1. now' \in Nat /\ dlv[d].expires \in Nat /\ now \in Nat
      BY TypeStep DEF TypeOK, Rows
    <2>2. now' = now \/ now' = now + 1
      BY ClockSteps
    <2> QED
      BY <2>1, <2>2
  <1>2. CASE dlv[d].phase = "purged"
    <2>1. dlv'[d].key = dlv[d].key /\ dlv'[d].expires = dlv[d].expires
      BY <1>2, RowSteps DEF RowStep
    <2>2. dlv[d].expires <= now
      BY <1>2 DEF PurgedIsPast
    <2>3. ASSUME NEW k \in Keys, k = dlv[d].key, rec'[k].state # "absent"
          PROVE  dlv[d].expires < rec'[k].expires
      <3>1. CASE rec[k].state # "absent" /\ rec'[k].expires = rec[k].expires
        BY <1>2, <2>3, <3>1 DEF PurgedIsPast
      <3>2. ASSUME NEW e \in Envelopes, NEW t \in IssueTimes, SendReserves(k, e, t)
            PROVE  dlv[d].expires < rec'[k].expires
        <4>1. rec'[k] = [state |-> "prepared", result |-> "none",
                         env |-> e, expires |-> t + Horizon]
          BY <3>2, SendReservesEffect
        <4>2. ~(t + Horizon <= now)
          BY <3>2 DEF SendReserves, Reserve, ReplayExisting
        <4>3. t + Horizon \in Nat
          BY DeliveryConstants DEF IssueTimes
        <4>4. now < t + Horizon
          BY <1>1, <4>2, <4>3
        <4> QED
          BY <1>1, <2>2, <4>1, <4>3, <4>4
      <3>3. ~(PurgeExpiredSends /\ k \in PurgeableKeys /\ rec'[k] = NoRecord)
        BY <2>3 DEF NoRecord
      <3> QED
        BY <2>3, <3>1, <3>2, <3>3, RecordSteps
    <2> QED
      BY <1>1, <2>1, <2>2, <2>3
  <1>3. CASE dlv[d].phase # "purged"
    <2>1. PurgeExpiredSends /\ Stored(d) /\ dlv[d].key \in PurgeableKeys
      BY <1>3, PurgedSteps
    <2>2. dlv'[d].key = dlv[d].key /\ dlv'[d].expires = dlv[d].expires
      BY <2>1, RowSteps DEF RowStep, Stored
    <2>3. rec'[dlv[d].key] = NoRecord
      BY <2>1, PurgeEffect DEF PurgeableKeys
    <2>4. rec[dlv[d].key].expires = dlv[d].expires
      BY <2>1 DEF DeliveredAsReserved
    <2>5. dlv[d].expires + Grace <= now
      BY <2>1, <2>4 DEF PurgeableKeys
    <2>6. dlv[d].expires <= now
      BY <1>1, <2>5, DeliveryConstants
    <2> QED
      BY <1>1, <2>2, <2>3, <2>6 DEF NoRecord
  <1> QED
    BY <1>2, <1>3

LEMMA OneDeliveryStep ==
  TypeOK /\ Matching /\ PurgedIsPast /\ OneDeliveryPerSubmission /\ [Next]_vars
    => OneDeliveryPerSubmission'
  <1> SUFFICES ASSUME TypeOK, Matching, PurgedIsPast, OneDeliveryPerSubmission, [Next]_vars,
                      NEW c \in Deliveries, NEW d \in Deliveries, c # d,
                      dlv'[c].phase # "unused", dlv'[d].phase # "unused",
                      dlv'[c].key = dlv'[d].key, dlv'[c].env = dlv'[d].env,
                      dlv'[c].expires = dlv'[d].expires
               PROVE  FALSE
    BY DEF OneDeliveryPerSubmission
  <1>1. CASE dlv[c].phase # "unused" /\ dlv[d].phase # "unused"
    BY <1>1, RowSteps DEF RowStep, OneDeliveryPerSubmission
  <1>2. ASSUME NEW a \in Deliveries, NEW b \in Deliveries, a # b,
               dlv[b].phase = "unused", dlv'[b].phase # "unused", dlv'[a].phase # "unused",
               dlv'[a].key = dlv'[b].key, dlv'[a].expires = dlv'[b].expires
        PROVE  FALSE
    <2>1. PICK x \in Deliveries, phase \in {"held", "dispatching"} : BeginDelivery(x, phase)
      BY <1>2, UnusedSteps
    <2>2. x = b
      BY <1>2, <2>1, BeginDeliveryEffect
    <2>3. /\ dlv'[b] = [phase |-> phase, key |-> req.key, env |-> req.env,
                        expires |-> rec[req.key].expires, inst |-> conn]
          /\ dlv'[a] = dlv[a] /\ req.key \in Keys
      BY <1>2, <2>1, <2>2, BeginDeliveryEffect
    <2>4. rec[req.key].state = "prepared"
      BY <2>1 DEF BeginDelivery
    <2>5. dlv[a].key = req.key /\ dlv[a].expires = rec[req.key].expires /\ dlv[a].phase # "unused"
      BY <1>2, <2>3
    <2>6. CASE dlv[a].phase = "purged"
      <3>1. dlv[a].expires < rec[req.key].expires
        BY <2>3, <2>4, <2>5, <2>6 DEF PurgedIsPast
      <3>2. dlv[a].expires \in Nat
        BY DEF TypeOK, Rows
      <3> QED
        BY <2>5, <3>1, <3>2
    <2>7. CASE dlv[a].phase # "purged"
      BY <2>3, <2>4, <2>5, <2>7, UnopenedKey DEF Stored
    <2> QED
      BY <2>6, <2>7
  <1>3. CASE dlv[d].phase = "unused"
    BY <1>2, <1>3
  <1>4. CASE dlv[c].phase = "unused"
    BY <1>2, <1>4
  <1> QED
    BY <1>1, <1>3, <1>4

-----------------------------------------------------------------------------
(* "accepted" is true: an acknowledgement on its way was sent for a prompt *)
(* that did enter the connected instance, an acknowledged row for one that *)
(* entered the instance of the row, and the handler in the captured branch *)
(* has captured.                                                           *)
AcksAreTrue ==
  \A d \in Deliveries : [id |-> d, kind |-> "DeliverAcked"] \in toDaemon =>
    conn \in Instances /\ injected[conn][d] = 1

AckedWasInjected ==
  \A d \in Deliveries : dlv[d].phase = "acked" => injected[dlv[d].inst][d] = 1

HasCaptured == lock \in {"captured", "finalize"} => captured[req.key]

LEMMA InjectedStays ==
  ASSUME TypeOK, ReceiptFirst, [Next]_vars,
         NEW i \in Instances, NEW d \in Deliveries, injected[i][d] = 1
  PROVE  injected'[i][d] = 1
  <1>1. ASSUME NEW j \in Instances, NEW c \in Deliveries, PromptEnters(j, c)
        PROVE  injected'[i][d] = 1
    <2>1. injected[j][c] = 0
      BY <1>1 DEF PromptEnters, ReceiptFirst
    <2> QED
      BY <1>1, <2>1 DEF PromptEnters, TypeOK
  <1> QED
    BY <1>1, WrapperSteps
       DEF WrapperInjects, PromptDispatched, InjectionFailed, WrapperCrashes

(* The wrapper sends an acknowledgement from two places only. *)
LEMMA AckReportSteps ==
  ASSUME [Next]_vars, NEW d \in Deliveries,
         [id |-> d, kind |-> "DeliverAcked"] \in toDaemon',
         [id |-> d, kind |-> "DeliverAcked"] \notin toDaemon
  PROVE  \/ \E f \in toWrapper : /\ WrapperReports(f) /\ f.id = d /\ conn = f.sock
                                 /\ ReceiptDecision(f.sock, d) = "Acked"
         \/ \E i \in Instances : PromptDispatched(i, d) /\ conn = i
  <1>1. ~ (ClientStep \/ AdmissionStep \/ QueueStep)
    BY DEF ClientStep, SendReserves, SendResumes, AdmissionStep, RejectPrepared,
       NackKeepsPrepared, CaptureReply, CaptureTransition, CaptureFinalize, BeginDelivery,
       QueueStep, CancelHeld, ReleaseHeld
  <1>2. ~ SessionStep
    BY DEF SessionStep, Register, Disconnect, DropsRoute,
       PurgeWithoutOrphans, PurgePresence, NotifyEmitter
  <1>3. ~ ReportStep
    BY DEF ReportStep, HandleDeliveryAck, ResolveReporter,
       HandleDeliveryIndeterminate
  <1>4. ~ (MaintainStarts \/ MaintenanceStep)
    BY DEF MaintainStarts, MaintenanceStep, SweepStep, SweepHeld, SweepDone,
       SettleExpiredDispatching, PurgeExpiredSends, MaintenanceFails
  <1>5. ~ (Tick \/ CrashStep \/ UNCHANGED vars)
    BY DEF Tick, CrashStep, DaemonRestarts, WrapperStarts, WrapperCrashes
  <1>6. ASSUME NEW f \in toWrapper, WrapperReports(f)
        PROVE  f.id = d /\ conn = f.sock /\ ReceiptDecision(f.sock, d) = "Acked"
    <2>1. CASE ReportBack(f.sock, f.id, "DeliverAcked") /\ ReceiptDecision(f.sock, f.id) = "Acked"
      BY <2>1 DEF ReportBack
    <2>2. CASE ReportBack(f.sock, f.id, "DeliveryIndeterminate")
      BY <2>2 DEF ReportBack
    <2> QED
      BY <1>6, <2>1, <2>2 DEF WrapperReports
  <1>7. ASSUME NEW i \in Instances, NEW c \in Deliveries, PromptDispatched(i, c)
        PROVE  c = d /\ conn = i
    <2>1. CASE ReportBack(i, c, "DeliverAcked")
      BY <2>1 DEF ReportBack
    <2>2. CASE ReportBack(i, c, "DeliveryIndeterminate")
      BY <2>2 DEF ReportBack
    <2> QED
      BY <1>7, <2>1, <2>2 DEF PromptDispatched
  <1>8. ASSUME NEW i \in Instances, NEW c \in Deliveries, InjectionFailed(i, c)
        PROVE  FALSE
    BY <1>8 DEF InjectionFailed, ReportBack
  <1>9. WrapperStep
    BY <1>1, <1>2, <1>3, <1>4, <1>5 DEF Next
  <1>10. \A f \in toWrapper : ~WrapperInjects(f)
    BY DEF WrapperInjects
  <1>11. \A i \in Instances, c \in Deliveries : ~PromptEnters(i, c)
    BY DEF PromptEnters
  <1> QED
    BY <1>6, <1>7, <1>8, <1>9, <1>10, <1>11 DEF WrapperStep

LEMMA AcksAreTrueStep ==
  TypeOK /\ ReceiptFirst /\ AcksAreTrue /\ [Next]_vars => AcksAreTrue'
  <1> SUFFICES ASSUME TypeOK, ReceiptFirst, AcksAreTrue, [Next]_vars, NEW d \in Deliveries,
                      [id |-> d, kind |-> "DeliverAcked"] \in toDaemon'
               PROVE  conn' \in Instances /\ injected'[conn'][d] = 1
    BY DEF AcksAreTrue
  <1>1. CASE [id |-> d, kind |-> "DeliverAcked"] \in toDaemon
    <2>1. conn \in Instances /\ injected[conn][d] = 1
      BY <1>1 DEF AcksAreTrue
    <2>2. conn' = conn
      BY <2>1, SessionSteps, DeliveryConstants DEF Register
    <2> QED
      BY <2>1, <2>2, InjectedStays
  <1>2. ASSUME NEW f \in toWrapper, WrapperReports(f), f.id = d, conn = f.sock,
               ReceiptDecision(f.sock, d) = "Acked"
        PROVE  conn' \in Instances /\ injected'[conn'][d] = 1
    <2>1. f.sock \in Instances
      BY DEF TypeOK, Frames
    <2>2. receipt[f.sock][d] = "acked"
      BY <1>2 DEF ReceiptDecision
    <2>3. conn' = conn
      BY <1>2 DEF WrapperReports
    <2> QED
      BY <1>2, <2>1, <2>2, <2>3, InjectedStays DEF ReceiptFirst
  <1>3. ASSUME NEW i \in Instances, PromptDispatched(i, d), conn = i
        PROVE  conn' \in Instances /\ injected'[conn'][d] = 1
    <2>1. pending[i][d] = "sent" /\ conn' = conn
      BY <1>3 DEF PromptDispatched
    <2> QED
      BY <1>3, <2>1, InjectedStays DEF ReceiptFirst
  <1> QED
    BY <1>1, <1>2, <1>3, AckReportSteps

(* A row is acknowledged by an accepted acknowledgement only. *)
LEMMA AckedSteps ==
  ASSUME TypeOK, [Next]_vars, NEW d \in Deliveries,
         dlv[d].phase # "acked", dlv'[d].phase = "acked"
  PROVE  HandleDeliveryAck(d) /\ AckAccepted(d)
  <1>1. ASSUME NEW c \in Deliveries, CancelHeld(c) \/ SweepHeld(c) PROVE FALSE
    <2>1. SettledHeld({c})
      BY <1>1 DEF CancelHeld, SweepHeld
    <2> QED
      BY <2>1, SettledHeldEffect DEF RowsMoved
  <1>2. ASSUME NEW c \in Deliveries, ReleaseHeld(c) PROVE FALSE
    BY <1>2, ReleaseHeldEffect DEF RowsMoved
  <1>3. ASSUME NEW i \in Instances, NEW done \in SUBSET Moves,
               NEW q \in SUBSET Recoverable(i, done), Register(i, done, q)
        PROVE  FALSE
    BY <1>3, RegisterEffect
  <1>4. ~PurgePresence
    BY OrphanedEffect DEF PurgePresence, RowsMoved
  <1>5. ASSUME NEW c \in Deliveries, HandleDeliveryAck(c) PROVE c = d /\ AckAccepted(d)
    <2>1. AckAccepted(c)
      BY <1>5 DEF HandleDeliveryAck
    <2> QED
      BY <1>5, <2>1, AckEffect DEF RowsMoved
  <1>6. ASSUME NEW c \in Deliveries, HandleDeliveryIndeterminate(c) PROVE FALSE
    BY <1>6, IndeterminateEffect DEF Quarantined, TypeOK, Rows
  <1>7. ~SettleExpiredDispatching
    <2>1. SettleExpiredDispatching => RowsMoved(ExpiredRows("dispatching"), "indeterminate")
      BY RowsMovedBySet DEF TypeOK, SettleExpiredDispatching, Phases
    <2> QED
      BY <2>1 DEF RowsMoved
  <1>8. ASSUME NEW c \in Deliveries, NEW phase \in {"held", "dispatching"},
               BeginDelivery(c, phase)
        PROVE  FALSE
    BY <1>8, BeginDeliveryEffect
  <1>9. ~PurgeExpiredSends
    BY PurgeEffect DEF RowsMoved
  <1>10. PICK c \in Deliveries : HandleDeliveryAck(c)
    BY <1>1, <1>2, <1>3, <1>4, <1>6, <1>7, <1>8, <1>9, TableSteps
       DEF QuietStep, SendReserves, RejectPrepared, CaptureTransition, CaptureFinalize
  <1> QED
    BY <1>5, <1>10

LEMMA AckedWasInjectedStep ==
  TypeOK /\ ReceiptFirst /\ AcksAreTrue /\ AckedWasInjected /\ [Next]_vars
    => AckedWasInjected'
  <1> SUFFICES ASSUME TypeOK, ReceiptFirst, AcksAreTrue, AckedWasInjected, [Next]_vars,
                      NEW d \in Deliveries, dlv'[d].phase = "acked"
               PROVE  injected'[dlv'[d].inst][d] = 1
    BY DEF AckedWasInjected
  <1>1. CASE dlv[d].phase = "acked"
    <2>1. injected[dlv[d].inst][d] = 1 /\ dlv[d].inst \in Instances
      BY <1>1 DEF AckedWasInjected, TypeOK, Stored
    <2>2. ASSUME NEW i \in Instances, NEW done \in SUBSET Moves,
               NEW q \in SUBSET Recoverable(i, done), Register(i, done, q)
          PROVE  dlv'[d].inst = dlv[d].inst
      <3>1. NewInstance(i, done, d) = dlv[d].inst
        BY <1>1 DEF NewInstance, Reassigned, Adopted, InFlight
      <3> QED
        BY <2>2, <3>1, RegisterEffect
    <2>3. dlv'[d].inst = dlv[d].inst
      BY <1>1, <2>2, InstanceSteps
    <2> QED
      BY <2>1, <2>3, InjectedStays
  <1>2. CASE dlv[d].phase # "acked"
    <2>1. HandleDeliveryAck(d) /\ AckAccepted(d)
      BY <1>2, AckedSteps
    <2>2. conn \in Instances /\ injected[conn][d] = 1
      BY <2>1 DEF HandleDeliveryAck, AcksAreTrue
    <2>3. dlv'[d].inst = conn
      BY <2>1, AckEffect DEF AckAccepted, RowsMoved
    <2> QED
      BY <2>2, <2>3, InjectedStays
  <1> QED
    BY <1>1, <1>2

LEMMA CapturedSteps ==
  ASSUME [Next]_vars
  PROVE  UNCHANGED captured \/ CaptureReply \/ PurgeExpiredSends
  <1>1. CASE ClientStep \/ AdmissionStep
    BY <1>1 DEF ClientStep, SendReserves, SendResumes, AdmissionStep, RejectPrepared,
       NackKeepsPrepared, CaptureTransition, CaptureFinalize, BeginDelivery
  <1>2. CASE QueueStep \/ SessionStep
    BY <1>2 DEF QueueStep, CancelHeld, ReleaseHeld, SessionStep, Register, Disconnect,
       PurgeWithoutOrphans, PurgePresence, NotifyEmitter
  <1>3. CASE WrapperStep
    BY <1>3 DEF WrapperStep, WrapperInjects, WrapperReports, PromptEnters, PromptDispatched,
       InjectionFailed
  <1>4. CASE ReportStep
    BY <1>4 DEF ReportStep, HandleDeliveryAck, ResolveReporter,
       HandleDeliveryIndeterminate
  <1>5. CASE MaintainStarts \/ MaintenanceStep
    BY <1>5 DEF MaintainStarts, MaintenanceStep, SweepStep, SweepHeld, SweepDone,
       SettleExpiredDispatching, MaintenanceFails
  <1>6. CASE Tick \/ CrashStep \/ UNCHANGED vars
    BY <1>6 DEF Tick, CrashStep, DaemonRestarts, WrapperStarts, WrapperCrashes
  <1> QED
    BY <1>1, <1>2, <1>3, <1>4, <1>5, <1>6 DEF Next

LEMMA HasCapturedStep == TypeOK /\ HasCaptured /\ [Next]_vars => HasCaptured'
  <1> SUFFICES ASSUME TypeOK, HasCaptured, [Next]_vars, lock' \in {"captured", "finalize"}
               PROVE  captured'[req'.key]
    BY DEF HasCaptured
  <1>1. CASE CaptureReply
    BY <1>1 DEF CaptureReply, TypeOK, Requests
  <1>2. CASE CaptureTransition
    BY <1>2 DEF CaptureTransition, HasCaptured
  <1>3. CASE ~CaptureReply /\ ~CaptureTransition
    <2>1. UNCHANGED <<lock, req>>
      <3>1. CASE QuietStep
        BY <1>3, <3>1 DEF QuietStep, SendResumes
      <3>2. ~ (RejectPrepared \/ CaptureFinalize \/ SettleExpiredDispatching \/ PurgeExpiredSends)
        BY DEF RejectPrepared, CaptureFinalize, SettleExpiredDispatching, PurgeExpiredSends
      <3>3. CASE PurgePresence
        BY <3>3 DEF PurgePresence
      <3>4. ASSUME NEW d \in Deliveries,
                   \/ CancelHeld(d) \/ ReleaseHeld(d) \/ SweepHeld(d)
                   \/ HandleDeliveryAck(d) \/ HandleDeliveryIndeterminate(d)
            PROVE  UNCHANGED <<lock, req>>
        BY <3>4 DEF CancelHeld, ReleaseHeld, SweepHeld, HandleDeliveryAck,
           HandleDeliveryIndeterminate
      <3>5. ASSUME NEW d \in Deliveries, NEW phase \in {"held", "dispatching"},
                   BeginDelivery(d, phase)
            PROVE  FALSE
        BY <3>5 DEF BeginDelivery
      <3>6. ASSUME NEW k \in Keys, NEW e \in Envelopes, NEW t \in IssueTimes,
                   SendReserves(k, e, t)
            PROVE  FALSE
        BY <3>6 DEF SendReserves
      <3>7. ASSUME NEW i \in Instances, NEW done \in SUBSET Moves,
               NEW q \in SUBSET Recoverable(i, done), Register(i, done, q)
            PROVE  UNCHANGED <<lock, req>>
        BY <3>7 DEF Register
      <3> QED
        BY <1>3, <3>1, <3>2, <3>3, <3>4, <3>5, <3>6, <3>7, TableSteps
    <2>2. ~PurgeExpiredSends
      BY DEF PurgeExpiredSends
    <2>3. UNCHANGED captured
      BY <1>3, <2>2, CapturedSteps
    <2> QED
      BY <2>1, <2>3 DEF HasCaptured
  <1> QED
    BY <1>1, <1>2, <1>3

(* A key becomes accepted in two places only. *)
LEMMA AcceptedSteps ==
  ASSUME TypeOK, [Next]_vars, NEW k \in Keys,
         rec[k].result # "accepted", rec'[k].result = "accepted"
  PROVE  \/ CaptureFinalize /\ k = req.key
         \/ \E d \in Deliveries : HandleDeliveryAck(d) /\ AckAccepted(d) /\ k = dlv[d].key
  <1>1. ASSUME NEW c \in Deliveries, CancelHeld(c) \/ SweepHeld(c) PROVE FALSE
    <2>1. SettledHeld({c})
      BY <1>1 DEF CancelHeld, SweepHeld
    <2> QED
      BY <2>1, SettledHeldEffect DEF RecordsMoved
  <1>2. ~PurgePresence
    BY OrphanedEffect DEF PurgePresence, RecordsMoved
  <1>3. ASSUME NEW c \in Keys, NEW e \in Envelopes, NEW t \in IssueTimes,
               SendReserves(c, e, t)
        PROVE  FALSE
    <2>1. CASE k = c
      <3>1. rec'[k] = [state |-> "prepared", result |-> "none",
                       env |-> e, expires |-> t + Horizon]
        BY <1>3, <2>1, SendReservesEffect
      <3> QED
        BY <3>1
    <2>2. CASE k # c
      BY <1>3, <2>2, SendReservesEffect
    <2> QED
      BY <2>1, <2>2
  <1>4. ~RejectPrepared
    <2>1. RejectPrepared => req.key \in Keys
      BY DEF TypeOK, RejectPrepared, Requests
    <2>2. RejectPrepared => RecordsMoved({req.key}, "terminal", "rejected")
      BY <2>1, RecordsMovedByOne DEF TypeOK, RejectPrepared, RecordStates, PublicResults
    <2> QED
      BY <2>2 DEF RecordsMoved
  <1>5. ~CaptureTransition
    <2>1. CaptureTransition => req.key \in Keys
      BY DEF TypeOK, CaptureTransition, Requests
    <2>2. CaptureTransition => StateMoved(req.key, "dispatching")
      BY <2>1, StateMovedByOne DEF TypeOK, CaptureTransition, RecordStates
    <2> QED
      BY <2>2 DEF StateMoved
  <1>6. CaptureFinalize => k = req.key
    <2>1. CaptureFinalize => req.key \in Keys
      BY DEF TypeOK, CaptureFinalize, Requests
    <2>2. CaptureFinalize => RecordsMoved({req.key}, "terminal", "accepted")
      BY <2>1, RecordsMovedByOne DEF TypeOK, CaptureFinalize, RecordStates, PublicResults
    <2> QED
      BY <2>2 DEF RecordsMoved
  <1>7. ASSUME NEW c \in Deliveries, NEW phase \in {"held", "dispatching"},
               BeginDelivery(c, phase)
        PROVE  FALSE
    BY <1>7, BeginDeliveryEffect DEF StateMoved
  <1>8. ASSUME NEW d \in Deliveries, HandleDeliveryAck(d)
        PROVE  AckAccepted(d) /\ k = dlv[d].key
    <2>1. AckAccepted(d)
      BY <1>8 DEF HandleDeliveryAck
    <2> QED
      BY <1>8, <2>1, AckEffect DEF RecordsMoved
  <1>9. ~PurgeExpiredSends
    BY PurgeEffect DEF NoRecord
  <1>10. ASSUME NEW d \in Deliveries, ReleaseHeld(d) \/ HandleDeliveryIndeterminate(d)
         PROVE  FALSE
    BY <1>10 DEF ReleaseHeld, HandleDeliveryIndeterminate
  <1>11. ASSUME NEW i \in Instances, NEW done \in SUBSET Moves,
               NEW q \in SUBSET Recoverable(i, done), Register(i, done, q)
         PROVE  FALSE
    BY <1>11 DEF Register
  <1>12. ~QuietStep /\ ~SettleExpiredDispatching
    BY DEF QuietStep, SettleExpiredDispatching
  <1> QED
    BY <1>1, <1>2, <1>3, <1>4, <1>5, <1>6, <1>7, <1>8, <1>9, <1>10, <1>11, <1>12, TableSteps

LEMMA AcceptedWasInjectedStep ==
  TypeOK /\ Matching /\ AckedWasInjected' /\ HasCaptured /\ AcceptedWasInjected /\ [Next]_vars
    => AcceptedWasInjected'
  <1> SUFFICES ASSUME TypeOK, Matching, AckedWasInjected', HasCaptured, AcceptedWasInjected,
                      [Next]_vars, TypeOK', NEW k \in Keys, rec'[k].result = "accepted"
               PROVE  \/ captured'[k]
                      \/ \E d \in Deliveries : /\ dlv'[d].key = k /\ dlv'[d].phase = "acked"
                                               /\ dlv'[d].inst \in Instances
                                               /\ injected'[dlv'[d].inst][d] > 0
    BY TypeStep DEF AcceptedWasInjected
  <1>1. ASSUME NEW d \in Deliveries, dlv'[d].key = k, dlv'[d].phase = "acked"
        PROVE  dlv'[d].inst \in Instances /\ injected'[dlv'[d].inst][d] > 0
    <2>1. dlv'[d].inst \in Instances
      BY <1>1 DEF TypeOK, Stored
    <2>2. injected'[dlv'[d].inst][d] = 1
      BY <1>1 DEF AckedWasInjected
    <2> QED
      BY <2>1, <2>2
  <1>2. CASE rec[k].result = "accepted"
    <2>1. ~(PurgeExpiredSends /\ k \in PurgeableKeys)
      BY PurgeEffect DEF NoRecord
    <2>2. CASE captured[k]
      <3>1. CASE UNCHANGED captured
        BY <2>2, <3>1
      <3>2. CASE CaptureReply
        BY <2>2, <3>2 DEF CaptureReply, TypeOK
      <3>3. CASE PurgeExpiredSends
        BY <2>1, <2>2, <3>3 DEF PurgeExpiredSends
      <3> QED
        BY <3>1, <3>2, <3>3, CapturedSteps
    <2>3. ASSUME NEW d \in Deliveries, dlv[d].key = k, dlv[d].phase = "acked"
          PROVE  dlv'[d].key = k /\ dlv'[d].phase = "acked"
      <3>1. dlv'[d].key = k /\ dlv'[d].phase \in {"acked", "purged"}
        BY <2>3, RowSteps DEF RowStep, PhaseEdges
      <3>2. dlv'[d].phase # "purged"
        BY <2>1, <2>3, PurgedSteps
      <3> QED
        BY <3>1, <3>2
    <2> QED
      BY <1>1, <1>2, <2>2, <2>3 DEF AcceptedWasInjected
  <1>3. CASE rec[k].result # "accepted"
    <2>1. CASE CaptureFinalize /\ k = req.key
      BY <2>1 DEF CaptureFinalize, HasCaptured
    <2>2. ASSUME NEW d \in Deliveries, HandleDeliveryAck(d), AckAccepted(d), k = dlv[d].key
          PROVE  dlv'[d].key = k /\ dlv'[d].phase = "acked"
      BY <2>2, AckEffect DEF RowsMoved
    <2> QED
      BY <1>1, <1>3, <2>1, <2>2, AcceptedSteps
  <1> QED
    BY <1>2, <1>3

-----------------------------------------------------------------------------
(* The inductive invariant. *)
Inv == /\ TypeOK /\ ReceiptFirst
       /\ HeldUnsent /\ MissionReachesOne
       /\ HeldFollowsConnection /\ ReadFramesNameTheirReader
       /\ EmitterIsTold
       /\ Matching /\ AdmitsReserved /\ DeliveredAsReserved
       /\ PurgedIsPast /\ OneDeliveryPerSubmission
       /\ AcksAreTrue /\ AckedWasInjected /\ HasCaptured /\ AcceptedWasInjected

LEMMA InvInit == Init => Inv
  <1> SUFFICES ASSUME Init PROVE Inv
    OBVIOUS
  <1>1. TypeOK
    BY TypeInit
  <1>2. \A d \in Deliveries : dlv[d].phase = "unused"
    BY DEF Init, NoRow
  <1>3. \A k \in Keys : rec[k].state = "absent" /\ rec[k].result = "none"
    BY DEF Init, NoRecord
  <1>4. ReceiptFirst
    BY DEF Init, ReceiptFirst
  <1>5. HeldUnsent
    BY DEF Init, HeldUnsent, Reached
  <1>6. MissionReachesOne /\ HeldFollowsConnection /\ EmitterIsTold
    BY <1>2 DEF MissionReachesOne, HeldFollowsConnection, EmitterIsTold
  <1>7. ReadFramesNameTheirReader /\ AcksAreTrue
    BY DEF Init, ReadFramesNameTheirReader, AcksAreTrue
  <1>8. Matching
    <2>1. \A d \in Deliveries : ~Stored(d)
      BY <1>2 DEF Stored
    <2>2. lock = "free"
      BY DEF Init
    <2> QED
      BY <1>3, <2>1, <2>2 DEF Matching, ResultIffTerminal, RecordMatchesDelivery,
         OneStoredPerKey, CapturedAlone
  <1>9. AdmitsReserved /\ HasCaptured
    BY DEF Init, AdmitsReserved, HasCaptured
  <1>10. DeliveredAsReserved /\ PurgedIsPast /\ OneDeliveryPerSubmission /\ AckedWasInjected
    BY <1>2 DEF DeliveredAsReserved, PurgedIsPast, OneDeliveryPerSubmission,
       AckedWasInjected, Stored
  <1>11. AcceptedWasInjected
    BY <1>3 DEF AcceptedWasInjected
  <1> QED
    BY <1>1, <1>4, <1>5, <1>6, <1>7, <1>8, <1>9, <1>10, <1>11 DEF Inv

LEMMA InvStep == Inv /\ [Next]_vars => Inv'
  BY TypeStep, ReceiptFirstStep, HeldUnsentStep, MissionReachesOneStep,
     HeldFollowsConnectionStep, FramesStep, EmitterStep, MatchingStep, AdmitsReservedStep,
     DeliveredAsReservedStep, PurgedIsPastStep, OneDeliveryStep, AcksAreTrueStep,
     AckedWasInjectedStep, HasCapturedStep, AcceptedWasInjectedStep
     DEF Inv

LEMMA Invariance == Spec => []Inv
  BY InvInit, InvStep, PTL DEF Spec

(* No redelivery after a reconnection or a crash injects a delivery twice  *)
(* into the same instance (receipt_store.rs, receive).                     *)
THEOREM InjectedAtMostOnce == Spec => []AtMostOncePerInstance
  <1>1. Inv => AtMostOncePerInstance
    BY DEF Inv, ReceiptFirst, AtMostOncePerInstance
  <1> QED
    BY <1>1, Invariance, PTL

(* A native mission is never executed by two instances                     *)
(* (schedule_idempotent_delivery_recovery).                                *)
THEOREM MissionsRunOnce == Spec => []MissionNeverRepeated
  <1>1. Inv => MissionNeverRepeated
    <2> SUFFICES ASSUME Inv, NEW d \in Deliveries, dlv[d].key \in Missions,
                        NEW i \in Instances, NEW j \in Instances,
                        injected[i][d] > 0, injected[j][d] > 0
                 PROVE  i = j
      BY DEF MissionNeverRepeated
    <2>1. Reached(i, d) /\ Reached(j, d)
      BY DEF Inv, ReceiptFirst, Reached
    <2>2. dlv[d].phase # "unused"
      BY <2>1 DEF Inv, HeldUnsent
    <2> QED
      BY <2>1, <2>2 DEF Inv, MissionReachesOne
  <1> QED
    BY <1>1, Invariance, PTL

(* A key answers "accepted" only for a prompt that entered the instance    *)
(* its delivery names, or for a captured reply (acknowledge_send_delivery).*)
THEOREM AcceptedIsTrue == Spec => []AcceptedWasInjected
  <1>1. Inv => AcceptedWasInjected
    BY DEF Inv
  <1> QED
    BY <1>1, Invariance, PTL

(* A withdrawn message reaches nobody (settle_held_in_transaction).        *)
THEOREM CancelledIsTrue == Spec => []CancelledNeverInjected
  <1>1. Inv => CancelledNeverInjected
    <2> SUFFICES ASSUME Inv, NEW d \in Deliveries, dlv[d].phase = "cancelled"
                 PROVE  /\ \A f \in toWrapper : f.id # d
                        /\ \A i \in Instances : pending[i][d] = "none" /\ injected[i][d] = 0
      BY DEF CancelledNeverInjected
    <2>1. \A i \in Instances : ~Reached(i, d)
      BY DEF Inv, HeldUnsent
    <2>2. \A f \in toWrapper : f.sock \in Instances
      BY DEF Inv, TypeOK, Frames
    <2> QED
      BY <2>1, <2>2 DEF Inv, ReceiptFirst, Reached
  <1> QED
    BY <1>1, Invariance, PTL

(* After any crash, the record of a key and its delivery agree             *)
(* (send_delivery.rs, every settlement in one transaction).                *)
THEOREM TablesAgree == Spec => []RecordMatchesDelivery
  <1>1. Inv => RecordMatchesDelivery
    BY DEF Inv, Matching
  <1> QED
    BY <1>1, Invariance, PTL

(* A submission becomes at most one delivery, even when it is replayed     *)
(* after the purge of its record (reserve, purge_expired_sends).           *)
THEOREM SubmittedOnce == Spec => []OneDeliveryPerSubmission
  <1>1. Inv => OneDeliveryPerSubmission
    BY DEF Inv
  <1> QED
    BY <1>1, Invariance, PTL

(* A delivery carries the content its key was reserved for                 *)
(* (replay_existing, begin_send_delivery_with_guidance).                   *)
THEOREM CarriesReserved == Spec => []DeliveredAsReserved
  <1>1. Inv => DeliveredAsReserved
    BY DEF Inv
  <1> QED
    BY <1>1, Invariance, PTL

(* No wrapper ever reads a frame that names another instance: the frames   *)
(* that do are written on the socket of a refused Register, and are gone   *)
(* when the daemon notices (handle_register_with_channel,                  *)
(* schedule_held_release).                                                 *)
THEOREM FramesAreAddressed == Spec => []ReadFramesNameTheirReader
  <1>1. Inv => ReadFramesNameTheirReader
    BY DEF Inv
  <1> QED
    BY <1>1, Invariance, PTL

(* An orphaned or withdrawn delivery always has its durable notice         *)
(* (orphan_emitter_notices).                                               *)
THEOREM EmittersAreTold == Spec => []EmitterIsTold
  <1>1. Inv => EmitterIsTold
    BY DEF Inv
  <1> QED
    BY <1>1, Invariance, PTL
=============================================================================
