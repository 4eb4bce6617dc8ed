-------------------------- MODULE HeldQueueProofs --------------------------
(***************************************************************************)
(* Proofs about HeldQueue, for any set of messages and edits and any       *)
(* number of pauses and faults.                                            *)
(***************************************************************************)
EXTENDS HeldQueue, FiniteSetTheorems, TLAPS

(* The daemon knows every message it holds.                                *)
HeldAreKnown == Held \subseteq heldIds

(* Only the acknowledgement of a delivery has an age.                      *)
AgedAreAcked == \A m \in aged : phase[m] = "acked"

(* What was let through since the last turn keeps its reservation as long  *)
(* as it is outstanding.                                                   *)
CycleIsReserved ==
  \A m \in cycle : /\ phase[m] \notin {"unsent", "refused", "held"}
                   /\ Outstanding(m) => m \in gate

(* The inductive invariant. *)
QueueInv == /\ NoReservationIsStuck /\ WithdrawnIsForgotten /\ HeldAreKnown
            /\ AgedAreAcked /\ CycleIsReserved
IInv == TypeOK /\ QueueInv

(* The part of the type invariant that a release can change.               *)
RowTypes ==
  /\ phase \in [Messages -> Phases]
  /\ rank \in [Messages -> Nat] /\ nextRank \in Nat
  /\ gate \subseteq Messages
  /\ request \in [Messages -> {"none", "open", "late", "closed"}]
  /\ heldIds \subseteq Messages /\ tracked \subseteq Messages
  /\ left \in [Messages -> Departures] /\ cycle \subseteq Messages

-----------------------------------------------------------------------------
(* What a call of schedule_held_release does: nothing, the end of old      *)
(* reservations, one withdrawal or one departure.                          *)
Withdraws(m) == /\ m \in Held /\ Settled({m})
                /\ gate \subseteq aged /\ gate' = {}
                /\ UNCHANGED <<rank, nextRank, cycle>>
Departs(m, how) == /\ m \in Held /\ Pushed(m, how)
                   /\ gate \subseteq aged
                   /\ UNCHANGED <<rank, nextRank>>
SendsNothing ==
  /\ gate' \in {gate, {}} /\ (gate' # gate => gate \subseteq aged)
  /\ UNCHANGED <<phase, rank, nextRank, request, memory, history>>

(* schedule_held_release has no other outcome.                             *)
LEMMA ReleaseCases ==
  ASSUME NEW p, NEW deferred, ReleaseNext(p, deferred)
  PROVE  SendsNothing \/ \E m \in Messages : Withdraws(m) \/ Departs(m, "released")
  BY DEF ReleaseNext, SendsNothing, Withdraws, Departs, IsNext

(* A withdrawal keeps the invariant: nobody in the queue has a reservation, *)
(* and the reservations it drops are of acknowledged deliveries.           *)
LEMMA WithdrawalKeeps ==
  ASSUME IInv, NEW m \in Messages, Withdraws(m), UNCHANGED aged
  PROVE  RowTypes' /\ QueueInv'
<1> USE DEF IInv, TypeOK, Withdraws, Settled
<1>1. RowTypes'
  BY DEF RowTypes, Phases, Departures
<1>2. NoReservationIsStuck' /\ WithdrawnIsForgotten' /\ HeldAreKnown' /\ AgedAreAcked'
  BY DEF QueueInv, NoReservationIsStuck, WithdrawnIsForgotten, HeldAreKnown, AgedAreAcked,
         Held, InPhase
<1>3. CycleIsReserved'
  BY DEF QueueInv, CycleIsReserved, AgedAreAcked, Outstanding, Held, InPhase
<1> QED
  BY <1>1, <1>2, <1>3 DEF QueueInv

(* A departure keeps it: the new reservation replaces old ones only.       *)
LEMMA DepartureKeeps ==
  ASSUME IInv, NEW m \in Messages, NEW how \in Departures, Departs(m, how), UNCHANGED aged
  PROVE  RowTypes' /\ QueueInv'
<1> USE DEF IInv, TypeOK, Departs, Pushed
<1>1. RowTypes'
  BY DEF RowTypes, Phases
<1>2. NoReservationIsStuck' /\ WithdrawnIsForgotten' /\ HeldAreKnown' /\ AgedAreAcked'
  BY DEF QueueInv, NoReservationIsStuck, WithdrawnIsForgotten, HeldAreKnown, AgedAreAcked,
         Held, InPhase
<1>3. CycleIsReserved'
  BY DEF QueueInv, CycleIsReserved, AgedAreAcked, Outstanding, Held, InPhase
<1> QED
  BY <1>1, <1>2, <1>3 DEF QueueInv

(* So does a release that sends nothing.                                   *)
LEMMA SilenceKeeps ==
  ASSUME IInv, SendsNothing, UNCHANGED aged
  PROVE  RowTypes' /\ QueueInv'
  BY DEF SendsNothing, IInv, TypeOK, RowTypes, QueueInv, NoReservationIsStuck,
     WithdrawnIsForgotten, HeldAreKnown, AgedAreAcked, CycleIsReserved, Outstanding,
     Held, InPhase, memory, history

(* So does schedule_held_release, whichever handler calls it.              *)
LEMMA ReleaseKeeps ==
  ASSUME IInv, NEW p, NEW deferred, ReleaseNext(p, deferred), UNCHANGED aged
  PROVE  RowTypes' /\ QueueInv'
<1>1. CASE SendsNothing
  BY <1>1, SilenceKeeps
<1>2. CASE \E m \in Messages : Withdraws(m) \/ Departs(m, "released")
  BY <1>2, WithdrawalKeeps, DepartureKeeps DEF Departures
<1> QED
  BY <1>1, <1>2, ReleaseCases

(* The restart of a paused execution, with or without a queue behind it.   *)
LEMMA ResumptionKeeps ==
  ASSUME IInv, NEW m \in Resumes, Resumed(m), UNCHANGED aged
  PROVE  RowTypes' /\ QueueInv'
<1> USE HeldQueueConstants DEF IInv, TypeOK, Resumed, Inserted
<1>1. RowTypes'
  BY DEF RowTypes, Phases, Departures
<1>2. NoReservationIsStuck' /\ WithdrawnIsForgotten' /\ HeldAreKnown' /\ AgedAreAcked'
  BY DEF QueueInv, NoReservationIsStuck, WithdrawnIsForgotten, HeldAreKnown, AgedAreAcked,
         Held, InPhase
<1>3. CycleIsReserved'
  BY DEF QueueInv, CycleIsReserved, AgedAreAcked, Outstanding, Held, InPhase
<1> QED
  BY <1>1, <1>2, <1>3 DEF QueueInv

(* Preservation by the steps that call no release: every handler keeps the *)
(* types and the five parts of QueueInv.                                   *)
LEMMA PlainStepKeeps ==
  ASSUME IInv,
         \/ SendStep \/ TurnBegins \/ Disconnect \/ BusyTurnGivenUp
         \/ \E inProgress \in BOOLEAN : RegisterRefused(inProgress)
         \/ \E inProgress, online \in BOOLEAN : \E A \in SUBSET InPhase("dispatching") :
              \E Q \in SUBSET InPhase("dispatching") : Register(inProgress, A, Q, online)
         \/ \E D \in SUBSET InPhase("dispatching") : PurgePresence(D)
         \/ ReportStep \/ MaintenanceStarts \/ SweepStep
         \/ \E r \in EditIds : \/ EditRefused(r)
                               \/ \E m \in Messages : \/ EditCancels(r, m)
                                                      \/ EditFindsClosed(r, m)
                               \/ \E m, b \in Messages : EditReorders(r, m, b)
         \/ AbandonInterruption \/ SleepChanges \/ \E active \in BOOLEAN : Pause(active)
         \/ TimeStep \/ DaemonRestarts
  PROVE  IInv'
<1> USE HeldQueueConstants
    DEF IInv, TypeOK, Phases, Departures, Presences, Absent, QueueInv, NoReservationIsStuck,
        WithdrawnIsForgotten, HeldAreKnown, AgedAreAcked, CycleIsReserved, Outstanding,
        Held, InPhase, rows, clocks, link, control, memory, history
<1>1. ASSUME NEW m \in Messages, SendHeld(m)
      PROVE  IInv'
  BY <1>1 DEF SendHeld, Inserted
<1>2. ASSUME NEW m \in Messages, SendRefused(m)
      PROVE  IInv'
  BY <1>2 DEF SendRefused
<1>3. ASSUME NEW m \in Messages, SendDirect(m)
      PROVE  IInv'
  BY <1>3 DEF SendDirect, Inserted
<1>4. ASSUME TurnBegins
      PROVE  IInv'
  BY <1>4 DEF TurnBegins
<1>5. ASSUME Disconnect
      PROVE  IInv'
  <2>1. refused' \in BOOLEAN
    BY <1>5 DEF Disconnect
  <2>2. TypeOK'
    BY <1>5, <2>1 DEF Disconnect
  <2>3. QueueInv'
    BY <1>5 DEF Disconnect
  <2> QED
    BY <2>2, <2>3
<1>6. ASSUME BusyTurnGivenUp
      PROVE  IInv'
  BY <1>6 DEF BusyTurnGivenUp
<1>7. ASSUME NEW inProgress \in BOOLEAN, NEW online \in BOOLEAN,
             NEW A \in SUBSET InPhase("dispatching"), NEW Q \in SUBSET InPhase("dispatching"),
             Register(inProgress, A, Q, online)
      PROVE  IInv'
  BY <1>7 DEF Register, Attested
<1>28. ASSUME NEW inProgress \in BOOLEAN, RegisterRefused(inProgress)
      PROVE  IInv'
  BY <1>28 DEF RegisterRefused, Attested
<1>8. ASSUME NEW D \in SUBSET InPhase("dispatching"), PurgePresence(D)
      PROVE  IInv'
  <2>1. refused' \in BOOLEAN
    BY <1>8 DEF PurgePresence
  <2>2. TypeOK'
    BY <1>8, <2>1 DEF PurgePresence
  <2>3. QueueInv'
    BY <1>8 DEF PurgePresence
  <2> QED
    BY <2>2, <2>3
<1>9. ASSUME NEW m \in Messages, AckArrives(m)
      PROVE  IInv'
  BY <1>9 DEF AckArrives
<1>10. ASSUME NEW m \in Messages, BecomesIndeterminate(m)
      PROVE  IInv'
  BY <1>10 DEF BecomesIndeterminate
<1>11. ASSUME NEW m \in Messages, RequestCloses(m)
      PROVE  IInv'
  BY <1>11 DEF RequestCloses
<1>12. ASSUME NEW m \in Messages, TrackingEnds(m)
      PROVE  IInv'
  BY <1>12 DEF TrackingEnds
<1>13. ASSUME MaintenanceStarts
      PROVE  IInv'
  BY <1>13 DEF MaintenanceStarts
<1>14. ASSUME NEW m \in Messages, SweepHeld(m)
      PROVE  IInv'
  BY <1>14 DEF SweepHeld, Settled
<1>15. ASSUME SweepEnds
      PROVE  IInv'
  BY <1>15 DEF SweepEnds
<1>16. ASSUME NEW r \in EditIds, EditRefused(r)
      PROVE  IInv'
  BY <1>16 DEF EditRefused
<1>17. ASSUME NEW r \in EditIds, NEW m \in Messages, EditCancels(r, m)
      PROVE  IInv'
  BY <1>17 DEF EditCancels, Settled
<1>18. ASSUME NEW r \in EditIds, NEW m \in Messages, EditFindsClosed(r, m)
      PROVE  IInv'
  BY <1>18 DEF EditFindsClosed, Settled
<1>19. ASSUME NEW r \in EditIds, NEW m \in Messages, NEW b \in Messages, EditReorders(r, m, b)
      PROVE  IInv'
  BY <1>19 DEF EditReorders
<1>20. ASSUME AbandonInterruption
      PROVE  IInv'
  BY <1>20 DEF AbandonInterruption
<1>21. ASSUME SleepChanges
      PROVE  IInv'
  BY <1>21 DEF SleepChanges
<1>22. ASSUME NEW active \in BOOLEAN, Pause(active)
      PROVE  IInv'
  BY <1>22 DEF Pause
<1>23. ASSUME PresenceAges
      PROVE  IInv'
  BY <1>23 DEF PresenceAges
<1>24. ASSUME NEW m \in Messages, Lapse(m)
      PROVE  IInv'
  BY <1>24 DEF Lapse
<1>25. ASSUME NEW m \in Messages, DeadlinePasses(m)
      PROVE  IInv'
  BY <1>25 DEF DeadlinePasses
<1>26. ASSUME NEW m \in Messages, AckAges(m)
      PROVE  IInv'
  BY <1>26 DEF AckAges
<1>27. ASSUME DaemonRestarts
      PROVE  IInv'
  <2>1. refused' \in BOOLEAN
    BY <1>27 DEF DaemonRestarts
  <2>2. TypeOK'
    BY <1>27, <2>1 DEF DaemonRestarts
  <2>3. QueueInv'
    BY <1>27 DEF DaemonRestarts
  <2> QED
    BY <2>2, <2>3
<1> QED
  BY <1>1, <1>2, <1>3, <1>4, <1>5, <1>6, <1>7, <1>8, <1>9, <1>10, <1>11, <1>12, <1>13, <1>14,
     <1>15, <1>16, <1>17, <1>18, <1>19, <1>20, <1>21, <1>22, <1>23, <1>24, <1>25, <1>26, <1>27, <1>28
     DEF SendStep, ReportStep, SweepStep, TimeStep

(* Preservation by the steps that end in a release, a resumption or a      *)
(* promotion.                                                              *)
LEMMA ReleasingStepKeeps ==
  ASSUME IInv,
         \/ TurnEnds \/ OtherTurnEnds \/ ExecutionEnds \/ RegisterEnds
         \/ ReminderTick \/ Unpause
         \/ \E r \in EditIds : \E m \in Messages : \E human \in BOOLEAN :
              EditPromotes(r, m, human)
  PROVE  IInv'
<1> USE DEF IInv, TypeOK, RowTypes, Presences, clocks, link, control
<1>1. ASSUME ResumedElsewhere
      PROVE  SendsNothing
  BY <1>1 DEF ResumedElsewhere, SendsNothing, rows, memory, history
<1>2. ASSUME TurnEnds
      PROVE  IInv'
  BY <1>1, <1>2, ReleaseKeeps, ResumptionKeeps, SilenceKeeps
     DEF TurnEnds, Resumed, ResumedElsewhere
<1>3. ASSUME OtherTurnEnds
      PROVE  IInv'
  BY <1>3, ResumptionKeeps DEF OtherTurnEnds, Resumed
<1>4. ASSUME ExecutionEnds
      PROVE  IInv'
  BY <1>4, ReleaseKeeps DEF ExecutionEnds
<1>5. ASSUME RegisterEnds
      PROVE  IInv'
  BY <1>5, ReleaseKeeps, ResumptionKeeps DEF RegisterEnds, Resumed
<1>6. ASSUME ReminderTick
      PROVE  IInv'
  BY <1>6, ReleaseKeeps DEF ReminderTick
<1>7. ASSUME Unpause
      PROVE  IInv'
  <2>1. paused' \in BOOLEAN /\ interrupted' \in BOOLEAN
    BY <1>7 DEF Unpause, Resumed, ResumedElsewhere
  <2>2. RowTypes' /\ QueueInv'
    BY <1>1, <1>7, ReleaseKeeps, ResumptionKeeps, SilenceKeeps DEF Unpause
  <2> QED
    BY <1>7, <2>1, <2>2 DEF Unpause
<1>8. ASSUME NEW r \in EditIds, NEW m \in Messages, NEW human \in BOOLEAN,
             EditPromotes(r, m, human)
      PROVE  IInv'
  <2>1. Departs(m, "promoted") /\ "promoted" \in Departures
    BY <1>8 DEF EditPromotes, Departs, Departures
  <2> QED
    BY <1>8, <2>1, DepartureKeeps DEF EditPromotes
<1> QED
  BY <1>2, <1>3, <1>4, <1>5, <1>6, <1>7, <1>8

(* The invariant is inductive. *)
LEMMA Inductive == IInv /\ [Next]_vars => IInv'
<1> SUFFICES ASSUME IInv, [Next]_vars PROVE IInv'
  OBVIOUS
<1>1. CASE Next
  BY <1>1, PlainStepKeeps, ReleasingStepKeeps
     DEF Next, SessionStep, EditStep, ControlStep
<1>2. CASE UNCHANGED vars
  BY <1>2 DEF vars, IInv, TypeOK, QueueInv, NoReservationIsStuck, WithdrawnIsForgotten,
     HeldAreKnown, AgedAreAcked, CycleIsReserved, Outstanding, Held, InPhase
<1> QED
  BY <1>1, <1>2

(* It holds of the empty queue of a fresh database. *)
LEMMA Initially == Init => IInv
<1> SUFFICES ASSUME Init PROVE IInv
  OBVIOUS
<1> USE DEF Init
<1>1. pres \in Presences
  BY DEF Presences, Absent
<1>2. TypeOK
  BY <1>1 DEF TypeOK, Phases, Departures
<1>3. QueueInv
  BY DEF QueueInv, NoReservationIsStuck, WithdrawnIsForgotten, HeldAreKnown, AgedAreAcked,
     CycleIsReserved, Held, InPhase
<1> QED
  BY <1>2, <1>3 DEF IInv

(* Every reachable state satisfies it. *)
THEOREM Invariance == Spec => []IInv
  BY Initially, Inductive, PTL DEF Spec

-----------------------------------------------------------------------------
(* Every reachable state of the queue is well typed.                       *)
THEOREM TypeCorrect == Spec => []TypeOK
  BY Invariance, PTL DEF IInv

(* No reservation outlives the delivery it was taken for: a quarantined,   *)
(* orphaned or withdrawn delivery never keeps the queue shut.              *)
THEOREM ReservationsEnd == Spec => []NoReservationIsStuck
  BY Invariance, PTL DEF IInv, QueueInv

(* A withdrawn message leaves no open request and no entry in memory.      *)
THEOREM WithdrawnForgotten == Spec => []WithdrawnIsForgotten
  BY Invariance, PTL DEF IInv, QueueInv

(* The reminders pass over every held request, also after restarts.        *)
THEOREM NoEarlyReminder == Spec => []HeldIsNotReminded
<1>1. IInv => HeldIsNotReminded
  BY DEF IInv, QueueInv, HeldAreKnown, HeldIsNotReminded
<1> QED
  BY <1>1, Invariance, PTL

-----------------------------------------------------------------------------
(* The steps, by what they do to the queue: nobody joins and nobody leaves *)
(* for the agent; one message leaves behind old reservations; one joins.   *)
NobodyDeparts == Held' \subseteq Held /\ \A m \in Held : phase'[m] # "dispatching"
OneDeparts == Held' \subseteq Held /\ gate \subseteq aged
OneJoins == /\ \E m \in Messages \ Held : ~QueueFull(m) /\ Held' = Held \cup {m}
            /\ \A m \in Held : phase'[m] # "dispatching"

(* Each call of a release or of a resumption is one of them.               *)
LEMMA ReleaseMoves ==
  ASSUME TypeOK, NEW p, NEW deferred, ReleaseNext(p, deferred)
  PROVE  NobodyDeparts \/ OneDeparts
<1>1. CASE SendsNothing
  BY <1>1 DEF SendsNothing, NobodyDeparts, Held, InPhase
<1>2. CASE \E m \in Messages : Withdraws(m) \/ Departs(m, "released")
  BY <1>2 DEF Withdraws, Departs, Settled, Pushed, OneDeparts, Held, InPhase, TypeOK
<1> QED
  BY <1>1, <1>2, ReleaseCases

(* A restarted execution takes nobody out of the queue.                    *)
LEMMA ResumptionMoves ==
  ASSUME TypeOK, NEW m \in Messages, Resumed(m)
  PROVE  NobodyDeparts
  BY DEF Resumed, Inserted, NobodyDeparts, Held, InPhase, TypeOK

(* Every step of the daemon is one of the three, or leaves the queue as it *)
(* is.                                                                     *)
LEMMA StepMoves ==
  ASSUME TypeOK, [Next]_vars
  PROVE  NobodyDeparts \/ OneDeparts \/ OneJoins
<1> USE HeldQueueConstants DEF Held, InPhase, TypeOK, rows
<1>1. ASSUME NEW m \in Messages, SendHeld(m)
      PROVE  OneJoins
  BY <1>1 DEF OneJoins, SendHeld, Inserted
<1>2. ASSUME NEW m \in Messages, SendRefused(m)
      PROVE  NobodyDeparts
  BY <1>2 DEF NobodyDeparts, SendRefused
<1>3. ASSUME NEW m \in Messages, SendDirect(m)
      PROVE  NobodyDeparts
  BY <1>3 DEF NobodyDeparts, SendDirect, Inserted
<1>4. ASSUME TurnBegins
      PROVE  NobodyDeparts
  BY <1>4 DEF NobodyDeparts, TurnBegins
<1>5. ASSUME Disconnect
      PROVE  NobodyDeparts
  BY <1>5 DEF NobodyDeparts, Disconnect
<1>6. ASSUME BusyTurnGivenUp
      PROVE  NobodyDeparts
  BY <1>6 DEF NobodyDeparts, BusyTurnGivenUp
<1>7. ASSUME NEW inProgress \in BOOLEAN, NEW online \in BOOLEAN,
             NEW A \in SUBSET InPhase("dispatching"), NEW Q \in SUBSET InPhase("dispatching"),
             Register(inProgress, A, Q, online)
      PROVE  NobodyDeparts
  BY <1>7 DEF NobodyDeparts, Register
<1>36. ASSUME NEW inProgress \in BOOLEAN, RegisterRefused(inProgress)
      PROVE  NobodyDeparts
  BY <1>36 DEF NobodyDeparts, RegisterRefused
<1>8. ASSUME NEW D \in SUBSET InPhase("dispatching"), PurgePresence(D)
      PROVE  NobodyDeparts
  BY <1>8 DEF NobodyDeparts, PurgePresence
<1>9. ASSUME NEW m \in Messages, AckArrives(m)
      PROVE  NobodyDeparts
  BY <1>9 DEF NobodyDeparts, AckArrives
<1>10. ASSUME NEW m \in Messages, BecomesIndeterminate(m)
      PROVE  NobodyDeparts
  BY <1>10 DEF NobodyDeparts, BecomesIndeterminate
<1>11. ASSUME NEW m \in Messages, RequestCloses(m)
      PROVE  NobodyDeparts
  BY <1>11 DEF NobodyDeparts, RequestCloses
<1>12. ASSUME NEW m \in Messages, TrackingEnds(m)
      PROVE  NobodyDeparts
  BY <1>12 DEF NobodyDeparts, TrackingEnds
<1>13. ASSUME MaintenanceStarts
      PROVE  NobodyDeparts
  BY <1>13 DEF NobodyDeparts, MaintenanceStarts
<1>14. ASSUME NEW m \in Messages, SweepHeld(m)
      PROVE  NobodyDeparts
  BY <1>14 DEF NobodyDeparts, SweepHeld, Settled
<1>15. ASSUME SweepEnds
      PROVE  NobodyDeparts
  BY <1>15 DEF NobodyDeparts, SweepEnds
<1>16. ASSUME NEW r \in EditIds, EditRefused(r)
      PROVE  NobodyDeparts
  BY <1>16 DEF NobodyDeparts, EditRefused
<1>17. ASSUME NEW r \in EditIds, NEW m \in Messages, EditCancels(r, m)
      PROVE  NobodyDeparts
  BY <1>17 DEF NobodyDeparts, EditCancels, Settled
<1>18. ASSUME NEW r \in EditIds, NEW m \in Messages, EditFindsClosed(r, m)
      PROVE  NobodyDeparts
  BY <1>18 DEF NobodyDeparts, EditFindsClosed, Settled
<1>19. ASSUME NEW r \in EditIds, NEW m \in Messages, NEW b \in Messages, EditReorders(r, m, b)
      PROVE  NobodyDeparts
  BY <1>19 DEF NobodyDeparts, EditReorders
<1>20. ASSUME AbandonInterruption
      PROVE  NobodyDeparts
  BY <1>20 DEF NobodyDeparts, AbandonInterruption
<1>21. ASSUME SleepChanges
      PROVE  NobodyDeparts
  BY <1>21 DEF NobodyDeparts, SleepChanges
<1>22. ASSUME NEW active \in BOOLEAN, Pause(active)
      PROVE  NobodyDeparts
  BY <1>22 DEF NobodyDeparts, Pause
<1>23. ASSUME PresenceAges
      PROVE  NobodyDeparts
  BY <1>23 DEF NobodyDeparts, PresenceAges
<1>24. ASSUME NEW m \in Messages, Lapse(m)
      PROVE  NobodyDeparts
  BY <1>24 DEF NobodyDeparts, Lapse
<1>25. ASSUME NEW m \in Messages, DeadlinePasses(m)
      PROVE  NobodyDeparts
  BY <1>25 DEF NobodyDeparts, DeadlinePasses
<1>26. ASSUME NEW m \in Messages, AckAges(m)
      PROVE  NobodyDeparts
  BY <1>26 DEF NobodyDeparts, AckAges
<1>27. ASSUME DaemonRestarts
      PROVE  NobodyDeparts
  BY <1>27 DEF NobodyDeparts, DaemonRestarts
<1>28. ASSUME TurnEnds
      PROVE  NobodyDeparts \/ OneDeparts
  BY <1>28, ReleaseMoves, ResumptionMoves DEF TurnEnds, ResumedElsewhere, NobodyDeparts
<1>29. ASSUME OtherTurnEnds
      PROVE  NobodyDeparts \/ OneDeparts
  BY <1>29, ResumptionMoves DEF OtherTurnEnds
<1>30. ASSUME ExecutionEnds
      PROVE  NobodyDeparts \/ OneDeparts
  BY <1>30, ReleaseMoves DEF ExecutionEnds
<1>31. ASSUME RegisterEnds
      PROVE  NobodyDeparts \/ OneDeparts
  BY <1>31, ReleaseMoves, ResumptionMoves DEF RegisterEnds
<1>32. ASSUME ReminderTick
      PROVE  NobodyDeparts \/ OneDeparts
  BY <1>32, ReleaseMoves DEF ReminderTick
<1>33. ASSUME Unpause
      PROVE  NobodyDeparts \/ OneDeparts
  BY <1>33, ReleaseMoves, ResumptionMoves DEF Unpause, ResumedElsewhere, NobodyDeparts
<1>34. ASSUME NEW r \in EditIds, NEW m \in Messages, NEW human \in BOOLEAN,
             EditPromotes(r, m, human)
      PROVE  OneDeparts
  BY <1>34 DEF OneDeparts, EditPromotes, Pushed
<1>35. ASSUME UNCHANGED vars
      PROVE  NobodyDeparts
  BY <1>35 DEF NobodyDeparts, vars
<1> QED
  BY <1>1, <1>2, <1>3, <1>4, <1>5, <1>6, <1>7, <1>8, <1>9, <1>10, <1>11, <1>12,
     <1>13, <1>14, <1>15, <1>16, <1>17, <1>18, <1>19, <1>20, <1>21, <1>22, <1>23, <1>24,
     <1>25, <1>26, <1>27, <1>28, <1>29, <1>30, <1>31, <1>32, <1>33, <1>34, <1>35, <1>36
     DEF Next, SendStep, SessionStep, ReportStep, SweepStep, EditStep, ControlStep, TimeStep

(* A departure finds nothing outstanding of what left since the last turn. *)
LEMMA DepartureIsAlone ==
  ASSUME IInv, gate \subseteq aged
  PROVE  \A x \in cycle : ~Outstanding(x)
  BY DEF IInv, QueueInv, AgedAreAcked, CycleIsReserved, Outstanding

(* At most one message leaves the queue per turn, for any number of        *)
(* messages, registrations, restarts and pauses: the reservation of        *)
(* release_next_held and apply_promote is never lost too early.            *)
THEOREM OneDeparture == Spec => OneDeparturePerTurn
<1>1. ASSUME IInv, [Next]_vars
      PROVE  [\A m \in Messages : phase[m] = "held" /\ phase'[m] = "dispatching"
                => \A x \in cycle : ~Outstanding(x)]_vars
  BY <1>1, StepMoves, DepartureIsAlone
     DEF IInv, NobodyDeparts, OneDeparts, OneJoins, Held, InPhase
<1> QED
  BY <1>1, Invariance, PTL DEF Spec, OneDeparturePerTurn

-----------------------------------------------------------------------------
(* The steps, by what they do to the ranks: nothing, one message that gets *)
(* the next rank, or a reordering.                                         *)
RanksStay == UNCHANGED <<rank, nextRank>> /\ Held' \subseteq Held
RankGiven(m) == /\ phase[m] = "unsent" /\ Held' \subseteq Held \cup {m}
                /\ rank' = [rank EXCEPT ![m] = nextRank] /\ nextRank' = nextRank + 1
Reordered == \E r \in EditIds : \E m, b \in Messages : EditReorders(r, m, b)
RankMoves == RanksStay \/ (\E m \in Messages : RankGiven(m)) \/ Reordered

(* No step does anything else to them.                                     *)
LEMMA RankSteps ==
  ASSUME TypeOK, [Next]_vars
  PROVE  RankMoves
<1> USE HeldQueueConstants DEF TypeOK, Held, InPhase, rows
<1>1. ASSUME NEW m \in Messages, NEW ph \in Phases, phase[m] = "unsent", Inserted(m, ph)
      PROVE  RankGiven(m)
  BY <1>1 DEF Inserted, RankGiven
<1>2. ASSUME NEW p, NEW deferred, ReleaseNext(p, deferred)
      PROVE  RanksStay
  BY <1>2 DEF ReleaseNext, Settled, Pushed, RanksStay
<1>3. ASSUME NEW m \in Resumes, Resumed(m)
      PROVE  \E x \in Messages : RankGiven(x)
  BY <1>1, <1>3 DEF Resumed, Phases
<1>4. ASSUME ResumedElsewhere
      PROVE  RanksStay
  BY <1>4 DEF ResumedElsewhere, RanksStay
<1>5. CASE SendStep
  <2>1. ASSUME NEW m \in Messages, SendHeld(m) \/ SendDirect(m)
        PROVE  RankGiven(m)
    BY <1>1, <2>1 DEF SendHeld, SendDirect, Phases
  <2>2. ASSUME NEW m \in Messages, SendRefused(m)
        PROVE  RanksStay
    BY <2>2 DEF SendRefused, RanksStay
  <2> QED
    BY <1>5, <2>1, <2>2 DEF SendStep, RankMoves
<1>6. CASE SessionStep
  <2>1. ASSUME TurnEnds \/ OtherTurnEnds \/ ExecutionEnds \/ RegisterEnds
        PROVE  RankMoves
    BY <1>2, <1>3, <1>4, <2>1
       DEF TurnEnds, OtherTurnEnds, ExecutionEnds, RegisterEnds, RankMoves
  <2>2. ASSUME TurnBegins \/ Disconnect \/ BusyTurnGivenUp
               \/ \E inProgress \in BOOLEAN : RegisterRefused(inProgress)
        PROVE  RanksStay
    BY <2>2 DEF TurnBegins, Disconnect, BusyTurnGivenUp, RegisterRefused, RanksStay
  <2>3. ASSUME NEW inProgress, NEW online, NEW A, NEW Q, Register(inProgress, A, Q, online)
        PROVE  RanksStay
    BY <2>3 DEF Register, RanksStay
  <2>4. ASSUME NEW D, PurgePresence(D)
        PROVE  RanksStay
    BY <2>4 DEF PurgePresence, RanksStay
  <2> QED
    BY <1>6, <2>1, <2>2, <2>3, <2>4 DEF SessionStep, RankMoves
<1>7. CASE ReportStep
  <2>1. RanksStay
    BY <1>7 DEF ReportStep, AckArrives, BecomesIndeterminate, RequestCloses, TrackingEnds,
       RanksStay
  <2> QED
    BY <2>1 DEF RankMoves
<1>8. CASE ReminderTick \/ MaintenanceStarts \/ SweepStep
  <2>1. ReminderTick => RanksStay
    BY <1>2 DEF ReminderTick
  <2>2. MaintenanceStarts \/ SweepEnds => RanksStay
    BY DEF MaintenanceStarts, SweepEnds, RanksStay
  <2>3. ASSUME NEW m \in Messages, SweepHeld(m)
        PROVE  RanksStay
    BY <2>3 DEF SweepHeld, Settled, RanksStay
  <2> QED
    BY <1>8, <2>1, <2>2, <2>3 DEF SweepStep, RankMoves
<1>9. CASE EditStep
  <2>1. ASSUME NEW r \in EditIds, EditRefused(r)
        PROVE  RanksStay
    BY <2>1 DEF EditRefused, RanksStay
  <2>2. ASSUME NEW r \in EditIds, NEW m \in Messages, EditCancels(r, m) \/ EditFindsClosed(r, m)
        PROVE  RanksStay
    BY <2>2 DEF EditCancels, EditFindsClosed, Settled, RanksStay
  <2>3. ASSUME NEW r \in EditIds, NEW m \in Messages, NEW human, EditPromotes(r, m, human)
        PROVE  RanksStay
    BY <2>3 DEF EditPromotes, Pushed, RanksStay
  <2> QED
    BY <1>9, <2>1, <2>2, <2>3 DEF EditStep, RankMoves, Reordered
<1>10. CASE ControlStep
  BY <1>2, <1>3, <1>4, <1>10
     DEF ControlStep, Unpause, AbandonInterruption, SleepChanges, Pause, RanksStay, RankMoves
<1>11. CASE TimeStep \/ DaemonRestarts \/ UNCHANGED vars
  <2>1. RanksStay
    BY <1>11 DEF TimeStep, PresenceAges, Lapse, DeadlinePasses, AckAges, DaemonRestarts, vars,
       RanksStay
  <2> QED
    BY <2>1 DEF RankMoves
<1> QED
  BY <1>5, <1>6, <1>7, <1>8, <1>9, <1>10, <1>11 DEF Next

(* The next rank is larger than those in use.                              *)
RanksBelowNext == \A m \in Messages : rank[m] < nextRank

LEMMA RanksStayBelow ==
  ASSUME TypeOK, RanksBelowNext, [Next]_vars
  PROVE  RanksBelowNext'
<1>1. CASE RanksStay
  BY <1>1 DEF RanksStay, RanksBelowNext
<1>2. ASSUME NEW m \in Messages, RankGiven(m)
      PROVE  RanksBelowNext'
  BY <1>2 DEF RankGiven, RanksBelowNext, TypeOK
<1>3. ASSUME NEW r \in EditIds, NEW m \in Messages, NEW b \in Messages, EditReorders(r, m, b)
      PROVE  RanksBelowNext'
  <2>1. PICK new \in [Held -> {rank[x] : x \in Held}] :
          rank' = [x \in Messages |-> IF x \in Held THEN new[x] ELSE rank[x]]
    BY <1>3 DEF EditReorders
  <2>2. \A x \in Messages : \E y \in Messages : rank'[x] = rank[y]
    BY <2>1 DEF Held, InPhase
  <2> QED
    BY <1>3, <2>2 DEF EditReorders, RanksBelowNext
<1> QED
  BY <1>1, <1>2, <1>3, RankSteps DEF RankMoves, Reordered

(* Through registrations, refusals, purges and restarts, only a reordering *)
(* changes who waits before whom (queue_rank, apply_reorder).              *)
THEOREM OrderKept == Spec => OrderIsKept
<1>1. Init => RanksBelowNext
  BY DEF Init, RanksBelowNext
<1>2. TypeOK /\ RanksBelowNext /\ [Next]_vars => RanksBelowNext'
  BY RanksStayBelow
<1>3. ASSUME TypeOK, RanksBelowNext, [Next]_vars,
             NEW x \in Messages, NEW y \in Messages, x # y,
             phase[x] = "held", phase'[x] = "held", phase'[y] = "held",
             phase[y] = "held" => rank[x] < rank[y]
      PROVE  rank'[x] < rank'[y] \/ Reordered
  <2>1. CASE RanksStay
    BY <1>3, <2>1 DEF RanksStay, Held, InPhase
  <2>2. ASSUME NEW m \in Messages, RankGiven(m)
        PROVE  rank'[x] < rank'[y]
    BY <1>3, <2>2 DEF RankGiven, RanksBelowNext, TypeOK, Held, InPhase
  <2> QED
    BY <1>3, <2>1, <2>2, RankSteps DEF RankMoves
<1>4. TypeOK /\ RanksBelowNext /\ [Next]_vars =>
        [\A x, y \in Messages :
           /\ phase[x] = "held" /\ phase'[x] = "held" /\ phase'[y] = "held" /\ x # y
           /\ phase[y] = "held" => rank[x] < rank[y]
           => \/ rank'[x] < rank'[y]
              \/ \E r \in EditIds : \E m, b \in Messages : EditReorders(r, m, b)]_vars
  BY <1>3 DEF Reordered
<1> QED
  BY <1>1, <1>2, <1>4, TypeCorrect, PTL DEF Spec, OrderIsKept

-----------------------------------------------------------------------------
(* A set that only shrinks keeps to its bounds. *)
LEMMA SubsetCounts ==
  ASSUME NEW S, NEW T, IsFiniteSet(T), S \subseteq T
  PROVE  Cardinality(S) \in Nat /\ Cardinality(T) \in Nat /\ Cardinality(S) <= Cardinality(T)
  BY FS_Subset, FS_CardinalityType

(* The queue of a finite set of messages never outgrows its limits:        *)
(* SendHeld is the only way in.                                            *)
LEMMA CapacityStep ==
  ASSUME TypeOK, IsFiniteSet(Messages), WithinCapacity, [Next]_vars
  PROVE  WithinCapacity'
<1> USE HeldQueueConstants
<1> DEFINE Others == Held \ Mobile
<1>1. IsFiniteSet(Held) /\ IsFiniteSet(Others)
  BY FS_Subset DEF Held, InPhase
<1>2. Cardinality(Held) \in Nat /\ Cardinality(Others) \in Nat
      /\ Cardinality(Others) <= Cardinality(Held)
  BY <1>1, SubsetCounts
<1>3. ASSUME Held' \subseteq Held
      PROVE  WithinCapacity'
  <2>1. Others' \subseteq Others
    BY <1>3
  <2>2. Cardinality(Held') \in Nat /\ Cardinality(Held') <= Cardinality(Held)
    BY <1>1, <1>3, SubsetCounts
  <2>3. Cardinality(Others') \in Nat /\ Cardinality(Others') <= Cardinality(Others)
    BY <1>1, <2>1, SubsetCounts
  <2> QED
    BY <1>2, <2>2, <2>3 DEF WithinCapacity
<1>4. ASSUME NEW m \in Messages \ Held, Held' = Held \cup {m}, ~QueueFull(m)
      PROVE  WithinCapacity'
  <2>1. Cardinality(Held') = Cardinality(Held) + 1
    BY <1>1, <1>4, FS_AddElement
  <2>2. CASE m \in Mobile
    <3>1. Cardinality(Held') <= MobileCapacity
      BY <1>2, <1>4, <2>1, <2>2 DEF QueueFull
    <3>2. Others' = Others
      BY <1>4, <2>2
    <3> QED
      BY <3>1, <3>2 DEF WithinCapacity
  <2>3. CASE m \notin Mobile
    <3>1. Cardinality(Held') <= Capacity
      BY <1>2, <1>4, <2>1, <2>3 DEF QueueFull
    <3>2. Others' = Others \cup {m} /\ m \notin Others
      BY <1>4, <2>3
    <3>3. Cardinality(Others') = Cardinality(Others) + 1
      BY <1>1, <3>2, FS_AddElement
    <3> QED
      BY <1>2, <2>1, <3>1, <3>3 DEF WithinCapacity
  <2> QED
    BY <2>2, <2>3
<1> QED
  BY <1>3, <1>4, StepMoves DEF NobodyDeparts, OneDeparts, OneJoins

(* The ordinary messages of a queue keep to the capacity of the agent type *)
(* and the whole queue to the larger of the two limits, whatever is        *)
(* registered, edited, purged or restarted                                 *)
(* (begin_send_delivery_with_guidance, mobile_hold).                       *)
THEOREM CapacityHolds == IsFiniteSet(Messages) /\ Spec => []WithinCapacity
<1> SUFFICES ASSUME IsFiniteSet(Messages)
             PROVE  Spec => []WithinCapacity
  OBVIOUS
<1>1. Init => WithinCapacity
  <2>1. Init => Held = {}
    BY DEF Init, Held, InPhase
  <2>2. Held = {} => Held \ Mobile = {}
    OBVIOUS
  <2> QED
    BY <2>1, <2>2, FS_EmptySet, HeldQueueConstants DEF WithinCapacity
<1>2. TypeOK /\ WithinCapacity /\ [Next]_vars => WithinCapacity'
  BY CapacityStep
<1> QED
  BY <1>1, <1>2, TypeCorrect, PTL DEF Spec
=============================================================================
