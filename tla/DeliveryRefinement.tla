------------------------- MODULE DeliveryRefinement -------------------------
(***************************************************************************)
(* Delivery implements IdempotentOperation: what the client sees through   *)
(* its key is the contract, whatever the sockets, wrappers, crashes and    *)
(* maintenance passes behind it do.                                        *)
(***************************************************************************)
EXTENDS DeliveryProofs

USE DEF vars, durable, session, handler, sockets, wrapper

(* One step of one key, in the vocabulary of the contract. *)
KeyStep(k) ==
  \/ /\ rec[k].state = "absent"
     /\ rec'[k].state = "prepared"
     /\ rec'[k].expires > now
  \/ /\ <<PublicStatus(k), PublicStatus(k)'>> \in Contract!Edges
     /\ rec'[k].expires = rec[k].expires
  \/ /\ rec[k].state # "absent"
     /\ rec[k].expires + Grace <= now
     /\ rec'[k] = NoRecord
  \/ /\ PublicStatus(k)' = PublicStatus(k)
     /\ rec'[k].expires = rec[k].expires

(* The records of keys in flight move to a result. *)
LEMMA SettledKeys ==
  ASSUME TypeOK, Matching, NEW K,
         \A k \in K : k \in Keys /\ rec[k].state = "dispatching",
         NEW p \in {"accepted", "rejected", "orphaned"},
         RecordsMoved(K, "terminal", p)
  PROVE  \A k \in Keys : KeyStep(k)
  BY DEF RecordsMoved, KeyStep, PublicStatus, Contract!Edges, Contract!Results

(* The key of a delivery in flight is in flight. *)
LEMMA InFlightKey ==
  ASSUME TypeOK, Matching, NEW d \in Deliveries, InFlight(d)
  PROVE  dlv[d].key \in Keys /\ rec[dlv[d].key].state = "dispatching"
  <1>1. Stored(d)
    BY DEF InFlight, Stored
  <1>2. ResultOf(dlv[d].phase) = "none"
    BY ResultOfPhases DEF InFlight
  <1> QED
    BY <1>1, <1>2 DEF Matching, RecordMatchesDelivery

LEMMA KeySteps ==
  ASSUME TypeOK, Matching, [Next]_vars
  PROVE  \A k \in Keys : KeyStep(k)
  <1>1. CASE UNCHANGED rec
    BY <1>1 DEF KeyStep, PublicStatus
  <1>2. ASSUME NEW c \in Keys, NEW e \in Envelopes, NEW t \in IssueTimes,
               SendReserves(c, e, t)
        PROVE  \A k \in Keys : KeyStep(k)
    <2>1. /\ rec'[c] = [state |-> "prepared", result |-> "none",
                        env |-> e, expires |-> t + Horizon]
          /\ \A k \in Keys \ {c} : rec'[k] = rec[k]
      BY <1>2, SendReservesEffect
    <2>2. rec[c].state = "absent" /\ ~(t + Horizon <= now)
      BY <1>2 DEF SendReserves, Reserve, ReplayExisting
    <2>3. t + Horizon \in Nat /\ now \in Nat
      BY DeliveryConstants DEF IssueTimes, TypeOK
    <2>4. t + Horizon > now
      BY <2>2, <2>3
    <2>5. KeyStep(c)
      BY <2>1, <2>2, <2>4 DEF KeyStep
    <2>6. \A k \in Keys \ {c} : KeyStep(k)
      BY <2>1 DEF KeyStep, PublicStatus
    <2> QED
      BY <2>5, <2>6
  <1>3. CASE RejectPrepared
    <2>1. req.key \in Keys /\ rec[req.key].state = "prepared"
      BY <1>3 DEF TypeOK, RejectPrepared, Requests
    <2>2. RecordsMoved({req.key}, "terminal", "rejected")
      BY <1>3, <2>1, RecordsMovedByOne DEF TypeOK, RejectPrepared, RecordStates, PublicResults
    <2> QED
      BY <2>1, <2>2 DEF RecordsMoved, KeyStep, PublicStatus, Contract!Edges, Contract!Results
  <1>4. ASSUME NEW c \in Keys, rec[c].state = "prepared", StateMoved(c, "dispatching")
        PROVE  \A k \in Keys : KeyStep(k)
    BY <1>4 DEF StateMoved, KeyStep, PublicStatus, Contract!Edges, Contract!Results
  <1>5. CASE CaptureTransition
    <2>1. req.key \in Keys /\ rec[req.key].state = "prepared"
      BY <1>5 DEF TypeOK, CaptureTransition, Requests
    <2>2. StateMoved(req.key, "dispatching")
      BY <1>5, <2>1, StateMovedByOne DEF TypeOK, CaptureTransition, RecordStates
    <2> QED
      BY <1>4, <2>1, <2>2
  <1>6. CASE CaptureFinalize
    <2>1. req.key \in Keys /\ rec[req.key].state = "dispatching"
      BY <1>6 DEF TypeOK, CaptureFinalize, Requests
    <2>2. RecordsMoved({req.key}, "terminal", "accepted")
      BY <1>6, <2>1, RecordsMovedByOne DEF TypeOK, CaptureFinalize, RecordStates, PublicResults
    <2> QED
      BY <2>1, <2>2, SettledKeys
  <1>7. ASSUME NEW d \in Deliveries, NEW phase \in {"held", "dispatching"},
               BeginDelivery(d, phase)
        PROVE  \A k \in Keys : KeyStep(k)
    <2>1. rec[req.key].state = "prepared"
      BY <1>7 DEF BeginDelivery
    <2> QED
      BY <1>4, <1>7, <2>1, BeginDeliveryEffect
  <1>8. ASSUME NEW d \in Deliveries, CancelHeld(d) \/ SweepHeld(d)
        PROVE  \A k \in Keys : KeyStep(k)
    <2>1. dlv[d].phase = "held" /\ SettledHeld({d})
      BY <1>8 DEF CancelHeld, SweepHeld, ExpiredRows
    <2>2. RecordsMoved(KeysOf({d}), "terminal", "rejected")
      BY <2>1, SettledHeldEffect
    <2>3. \A k \in KeysOf({d}) : k \in Keys /\ rec[k].state = "dispatching"
      BY <2>1, InFlightKey DEF KeysOf, InFlight
    <2> QED
      BY <2>2, <2>3, SettledKeys
  <1>9. CASE PurgePresence
    <2> DEFINE D == OrphanRows(presence)
    <2>1. RecordsMoved(KeysOf(D), "terminal", "orphaned")
      BY <1>9, OrphanedEffect DEF PurgePresence
    <2>2. \A d \in D : d \in Deliveries /\ InFlight(d)
      BY DEF OrphanRows
    <2>3. \A k \in KeysOf(D) : k \in Keys /\ rec[k].state = "dispatching"
      BY <2>2, InFlightKey DEF KeysOf
    <2> QED
      BY <2>1, <2>3, SettledKeys
  <1>10. ASSUME NEW d \in Deliveries, HandleDeliveryAck(d)
         PROVE  \A k \in Keys : KeyStep(k)
    <2>1. CASE AckAccepted(d)
      <3>1. RecordsMoved({dlv[d].key}, "terminal", "accepted")
        BY <1>10, <2>1, AckEffect
      <3>2. dlv[d].key \in Keys /\ rec[dlv[d].key].state = "dispatching"
        BY <2>1, InFlightKey DEF AckAccepted, InFlight
      <3> QED
        BY <3>1, <3>2, SettledKeys
    <2>2. CASE ~AckAccepted(d)
      BY <1>1, <1>10, <2>2 DEF HandleDeliveryAck
    <2> QED
      BY <2>1, <2>2
  <1>11. CASE PurgeExpiredSends
    <2>1. \A k \in Keys : rec'[k] = IF k \in PurgeableKeys THEN NoRecord ELSE rec[k]
      BY <1>11, PurgeEffect
    <2>2. \A k \in PurgeableKeys : rec[k].state # "absent" /\ rec[k].expires + Grace <= now
      BY DEF PurgeableKeys
    <2> QED
      BY <2>1, <2>2 DEF KeyStep, PublicStatus
  <1>12. ASSUME NEW d \in Deliveries, ReleaseHeld(d) \/ HandleDeliveryIndeterminate(d)
         PROVE  UNCHANGED rec
    BY <1>12 DEF ReleaseHeld, HandleDeliveryIndeterminate
  <1>13. ASSUME NEW i \in Instances, NEW done \in SUBSET Moves,
               NEW q \in SUBSET Recoverable(i, done), Register(i, done, q)
         PROVE  UNCHANGED rec
    BY <1>13 DEF Register
  <1>14. CASE QuietStep \/ SettleExpiredDispatching
    BY <1>1, <1>14 DEF QuietStep, SettleExpiredDispatching
  <1> QED
    BY <1>1, <1>2, <1>3, <1>5, <1>6, <1>7, <1>8, <1>9, <1>10, <1>11, <1>12, <1>13, <1>14,
       TableSteps

(* The initial states map to initial states of the contract. *)
LEMMA ContractInit == Init => Contract!Init
  BY DEF Init, Contract!Init, PublicStatus, NoRecord

(* Every step maps to a step of the contract. *)
LEMMA ContractStep == TypeOK /\ Matching /\ [Next]_vars => [Contract!Next]_(Contract!vars)
  <1> SUFFICES ASSUME TypeOK, Matching, [Next]_vars PROVE Contract!Next
    OBVIOUS
  <1>1. now' >= now
    BY ClockSteps DEF TypeOK
  <1>2. ASSUME NEW k \in Keys
        PROVE  Contract!Reserved(k) \/ Contract!Advanced(k) \/ Contract!Forgotten(k)
                 \/ Contract!Kept(k)
    <2>1. CASE /\ rec[k].state = "absent" /\ rec'[k].state = "prepared"
               /\ rec'[k].expires > now
      BY <2>1 DEF Contract!Reserved, PublicStatus
    <2>2. CASE /\ <<PublicStatus(k), PublicStatus(k)'>> \in Contract!Edges
               /\ rec'[k].expires = rec[k].expires
      BY <2>2 DEF Contract!Advanced
    <2>3. CASE /\ rec[k].state # "absent" /\ rec[k].expires + Grace <= now
               /\ rec'[k] = NoRecord
      <3>1. PublicStatus(k)' = "absent" /\ rec'[k].expires = 0
        BY <2>3 DEF PublicStatus, NoRecord
      <3>2. PublicStatus(k) # "absent"
        BY <2>3 DEF PublicStatus, TypeOK, Records, PublicResults
      <3> QED
        BY <2>3, <3>1, <3>2 DEF Contract!Forgotten
    <2>4. CASE PublicStatus(k)' = PublicStatus(k) /\ rec'[k].expires = rec[k].expires
      BY <2>4 DEF Contract!Kept
    <2> QED
      BY <2>1, <2>2, <2>3, <2>4, KeySteps DEF KeyStep
  <1> QED
    BY <1>1, <1>2 DEF Contract!Next

(* The daemon, its wrappers and everything that can happen to them         *)
(* implement the contract of an idempotency key: one result per key, never *)
(* changed, and kept until Grace after the expiry (idempotency.rs).        *)
THEOREM DaemonImplementsContract == Spec => ImplementsContract
  <1>1. Inv => TypeOK /\ Matching
    BY DEF Inv
  <1> QED
    BY <1>1, ContractInit, ContractStep, Invariance, PTL
       DEF Spec, ImplementsContract, Contract!Spec
=============================================================================
