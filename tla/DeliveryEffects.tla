-------------------------- MODULE DeliveryEffects ---------------------------
(***************************************************************************)
(* What each action of Delivery does to the two tables, field by field,    *)
(* and type correctness. The safety proofs (module DeliveryProofs) cite    *)
(* these lemmas instead of reasoning about EXCEPT on records of functions. *)
(***************************************************************************)
EXTENDS Delivery, TLAPS

USE DEF vars, durable, session, handler, sockets, wrapper

(* A record after a change of state or of state and result. *)
LEMMA RecordMoved ==
  ASSUME NEW r \in Records, NEW s \in RecordStates, NEW p \in PublicResults
  PROVE  /\ [r EXCEPT !.state = s] \in Records
         /\ [r EXCEPT !.state = s].state = s
         /\ [r EXCEPT !.state = s].result = r.result
         /\ [r EXCEPT !.state = s].env = r.env
         /\ [r EXCEPT !.state = s].expires = r.expires
         /\ [r EXCEPT !.state = s, !.result = p] \in Records
         /\ [r EXCEPT !.state = s, !.result = p].state = s
         /\ [r EXCEPT !.state = s, !.result = p].result = p
         /\ [r EXCEPT !.state = s, !.result = p].env = r.env
         /\ [r EXCEPT !.state = s, !.result = p].expires = r.expires
  BY DEF Records

(* A delivery row after a change of phase, or of instance and phase. *)
LEMMA RowMoved ==
  ASSUME NEW r \in Rows, NEW p \in Phases, NEW i \in Instances \cup {None}
  PROVE  /\ [r EXCEPT !.phase = p] \in Rows
         /\ [r EXCEPT !.phase = p].phase = p
         /\ [r EXCEPT !.phase = p].key = r.key
         /\ [r EXCEPT !.phase = p].env = r.env
         /\ [r EXCEPT !.phase = p].expires = r.expires
         /\ [r EXCEPT !.phase = p].inst = r.inst
         /\ [r EXCEPT !.inst = i, !.phase = p] \in Rows
         /\ [r EXCEPT !.inst = i, !.phase = p].phase = p
         /\ [r EXCEPT !.inst = i, !.phase = p].key = r.key
         /\ [r EXCEPT !.inst = i, !.phase = p].env = r.env
         /\ [r EXCEPT !.inst = i, !.phase = p].expires = r.expires
         /\ [r EXCEPT !.inst = i, !.phase = p].inst = i
  BY DEF Rows

-----------------------------------------------------------------------------
(* The deliveries of D moved to phase p, every other field kept. *)
RowsMoved(D, p) ==
  /\ dlv' \in [Deliveries -> Rows]
  /\ \A d \in Deliveries :
       /\ dlv'[d].phase = IF d \in D THEN p ELSE dlv[d].phase
       /\ dlv'[d].key = dlv[d].key
       /\ dlv'[d].env = dlv[d].env
       /\ dlv'[d].expires = dlv[d].expires
       /\ dlv'[d].inst = dlv[d].inst

(* The records of K moved to state s with result p. *)
RecordsMoved(K, s, p) ==
  /\ rec' \in [Keys -> Records]
  /\ \A k \in Keys :
       /\ rec'[k].state = IF k \in K THEN s ELSE rec[k].state
       /\ rec'[k].result = IF k \in K THEN p ELSE rec[k].result
       /\ rec'[k].env = rec[k].env
       /\ rec'[k].expires = rec[k].expires

LEMMA RowsMovedBySet ==
  ASSUME dlv \in [Deliveries -> Rows], NEW D, NEW p \in Phases,
         dlv' = [d \in Deliveries |->
                   IF d \in D THEN [dlv[d] EXCEPT !.phase = p] ELSE dlv[d]]
  PROVE  RowsMoved(D, p)
  <1>1. \A d \in Deliveries : dlv'[d] = IF d \in D THEN [dlv[d] EXCEPT !.phase = p] ELSE dlv[d]
    OBVIOUS
  <1>2. \A d \in Deliveries : dlv'[d] \in Rows
    BY <1>1, RowMoved
  <1>3. dlv' \in [Deliveries -> Rows]
    BY <1>2
  <1>4. ASSUME NEW d \in Deliveries
        PROVE  /\ dlv'[d].phase = IF d \in D THEN p ELSE dlv[d].phase
               /\ dlv'[d].key = dlv[d].key
               /\ dlv'[d].env = dlv[d].env
               /\ dlv'[d].expires = dlv[d].expires
               /\ dlv'[d].inst = dlv[d].inst
    <2>1. CASE d \in D
      BY <1>1, <2>1, dlv[d] \in Rows DEF Rows
    <2>2. CASE d \notin D
      BY <1>1, <2>2
    <2> QED
      BY <2>1, <2>2
  <1> QED
    BY <1>3, <1>4 DEF RowsMoved

LEMMA RowsMovedByOne ==
  ASSUME dlv \in [Deliveries -> Rows], NEW d \in Deliveries, NEW p \in Phases,
         dlv' = [dlv EXCEPT ![d].phase = p]
  PROVE  RowsMoved({d}, p)
  <1>1. dlv' = [c \in Deliveries |->
                  IF c \in {d} THEN [dlv[c] EXCEPT !.phase = p] ELSE dlv[c]]
    OBVIOUS
  <1> QED
    BY <1>1, RowsMovedBySet

LEMMA RecordsMovedBySet ==
  ASSUME rec \in [Keys -> Records], NEW K, NEW s \in RecordStates, NEW p \in PublicResults,
         rec' = [k \in Keys |->
                   IF k \in K THEN [rec[k] EXCEPT !.state = s, !.result = p] ELSE rec[k]]
  PROVE  RecordsMoved(K, s, p)
  <1>1. \A k \in Keys : rec'[k] = IF k \in K THEN [rec[k] EXCEPT !.state = s, !.result = p]
                                  ELSE rec[k]
    OBVIOUS
  <1>2. \A k \in Keys : rec'[k] \in Records
    BY <1>1, RecordMoved
  <1>3. rec' \in [Keys -> Records]
    BY <1>2
  <1>4. ASSUME NEW k \in Keys
        PROVE  /\ rec'[k].state = IF k \in K THEN s ELSE rec[k].state
               /\ rec'[k].result = IF k \in K THEN p ELSE rec[k].result
               /\ rec'[k].env = rec[k].env
               /\ rec'[k].expires = rec[k].expires
    <2>1. CASE k \in K
      BY <1>1, <2>1, rec[k] \in Records DEF Records
    <2>2. CASE k \notin K
      BY <1>1, <2>2
    <2> QED
      BY <2>1, <2>2
  <1> QED
    BY <1>3, <1>4 DEF RecordsMoved

LEMMA RecordsMovedByOne ==
  ASSUME rec \in [Keys -> Records], NEW k \in Keys,
         NEW s \in RecordStates, NEW p \in PublicResults,
         rec' = [rec EXCEPT ![k].state = s, ![k].result = p]
  PROVE  RecordsMoved({k}, s, p)
  <1>1. rec' = [c \in Keys |->
                  IF c \in {k} THEN [rec[c] EXCEPT !.state = s, !.result = p] ELSE rec[c]]
    OBVIOUS
  <1> QED
    BY <1>1, RecordsMovedBySet

(* Only the state of record k moves (transition). *)
StateMoved(k, s) ==
  /\ rec' \in [Keys -> Records]
  /\ \A c \in Keys :
       /\ rec'[c].state = IF c = k THEN s ELSE rec[c].state
       /\ rec'[c].result = rec[c].result
       /\ rec'[c].env = rec[c].env
       /\ rec'[c].expires = rec[c].expires

LEMMA StateMovedByOne ==
  ASSUME rec \in [Keys -> Records], NEW k \in Keys, NEW s \in RecordStates,
         rec' = [rec EXCEPT ![k].state = s]
  PROVE  StateMoved(k, s)
  <1>1. \A c \in Keys : rec'[c] = IF c = k THEN [rec[c] EXCEPT !.state = s] ELSE rec[c]
    OBVIOUS
  <1>2. \A c \in Keys : rec'[c] \in Records
    BY <1>1 DEF Records
  <1>3. rec' \in [Keys -> Records]
    BY <1>2
  <1>4. ASSUME NEW c \in Keys
        PROVE  /\ rec'[c].state = IF c = k THEN s ELSE rec[c].state
               /\ rec'[c].result = rec[c].result
               /\ rec'[c].env = rec[c].env
               /\ rec'[c].expires = rec[c].expires
    BY <1>1, rec[c] \in Records DEF Records
  <1> QED
    BY <1>3, <1>4 DEF StateMoved

-----------------------------------------------------------------------------
(* The two settlements of sets of deliveries. *)
KeysOf(D) == {k \in Keys : \E d \in D : dlv[d].key = k}

LEMMA SettledHeldEffect ==
  ASSUME TypeOK, NEW D, SettledHeld(D)
  PROVE  RowsMoved(D, "cancelled") /\ RecordsMoved(KeysOf(D), "terminal", "rejected")
  <1>1. RowsMoved(D, "cancelled")
    BY RowsMovedBySet DEF TypeOK, SettledHeld, Phases
  <1>2. rec' = [k \in Keys |-> IF k \in KeysOf(D)
                              THEN [rec[k] EXCEPT !.state = "terminal", !.result = "rejected"]
                              ELSE rec[k]]
    BY DEF SettledHeld, KeysOf
  <1> QED
    BY <1>1, <1>2, RecordsMovedBySet DEF TypeOK, RecordStates, PublicResults

LEMMA OrphanedEffect ==
  ASSUME TypeOK, NEW D, Orphaned(D)
  PROVE  RowsMoved(D, "orphaned") /\ RecordsMoved(KeysOf(D), "terminal", "orphaned")
  <1>1. RowsMoved(D, "orphaned")
    BY RowsMovedBySet DEF TypeOK, Orphaned, Phases
  <1>2. rec' = [k \in Keys |-> IF k \in KeysOf(D)
                              THEN [rec[k] EXCEPT !.state = "terminal", !.result = "orphaned"]
                              ELSE rec[k]]
    BY DEF Orphaned, KeysOf
  <1> QED
    BY <1>1, <1>2, RecordsMovedBySet DEF TypeOK, RecordStates, PublicResults

(* A reservation writes one fresh record. *)
LEMMA SendReservesEffect ==
  ASSUME TypeOK, NEW k \in Keys, NEW e \in Envelopes, NEW t \in IssueTimes,
         SendReserves(k, e, t)
  PROVE  /\ rec' \in [Keys -> Records]
         /\ rec'[k] = [state |-> "prepared", result |-> "none",
                       env |-> e, expires |-> t + Horizon]
         /\ \A c \in Keys \ {k} : rec'[c] = rec[c]
  <1>1. t + Horizon \in Nat
    BY DeliveryConstants DEF IssueTimes
  <1>2. [state |-> "prepared", result |-> "none", env |-> e, expires |-> t + Horizon] \in Records
    BY <1>1 DEF Records, RecordStates, PublicResults
  <1> QED
    BY <1>2 DEF SendReserves, TypeOK

(* begin_send_delivery opens one row, and its record follows. *)
LEMMA BeginDeliveryEffect ==
  ASSUME TypeOK, NEW d \in Deliveries, NEW phase \in {"held", "dispatching"},
         BeginDelivery(d, phase)
  PROVE  /\ req.key \in Keys /\ req.env \in Envelopes
         /\ StateMoved(req.key, "dispatching")
         /\ dlv' \in [Deliveries -> Rows]
         /\ dlv'[d] = [phase |-> phase, key |-> req.key, env |-> req.env,
                       expires |-> rec[req.key].expires, inst |-> conn]
         /\ \A c \in Deliveries \ {d} : dlv'[c] = dlv[c]
  <1>1. req.key \in Keys /\ req.env \in Envelopes /\ conn \in Instances
    BY DEF TypeOK, BeginDelivery, Requests
  <1>2. StateMoved(req.key, "dispatching")
    BY <1>1, StateMovedByOne DEF TypeOK, BeginDelivery, RecordStates
  <1>3. [phase |-> phase, key |-> req.key, env |-> req.env,
         expires |-> rec[req.key].expires, inst |-> conn] \in Rows
    BY <1>1 DEF TypeOK, Records, Rows, Phases
  <1> QED
    BY <1>1, <1>2, <1>3 DEF TypeOK, BeginDelivery

(* A release commits the row as dispatching, or quarantines it. *)
LEMMA ReleaseHeldEffect ==
  ASSUME TypeOK, NEW d \in Deliveries, ReleaseHeld(d)
  PROVE  \E p \in {"dispatching", "indeterminate"} : RowsMoved({d}, p)
  <1>1. PICK p \in {"dispatching", "indeterminate"} : dlv' = [dlv EXCEPT ![d].phase = p]
    BY DEF ReleaseHeld
  <1>2. p \in Phases /\ dlv \in [Deliveries -> Rows]
    BY DEF Phases, TypeOK
  <1> QED
    BY <1>1, <1>2, RowsMovedByOne

(* Register moves rows to instance i and quarantines some of them. *)
LEMMA RegisterEffect ==
  ASSUME TypeOK, NEW i \in Instances, NEW done \in SUBSET Moves,
               NEW q \in SUBSET Recoverable(i, done), Register(i, done, q)
  PROVE  /\ dlv' \in [Deliveries -> Rows]
         /\ \A d \in Deliveries :
              /\ dlv'[d].phase = IF d \in q THEN "indeterminate" ELSE dlv[d].phase
              /\ dlv'[d].key = dlv[d].key
              /\ dlv'[d].env = dlv[d].env
              /\ dlv'[d].expires = dlv[d].expires
              /\ dlv'[d].inst = NewInstance(i, done, d)
  <1>1. ASSUME NEW d \in Deliveries
        PROVE  /\ dlv'[d] \in Rows
               /\ dlv'[d].phase = IF d \in q THEN "indeterminate" ELSE dlv[d].phase
               /\ dlv'[d].key = dlv[d].key
               /\ dlv'[d].env = dlv[d].env
               /\ dlv'[d].expires = dlv[d].expires
               /\ dlv'[d].inst = NewInstance(i, done, d)
    <2> DEFINE p == IF d \in q THEN "indeterminate" ELSE dlv[d].phase
    <2> DEFINE n == NewInstance(i, done, d)
    <2>1. dlv[d] \in Rows
      BY DEF TypeOK
    <2>2. p \in Phases /\ n \in Instances \cup {None}
      BY <2>1 DEF Rows, Phases, NewInstance
    <2>3. dlv'[d] = [dlv[d] EXCEPT !.inst = n, !.phase = p]
      BY DEF Register
    <2> HIDE DEF p, n
    <2>4. [dlv[d] EXCEPT !.inst = n, !.phase = p] \in Rows
      BY <2>1, <2>2 DEF Rows
    <2>5. /\ dlv'[d].phase = p /\ dlv'[d].inst = n /\ dlv'[d].key = dlv[d].key
          /\ dlv'[d].env = dlv[d].env /\ dlv'[d].expires = dlv[d].expires
      BY <2>1, <2>2, <2>3 DEF Rows
    <2> QED
      BY <2>3, <2>4, <2>5 DEF p, n
  <1>2. dlv' = [d \in Deliveries |-> dlv'[d]]
    BY DEF Register
  <1> QED
    BY <1>1, <1>2

(* An accepted acknowledgement settles the row and its record. *)
LEMMA AckEffect ==
  ASSUME TypeOK, NEW d \in Deliveries, HandleDeliveryAck(d), AckAccepted(d)
  PROVE  /\ dlv[d].key \in Keys
         /\ RowsMoved({d}, "acked")
         /\ RecordsMoved({dlv[d].key}, "terminal", "accepted")
  <1>1. dlv[d].key \in Keys
    BY DEF TypeOK, AckAccepted, Stored
  <1>2. /\ dlv' = [dlv EXCEPT ![d].phase = "acked"]
        /\ rec' = [rec EXCEPT ![dlv[d].key].state = "terminal",
                              ![dlv[d].key].result = "accepted"]
    BY DEF HandleDeliveryAck
  <1>3. RowsMoved({d}, "acked")
    BY <1>2, RowsMovedByOne DEF TypeOK, Phases
  <1>4. RecordsMoved({dlv[d].key}, "terminal", "accepted")
    BY <1>1, <1>2, RecordsMovedByOne DEF TypeOK, RecordStates, PublicResults
  <1> QED
    BY <1>1, <1>3, <1>4

(* The purge forgets records and, in cascade, their rows. *)
LEMMA PurgeEffect ==
  ASSUME TypeOK, PurgeExpiredSends
  PROVE  /\ RowsMoved({d \in Deliveries : Stored(d) /\ dlv[d].key \in PurgeableKeys}, "purged")
         /\ rec' \in [Keys -> Records]
         /\ \A k \in Keys : rec'[k] = IF k \in PurgeableKeys THEN NoRecord ELSE rec[k]
  <1>1. dlv' = [d \in Deliveries |->
                  IF d \in {c \in Deliveries : Stored(c) /\ dlv[c].key \in PurgeableKeys}
                  THEN [dlv[d] EXCEPT !.phase = "purged"] ELSE dlv[d]]
    BY DEF PurgeExpiredSends
  <1>2. RowsMoved({d \in Deliveries : Stored(d) /\ dlv[d].key \in PurgeableKeys}, "purged")
    BY <1>1, RowsMovedBySet DEF TypeOK, Phases
  <1>3. NoRecord \in Records
    BY DEF NoRecord, Records, RecordStates, PublicResults
  <1> QED
    BY <1>2, <1>3 DEF PurgeExpiredSends, TypeOK

-----------------------------------------------------------------------------
(* Type correctness. *)

(* A report of uncertainty quarantines one delivery in flight, or nothing. *)
Quarantined(d) ==
  dlv[d].phase = "dispatching" /\ dlv' = [dlv EXCEPT ![d].phase = "indeterminate"]

LEMMA IndeterminateEffect ==
  ASSUME NEW d \in Deliveries, HandleDeliveryIndeterminate(d)
  PROVE  Quarantined(d) \/ UNCHANGED dlv
  BY DEF HandleDeliveryIndeterminate, Quarantined


LEMMA TypeInit == Init => TypeOK
  <1> SUFFICES ASSUME Init PROVE TypeOK
    OBVIOUS
  <1> USE DeliveryConstants
  <1>1. rec \in [Keys -> Records]
    BY DEF Init, NoRecord, Records, RecordStates, PublicResults
  <1>2. dlv \in [Deliveries -> Rows] /\ \A d \in Deliveries : ~Stored(d)
    BY DEF Init, NoRow, Rows, Phases, Stored
  <1>3. refused \in BOOLEAN
    BY DEF Init
  <1> QED
    BY <1>1, <1>2, <1>3 DEF Init, TypeOK, LockStates

(* Rows that were stored stay attached to a key and to an instance. *)
RowsAttached ==
  \A d \in Deliveries : Stored(d) => dlv[d].key \in Keys /\ dlv[d].inst \in Instances

LEMMA MovedRowsAttached ==
  ASSUME TypeOK, NEW p \in Phases, NEW D,
         \A d \in D : d \in Deliveries => Stored(d), RowsMoved(D, p)
  PROVE  dlv' \in [Deliveries -> Rows] /\ RowsAttached'
  BY DEF TypeOK, RowsMoved, RowsAttached, Stored

LEMMA TypeStep == TypeOK /\ [Next]_vars => TypeOK'
  <1> SUFFICES ASSUME TypeOK, [Next]_vars PROVE TypeOK'
    OBVIOUS
  <1> USE DeliveryConstants DEF LockStates
  <1>1. ASSUME NEW k \in Keys, NEW e \in Envelopes, NEW t \in IssueTimes,
               SendReserves(k, e, t)
        PROVE  TypeOK'
    BY <1>1, SendReservesEffect DEF TypeOK, SendReserves, Requests, Stored
  <1>2. ASSUME NEW k \in Keys, NEW e \in Envelopes, NEW t \in IssueTimes,
               SendResumes(k, e, t)
        PROVE  TypeOK'
    BY <1>2 DEF TypeOK, SendResumes, Requests, Stored
  <1>3. CASE RejectPrepared
    <2>1. req.key \in Keys
      BY <1>3 DEF TypeOK, RejectPrepared, Requests
    <2>2. RecordsMoved({req.key}, "terminal", "rejected")
      BY <1>3, <2>1, RecordsMovedByOne DEF TypeOK, RejectPrepared, RecordStates, PublicResults
    <2> QED
      BY <1>3, <2>2 DEF TypeOK, RejectPrepared, RecordsMoved, Stored
  <1>4. CASE NackKeepsPrepared
    BY <1>4 DEF TypeOK, NackKeepsPrepared, Stored
  <1>5. CASE CaptureReply
    BY <1>5 DEF TypeOK, CaptureReply, Requests, Stored
  <1>6. CASE CaptureTransition
    <2>1. req.key \in Keys
      BY <1>6 DEF TypeOK, CaptureTransition, Requests
    <2>2. StateMoved(req.key, "dispatching")
      BY <1>6, <2>1, StateMovedByOne DEF TypeOK, CaptureTransition, RecordStates
    <2> QED
      BY <1>6, <2>2 DEF TypeOK, CaptureTransition, StateMoved, Stored
  <1>7. CASE CaptureFinalize
    <2>1. req.key \in Keys
      BY <1>7 DEF TypeOK, CaptureFinalize, Requests
    <2>2. RecordsMoved({req.key}, "terminal", "accepted")
      BY <1>7, <2>1, RecordsMovedByOne DEF TypeOK, CaptureFinalize, RecordStates, PublicResults
    <2> QED
      BY <1>7, <2>2 DEF TypeOK, CaptureFinalize, RecordsMoved, Stored
  <1>8. ASSUME NEW d \in Deliveries, NEW phase \in {"held", "dispatching"},
               BeginDelivery(d, phase)
        PROVE  TypeOK'
    <2>1. rec' \in [Keys -> Records] /\ dlv' \in [Deliveries -> Rows]
      BY <1>8, BeginDeliveryEffect DEF StateMoved
    <2>2. RowsAttached'
      BY <1>8, BeginDeliveryEffect DEF TypeOK, RowsAttached, Stored, BeginDelivery
    <2>3. toWrapper' \subseteq Frames
      BY <1>8 DEF TypeOK, BeginDelivery, Frames
    <2> QED
      BY <1>8, <2>1, <2>2, <2>3 DEF TypeOK, BeginDelivery, RowsAttached
  <1>9. ASSUME NEW d \in Deliveries, dlv[d].phase = "held", SettledHeld({d})
        PROVE  /\ rec' \in [Keys -> Records]
               /\ dlv' \in [Deliveries -> Rows] /\ RowsAttached'
               /\ notice' \in [Deliveries -> {"none", "pending", "notified"}]
    <2>1. RowsMoved({d}, "cancelled") /\ rec' \in [Keys -> Records]
      BY <1>9, SettledHeldEffect DEF RecordsMoved
    <2>2. Stored(d)
      BY <1>9 DEF Stored
    <2>3. dlv' \in [Deliveries -> Rows] /\ RowsAttached'
      BY <2>1, <2>2, MovedRowsAttached DEF Phases
    <2> QED
      BY <1>9, <2>1, <2>3 DEF TypeOK, SettledHeld
  <1>10. ASSUME NEW d \in Deliveries, CancelHeld(d) PROVE TypeOK'
    BY <1>9, <1>10 DEF TypeOK, CancelHeld, RowsAttached
  <1>11. ASSUME NEW d \in Deliveries, ReleaseHeld(d) PROVE TypeOK'
    <2>1. Stored(d)
      BY <1>11 DEF ReleaseHeld, Stored
    <2>3. PICK p \in {"dispatching", "indeterminate"} : RowsMoved({d}, p)
      BY <1>11, ReleaseHeldEffect
    <2>4. dlv' \in [Deliveries -> Rows] /\ RowsAttached'
      BY <2>1, <2>3, MovedRowsAttached DEF Phases
    <2>5. toWrapper' \subseteq Frames
      BY <1>11, <2>1 DEF TypeOK, ReleaseHeld, Frames
    <2> QED
      BY <1>11, <2>4, <2>5 DEF TypeOK, ReleaseHeld, RowsAttached
  <1>12. ASSUME NEW i \in Instances, NEW done \in SUBSET Moves,
               NEW q \in SUBSET Recoverable(i, done), Register(i, done, q)
         PROVE  TypeOK'
    <2>1. dlv' \in [Deliveries -> Rows] /\ RowsAttached'
      <3>1. \A d \in q : Stored(d)
        BY DEF Recoverable, Stored
      <3>2. \A d \in Deliveries : Stored(d) => NewInstance(i, done, d) \in Instances
        BY DEF TypeOK, NewInstance
      <3>4. \A d \in Deliveries : Stored(d)' => Stored(d)
        BY <1>12, <3>1, RegisterEffect DEF Stored
      <3>3. /\ dlv' \in [Deliveries -> Rows]
            /\ \A d \in Deliveries :
                 dlv'[d].key = dlv[d].key /\ dlv'[d].inst = NewInstance(i, done, d)
        BY <1>12, RegisterEffect
      <3> QED
        BY <3>2, <3>3, <3>4 DEF TypeOK, RowsAttached
    <2>2. toWrapper' \subseteq Frames
      <3> SUFFICES ASSUME NEW f \in toWrapper' PROVE f \in Frames
        OBVIOUS
      <3>1. CASE f \in toWrapper
        BY <3>1 DEF TypeOK
      <3>2. CASE f \notin toWrapper
        <4>1. PICK d \in Recoverable(i, done) : f = [id |-> d, sock |-> i, inst |-> i]
          BY <1>12, <3>2 DEF Register
        <4> QED
          BY <4>1 DEF Recoverable, Frames
      <3> QED
        BY <3>1, <3>2
    <2> QED
      BY <1>12, <2>1, <2>2 DEF TypeOK, Register, RowsAttached
  <1>13. CASE Disconnect
    BY <1>13 DEF TypeOK, Disconnect, StillRead, Stored
  <1>14. CASE PurgePresence
    <2> DEFINE D == OrphanRows(presence)
    <2>1. RowsMoved(D, "orphaned") /\ rec' \in [Keys -> Records]
      BY <1>14, OrphanedEffect DEF PurgePresence, RecordsMoved
    <2>2. \A d \in D : Stored(d)
      BY DEF OrphanRows, InFlight, Stored
    <2>3. dlv' \in [Deliveries -> Rows] /\ RowsAttached'
      BY <2>1, <2>2, MovedRowsAttached DEF Phases
    <2>4. notice' \in [Deliveries -> {"none", "pending", "notified"}]
      BY <1>14 DEF TypeOK, PurgePresence, Orphaned
    <2> QED
      BY <1>14, <2>1, <2>3, <2>4 DEF TypeOK, PurgePresence, DropsRoute, StillRead, RowsAttached
  <1>15. ASSUME NEW d \in Deliveries, NotifyEmitter(d) PROVE TypeOK'
    BY <1>15 DEF TypeOK, NotifyEmitter, Stored
  <1>16. ASSUME NEW f \in toWrapper, WrapperInjects(f) PROVE TypeOK'
    BY <1>16 DEF TypeOK, WrapperInjects, Frames, Stored
  <1>17. ASSUME NEW f \in toWrapper, WrapperReports(f) PROVE TypeOK'
    BY <1>17 DEF TypeOK, WrapperReports, ReportBack, Frames, Reports, Stored
  <1>18. ASSUME NEW i \in Instances, NEW d \in Deliveries, PromptEnters(i, d)
         PROVE  TypeOK'
    BY <1>18 DEF TypeOK, PromptEnters, Stored
  <1>19. ASSUME NEW i \in Instances, NEW d \in Deliveries, PromptDispatched(i, d)
         PROVE  TypeOK'
    <2>1. receipt' = receipt \/ receipt' = [receipt EXCEPT ![i][d] = "acked"]
      BY <1>19 DEF PromptDispatched
    <2>2. receipt' \in [Instances -> [Deliveries -> {"none", "seen", "acked"}]]
      <3>1. CASE receipt' = receipt
        BY <3>1 DEF TypeOK
      <3>2. CASE receipt' = [receipt EXCEPT ![i][d] = "acked"]
        BY <3>2 DEF TypeOK
      <3> QED
        BY <2>1, <3>1, <3>2
    <2>3. pending' \in [Instances -> [Deliveries -> {"none", "queued", "sent"}]]
      BY <1>19 DEF TypeOK, PromptDispatched
    <2>4. toDaemon' \subseteq Reports
      BY <1>19 DEF TypeOK, PromptDispatched, ReportBack, Reports
    <2> QED
      BY <1>19, <2>2, <2>3, <2>4 DEF TypeOK, PromptDispatched, Stored
  <1>20. ASSUME NEW i \in Instances, NEW d \in Deliveries, InjectionFailed(i, d)
         PROVE  TypeOK'
    BY <1>20 DEF TypeOK, InjectionFailed, ReportBack, Reports, Stored
  <1>21. ASSUME NEW d \in Deliveries, HandleDeliveryAck(d) PROVE TypeOK'
    <2>1. CASE AckAccepted(d)
      <3>1. RowsMoved({d}, "acked") /\ rec' \in [Keys -> Records]
        BY <1>21, <2>1, AckEffect DEF RecordsMoved
      <3>2. Stored(d)
        BY <2>1 DEF AckAccepted, Stored
      <3>3. dlv' \in [Deliveries -> Rows] /\ RowsAttached'
        BY <3>1, <3>2, MovedRowsAttached DEF Phases
      <3> QED
        BY <1>21, <3>1, <3>3 DEF TypeOK, HandleDeliveryAck, RowsAttached
    <2>2. CASE ~AckAccepted(d)
      BY <1>21, <2>2 DEF TypeOK, HandleDeliveryAck, Stored
    <2> QED
      BY <2>1, <2>2
  <1>22. ASSUME NEW d \in Deliveries, HandleDeliveryIndeterminate(d) PROVE TypeOK'
    <2>1. resolved' \subseteq Resolutions
      BY <1>22 DEF TypeOK, HandleDeliveryIndeterminate
    <2>2. CASE Quarantined(d)
      <3>1. RowsMoved({d}, "indeterminate")
        BY <2>2, RowsMovedByOne DEF Quarantined, TypeOK, Phases
      <3>2. dlv' \in [Deliveries -> Rows] /\ RowsAttached'
        BY <2>2, <3>1, MovedRowsAttached DEF Quarantined, Phases, Stored
      <3> QED
        BY <1>22, <2>1, <3>2 DEF TypeOK, HandleDeliveryIndeterminate, RowsAttached
    <2>3. CASE UNCHANGED dlv
      BY <1>22, <2>1, <2>3 DEF TypeOK, HandleDeliveryIndeterminate, Stored
    <2> QED
      BY <1>22, <2>2, <2>3, IndeterminateEffect
  <1>23. CASE MaintainStarts
    BY <1>23 DEF TypeOK, MaintainStarts, Stored
  <1>24. ASSUME NEW d \in Deliveries, SweepHeld(d) PROVE TypeOK'
    BY <1>9, <1>24 DEF TypeOK, SweepHeld, ExpiredRows, RowsAttached
  <1>25. CASE SweepDone
    BY <1>25 DEF TypeOK, SweepDone, Stored
  <1>26. CASE SettleExpiredDispatching
    <2>1. RowsMoved(ExpiredRows("dispatching"), "indeterminate")
      BY <1>26, RowsMovedBySet DEF TypeOK, SettleExpiredDispatching, Phases
    <2>2. \A d \in ExpiredRows("dispatching") : Stored(d)
      BY DEF ExpiredRows, Stored
    <2>3. dlv' \in [Deliveries -> Rows] /\ RowsAttached'
      BY <2>1, <2>2, MovedRowsAttached DEF Phases
    <2> QED
      BY <1>26, <2>3 DEF TypeOK, SettleExpiredDispatching, RowsAttached
  <1>27. CASE PurgeExpiredSends
    <2>1. dlv' \in [Deliveries -> Rows] /\ RowsAttached' /\ rec' \in [Keys -> Records]
      <3> DEFINE D == {d \in Deliveries : Stored(d) /\ dlv[d].key \in PurgeableKeys}
      <3>1. RowsMoved(D, "purged") /\ rec' \in [Keys -> Records]
        BY <1>27, PurgeEffect
      <3>2. \A d \in D : Stored(d)
        OBVIOUS
      <3> QED
        BY <3>1, <3>2, MovedRowsAttached DEF Phases
    <2> QED
      BY <1>27, <2>1 DEF TypeOK, PurgeExpiredSends, RowsAttached
  <1>28. CASE MaintenanceFails
    BY <1>28 DEF TypeOK, MaintenanceFails, Stored
  <1>29. CASE Tick
    BY <1>29 DEF TypeOK, Tick, Stored
  <1>30. CASE DaemonRestarts
    <2>1. toWrapper' \subseteq Frames /\ refused' \in BOOLEAN
      BY <1>30 DEF TypeOK, DaemonRestarts, StillRead
    <2> QED
      BY <1>30, <2>1 DEF TypeOK, DaemonRestarts, Stored
  <1>31. ASSUME NEW i \in Instances, WrapperStarts(i) PROVE TypeOK'
    BY <1>31 DEF TypeOK, WrapperStarts, Stored
  <1>32. ASSUME NEW i \in Instances, WrapperCrashes(i) PROVE TypeOK'
    BY <1>32 DEF TypeOK, WrapperCrashes, Stored
  <1>33. CASE UNCHANGED vars
    BY <1>33 DEF TypeOK, Stored
  <1>34. CASE PurgeWithoutOrphans
    BY <1>34 DEF TypeOK, PurgeWithoutOrphans, DropsRoute, StillRead, Stored
  <1>35. ASSUME NEW d \in Deliveries, ResolveReporter(d) PROVE TypeOK'
    BY <1>35 DEF TypeOK, ResolveReporter, Resolutions, Stored
  <1> QED
    BY ONLY [Next]_vars, <1>1, <1>2, <1>3, <1>4, <1>5, <1>6, <1>7, <1>8, <1>10, <1>11,
       <1>12, <1>13, <1>14, <1>15, <1>16, <1>17, <1>18, <1>19, <1>20, <1>21, <1>22,
       <1>23, <1>24, <1>25, <1>26, <1>27, <1>28, <1>29, <1>30, <1>31, <1>32, <1>33,
       <1>34, <1>35
       DEF Next, ClientStep, AdmissionStep, QueueStep, SessionStep, WrapperStep,
       ReportStep, SweepStep, MaintenanceStep, CrashStep

(* Type correctness of the send path, for every set of keys, deliveries    *)
(* and instances: no handler of the daemon or of the wrapper ever stores a *)
(* row without its key and its instance, or serves a send it has forgotten.*)
THEOREM TypeCorrect == Spec => []TypeOK
  BY TypeInit, TypeStep, PTL DEF Spec
=============================================================================
