-------------------------- MODULE ExecutionProofs --------------------------
(***************************************************************************)
(* Proofs about Execution, for any set of submissions and any number of    *)
(* executions, faults and pauses.                                          *)
(***************************************************************************)
EXTENDS Execution, SequenceTheorems, FiniteSetTheorems, TLAPS

-----------------------------------------------------------------------------
(* Sequences over a set.                                                   *)

(* What a queue holds stays in its set when an element is added, taken or  *)
(* when the set grows.                                                     *)
LEMMA SeqAppend == ASSUME NEW S, NEW q \in Seq(S), NEW e \in S
                   PROVE  Append(q, e) \in Seq(S)
  BY AppendProperties

(* Two queues one after the other.                                         *)
LEMMA SeqConcat == ASSUME NEW S, NEW q \in Seq(S), NEW r \in Seq(S)
                   PROVE  q \o r \in Seq(S)
  BY ConcatProperties

(* The head of a queue and the rest of it.                                 *)
LEMMA SeqTake == ASSUME NEW S, NEW q \in Seq(S), q # <<>>
                 PROVE  Head(q) \in S /\ Tail(q) \in Seq(S)
  BY HeadTailProperties

(* Short sequences.                                                        *)
LEMMA SeqShort == ASSUME NEW S
                  PROVE  /\ <<>> \in Seq(S)
                         /\ \A e \in S : <<e>> \in Seq(S)
                         /\ \A e, f \in S : <<e, f>> \in Seq(S)
                         /\ \A e, f, g \in S : <<e, f, g>> \in Seq(S)
  OBVIOUS

(* A larger set.                                                           *)
LEMMA SeqGrow == ASSUME NEW S, NEW T, S \subseteq T, NEW q \in Seq(S)
                 PROVE  q \in Seq(T)
  BY SeqMonotonic

(* A prompt withdrawn from the middle of a queue.                          *)
LEMMA SeqCut == ASSUME NEW S, NEW q \in Seq(S), NEW i \in 1..Len(q)
                PROVE  SubSeq(q, 1, i - 1) \o SubSeq(q, i + 1, Len(q)) \in Seq(S)
<1>1. SubSeq(q, 1, i - 1) \in Seq(S)
  BY SubSeqProperties
<1>2. SubSeq(q, i + 1, Len(q)) \in Seq(S)
  BY SubSeqProperties
<1> QED BY <1>1, <1>2, SeqConcat

(* A batch of frames is a sequence of frames of the executions it is for.  *)
LEMMA BatchType ==
  ASSUME NEW kind \in {"plain", "idempotent", "interrupt"}, NEW S, S \subseteq Execs,
         exec \in [Execs -> Rows], MaxExecs \in Nat,
         NEW fs \in Batch(kind, S)
  PROVE  fs \in Seq({f \in ToWrapper : f.x \in S})
<1>1. Cardinality(S) \in Nat
  <2>1. IsFiniteSet(Execs)
    BY FS_Interval DEF Execs
  <2> QED BY <2>1, FS_Subset, FS_CardinalityType
<1>2. PICK q \in [1..Cardinality(S) -> S] : fs = [i \in 1..Cardinality(S) |-> Frame(kind, q[i])]
  BY DEF Batch, InOrder
<1>3. \A i \in 1..Cardinality(S) : Frame(kind, q[i]) \in {f \in ToWrapper : f.x \in S}
  BY DEF Frame, ToWrapper, Rows
<1> QED BY <1>1, <1>2, <1>3

-----------------------------------------------------------------------------
(* Types.                                                                  *)

(* Every initial state has the types of the rows, frames and bindings.     *)
LEMMA TypeInit == Init => TypeOK
<1> SUFFICES ASSUME Init PROVE TypeOK
  OBVIOUS
<1> USE ExecutionConstants DEF Init
<1>1. NoRow \in Rows /\ NoBinding \in Bindings
  BY DEF NoRow, Rows, NoBinding, Bindings, Active, Terminal
<1>2. \A S : <<>> \in Seq(S)
  OBVIOUS
<1>3. exec \in [Execs -> Rows] /\ bind \in [Subs -> Bindings]
  BY <1>1
<1>4. pend \in [Subs -> Seq(Execs)]
  BY <1>2
<1>5. 0 \in 0..MaxExecs /\ 0 \in 0..MaxFaults /\ 0 \in 0..MaxPauses
  OBVIOUS
<1> QED BY <1>2, <1>3, <1>4, <1>5 DEF TypeOK

(* A compare-and-set moves at most one row.                                *)
LEMMA TransitionType ==
  ASSUME exec \in [Execs -> Rows], NEW x \in Execs, NEW from, NEW rev,
         NEW to \in Active \cup Terminal, TransitionIfCurrent(x, from, rev, to)
  PROVE  exec' \in [Execs -> Rows]
<1>1. Moved(exec[x], to) \in Rows
  BY DEF Moved, Rows
<1> QED BY <1>1 DEF TransitionIfCurrent

(* Closing an execution and creating its child keeps the types.            *)
LEMMA ReconstructType ==
  ASSUME TypeOK, NEW x \in Execs, last < MaxExecs, Reconstruct(x)
  PROVE  /\ exec' \in [Execs -> Rows] /\ last' \in 0..MaxExecs
         /\ pause' \in [Execs -> {"none", "pending", "resumed"}]
         /\ handing' \in Execs
<1> USE ExecutionConstants DEF TypeOK, Reconstruct
<1>1. last + 1 \in Execs /\ last' \in 0..MaxExecs
  BY DEF Execs
<1>2. exec[x] \in Rows
  OBVIOUS
<1>3. ChildOf(x) \in Rows
  BY SMTT(30), <1>2 DEF ChildOf, Rows, Sub, Active
<1>4. ClosedBy(x) \in Rows
  BY SMTT(30), <1>2 DEF ClosedBy, Moved, Rows, Terminal
<1>5. exec' \in [Execs -> Rows]
  BY <1>1, <1>2, <1>3, <1>4
<1> QED BY <1>1, <1>5

(* Whatever a recovery does, it keeps the types.                           *)
LEMMA RecoverType ==
  ASSUME TypeOK, NEW sent \in Seq(ToWrapper), NEW frozen,
         Recover(sent, frozen) \/ NoRecovery(sent)
  PROVE  /\ exec' \in [Execs -> Rows] /\ last' \in 0..MaxExecs
         /\ pause' \in [Execs -> {"none", "pending", "resumed"}]
         /\ handing' \in Execs \cup {None}
         /\ home' \in [Execs -> Nat] /\ outbox' \in Seq(ToWrapper)
         /\ UNCHANGED quota
<1> USE ExecutionConstants
<1>1. outbox \o sent \in Seq(ToWrapper)
  BY SeqConcat DEF TypeOK
<1>2. CASE NoRecovery(sent)
  BY <1>1, <1>2 DEF NoRecovery, TypeOK, store
<1>3. ASSUME NEW x \in Execs, Reconstructs(x, frozen), Reconstruct(x),
             outbox' = outbox \o sent, UNCHANGED <<quota, home>>
      PROVE  /\ exec' \in [Execs -> Rows] /\ last' \in 0..MaxExecs
             /\ pause' \in [Execs -> {"none", "pending", "resumed"}]
             /\ handing' \in Execs \cup {None}
             /\ home' \in [Execs -> Nat] /\ outbox' \in Seq(ToWrapper)
             /\ UNCHANGED quota
  <2>1. last < MaxExecs
    BY <1>3 DEF Reconstructs
  <2> QED BY <1>1, <1>3, <2>1, ReconstructType DEF TypeOK
<1>4. ASSUME NEW x \in Execs,
             home' = [y \in Execs |-> IF y \in At(home[x]) THEN inst ELSE home[y]],
             NEW again \in Batch("idempotent", At(inst) \cup At(home[x])),
             outbox' = outbox \o sent \o again,
             UNCHANGED <<store, pause, handing>>
      PROVE  /\ exec' \in [Execs -> Rows] /\ last' \in 0..MaxExecs
             /\ pause' \in [Execs -> {"none", "pending", "resumed"}]
             /\ handing' \in Execs \cup {None}
             /\ home' \in [Execs -> Nat] /\ outbox' \in Seq(ToWrapper)
             /\ UNCHANGED quota
  <2>1. At(inst) \cup At(home[x]) \subseteq Execs
    BY DEF At, Dispatching
  <2>2. again \in Seq({f \in ToWrapper : f.x \in At(inst) \cup At(home[x])})
    BY <2>1, BatchType DEF TypeOK
  <2>3. again \in Seq(ToWrapper)
    BY <2>2, SeqGrow
  <2>4. outbox' \in Seq(ToWrapper)
    BY <1>1, <1>4, <2>3, SeqConcat
  <2> QED BY <1>4, <2>4 DEF TypeOK, store
<1>5. ASSUME NEW x \in Execs, outbox' = outbox \o sent,
             TransitionIfCurrent(x, exec[x].state, exec[x].rev, "unreachable"),
             UNCHANGED <<last, quota, pause, handing, home>>
      PROVE  /\ exec' \in [Execs -> Rows] /\ last' \in 0..MaxExecs
             /\ pause' \in [Execs -> {"none", "pending", "resumed"}]
             /\ handing' \in Execs \cup {None}
             /\ home' \in [Execs -> Nat] /\ outbox' \in Seq(ToWrapper)
             /\ UNCHANGED quota
  <2>1. exec' \in [Execs -> Rows]
    BY <1>5, TransitionType DEF TypeOK, Terminal
  <2> QED BY <1>1, <1>5, <2>1 DEF TypeOK
<1> QED BY <1>2, <1>3, <1>4, <1>5 DEF Recover

(* The frames the wrapper writes for a turn.                               *)
LEMMA FrameTypes ==
  ASSUME TypeOK
  PROVE  /\ \A b \in BOOLEAN : TurnFrame(b) \in Seq(ToDaemon)
         /\ \A s \in Subs, to \in Active \cup Terminal :
              /\ StateFrames(s, to) \in Seq(ToDaemon)
              /\ Published(s, to) => bind' \in [Subs -> Bindings]
<1>1. ASSUME NEW b \in BOOLEAN PROVE TurnFrame(b) \in Seq(ToDaemon)
  <2>1. [kind |-> "turn", busy |-> b] \in ToDaemon
    BY DEF ToDaemon
  <2> QED BY <2>1, SeqShort DEF TurnFrame
<1>2. ASSUME NEW s \in Subs, NEW to \in Active \cup Terminal
      PROVE  StateFrames(s, to) \in Seq(ToDaemon)
  <2>1. CASE ~Publishes(s, to)
    BY <2>1 DEF StateFrames
  <2>2. CASE Publishes(s, to)
    <3>1. bind[s] \in Bindings /\ bind[s].x # None
      BY <2>2 DEF TypeOK, Publishes, Bound
    <3>2. bind[s].x \in Execs /\ bind[s].rev \in Nat /\ bind[s].state \in Active
      BY <3>1 DEF Bindings, NoBinding
    <3>3. [kind |-> "state", x |-> bind[s].x, from |-> bind[s].state,
           rev |-> bind[s].rev, to |-> to] \in ToDaemon
      BY <3>2 DEF ToDaemon
    <3> QED BY <2>2, <3>3, SeqShort DEF StateFrames
  <2> QED BY <2>1, <2>2
<1>3. ASSUME NEW s \in Subs, NEW to \in Active \cup Terminal, Published(s, to)
      PROVE  bind' \in [Subs -> Bindings]
  <2>1. CASE ~Publishes(s, to)
    BY <1>3, <2>1 DEF Published, TypeOK
  <2>2. CASE Publishes(s, to)
    <3>1. bind[s] \in Bindings /\ bind[s].x # None
      BY <2>2 DEF TypeOK, Publishes, Bound
    <3>2. bind[s].x \in Execs /\ bind[s].rev \in Nat
      BY <3>1 DEF Bindings, NoBinding
    <3>3. to \notin Terminal =>
            [x |-> bind[s].x, state |-> to, rev |-> bind[s].rev + 1] \in Bindings
      BY <3>2 DEF Bindings
    <3> QED BY <1>3, <2>2, <3>3 DEF Published, TypeOK, Bindings
  <2> QED BY <2>1, <2>2
<1> QED BY <1>1, <1>2, <1>3

(* Admission, hand-over and the failed writes keep the types.              *)
LEMMA TypeAdmission ==
  ASSUME TypeOK,
         \/ \E s \in Subs, keyed \in BOOLEAN : Admit(s, keyed)
         \/ \E x \in Execs : Resubmit(x) \/ PushFails(x)
         \/ HandOver \/ Push
  PROVE  TypeOK'
<1> USE ExecutionConstants DEF TypeOK, store, delivery, control, handler, sockets, wrapper,
        provider, history
<1>1. ASSUME NEW s \in Subs, NEW keyed \in BOOLEAN, Admit(s, keyed) PROVE TypeOK'
  <2>1. last + 1 \in Execs /\ last' \in 0..MaxExecs
    BY <1>1 DEF Admit, Execs
  <2>2. [state |-> "starting", gen |-> 1, rev |-> 0, sub |-> s, keyed |-> keyed,
         parent |-> None] \in Rows
    BY DEF Rows, Active
  <2>3. exec' \in [Execs -> Rows]
    BY <1>1, <2>1, <2>2 DEF Admit
  <2> QED BY <1>1, <2>1, <2>3 DEF Admit
<1>2. ASSUME NEW x \in Execs, Resubmit(x) PROVE TypeOK'
  BY <1>2 DEF Resubmit
<1>3. ASSUME NEW x \in Execs, PushFails(x) PROVE TypeOK'
  <2>1. exec' \in [Execs -> Rows]
    BY <1>3, TransitionType DEF PushFails, Terminal
  <2> QED BY <1>3, <2>1 DEF PushFails
<1>4. ASSUME HandOver PROVE TypeOK'
  <2>1. handing \in Execs
    BY <1>4 DEF HandOver
  <2>2. \A kind \in {"plain", "idempotent"} : Frame(kind, handing) \in ToWrapper
    BY <2>1 DEF Frame, ToWrapper, Rows
  <2>3. outbox' \in Seq(ToWrapper)
    BY <1>4, <2>2, SeqAppend DEF HandOver
  <2>4. dlv' \in [Execs -> {"none", "dispatching", "acked", "indeterminate"}]
    BY <1>4, <2>1 DEF HandOver
  <2>5. home' \in [Execs -> Nat]
    BY <1>4, <2>1 DEF HandOver
  <2>6. failing' \subseteq Execs
    BY <1>4, <2>1 DEF HandOver
  <2> QED BY <1>4, <2>3, <2>4, <2>5, <2>6 DEF HandOver
<1>5. ASSUME Push PROVE TypeOK'
  <2>1. Head(outbox) \in ToWrapper /\ Tail(outbox) \in Seq(ToWrapper)
    BY <1>5, SeqTake DEF Push
  <2>2. toWrapper' \in Seq(ToWrapper)
    BY <1>5, <2>1, SeqAppend DEF Push
  <2> QED BY <1>5, <2>1, <2>2 DEF Push
<1> QED BY <1>1, <1>2, <1>3, <1>4, <1>5

(* The handlers of the wrapper's frames keep the types.                    *)
LEMMA TypeHandlers ==
  ASSUME TypeOK,
         \/ SampleBusy \/ Register \/ HandleTransition \/ HandleTurnState
         \/ HandleReceipt \/ HandleReport
  PROVE  TypeOK'
<1> USE ExecutionConstants DEF TypeOK, store, delivery, control, handler, sockets, wrapper,
        provider, history
<1>1. ASSUME SampleBusy PROVE TypeOK'
  BY <1>1 DEF SampleBusy
<1>2. ASSUME Register PROVE TypeOK'
  <2>1. PICK sent \in Batch("idempotent", At(inst)) :
          Recover(sent, paused) \/ NoRecovery(sent)
    BY <1>2 DEF Register
  <2>2. At(inst) \subseteq Execs
    BY DEF At, Dispatching
  <2>3. sent \in Seq(ToWrapper)
    <3>1. sent \in Seq({f \in ToWrapper : f.x \in At(inst)})
      BY <2>2, BatchType
    <3> QED BY <3>1, SeqGrow
  <2>4. /\ exec' \in [Execs -> Rows] /\ last' \in 0..MaxExecs
        /\ pause' \in [Execs -> {"none", "pending", "resumed"}]
        /\ handing' \in Execs \cup {None}
        /\ home' \in [Execs -> Nat] /\ outbox' \in Seq(ToWrapper)
        /\ UNCHANGED quota
    BY <2>1, <2>3, RecoverType
  <2>5. toDaemon' \in Seq(ToDaemon)
    <3>1. [kind |-> "turn", busy |-> sample] \in ToDaemon
      BY DEF ToDaemon
    <3> QED BY <1>2, <3>1, SeqShort DEF Register
  <2> QED BY <1>2, <2>4, <2>5 DEF Register
<1>3. ASSUME NEW kind, Incoming(kind), Consumed
      PROVE  Head(toDaemon) \in ToDaemon /\ toDaemon' \in Seq(ToDaemon)
  BY <1>3, SeqTake DEF Incoming, Consumed
<1>4. ASSUME HandleTransition PROVE TypeOK'
  <2>1. Head(toDaemon) \in ToDaemon /\ toDaemon' \in Seq(ToDaemon)
        /\ Head(toDaemon).kind = "state"
    BY <1>3, <1>4 DEF HandleTransition, Incoming
  <2>2. Head(toDaemon).x \in Execs /\ Head(toDaemon).to \in Active \cup Terminal
    BY <2>1 DEF ToDaemon
  <2>3. exec' \in [Execs -> Rows]
    BY <1>4, <2>2, TransitionType DEF HandleTransition
  <2> QED BY SMTT(30), <1>4, <2>1, <2>3 DEF HandleTransition, Consumed
<1>5. ASSUME HandleTurnState PROVE TypeOK'
  <2>1. Head(toDaemon) \in ToDaemon /\ toDaemon' \in Seq(ToDaemon)
        /\ Head(toDaemon).kind = "turn"
    BY <1>3, <1>5 DEF HandleTurnState, Incoming
  <2>2. Head(toDaemon).busy \in BOOLEAN
    BY <2>1 DEF ToDaemon
  <2>3. Recover(<<>>, paused) \/ NoRecovery(<<>>)
    BY <1>5 DEF HandleTurnState, Resume
  <2>4. /\ exec' \in [Execs -> Rows] /\ last' \in 0..MaxExecs
        /\ pause' \in [Execs -> {"none", "pending", "resumed"}]
        /\ handing' \in Execs \cup {None}
        /\ home' \in [Execs -> Nat] /\ outbox' \in Seq(ToWrapper)
        /\ UNCHANGED quota
    <3>1. <<>> \in Seq(ToWrapper)
      OBVIOUS
    <3> QED BY <2>3, <3>1, RecoverType
  <2> QED BY <1>5, <2>1, <2>2, <2>4 DEF HandleTurnState, Consumed
<1>6. ASSUME HandleReceipt PROVE TypeOK'
  <2>1. Head(toDaemon) \in ToDaemon /\ toDaemon' \in Seq(ToDaemon)
        /\ Head(toDaemon).kind \in {"acked", "indeterminate"}
    BY <1>3, <1>6 DEF HandleReceipt, Incoming
  <2>2. dlv' \in [Execs -> {"none", "dispatching", "acked", "indeterminate"}]
    BY <1>6, <2>1 DEF HandleReceipt
  <2> QED BY SMTT(30), <1>6, <2>1, <2>2 DEF HandleReceipt, Consumed
<1>7. ASSUME HandleReport PROVE TypeOK'
  <2>1. toDaemon' \in Seq(ToDaemon)
    BY <1>3, <1>7 DEF HandleReport
  <2>2. cmd' \in [Execs -> {"none", "dispatched", "accepted", "refused"}]
    BY <1>7 DEF HandleReport
  <2> QED BY SMTT(30), <1>7, <2>1, <2>2 DEF HandleReport, Consumed
<1> QED BY <1>1, <1>2, <1>4, <1>5, <1>6, <1>7

(* The controls of the referent keep the types.                            *)
LEMMA TypeControls ==
  ASSUME TypeOK, (\E x \in Execs : Interrupt(x)) \/ Pause \/ Unpause
  PROVE  TypeOK'
<1> USE ExecutionConstants DEF TypeOK, store, delivery, control, handler, sockets, wrapper,
        provider, history
<1>1. ASSUME NEW S, S \subseteq Execs, Dispatch(S)
      PROVE  /\ cmd' \in [Execs -> {"none", "dispatched", "accepted", "refused"}]
             /\ toWrapper' \in Seq(ToWrapper)
  <2>1. PICK fs \in Batch("interrupt", S) :
          toWrapper' = IF link = "up" THEN toWrapper \o fs ELSE toWrapper
    BY <1>1 DEF Dispatch
  <2>2. fs \in Seq({f \in ToWrapper : f.x \in S})
    BY <1>1, BatchType
  <2>3. fs \in Seq(ToWrapper)
    BY <2>2, SeqGrow
  <2>4. toWrapper \o fs \in Seq(ToWrapper)
    BY <2>3, SeqConcat
  <2> QED BY <1>1, <2>1, <2>4 DEF Dispatch
<1>2. ASSUME NEW x \in Execs, Interrupt(x) PROVE TypeOK'
  <2>1. Dispatch({x}) /\ {x} \subseteq Execs
    BY <1>2 DEF Interrupt
  <2>2. /\ cmd' \in [Execs -> {"none", "dispatched", "accepted", "refused"}]
        /\ toWrapper' \in Seq(ToWrapper)
    BY <1>1, <2>1
  <2> QED BY <1>2, <2>2 DEF Interrupt
<1>3. ASSUME Pause PROVE TypeOK'
  <2>1. PICK S \in SUBSET Execs :
          /\ pause' = [x \in Execs |-> IF x \in S /\ pause[x] = "none" THEN "pending"
                                       ELSE pause[x]]
          /\ Dispatch(S)
    BY <1>3 DEF Pause
  <2>2. /\ cmd' \in [Execs -> {"none", "dispatched", "accepted", "refused"}]
        /\ toWrapper' \in Seq(ToWrapper)
    BY <1>1, <2>1
  <2>3. pause' \in [Execs -> {"none", "pending", "resumed"}]
    BY <2>1
  <2> QED BY <1>3, <2>2, <2>3 DEF Pause
<1>4. ASSUME Unpause PROVE TypeOK'
  <2>1. Recover(<<>>, FALSE) \/ NoRecovery(<<>>)
    BY <1>4 DEF Unpause, Resume
  <2>2. /\ exec' \in [Execs -> Rows] /\ last' \in 0..MaxExecs
        /\ pause' \in [Execs -> {"none", "pending", "resumed"}]
        /\ handing' \in Execs \cup {None}
        /\ home' \in [Execs -> Nat] /\ outbox' \in Seq(ToWrapper)
        /\ UNCHANGED quota
    <3>1. <<>> \in Seq(ToWrapper)
      OBVIOUS
    <3> QED BY <2>1, <3>1, RecoverType
  <2> QED BY <1>4, <2>2 DEF Unpause
<1> QED BY <1>2, <1>3, <1>4

(* What the wrapper reads keeps the types.                                 *)
LEMMA TypeReads ==
  ASSUME TypeOK, ReadPlain \/ ReadIdempotent \/ InjectionFails \/ ReadInterrupt
  PROVE  TypeOK'
<1> USE ExecutionConstants DEF TypeOK, store, delivery, control, handler, sockets, wrapper,
        provider, history
<1> DEFINE f == Head(toWrapper)
<1>1. ASSUME NEW kind, Reads(kind)
      PROVE  f \in ToWrapper /\ toWrapper' \in Seq(ToWrapper) /\ f.kind = kind
  BY <1>1, SeqTake DEF Reads
<1>2. ASSUME f \in ToWrapper
      PROVE  /\ f.x \in Execs /\ f.rev \in Nat
             /\ Sub(f.x) \in Subs \cup {None}
             /\ Binding(f) \in Bindings
  BY <1>2 DEF ToWrapper, Rows, Sub, Binding, Bindings, Active
<1>3. ASSUME f \in ToWrapper
      PROVE  /\ [bind EXCEPT ![Sub(f.x)] = Binding(f)] \in [Subs -> Bindings]
             /\ [bind EXCEPT ![Sub(f.x)] = NoBinding] \in [Subs -> Bindings]
             /\ Rebound(f) \in [Subs -> Bindings]
  <2>1. Binding(f) \in Bindings /\ NoBinding \in Bindings
    BY <1>2, <1>3 DEF Bindings
  <2> QED BY <2>1 DEF Rebound
<1>4. ASSUME NEW fs \in Seq(ToDaemon), Written(fs) PROVE toDaemon' \in Seq(ToDaemon)
  BY <1>4, SeqConcat DEF Written
<1>5. ASSUME ReadPlain PROVE TypeOK'
  <2>1. f \in ToWrapper /\ toWrapper' \in Seq(ToWrapper)
    BY <1>1, <1>5 DEF ReadPlain
  <2>2. queue' \in Seq(Execs)
    BY <1>2, <1>5, <2>1, SeqAppend DEF ReadPlain
  <2>3. bind' \in [Subs -> Bindings]
    BY <1>3, <1>5, <2>1 DEF ReadPlain
  <2> QED BY <1>5, <2>1, <2>2, <2>3 DEF ReadPlain, Reads
<1>6. ASSUME ReadIdempotent PROVE TypeOK'
  <2>1. f \in ToWrapper /\ toWrapper' \in Seq(ToWrapper)
    BY <1>1, <1>6 DEF ReadIdempotent
  <2>2. bind' \in [Subs -> Bindings]
    BY <1>3, <1>6, <2>1 DEF ReadIdempotent
  <2>3. /\ queue' \in Seq(Execs) /\ receipt' \in [Execs -> {"none", "seen", "acked"}]
        /\ pend' \in [Subs -> Seq(Execs)]
    <3>1. f.x \in Execs
      BY <1>2, <2>1
    <3>2. Append(queue, f.x) \in Seq(Execs)
      BY <3>1, SeqAppend
    <3>3. \A s \in Subs : Append(pend[s], f.x) \in Seq(Execs)
      BY <3>1, SeqAppend
    <3>4. [pend EXCEPT ![Sub(f.x)] = Append(@, f.x)] \in [Subs -> Seq(Execs)]
      BY <3>3
    <3>5. [receipt EXCEPT ![f.x] = "seen"] \in [Execs -> {"none", "seen", "acked"}]
      OBVIOUS
    <3> QED BY <1>6, <3>2, <3>4, <3>5 DEF ReadIdempotent
  <2>4. toDaemon' \in Seq(ToDaemon)
    <3>1. [kind |-> Answer(f.x), x |-> f.x] \in ToDaemon
      BY <1>2, <2>1 DEF Answer, ToDaemon
    <3>2. <<[kind |-> Answer(f.x), x |-> f.x]>> \in Seq(ToDaemon)
      BY <3>1, SeqShort
    <3> QED BY <1>4, <1>6, <3>2 DEF ReadIdempotent
  <2> QED BY <1>6, <2>1, <2>2, <2>3, <2>4 DEF ReadIdempotent, Reads
<1>7. ASSUME InjectionFails PROVE TypeOK'
  <2>1. f \in ToWrapper /\ toWrapper' \in Seq(ToWrapper) /\ f.x \in Execs
        /\ f.rev \in Nat
    BY <1>1, <1>2, <1>7 DEF InjectionFails
  <2>2. bind' \in [Subs -> Bindings]
    BY <1>3, <1>7, <2>1 DEF InjectionFails
  <2>3. toDaemon' \in Seq(ToDaemon)
    <3>1. <<[kind |-> "indeterminate", x |-> f.x]>> \in Seq(ToDaemon)
      <4>1. [kind |-> "indeterminate", x |-> f.x] \in ToDaemon
        BY <2>1 DEF ToDaemon
      <4> QED BY <4>1, SeqShort
    <3>2. <<[kind |-> "state", x |-> f.x, from |-> "starting", rev |-> f.rev,
             to |-> "failed"]>> \in Seq(ToDaemon)
      <4>1. [kind |-> "state", x |-> f.x, from |-> "starting", rev |-> f.rev,
             to |-> "failed"] \in ToDaemon
        BY <2>1 DEF ToDaemon, Active, Terminal
      <4> QED BY <4>1, SeqShort
    <3> QED BY <1>4, <1>7, <3>1, <3>2 DEF InjectionFails
  <2>4. /\ receipt' \in [Execs -> {"none", "seen", "acked"}]
        /\ shaken' \subseteq Execs /\ faults' \in 0..MaxFaults
    <3>1. receipt' \in [Execs -> {"none", "seen", "acked"}]
      BY <1>7, <2>1 DEF InjectionFails
    <3>2. shaken' \subseteq Execs
      BY <1>7, <2>1 DEF InjectionFails
    <3>3. faults' \in 0..MaxFaults
      BY <1>7 DEF InjectionFails
    <3> QED BY <3>1, <3>2, <3>3
  <2> QED BY <1>7, <2>1, <2>2, <2>3, <2>4 DEF InjectionFails, Reads
<1>8. ASSUME ReadInterrupt PROVE TypeOK'
  <2>1. f \in ToWrapper /\ toWrapper' \in Seq(ToWrapper) /\ f.x \in Execs
    BY <1>1, <1>2, <1>8 DEF ReadInterrupt
  <2>2. \A b \in BOOLEAN : <<[kind |-> "report", x |-> f.x, accepted |-> b]>> \in Seq(ToDaemon)
    <3>1. \A b \in BOOLEAN : [kind |-> "report", x |-> f.x, accepted |-> b] \in ToDaemon
      BY <2>1 DEF ToDaemon
    <3> QED BY <3>1, SeqShort
  <2>3. CASE ~Accepts(f)
    BY <1>4, <1>8, <2>1, <2>2, <2>3 DEF ReadInterrupt, Reads
  <2>4. CASE Accepts(f)
    <3>1. Sub(f.x) \in Subs
      BY <2>4 DEF Accepts, Bound
    <3>2. "interrupting" \in Active \cup Terminal
      BY DEF Active
    <3>3. StateFrames(Sub(f.x), "interrupting")
            \o <<[kind |-> "report", x |-> f.x, accepted |-> TRUE]>> \in Seq(ToDaemon)
      BY <2>2, <3>1, <3>2, FrameTypes, SeqConcat
    <3>4. toDaemon' \in Seq(ToDaemon)
      BY <1>4, <1>8, <2>4, <3>3 DEF ReadInterrupt
    <3>5. bind' \in [Subs -> Bindings]
      BY <1>8, <2>4, <3>1, <3>2, FrameTypes DEF ReadInterrupt
    <3>6. CASE active # None /\ Sub(active) = Sub(f.x)
      BY <1>8, <2>1, <2>4, <3>4, <3>5, <3>6 DEF ReadInterrupt, Reads
    <3>7. CASE ~(active # None /\ Sub(active) = Sub(f.x))
      <4>1. PICK i \in 1..Len(queue) :
              /\ queue' = SubSeq(queue, 1, i - 1) \o SubSeq(queue, i + 1, Len(queue))
              /\ events' = Append(events, [kind |-> "rejected", x |-> queue[i]])
        <5>1. Queued(Sub(f.x)) \subseteq 1..Len(queue)
          BY DEF Queued
        <5> QED BY <1>8, <2>4, <3>7, <5>1 DEF ReadInterrupt
      <4>2. queue' \in Seq(Execs)
        BY <4>1, SeqCut
      <4>3. [kind |-> "rejected", x |-> queue[i]] \in Events
        BY <4>1 DEF Events
      <4>4. events' \in Seq(Events)
        BY <4>1, <4>3, SeqAppend
      <4>5. UNCHANGED cancelled
        BY <1>8, <2>4, <3>7 DEF ReadInterrupt
      <4> QED BY <1>8, <2>1, <3>4, <3>5, <4>2, <4>4, <4>5 DEF ReadInterrupt, Reads
    <3> QED BY <3>6, <3>7
  <2> QED BY <2>3, <2>4
<1> QED BY <1>5, <1>6, <1>7, <1>8

(* The executions that exist; what an event of the provider may say of     *)
(* them.                                                                   *)
Created == {x \in Execs : Sub(x) \in Subs}
TrueEvents == {e \in Events : /\ e.x \in Created
                              /\ e.kind = "completed" => e.x \in done
                              /\ e.kind = "dispatched" => e.x \in prompted}

(* The events the wrapper forwards keep the types.                         *)
LEMMA TypeForwards ==
  ASSUME TypeOK, events \in Seq(TrueEvents),
         ForwardStarted \/ ForwardDispatched \/ ForwardFinished \/ ForwardRejected
  PROVE  TypeOK'
<1> USE ExecutionConstants DEF TypeOK, store, delivery, control, handler, sockets, wrapper,
        provider, history
<1> DEFINE e == Head(events)
           s == Sub(e.x)
<1>1. ASSUME NEW kinds, Forwards(kinds)
      PROVE  events' \in Seq(Events) /\ e.x \in Execs /\ s \in Subs /\ e.kind \in kinds
  <2>1. e \in TrueEvents /\ events' \in Seq(TrueEvents) /\ e.kind \in kinds
    BY <1>1, SeqTake DEF Forwards
  <2>2. events' \in Seq(Events)
    BY <2>1, SeqGrow DEF TrueEvents
  <2> QED BY <2>1, <2>2 DEF TrueEvents, Created
<1>2. ASSUME NEW fs \in Seq(ToDaemon), Written(fs) PROVE toDaemon' \in Seq(ToDaemon)
  BY <1>2, SeqConcat DEF Written
<1>3. ASSUME NEW to \in Active \cup Terminal, s \in Subs
      PROVE  /\ StateFrames(s, to) \in Seq(ToDaemon)
             /\ Published(s, to) => bind' \in [Subs -> Bindings]
             /\ \A b \in BOOLEAN : TurnFrame(b) \o StateFrames(s, to) \in Seq(ToDaemon)
  BY <1>3, FrameTypes, SeqConcat
<1>4. ASSUME ForwardStarted PROVE TypeOK'
  <2>1. Forwards({"started"}) /\ "running" \in Active \cup Terminal
    BY <1>4 DEF ForwardStarted, Active
  <2>2. events' \in Seq(Events) /\ s \in Subs
    BY <1>1, <2>1
  <2>3. toDaemon' \in Seq(ToDaemon)
    BY <1>2, <1>3, <1>4, <2>1, <2>2 DEF ForwardStarted
  <2>4. bind' \in [Subs -> Bindings]
    BY <1>3, <1>4, <2>1, <2>2 DEF ForwardStarted
  <2> QED BY <1>4, <2>2, <2>3, <2>4 DEF ForwardStarted, Forwards
<1>5. ASSUME s \in Subs, pend[s] # <<>>
      PROVE  /\ [pend EXCEPT ![s] = Tail(@)] \in [Subs -> Seq(Execs)]
             /\ Head(pend[s]) \in Execs
             /\ \A kind \in {"acked", "indeterminate"} :
                  <<[kind |-> kind, x |-> Head(pend[s])]>> \in Seq(ToDaemon)
  <2>1. Head(pend[s]) \in Execs /\ Tail(pend[s]) \in Seq(Execs)
    BY <1>5, SeqTake
  <2>2. \A kind \in {"acked", "indeterminate"} :
          [kind |-> kind, x |-> Head(pend[s])] \in ToDaemon
    BY <2>1 DEF ToDaemon
  <2> QED BY <2>1, <2>2, SeqShort
<1>6. ASSUME ForwardDispatched PROVE TypeOK'
  <2>1. Forwards({"dispatched"})
    BY <1>6 DEF ForwardDispatched
  <2>2. events' \in Seq(Events) /\ s \in Subs
    BY <1>1, <2>1
  <2>3. CASE pend[s] = <<>>
    BY <1>6, <2>2, <2>3 DEF ForwardDispatched, Forwards
  <2>4. CASE pend[s] # <<>>
    <3>1. /\ pend' = [pend EXCEPT ![s] = Tail(@)]
          /\ receipt' = [receipt EXCEPT ![Head(pend[s])] = "acked"]
          /\ Written(<<[kind |-> "acked", x |-> Head(pend[s])]>>)
      BY <1>6, <2>4 DEF ForwardDispatched
    <3>2. receipt' \in [Execs -> {"none", "seen", "acked"}]
      BY <3>1
    <3>3. toDaemon' \in Seq(ToDaemon)
      BY <1>2, <1>5, <2>2, <2>4, <3>1
    <3>4. pend' \in [Subs -> Seq(Execs)]
      BY <1>5, <2>2, <2>4, <3>1
    <3> QED BY <1>6, <2>2, <3>2, <3>3, <3>4 DEF ForwardDispatched, Forwards
  <2> QED BY <2>3, <2>4
<1>7. ASSUME ForwardFinished PROVE TypeOK'
  <2>1. Forwards({"completed", "cancelled", "failed"})
    BY <1>7 DEF ForwardFinished
  <2>2. events' \in Seq(Events) /\ Outcome[e.kind] \in Active \cup Terminal /\ s \in Subs
    BY SMTT(30), <1>1, <2>1 DEF Outcome, Terminal
  <2>3. toDaemon' \in Seq(ToDaemon)
    BY <1>2, <1>3, <1>7, <2>2 DEF ForwardFinished
  <2>4. bind' \in [Subs -> Bindings]
    BY <1>3, <1>7, <2>2 DEF ForwardFinished
  <2> QED BY <1>7, <2>2, <2>3, <2>4 DEF ForwardFinished, Forwards
<1>8. ASSUME ForwardRejected PROVE TypeOK'
  <2>1. Forwards({"rejected"}) /\ "failed" \in Active \cup Terminal
    BY <1>8 DEF ForwardRejected, Terminal
  <2>2. events' \in Seq(Events) /\ s \in Subs
    BY <1>1, <2>1
  <2>3. CASE Ignored(s)
    BY SMTT(30), <1>8, <2>2, <2>3 DEF ForwardRejected, Forwards
  <2>4. CASE ~Ignored(s)
    <3> DEFINE lost == IF pend[s] = <<>> THEN <<>>
                       ELSE <<[kind |-> "indeterminate", x |-> Head(pend[s])]>>
    <3>1. /\ Written(TurnFrame(active # None) \o StateFrames(s, "failed") \o lost)
          /\ Published(s, "failed")
          /\ pend' = [pend EXCEPT ![s] = IF @ = <<>> THEN @ ELSE Tail(@)]
          /\ UNCHANGED receipt
      BY <1>8, <2>4 DEF ForwardRejected
    <3>2. lost \in Seq(ToDaemon)
      BY <1>5, <2>2
    <3>3. TurnFrame(active # None) \o StateFrames(s, "failed") \in Seq(ToDaemon)
      BY <1>3, <2>1, <2>2
    <3>4. toDaemon' \in Seq(ToDaemon)
      BY <1>2, <3>1, <3>2, <3>3, SeqConcat
    <3>5. pend' \in [Subs -> Seq(Execs)]
      <4>1. CASE pend[s] = <<>>
        BY <3>1, <4>1
      <4>2. CASE pend[s] # <<>>
        BY <1>5, <2>2, <3>1, <4>2
      <4> QED BY <4>1, <4>2
    <3>6. bind' \in [Subs -> Bindings]
      BY <1>3, <2>1, <2>2, <3>1
    <3> QED BY <1>8, <2>2, <3>1, <3>4, <3>5, <3>6 DEF ForwardRejected, Forwards
  <2> QED BY <2>3, <2>4
<1> QED BY <1>4, <1>6, <1>7, <1>8

(* The provider and the faults keep the types.                             *)
LEMMA TypeRest ==
  ASSUME TypeOK,
         \/ ProviderStarts \/ ProviderReports \/ Disconnect \/ Notice \/ DaemonCrash
         \/ \E kind \in {"completed", "cancelled", "failed", "rejected"} : ProviderIdles(kind)
         \/ \E kept \in BOOLEAN : WrapperRestart(kept)
         \/ UNCHANGED vars
  PROVE  TypeOK'
<1> USE ExecutionConstants DEF TypeOK, store, delivery, control, handler, sockets, wrapper,
        provider, history
<1>1. ASSUME ProviderStarts PROVE TypeOK'
  <2>1. Head(queue) \in Execs /\ Tail(queue) \in Seq(Execs)
    BY <1>1, SeqTake DEF ProviderStarts
  <2>2. /\ [kind |-> "started", x |-> Head(queue)] \in Events
        /\ [kind |-> "dispatched", x |-> Head(queue)] \in Events
    BY <2>1 DEF Events
  <2>3. <<[kind |-> "started", x |-> Head(queue)],
          [kind |-> "dispatched", x |-> Head(queue)]>> \in Seq(Events)
    BY <2>2, SeqShort
  <2>4. events' \in Seq(Events)
    BY <1>1, <2>3, SeqConcat DEF ProviderStarts
  <2> QED BY <1>1, <2>1, <2>4 DEF ProviderStarts
<1>2. ASSUME ProviderReports PROVE TypeOK'
  <2>1. events' \in Seq(Events) /\ late' \in Seq(Events)
    BY <1>2, SeqConcat DEF ProviderReports
  <2> QED BY <1>2, <2>1 DEF ProviderReports
<1>3. ASSUME NEW kind \in {"completed", "cancelled", "failed", "rejected"}, ProviderIdles(kind)
      PROVE  TypeOK'
  <2>1. active \in Execs
    BY <1>3 DEF ProviderIdles
  <2>2. [kind |-> kind, x |-> active] \in Events
    BY <1>3, <2>1 DEF Events
  <2>3. late' \in Seq(Events)
    BY <1>3, <2>2, SeqShort DEF ProviderIdles
  <2>4. done' \subseteq Execs
    BY <1>3, <2>1 DEF ProviderIdles
  <2> QED BY <1>3, <2>3, <2>4 DEF ProviderIdles
<1>4. ASSUME Fault PROVE shaken' \subseteq Execs /\ faults' \in 0..MaxFaults
  <2>1. shaken' \subseteq Execs
    BY <1>4 DEF Fault
  <2>2. faults' \in 0..MaxFaults
    BY <1>4 DEF Fault
  <2> QED BY <2>1, <2>2
<1>5. Unsent \subseteq Execs
  <2>1. \A i \in DOMAIN outbox : outbox[i] \in ToWrapper
    BY ElementOfSeq
  <2> QED BY SMTT(30), <2>1 DEF Unsent, ToWrapper
<1>6. ASSUME Cut PROVE toWrapper' \in Seq(ToWrapper) /\ toDaemon' \in Seq(ToDaemon)
  BY <1>6 DEF Cut
<1>7. <<>> \in Seq(ToWrapper) /\ <<>> \in Seq(Execs) /\ <<>> \in Seq(Events)
  OBVIOUS
<1>8. ASSUME Disconnect PROVE TypeOK'
  BY <1>4, <1>5, <1>6, <1>7, <1>8 DEF Disconnect, Fault
<1>9. ASSUME Notice PROVE TypeOK'
  BY <1>9 DEF Notice
<1>10. ASSUME DaemonCrash PROVE TypeOK'
  BY <1>4, <1>6, <1>7, <1>10 DEF DaemonCrash, Fault
<1>11. ASSUME NEW kept \in BOOLEAN, WrapperRestart(kept) PROVE TypeOK'
  <2>1. bind' \in [Subs -> Bindings]
    BY <1>11 DEF WrapperRestart, Bindings
  <2>2. pend' \in [Subs -> Seq(Execs)]
    BY <1>7, <1>11 DEF WrapperRestart
  <2>3. receipt' \in [Execs -> {"none", "seen", "acked"}] /\ inst' \in Nat
    BY <1>11 DEF WrapperRestart
  <2> QED BY <1>4, <1>5, <1>6, <1>7, <1>11, <2>1, <2>2, <2>3 DEF WrapperRestart, Fault
<1>12. ASSUME UNCHANGED vars PROVE TypeOK'
  BY <1>12 DEF vars
<1> QED BY <1>1, <1>2, <1>3, <1>8, <1>9, <1>10, <1>11, <1>12

(* The relaunch of a mission and a failed hand-over touch neither the      *)
(* sockets, nor the wrapper, nor the provider.                             *)
LEMMA QuotaKeeps ==
  ASSUME QuotaStep \/ HandOverFails
  PROVE  UNCHANGED <<control, busy, outbox, failing, sockets, wrapper, provider, history>>
  BY DEF QuotaStep, Qualify, Ticks, ClaimsQuota, ReconstructQuotaFailed, RedeliversQuota,
         SettlesQuota, FailsQuota, HandOverFails, handler

(* They keep the types.                                                    *)
LEMMA TypeQuota ==
  ASSUME TypeOK, QuotaStep \/ HandOverFails
  PROVE  TypeOK'
<1> USE ExecutionConstants DEF TypeOK, store, delivery, handler
<1>1. UNCHANGED <<control, busy, outbox, failing, sockets, wrapper, provider, history>>
  BY QuotaKeeps
<1>2. ASSUME exec' \in [Execs -> Rows], last' \in 0..MaxExecs, handing' \in Execs \cup {None},
             quota' \in [Execs -> {"none", "waiting", "relaunching", "resumed", "done", "failed"}],
             dlv' \in [Execs -> {"none", "dispatching", "acked", "indeterminate"}],
             home' \in [Execs -> Nat], faults' \in 0..MaxFaults
      PROVE  TypeOK'
  BY <1>1, <1>2 DEF control, sockets, wrapper, provider, history
<1>3. ASSUME NEW x \in Execs, Qualify(x) \/ ClaimsQuota(x) \/ SettlesQuota(x) PROVE TypeOK'
  <2>1. UNCHANGED <<exec, last, handing, dlv, home, faults>>
    BY <1>3 DEF Qualify, ClaimsQuota, SettlesQuota, Ticks
  <2>2. quota' \in [Execs -> {"none", "waiting", "relaunching", "resumed", "done", "failed"}]
    <3>1. \E to \in {"waiting", "relaunching", "done"} : quota' = [quota EXCEPT ![x] = to]
      BY Zenon, <1>3 DEF Qualify, ClaimsQuota, SettlesQuota
    <3> QED BY <3>1
  <2> QED BY <1>2, <2>1, <2>2
<1>4. ASSUME NEW x \in Execs, ReconstructQuotaFailed(x) PROVE TypeOK'
  <2>1. last + 1 \in Execs /\ last' \in 0..MaxExecs /\ handing' \in Execs
    BY <1>4 DEF ReconstructQuotaFailed, Execs
  <2>2. ChildOf(x) \in Rows
    <3>1. exec[x] \in Rows
      OBVIOUS
    <3> QED BY SMTT(30), <3>1 DEF ChildOf, Rows, Sub, Active
  <2>3. exec' \in [Execs -> Rows]
    BY <1>4, <2>1, <2>2 DEF ReconstructQuotaFailed
  <2>4. quota' \in [Execs -> {"none", "waiting", "relaunching", "resumed", "done", "failed"}]
    BY <1>4 DEF ReconstructQuotaFailed
  <2>5. UNCHANGED <<dlv, home, faults>>
    BY <1>4 DEF ReconstructQuotaFailed, Ticks
  <2> QED BY <1>2, <2>1, <2>3, <2>4, <2>5
<1>5. ASSUME NEW x \in Execs, RedeliversQuota(x) PROVE TypeOK'
  <2>1. UNCHANGED <<exec, last, quota, dlv, home, faults>>
    BY <1>5 DEF RedeliversQuota, Ticks
  <2>2. handing' \in Execs
    BY <1>5 DEF RedeliversQuota, Children
  <2> QED BY <1>2, <2>1, <2>2
<1>6. ASSUME NEW x \in Execs, FailsQuota(x) PROVE TypeOK'
  <2>1. UNCHANGED <<last, handing, home, faults>>
    BY <1>6 DEF FailsQuota
  <2>2. exec' \in [Execs -> Rows]
    <3>1. "unreachable" \in Active \cup Terminal
      BY DEF Terminal
    <3> QED BY <1>6, <3>1, TransitionType DEF FailsQuota
  <2>3. quota' \in [Execs -> {"none", "waiting", "relaunching", "resumed", "done", "failed"}]
    BY <1>6 DEF FailsQuota
  <2>4. dlv' \in [Execs -> {"none", "dispatching", "acked", "indeterminate"}]
    BY <1>6 DEF FailsQuota
  <2> QED BY <1>2, <2>1, <2>2, <2>3, <2>4
<1>7. ASSUME HandOverFails PROVE TypeOK'
  <2>1. UNCHANGED <<exec, last, quota>> /\ handing \in Execs /\ handing' = None
    BY <1>7 DEF HandOverFails
  <2>2. faults' \in 0..MaxFaults
    BY <1>7 DEF HandOverFails
  <2>3. dlv' \in [Execs -> {"none", "dispatching", "acked", "indeterminate"}]
    <3>1. UNCHANGED dlv \/ \E to \in {"dispatching", "indeterminate"} :
                              dlv' = [dlv EXCEPT ![handing] = to]
      BY Zenon, <1>7 DEF HandOverFails
    <3> QED BY <2>1, <3>1
  <2>4. home' \in [Execs -> Nat]
    <3>1. UNCHANGED home \/ home' = [home EXCEPT ![handing] = inst]
      BY Zenon, <1>7 DEF HandOverFails
    <3> QED BY <2>1, <3>1
  <2> QED BY <1>2, <2>1, <2>2, <2>3, <2>4
<1> QED BY <1>3, <1>4, <1>5, <1>6, <1>7 DEF QuotaStep

(* No other step changes the wait of a mission, and a relaunch is not      *)
(* forgotten.                                                              *)
LEMMA QuotaLasts ==
  ASSUME TypeOK, [Next]_vars
  PROVE  /\ UNCHANGED quota \/ QuotaStep
         /\ \A x \in Execs : quota[x] \in Relaunched => quota'[x] \in Relaunched
<1>1. UNCHANGED quota \/ QuotaStep
  <2>1. ASSUME NEW sent, NEW frozen, Recover(sent, frozen) \/ NoRecovery(sent)
        PROVE  UNCHANGED quota
    BY <2>1 DEF Recover, NoRecovery, store
  <2>2. ASSUME Register \/ HandleTurnState \/ Unpause PROVE UNCHANGED quota
    BY <2>1, <2>2 DEF Register, HandleTurnState, Unpause, Resume
  <2> QED BY <2>2
        DEF Next, DaemonStep, WrapperStep, ProviderStep, ClientStep, FaultStep, vars, store,
            Admit, Resubmit, HandOver, HandOverFails, Push, PushFails, SampleBusy,
            HandleTransition, HandleReceipt, HandleReport, Interrupt,
            Pause, ReadPlain, ReadIdempotent, InjectionFails, ReadInterrupt, ForwardStarted,
            ForwardDispatched, ForwardFinished, ForwardRejected, Forwards, ProviderStarts,
            ProviderIdles, ProviderReports, Disconnect, Notice, DaemonCrash, WrapperRestart
<1>2. ASSUME NEW x \in Execs,
             \/ Qualify(x) \/ ClaimsQuota(x) \/ ReconstructQuotaFailed(x)
             \/ RedeliversQuota(x) \/ SettlesQuota(x) \/ FailsQuota(x)
      PROVE  \A y \in Execs : quota[y] \in Relaunched => quota'[y] \in Relaunched
  <2>1. \/ UNCHANGED quota
        \/ quota[x] \notin Relaunched /\ \E to : quota' = [quota EXCEPT ![x] = to]
        \/ \E to \in {"resumed", "done", "failed"} : quota' = [quota EXCEPT ![x] = to]
    BY <1>2 DEF Qualify, ClaimsQuota, ReconstructQuotaFailed, RedeliversQuota, SettlesQuota,
                FailsQuota, Ticks, Relaunched, store
  <2> QED BY <2>1 DEF Relaunched, TypeOK
<1> QED BY <1>1, <1>2 DEF QuotaStep, Relaunched

-----------------------------------------------------------------------------
(* How the rows of executions change.                                      *)

(* A reconstruction, as the three callers of the recovery make it: on a    *)
(* connection that is up, only for what a pause interrupted.               *)
Rebuilt(x) == /\ Candidates = {x} /\ Closable(x) /\ last < MaxExecs /\ Reconstruct(x)
              /\ link = "up" => x \in Pending
              /\ link \in {"up", "registering"} /\ link' = "up"
              /\ UNCHANGED <<quota, done, prompted, shaken>>

(* A compare-and-set on a row: of a failed write, of a wrapper's frame, of *)
(* a recovery without the message or of a relaunch that failed.            *)
Shifted(x) ==
  \E from \in Active, rev \in Nat, to \in Active \cup Terminal :
    /\ TransitionIfCurrent(x, from, rev, to)
    /\ to = "completed" =>
         \E f \in ToDaemon : /\ toDaemon # <<>> /\ f = Head(toDaemon) /\ f.x = x
                              /\ f.kind = "state" /\ f.to = "completed"
    /\ UNCHANGED <<last, pause, handing, done, prompted, shaken>>
    /\ link' \in {link, "up"}

(* A recovery reconstructs one execution, closes it or leaves the rows     *)
(* alone.                                                                  *)
Closes(x) == /\ Live(x) /\ TransitionIfCurrent(x, exec[x].state, exec[x].rev, "unreachable")
             /\ UNCHANGED <<last, quota, pause, handing>>

LEMMA RecoverCases ==
  ASSUME NEW sent, NEW frozen, Recover(sent, frozen)
  PROVE  \/ \E x \in Execs : /\ Candidates = {x} /\ Closable(x) /\ last < MaxExecs
                              /\ Reconstruct(x) /\ UNCHANGED quota
         \/ \E x \in Execs : Closes(x)
         \/ UNCHANGED <<exec, last, pause, handing>>
  BY DEF Recover, Reconstructs, Governed, NoRecovery, Closes, store

(* Such a closing is a compare-and-set.                                    *)
LEMMA ClosesShifts ==
  ASSUME TypeOK, NEW x \in Execs, Closes(x), link' \in {link, "up"},
         UNCHANGED <<done, prompted, shaken>>
  PROVE  Shifted(x)
<1>1. exec[x].state \in Active /\ exec[x].rev \in Nat
  BY DEF Closes, Live, TypeOK, Rows
<1>2. "unreachable" \in Active \cup Terminal
  BY DEF Terminal
<1> QED BY <1>1, <1>2 DEF Closes, Shifted

(* No step changes the rows of executions in another way.                  *)
LEMMA RowCases ==
  ASSUME TypeOK, [Next]_vars
  PROVE  \/ UNCHANGED <<exec, last>>
         \/ \E s \in Subs, keyed \in BOOLEAN : Admit(s, keyed)
         \/ \E x \in Execs : Rebuilt(x)
         \/ \E x \in Execs : ReconstructQuotaFailed(x)
         \/ \E x \in Execs : Shifted(x)
<1> USE DEF store
<1> DEFINE Goal == \/ UNCHANGED <<exec, last>> \/ \E x \in Execs : Rebuilt(x)
                   \/ \E x \in Execs : Shifted(x)
<1>1. ASSUME Register PROVE Goal
  <2>1. PICK sent : Recover(sent, paused) \/ NoRecovery(sent)
    BY <1>1 DEF Register
  <2>2. link = "registering" /\ link' = "up" /\ UNCHANGED <<done, prompted, shaken>>
    BY <1>1 DEF Register, history
  <2>3. CASE NoRecovery(sent)
    BY <2>3 DEF NoRecovery
  <2>4. CASE Recover(sent, paused)
    BY <2>2, <2>4, RecoverCases, ClosesShifts DEF Rebuilt
  <2> QED BY <2>1, <2>3, <2>4
<1>2. ASSUME NEW frozen, Resume(frozen), link = "up", UNCHANGED <<link, history>>
      PROVE  Goal
  <2>1. CASE Pending = {}
    BY <1>2, <2>1 DEF Resume, NoRecovery
  <2>2. CASE Pending # {}
    <3>1. Recover(<<>>, frozen)
      BY <1>2, <2>2 DEF Resume
    <3>2. ASSUME NEW x \in Execs, Candidates = {x} PROVE x \in Pending
      BY <2>2, <3>2 DEF Candidates
    <3> QED BY <1>2, <3>1, <3>2, RecoverCases, ClosesShifts DEF Rebuilt, history
  <2> QED BY <2>1, <2>2
<1>3. ASSUME HandleTurnState PROVE Goal
  <2>1. Resume(paused) \/ NoRecovery(<<>>)
    BY <1>3 DEF HandleTurnState
  <2>2. link = "up" /\ UNCHANGED <<link, history>>
    BY <1>3 DEF HandleTurnState, Incoming, Consumed
  <2> QED BY <1>2, <2>1, <2>2 DEF NoRecovery
<1>4. ASSUME Unpause PROVE Goal
  <2>1. (link = "up" /\ Resume(FALSE)) \/ NoRecovery(<<>>)
    BY <1>4 DEF Unpause
  <2>2. UNCHANGED <<link, history>>
    BY <1>4 DEF Unpause, sockets
  <2> QED BY <1>2, <2>1, <2>2 DEF NoRecovery
<1>5. ASSUME HandleTransition PROVE \E x \in Execs : Shifted(x)
  <2>1. Head(toDaemon) \in ToDaemon /\ Head(toDaemon).kind = "state" /\ toDaemon # <<>>
    BY <1>5, SeqTake DEF HandleTransition, Incoming, TypeOK
  <2>2. /\ Head(toDaemon).x \in Execs /\ Head(toDaemon).from \in Active
        /\ Head(toDaemon).rev \in Nat /\ Head(toDaemon).to \in Active \cup Terminal
    BY <2>1 DEF ToDaemon
  <2>3. UNCHANGED <<last, pause, handing, link, done, prompted, shaken>>
    BY <1>5 DEF HandleTransition, Consumed, control, handler, history
  <2> QED BY <1>5, <2>1, <2>2, <2>3 DEF HandleTransition, Shifted
<1>6. ASSUME NEW x \in Execs, PushFails(x) PROVE Shifted(x)
  <2>1. "starting" \in Active /\ "unreachable" \in Active \cup Terminal /\ 0 \in Nat
    BY DEF Active, Terminal
  <2> QED BY <1>6, <2>1 DEF PushFails, Shifted, control, sockets, history
<1>7. ASSUME NEW x \in Execs, FailsQuota(x) PROVE Goal
  <2>1. PICK y \in Execs :
          IF Live(y) THEN TransitionIfCurrent(y, exec[y].state, exec[y].rev, "unreachable")
                     ELSE UNCHANGED exec
    BY <1>7 DEF FailsQuota
  <2>2. UNCHANGED <<last, pause, handing, link, done, prompted, shaken>>
    BY <1>7 DEF FailsQuota, control, handler, sockets, history
  <2>3. CASE Live(y)
    <3>1. exec[y].state \in Active /\ exec[y].rev \in Nat
      BY <2>3 DEF Live, TypeOK, Rows
    <3>2. "unreachable" \in Active \cup Terminal
      BY DEF Terminal
    <3>3. Shifted(y)
      BY <2>1, <2>2, <2>3, <3>1, <3>2 DEF Shifted
    <3> QED BY <3>3
  <2> QED BY <2>1, <2>2, <2>3
<1>8. ASSUME QuotaStep PROVE Goal \/ \E x \in Execs : ReconstructQuotaFailed(x)
  <2> HIDE DEF Goal
  <2>1. ASSUME NEW x \in Execs,
               Qualify(x) \/ ClaimsQuota(x) \/ RedeliversQuota(x) \/ SettlesQuota(x)
        PROVE  Goal
    BY <2>1 DEF Qualify, ClaimsQuota, RedeliversQuota, SettlesQuota, Goal
  <2> QED BY <1>7, <1>8, <2>1 DEF QuotaStep
<1> QED BY <1>1, <1>3, <1>4, <1>5, <1>6, <1>8
        DEF Next, DaemonStep, WrapperStep, ProviderStep, ClientStep, FaultStep, vars,
            Resubmit, HandOver, HandOverFails, Push, SampleBusy, HandleReceipt, HandleReport, Interrupt,
            Pause, ReadPlain, ReadIdempotent, InjectionFails, ReadInterrupt, ForwardStarted,
            ForwardDispatched, ForwardFinished, ForwardRejected, Forwards, ProviderStarts,
            ProviderIdles, ProviderReports, Disconnect, Notice, DaemonCrash, WrapperRestart

(* What else a step may do while the rows stay as they are: a pause writes *)
(* its interruptions, a fault shakes every live execution.                 *)
Quiet ==
  /\ shaken \subseteq shaken'
  /\ (link = "up" /\ link' # "up") => (\A x \in Execs : Live(x) => x \in shaken')
  /\ handing' # None /\ handing' # handing =>
       handing' \in Execs /\ (Live(handing') \/ exec[handing'].parent # None)

(* A step that changes no row of executions is one of these cases. *)
LEMMA QuietCases ==
  ASSUME TypeOK, [Next]_vars, UNCHANGED <<exec, last>>
  PROVE  (UNCHANGED pause \/ Pause) /\ Quiet
<1> USE DEF store, delivery, control, handler, sockets, wrapper, provider, history
<1>0. ASSUME UNCHANGED <<shaken, handing>>, link' = link \/ link' = "up" \/ link # "up"
      PROVE  Quiet
  BY <1>0 DEF Quiet
<1>1. ASSUME NEW sent, NEW frozen, Recover(sent, frozen) \/ NoRecovery(sent)
      PROVE  UNCHANGED <<pause, handing>>
  <2>1. ~\E x \in Execs : last < MaxExecs /\ Reconstruct(x)
    BY DEF Reconstruct, TypeOK
  <2> QED BY <1>1, <2>1, RecoverCases DEF NoRecovery, Closes
<1>2. ASSUME NEW frozen, Resume(frozen) PROVE UNCHANGED <<pause, handing>>
  <2>1. Recover(<<>>, frozen) \/ NoRecovery(<<>>)
    BY <1>2 DEF Resume
  <2> QED BY <1>1, <2>1
<1>3. ASSUME NoRecovery(<<>>) PROVE UNCHANGED <<pause, handing>>
  BY <1>3 DEF NoRecovery
<1>4. CASE Register
  <2>1. PICK sent : Recover(sent, paused) \/ NoRecovery(sent)
    BY <1>4 DEF Register
  <2>2. UNCHANGED <<pause, handing>>
    BY <1>1, <2>1
  <2>3. UNCHANGED shaken /\ link' = "up"
    BY <1>4 DEF Register
  <2> QED BY <1>0, <2>2, <2>3
<1>5. CASE HandleTurnState
  <2>1. Resume(paused) \/ NoRecovery(<<>>)
    BY <1>5 DEF HandleTurnState
  <2>2. UNCHANGED <<pause, handing>>
    BY <1>2, <1>3, <2>1
  <2>3. UNCHANGED <<shaken, link>>
    BY <1>5 DEF HandleTurnState, Consumed
  <2> QED BY <1>0, <2>2, <2>3
<1>6. CASE Unpause
  <2>1. Resume(FALSE) \/ NoRecovery(<<>>)
    BY <1>6 DEF Unpause
  <2>2. UNCHANGED <<pause, handing>>
    BY <1>2, <1>3, <2>1
  <2>3. UNCHANGED <<shaken, link>>
    BY <1>6 DEF Unpause
  <2> QED BY <1>0, <2>2, <2>3
<1>7. CASE Pause
  <2>1. UNCHANGED <<shaken, handing, link>>
    BY <1>7 DEF Pause
  <2> QED BY <1>0, <1>7, <2>1
<1>8. ASSUME NEW s \in Subs, NEW keyed \in BOOLEAN, Admit(s, keyed) PROVE FALSE
  BY <1>8 DEF Admit, TypeOK
<1>9. CASE Disconnect \/ DaemonCrash \/ \E kept \in BOOLEAN : WrapperRestart(kept)
  <2>1. Fault /\ UNCHANGED pause
    BY <1>9 DEF Disconnect, DaemonCrash, WrapperRestart
  <2>2. handing' = handing \/ handing' = None
    BY <1>9 DEF Disconnect, DaemonCrash, WrapperRestart
  <2> QED BY <2>1, <2>2 DEF Fault, Quiet
<1>10. ASSUME NEW x \in Execs, Resubmit(x) PROVE UNCHANGED pause /\ Quiet
  BY <1>10 DEF Resubmit, Quiet
<1>11. CASE HandOver
  BY <1>11 DEF HandOver, Quiet
<1>12. CASE InjectionFails
  <2>1. UNCHANGED <<link, handing, pause>> /\ shaken \subseteq shaken'
    BY <1>12 DEF InjectionFails, Reads
  <2> QED BY <2>1 DEF Quiet
<1>13. CASE Notice \/ SampleBusy \/ UNCHANGED vars
  <2>1. UNCHANGED <<shaken, handing, pause>> /\ (link' = link \/ link # "up")
    BY <1>13 DEF Notice, SampleBusy, vars
  <2> QED BY <1>0, <2>1
<1>14. CASE \/ Push \/ (\E x \in Execs : PushFails(x) \/ Interrupt(x)) \/ HandleTransition
            \/ HandleReceipt \/ HandleReport
  <2>1. UNCHANGED <<shaken, handing, link, pause>>
    BY <1>14 DEF Push, PushFails, Interrupt, HandleTransition, HandleReceipt, HandleReport,
                 Consumed
  <2> QED BY <1>0, <2>1
<1>15. CASE ReadPlain \/ ReadIdempotent \/ ReadInterrupt
  <2>1. UNCHANGED <<shaken, handing, link, pause>>
    BY <1>15 DEF ReadPlain, ReadIdempotent, ReadInterrupt, Reads
  <2> QED BY <1>0, <2>1
<1>16. CASE ForwardStarted \/ ForwardDispatched \/ ForwardFinished \/ ForwardRejected
  <2>1. UNCHANGED <<shaken, handing, link, pause>>
    BY <1>16 DEF ForwardStarted, ForwardDispatched, ForwardFinished, ForwardRejected, Forwards
  <2> QED BY <1>0, <2>1
<1>17. CASE \/ ProviderStarts \/ ProviderReports
            \/ \E kind \in {"completed", "cancelled", "failed", "rejected"} : ProviderIdles(kind)
  <2>1. UNCHANGED <<shaken, handing, link, pause>>
    BY <1>17 DEF ProviderStarts, ProviderReports, ProviderIdles
  <2> QED BY <1>0, <2>1
<1>18. CASE HandOverFails
  <2>1. UNCHANGED <<link, shaken, pause>> /\ handing' = None
    BY <1>18 DEF HandOverFails
  <2> QED BY <2>1 DEF Quiet
<1>19. ASSUME QuotaStep PROVE UNCHANGED pause /\ Quiet
  <2>1. UNCHANGED <<link, shaken, pause>>
    BY <1>19, QuotaKeeps
  <2>2. ASSUME NEW y \in Execs, ReconstructQuotaFailed(y) PROVE FALSE
    BY <2>2 DEF ReconstructQuotaFailed, TypeOK
  <2>3. ASSUME NEW y \in Execs, RedeliversQuota(y)
        PROVE  handing' \in Execs /\ exec[handing'].parent # None
    <3>1. handing' \in Children(y)
      BY <2>3 DEF RedeliversQuota
    <3> QED BY <3>1, ExecutionConstants DEF Children, Execs
  <2>4. UNCHANGED handing \/ \E y \in Execs : RedeliversQuota(y)
    BY <1>19, <2>2 DEF QuotaStep, Qualify, ClaimsQuota, SettlesQuota, FailsQuota
  <2> QED BY <2>1, <2>3, <2>4 DEF Quiet
<1> QED BY <1>4, <1>5, <1>6, <1>7, <1>8, <1>9, <1>10, <1>11, <1>12, <1>13, <1>14, <1>15,
           <1>16, <1>17, <1>18, <1>19
        DEF Next, DaemonStep, WrapperStep, ProviderStep, ClientStep, FaultStep

(* Executions are numbered from 1 in the order of their creation, and      *)
(* nothing is said of one that does not exist.                             *)
Numbered ==
  /\ \A x \in Execs :
       /\ (x <= last) <=> (exec[x].state # "unused")
       /\ (x <= last) <=> (Sub(x) \in Subs)
       /\ (x > last) => (pause[x] = "none" /\ exec[x].parent = None)
  /\ (handing # None) => (handing <= last)

(* While the agent is away, every live execution has lived through the     *)
(* fault that cut it off.                                                  *)
ShakenWhileAway == link # "up" => \A x \in Execs : Live(x) => x \in shaken

(* What was continued is over, and no pause still holds it; and a          *)
(* submission has only one execution that was not continued.               *)
Leaf(x) == \A y \in Execs : exec[y].parent # x
Lineage ==
  /\ \A y \in Execs : exec[y].parent # None =>
       /\ exec[exec[y].parent].state \in Terminal
       /\ exec[exec[y].parent].state = "interrupted" => pause[exec[y].parent] = "resumed"
  /\ \A x, y \in Execs :
       Sub(x) \in Subs /\ Sub(x) = Sub(y) /\ Leaf(x) /\ Leaf(y) => x = y

RowInv == Numbered /\ OneLiveExecution /\ RerunNeedsLoss /\ ShakenWhileAway /\ Lineage

(* No execution exists at first.                                           *)
LEMMA RowInit == Init => RowInv
  BY ExecutionConstants
     DEF Init, RowInv, Numbered, OneLiveExecution, RerunNeedsLoss, ShakenWhileAway, NoRow,
         Live, Sub, Active, Execs, Lineage

(* Each way to change the rows keeps their invariant.                      *)
LEMMA RowQuiet ==
  ASSUME TypeOK, RowInv, UNCHANGED <<exec, last>>, UNCHANGED pause \/ Pause, Quiet,
         \A x \in Execs : quota[x] \in Relaunched => quota'[x] \in Relaunched
  PROVE  RowInv'
<1> USE DEF RowInv, Live, Sub
<1>1. \A x \in Execs : \/ pause'[x] = pause[x]
                       \/ /\ pause[x] = "none" /\ pause'[x] = "pending"
                          /\ exec[x].state # "unused"
                          /\ exec[x].state \in {"starting", "running"}
  <2>1. CASE Pause
    BY <2>1 DEF Pause
  <2> QED BY <2>1
<1>2. Numbered'
  <2>1. \A x \in Execs : x > last => pause'[x] = "none"
    BY <1>1 DEF Numbered, TypeOK, Execs
  <2>2. handing' # None => handing' <= last
    <3>1. ASSUME NEW h \in Execs, Live(h) \/ exec[h].parent # None PROVE h <= last
      <4>1. Live(h) => exec[h].state # "unused"
        BY DEF Active
      <4>2. ~(h > last)  => h <= last
        BY ExecutionConstants DEF TypeOK, Execs
      <4> QED BY <3>1, <4>1, <4>2 DEF Numbered
    <3> QED BY <3>1 DEF Quiet, Numbered
  <2> QED BY <2>1, <2>2 DEF Numbered
<1>3. OneLiveExecution'
  BY DEF OneLiveExecution
<1>4. RerunNeedsLoss'
  <2>1. ASSUME NEW x \in Execs, exec[x].parent # None
        PROVE  \/ exec[x].parent \in shaken' \/ pause'[exec[x].parent] = "resumed"
               \/ exec'[exec[x].parent].state = "failed" /\ quota'[exec[x].parent] \in Relaunched
    <3>1. exec[x].parent \in Execs
      BY <2>1 DEF TypeOK, Rows
    <3> QED BY <1>1, <2>1, <3>1 DEF RerunNeedsLoss, Quiet, Limited
  <2> QED BY <2>1 DEF RerunNeedsLoss, Limited
<1>5. ShakenWhileAway'
  BY DEF ShakenWhileAway, Quiet, TypeOK
<1>6. Lineage'
  <2>1. ASSUME NEW y \in Execs, exec[y].parent # None
        PROVE  /\ exec[exec[y].parent].state \in Terminal
               /\ exec[exec[y].parent].state = "interrupted" => pause'[exec[y].parent] = "resumed"
    <3>1. exec[y].parent \in Execs
      BY <2>1 DEF TypeOK, Rows
    <3> QED BY <1>1, <2>1, <3>1 DEF Lineage
  <2> QED BY <2>1 DEF Lineage, Leaf
<1> QED BY <1>2, <1>3, <1>4, <1>5, <1>6

(* A continuation, of an execution that is over or that it closes, keeps   *)
(* what the rows say.                                                      *)
LEMMA ChildRows ==
  ASSUME TypeOK, RowInv, NEW x \in Execs, last < MaxExecs, exec[x].state # "unused", Leaf(x),
         NEW closed, closed.sub = exec[x].sub, closed.parent = exec[x].parent,
         closed.state \in Terminal,
         closed.state = "interrupted" => pause'[x] = "resumed",
         exec[x].state \in Terminal => closed.state = exec[x].state,
         \A y \in Execs : exec'[y] = IF y = last + 1 THEN ChildOf(x)
                                     ELSE IF y = x THEN closed ELSE exec[y],
         \A y \in Execs : pause'[y] = pause[y] \/ (y = x /\ pause'[y] = "resumed"),
         \A y \in Execs : quota[y] \in Relaunched => quota'[y] \in Relaunched,
         last' = last + 1, handing' = last + 1, link' = "up", UNCHANGED shaken,
         x \in shaken \/ pause'[x] = "resumed" \/ (closed.state = "failed" /\ quota'[x] \in Relaunched),
         \A y \in Execs : y # x /\ exec[y].state \in Active => exec[y].sub # exec[x].sub
  PROVE  RowInv'
<1> USE ExecutionConstants DEF RowInv, Live, Sub
<1>0. last \in Nat /\ MaxExecs \in Nat /\ last <= MaxExecs
  BY DEF TypeOK
<1>1. last + 1 \in Execs /\ x # last + 1 /\ x <= last /\ exec[x].sub \in Subs
  <2>1. x <= last /\ exec[x].sub \in Subs
    BY DEF Numbered
  <2> QED BY <1>0, <2>1 DEF Execs
<1>2. ChildOf(x).state = "starting" /\ ChildOf(x).sub = exec[x].sub /\ ChildOf(x).parent = x
  BY DEF ChildOf
<1>3. /\ exec'[last + 1].state = "starting" /\ exec'[last + 1].sub = exec[x].sub
      /\ exec'[last + 1].parent = x
  BY <1>1, <1>2
<1>4. ASSUME NEW y \in Execs, y # last + 1
      PROVE  /\ exec'[y].sub = exec[y].sub /\ exec'[y].parent = exec[y].parent
             /\ exec'[y].state = exec[y].state \/ (y = x /\ exec[y].state \notin Terminal)
             /\ y = x => exec'[y].state = closed.state
             /\ exec'[y].state \in Active => exec[y].state \in Active /\ y # x
  <2>1. CASE y = x
    BY <1>4, <2>1 DEF Active, Terminal
  <2>2. CASE y # x
    BY <1>4, <2>2
  <2> QED BY <2>1, <2>2
<1>5. \A y \in Execs : exec[y].parent # None =>
        exec[y].parent \in Execs /\ exec[y].parent <= last /\ exec[y].parent # last + 1
  <2>1. ASSUME NEW y \in Execs, exec[y].parent # None
        PROVE  exec[y].parent \in Execs /\ exec[y].parent <= last
    <3>1. exec[y].parent \in Execs
      BY <2>1 DEF TypeOK, Rows
    <3>2. exec[exec[y].parent].state # "unused"
      BY <2>1 DEF Lineage, Terminal
    <3> QED BY <3>1, <3>2 DEF Numbered
  <2>2. \A n \in Execs : n <= last => n # last + 1
    BY <1>0 DEF Execs
  <2> QED BY <2>1, <2>2
<1>6. Numbered'
  <2>1. ASSUME NEW y \in Execs
        PROVE  /\ y <= last' <=> exec'[y].state # "unused"
               /\ y <= last' <=> exec'[y].sub \in Subs
               /\ y > last' => pause'[y] = "none" /\ exec'[y].parent = None
    <3>1. CASE y = last + 1
      BY <1>0, <1>1, <1>3, <3>1
    <3>2. CASE y # last + 1
      <4>1. (y <= last' <=> y <= last) /\ (y > last' => y > last)
        BY <1>0, <3>2 DEF Execs
      <4>2. y > last => y # x /\ pause'[y] = pause[y]
        BY <1>0, <1>1 DEF Execs
      <4>3. exec'[y].state # "unused" <=> exec[y].state # "unused"
        BY <1>4, <3>2 DEF Terminal
      <4> QED BY <1>4, <3>2, <4>1, <4>2, <4>3 DEF Numbered
    <3> QED BY <3>1, <3>2
  <2> QED BY <1>0, <2>1 DEF Numbered
<1>7. OneLiveExecution'
  <2>1. ASSUME NEW y \in Execs, y # last + 1, exec'[y].state \in Active
        PROVE  exec'[y].sub # exec[x].sub /\ exec[y].state \in Active
    BY <1>4, <2>1
  <2> QED BY <1>3, <1>4, <2>1 DEF OneLiveExecution
<1>8. ASSUME NEW p \in Execs, p # last + 1,
             p \in shaken \/ pause[p] = "resumed" \/ Limited(p)
      PROVE  \/ p \in shaken' \/ pause'[p] = "resumed"
             \/ exec'[p].state = "failed" /\ quota'[p] \in Relaunched
  BY <1>4, <1>8 DEF Limited, Terminal
<1>9. RerunNeedsLoss'
  <2>1. ASSUME NEW y \in Execs, exec'[y].parent # None
        PROVE  \/ exec'[y].parent \in shaken' \/ pause'[exec'[y].parent] = "resumed"
               \/ exec'[exec'[y].parent].state = "failed" /\ quota'[exec'[y].parent] \in Relaunched
    <3>1. CASE y = last + 1
      BY <1>1, <1>3, <1>4, <3>1
    <3>2. CASE y # last + 1
      <4>1. exec'[y].parent = exec[y].parent
        BY <1>4, <3>2
      <4>2. exec[y].parent \in Execs /\ exec[y].parent # last + 1
        BY <1>5, <2>1, <4>1
      <4> QED BY <1>8, <2>1, <4>1, <4>2 DEF RerunNeedsLoss
    <3> QED BY <3>1, <3>2
  <2>2. ASSUME NEW y \in Execs, NEW z \in Execs, exec'[y].parent # None,
               exec'[z].parent = exec'[y].parent
        PROVE  z = y
    <3>1. ASSUME NEW w \in Execs, w # last + 1 PROVE exec'[w].parent # x
      BY <1>4, <3>1 DEF Leaf
    <3>2. CASE y = last + 1 \/ z = last + 1
      BY <1>3, <2>2, <3>1, <3>2
    <3>3. CASE y # last + 1 /\ z # last + 1
      BY <1>4, <2>2, <3>3 DEF RerunNeedsLoss
    <3> QED BY <3>2, <3>3
  <2> QED BY <2>1, <2>2 DEF RerunNeedsLoss, Limited
<1>10. Lineage'
  <2>1. ASSUME NEW y \in Execs, exec'[y].parent # None
        PROVE  /\ exec'[exec'[y].parent].state \in Terminal
               /\ exec'[exec'[y].parent].state = "interrupted" =>
                    pause'[exec'[y].parent] = "resumed"
    <3>1. CASE y = last + 1
      BY <1>1, <1>3, <1>4, <3>1
    <3>2. CASE y # last + 1
      <4>1. exec'[y].parent = exec[y].parent
        BY <1>4, <3>2
      <4>2. exec[y].parent \in Execs /\ exec[y].parent # last + 1
        BY <1>5, <2>1, <4>1
      <4>3. /\ exec[exec[y].parent].state \in Terminal
            /\ exec[exec[y].parent].state = "interrupted" => pause[exec[y].parent] = "resumed"
        BY <2>1, <4>1 DEF Lineage
      <4>4. exec'[exec[y].parent].state = exec[exec[y].parent].state
        BY <1>4, <4>2, <4>3
      <4> QED BY <4>1, <4>2, <4>3, <4>4
    <3> QED BY <3>1, <3>2
  <2>2. ASSUME NEW y \in Execs, Leaf(y)', y # last + 1 PROVE Leaf(y) /\ y # x
    <3>1. y # x
      BY <1>1, <1>3, <2>2 DEF Leaf
    <3>2. exec[last + 1].parent # y
      <4>1. exec[last + 1].parent = None
        BY <1>0, <1>1 DEF Numbered
      <4> QED BY <4>1 DEF Execs
    <3>3. \A w \in Execs : w # last + 1 => exec[w].parent # y
      BY <1>4, <2>2 DEF Leaf
    <3> QED BY <3>1, <3>2, <3>3 DEF Leaf
  <2>3. ASSUME NEW y \in Execs, NEW z \in Execs, exec'[y].sub \in Subs,
               exec'[y].sub = exec'[z].sub, Leaf(y)', Leaf(z)'
        PROVE  y = z
    <3>1. ASSUME NEW w \in Execs, w # last + 1, Leaf(w)' PROVE exec'[w].sub # exec[x].sub
      BY <1>1, <1>4, <2>2, <3>1 DEF Lineage
    <3>2. CASE y = last + 1 \/ z = last + 1
      BY <1>3, <2>3, <3>1, <3>2
    <3>3. CASE y # last + 1 /\ z # last + 1
      BY <1>4, <2>2, <2>3, <3>3 DEF Lineage
    <3> QED BY <3>2, <3>3
  <2> QED BY <2>1, <2>3 DEF Lineage
<1> QED BY <1>6, <1>7, <1>9, <1>10 DEF ShakenWhileAway

(* Every step keeps what the rows of executions say of one another. *)
LEMMA RowNext == ASSUME TypeOK, RowInv, [Next]_vars PROVE RowInv'
<1> USE ExecutionConstants DEF RowInv, Live, Sub
<1>0. /\ last \in Nat /\ MaxExecs \in Nat /\ last <= MaxExecs
      /\ \A x \in Execs : quota[x] \in Relaunched => quota'[x] \in Relaunched
  BY QuotaLasts DEF TypeOK
<1>1. CASE UNCHANGED <<exec, last>>
  BY <1>0, <1>1, QuietCases, RowQuiet
<1>2. ASSUME NEW s \in Subs, NEW keyed \in BOOLEAN, Admit(s, keyed) PROVE RowInv'
  <2>1. last + 1 \in Execs
    BY <1>2 DEF Admit, Execs, TypeOK
  <2> DEFINE row == [state |-> "starting", gen |-> 1, rev |-> 0, sub |-> s,
                     keyed |-> keyed, parent |-> None]
  <2>2. \A x \in Execs : exec'[x] = IF x = last + 1 THEN row ELSE exec[x]
    BY <1>2, <2>1 DEF Admit, TypeOK
  <2>3. last' = last + 1 /\ handing' = last + 1 /\ UNCHANGED <<pause, shaken>> /\ link' = "up"
    BY <1>2 DEF Admit, control, history, sockets
  <2>4. Numbered'
    <3>1. ASSUME NEW x \in Execs
          PROVE  /\ x <= last' <=> exec'[x].state # "unused"
                 /\ x <= last' <=> exec'[x].sub \in Subs
                 /\ x > last' => pause'[x] = "none" /\ exec'[x].parent = None
      <4>1. CASE x = last + 1
        BY <1>0, <2>2, <2>3, <4>1
      <4>2. CASE x # last + 1
        <5>1. exec'[x] = exec[x] /\ (x <= last' <=> x <= last) /\ (x > last' => x > last)
          BY <1>0, <2>2, <2>3, <4>2 DEF Execs
        <5> QED BY <2>3, <5>1 DEF Numbered
      <4> QED BY <4>1, <4>2
    <3> QED BY <1>0, <2>3, <3>1 DEF Numbered
  <2>5. /\ \A x \in Execs : exec[x].sub # s
        /\ \A x \in Execs : x # last + 1 => exec'[x] = exec[x]
        /\ exec'[last + 1].sub = s /\ exec'[last + 1].parent = None
    BY <1>2, <2>1, <2>2 DEF Admit, Admitted
  <2>6. OneLiveExecution'
    BY <2>5 DEF OneLiveExecution
  <2>7. ASSUME NEW x \in Execs, exec'[x].parent # None
        PROVE  /\ x # last + 1 /\ exec[x].parent = exec'[x].parent
               /\ exec[x].parent \in Execs /\ exec'[exec[x].parent] = exec[exec[x].parent]
    <3>1. x # last + 1 /\ exec[x].parent = exec'[x].parent
      BY <2>5, <2>7
    <3>2. exec[x].parent \in Execs
      BY <2>7, <3>1 DEF TypeOK, Rows
    <3>5. exec[exec[x].parent].state # "unused"
      BY <2>7, <3>1 DEF Lineage, Terminal
    <3>3. exec[x].parent <= last
      BY <3>2, <3>5 DEF Numbered
    <3>4. exec[x].parent # last + 1
      BY <1>0, <3>2, <3>3 DEF Execs
    <3> QED BY <2>5, <3>1, <3>2, <3>4
  <2>8. RerunNeedsLoss'
    <3>1. ASSUME NEW x \in Execs, exec'[x].parent # None
          PROVE  \/ exec'[x].parent \in shaken' \/ pause'[exec'[x].parent] = "resumed"
                 \/ exec'[exec'[x].parent].state = "failed" /\ quota'[exec'[x].parent] \in Relaunched
      BY <1>0, <2>3, <2>7, <3>1 DEF RerunNeedsLoss, Limited
    <3>2. ASSUME NEW x \in Execs, NEW y \in Execs, exec'[x].parent # None,
                 exec'[y].parent = exec'[x].parent
          PROVE  y = x
      BY <2>7, <3>2 DEF RerunNeedsLoss
    <3> QED BY <3>1, <3>2 DEF RerunNeedsLoss, Limited
  <2>9. Lineage'
    <3>1. ASSUME NEW x \in Execs, exec'[x].parent # None
          PROVE  /\ exec'[exec'[x].parent].state \in Terminal
                 /\ exec'[exec'[x].parent].state = "interrupted" =>
                      pause'[exec'[x].parent] = "resumed"
      BY <2>3, <2>7, <3>1 DEF Lineage
    <3>2. ASSUME NEW x \in Execs, Leaf(x)', x # last + 1 PROVE Leaf(x)
      <4>1. exec[last + 1].parent # x
        <5>1. exec[last + 1].parent = None
          BY <1>0, <2>1 DEF Numbered
        <5> QED BY <5>1 DEF Execs
      <4> QED BY <2>5, <3>2, <4>1 DEF Leaf
    <3>3. ASSUME NEW x \in Execs, NEW y \in Execs, exec'[x].sub \in Subs,
                 exec'[x].sub = exec'[y].sub, Leaf(x)', Leaf(y)'
          PROVE  x = y
      BY <2>5, <3>2, <3>3 DEF Lineage
    <3> QED BY <3>1, <3>3 DEF Lineage
  <2> QED BY <2>3, <2>4, <2>6, <2>8, <2>9 DEF ShakenWhileAway
<1>3. ASSUME NEW x \in Execs, Rebuilt(x) PROVE RowInv'
  <2>0. Candidates = {x} /\ Closable(x) /\ last < MaxExecs /\ Reconstruct(x)
    BY <1>3 DEF Rebuilt
  <2>1. exec[x].state # "unused" /\ (exec[x].state \in Terminal => exec[x].state = "interrupted")
    BY <2>0 DEF Closable, Active, Terminal
  <2>2. last + 1 \in Execs
    BY <1>0, <2>0 DEF Execs
  <2>3. \A y \in Execs : exec'[y] = IF y = last + 1 THEN ChildOf(x)
                                   ELSE IF y = x THEN ClosedBy(x) ELSE exec[y]
    BY <2>0, <2>2 DEF Reconstruct, TypeOK
  <2>4. /\ last' = last + 1 /\ handing' = last + 1 /\ link' = "up" /\ UNCHANGED shaken
        /\ pause' = [pause EXCEPT ![x] = IF @ = "pending" THEN "resumed" ELSE @]
    BY <1>3, <2>0 DEF Rebuilt, Reconstruct
  <2>5. /\ ClosedBy(x).state \in Terminal /\ ClosedBy(x).sub = exec[x].sub
        /\ ClosedBy(x).parent = exec[x].parent
        /\ exec[x].state \in Terminal => ClosedBy(x).state = exec[x].state
        /\ ClosedBy(x).state = "interrupted" => exec[x].state = "interrupted"
    BY <2>1 DEF ClosedBy, Moved, Terminal
  <2>6. \A y \in Execs : pause'[y] = pause[y] \/ (y = x /\ pause'[y] = "resumed")
    BY <2>4 DEF TypeOK
  <2>7. x \in Pending => pause[x] # "resumed" /\ pause'[x] = "resumed"
    BY <2>4 DEF Pending, TypeOK
  <2>8. exec[x].state = "interrupted" => x \in Pending
    BY <2>0 DEF Closable, Active
  <2>9. x \in shaken \/ pause'[x] = "resumed"
    <3>1. CASE x \in Pending
      BY <2>7, <3>1
    <3>2. CASE x \notin Pending
      BY <1>3, <3>2 DEF Rebuilt, Closable, ShakenWhileAway
    <3> QED BY <3>1, <3>2
  <2>10. Leaf(x)
    <3>1. ASSUME NEW y \in Execs, exec[y].parent = x PROVE FALSE
      <4>1. exec[x].state \in Terminal /\ (exec[x].state = "interrupted" => pause[x] = "resumed")
        BY <3>1 DEF Lineage, Execs
      <4> QED BY <2>1, <2>7, <2>8, <4>1
    <3> QED BY <3>1 DEF Leaf
  <2>11. \A y \in Execs : y # x => exec[y].state \notin Active
    BY <2>0 DEF Candidates
  <2> DEFINE closed == ClosedBy(x)
  <2>12. \A y \in Execs : y # x /\ exec[y].state \in Active => exec[y].sub # exec[x].sub
    BY <2>11
  <2> QED BY <1>0, <2>0, <2>1, <2>3, <2>4, <2>5, <2>6, <2>7, <2>8, <2>9, <2>10, <2>12, ChildRows
<1>4. ASSUME NEW x \in Execs, ReconstructQuotaFailed(x) PROVE RowInv'
  <2>1. last < MaxExecs /\ exec[x].state = "failed" /\ Leaf(x) /\ link = "up"
    BY <1>4 DEF ReconstructQuotaFailed, Ticks, Children, Leaf
  <2>2. last + 1 \in Execs /\ x # last + 1
    <3>1. x <= last
      BY <2>1 DEF Numbered
    <3> QED BY <1>0, <2>1, <3>1 DEF Execs
  <2>3. \A y \in Execs : exec'[y] = IF y = last + 1 THEN ChildOf(x)
                                   ELSE IF y = x THEN exec[x] ELSE exec[y]
    BY <1>4, <2>2 DEF ReconstructQuotaFailed, TypeOK
  <2>4. last' = last + 1 /\ handing' = last + 1 /\ link' = "up" /\ UNCHANGED <<shaken, pause>>
    BY <1>4, <2>1 DEF ReconstructQuotaFailed, Ticks, sockets, history, control
  <2>5. exec[x].state = "failed" /\ quota'[x] \in Relaunched
    BY <1>4, <2>1 DEF ReconstructQuotaFailed, Relaunched, TypeOK
  <2>6. ASSUME NEW y \in Execs, y # x, exec[y].state \in Active PROVE exec[y].sub # exec[x].sub
    <3>1. Leaf(y)
      <4>1. ASSUME NEW z \in Execs, exec[z].parent = y PROVE FALSE
        <5>1. exec[y].state \in Terminal
          BY <4>1 DEF Lineage, Execs
        <5> QED BY <2>6, <5>1 DEF Active, Terminal
      <4> QED BY <4>1 DEF Leaf
    <3>2. exec[x].sub \in Subs
      BY <2>1 DEF Numbered
    <3> QED BY <2>1, <2>6, <3>1, <3>2 DEF Lineage
  <2>7. "failed" \in Terminal /\ "failed" # "interrupted" /\ exec[x].state # "unused"
    BY <2>1 DEF Terminal
  <2> QED BY <1>0, <2>1, <2>3, <2>4, <2>5, <2>6, <2>7, ChildRows
<1>5. ASSUME NEW x \in Execs, Shifted(x) PROVE RowInv'
  <2>1. PICK from \in Active, rev \in Nat, to \in Active \cup Terminal :
          TransitionIfCurrent(x, from, rev, to)
    BY <1>5 DEF Shifted
  <2>2. UNCHANGED <<last, pause, handing, shaken>> /\ link' \in {link, "up"}
    BY <1>5 DEF Shifted
  <2>3. \A y \in Execs : /\ exec'[y].sub = exec[y].sub /\ exec'[y].parent = exec[y].parent
                         /\ \/ exec'[y].state = exec[y].state
                            \/ /\ exec[y].state \in Active
                               /\ exec'[y].state \in Active \cup Terminal
    BY <2>1 DEF TransitionIfCurrent, Moved, TypeOK
  <2>4. Numbered'
    BY <2>2, <2>3 DEF Numbered, Active, Terminal
  <2>5. OneLiveExecution' /\ ShakenWhileAway'
    BY <2>2, <2>3 DEF OneLiveExecution, ShakenWhileAway
  <2>6. \A y \in Execs : exec[y].state \in Terminal => exec'[y].state = exec[y].state
    BY <2>3 DEF Active, Terminal
  <2>7. ASSUME NEW y \in Execs, exec[y].parent # None
        PROVE  /\ exec[y].parent \in Execs /\ exec[exec[y].parent].state \in Terminal
               /\ exec'[exec[y].parent].state = exec[exec[y].parent].state
    BY <2>6, <2>7 DEF TypeOK, Rows, Lineage
  <2>8. RerunNeedsLoss'
    <3>1. ASSUME NEW y \in Execs, exec[y].parent # None
          PROVE  \/ exec[y].parent \in shaken' \/ pause'[exec[y].parent] = "resumed"
                 \/ exec'[exec[y].parent].state = "failed" /\ quota'[exec[y].parent] \in Relaunched
      BY <1>0, <2>2, <2>7, <3>1 DEF RerunNeedsLoss, Limited
    <3> QED BY <2>3, <3>1 DEF RerunNeedsLoss, Limited
  <2>9. Lineage'
    BY <2>2, <2>3, <2>7 DEF Lineage, Leaf
  <2> QED BY <2>4, <2>5, <2>8, <2>9
<1> QED BY <1>1, <1>2, <1>3, <1>4, <1>5, RowCases
-----------------------------------------------------------------------------
(* What the two sides say of executions is about executions that exist and *)
(* is true of their work.                                                  *)

KnownFrames == {f \in ToWrapper : f.x \in Created}
TrueFrames == {f \in ToDaemon :
                 /\ (f.kind = "state" /\ f.to = "completed") => DoneWork(Sub(f.x))
                 /\ f.kind = "acked" => PromptedWork(Sub(f.x))}
Of(s) == {x \in Execs : Sub(x) = s}

SentKnown == outbox \in Seq(KnownFrames) /\ toWrapper \in Seq(KnownFrames)
WorkKnown == /\ queue \in Seq(Created) /\ active \in Created \cup {None}
             /\ done \subseteq Created /\ prompted \subseteq Created
             /\ \A x \in Execs : dlv[x] # "none" => x \in Created
BindingsKnown == /\ \A s \in Subs : bind[s].x # None => bind[s].x \in Of(s)
                 /\ \A s \in Subs : pend[s] \in Seq(Of(s))
ReportsTrue == /\ events \in Seq(TrueEvents) /\ late \in Seq(TrueEvents)
               /\ toDaemon \in Seq(TrueFrames)
ReceiptsTrue == \A x \in Execs : receipt[x] = "acked" => PromptedWork(Sub(x))

TruthInv == /\ SentKnown /\ WorkKnown /\ BindingsKnown /\ ReportsTrue /\ ReceiptsTrue
            /\ CompletedWorkWasDone /\ AckedWorkWasPrompted

(* An execution keeps its submission, and what was done or prompted stays  *)
(* so.                                                                     *)
Grows == /\ \A x \in Execs : Sub(x) \in Subs => exec'[x].sub = exec[x].sub
         /\ done \subseteq done' /\ prompted \subseteq prompted'

(* Every step only adds to the rows and to the history of the turns. *)
LEMMA StepGrows == ASSUME TypeOK, RowInv, [Next]_vars PROVE Grows
<1>1. \A x \in Execs : Sub(x) \in Subs => exec'[x].sub = exec[x].sub
  <2> USE DEF Sub
  <2>0. last \in Nat /\ (\A x \in Execs : exec[x].sub \in Subs => x # last + 1)
    BY ExecutionConstants DEF RowInv, Numbered, TypeOK, Execs
  <2>1. CASE UNCHANGED <<exec, last>>
    BY <2>1
  <2>2. ASSUME NEW s \in Subs, NEW keyed \in BOOLEAN, Admit(s, keyed)
        PROVE  \A x \in Execs : exec[x].sub \in Subs => exec'[x].sub = exec[x].sub
    <3>1. \A x \in Execs : x # last + 1 => exec'[x] = exec[x]
      BY <2>2 DEF Admit, TypeOK
    <3> QED BY <2>0, <3>1
  <2>3. ASSUME NEW y \in Execs, Rebuilt(y)
        PROVE  \A x \in Execs : exec[x].sub \in Subs => exec'[x].sub = exec[x].sub
    <3>1. exec' = [exec EXCEPT ![y] = ClosedBy(y), ![last + 1] = ChildOf(y)]
      BY <2>3 DEF Rebuilt, Reconstruct
    <3>2. ClosedBy(y).sub = exec[y].sub
      BY DEF ClosedBy, Moved
    <3>3. \A x \in Execs : x # last + 1 => exec'[x].sub = exec[x].sub
      BY <3>1, <3>2 DEF TypeOK
    <3> QED BY <2>0, <3>3
  <2>4. ASSUME NEW y \in Execs, Shifted(y)
        PROVE  \A x \in Execs : exec[x].sub \in Subs => exec'[x].sub = exec[x].sub
    BY <2>4 DEF Shifted, TransitionIfCurrent, Moved, TypeOK
  <2>5. ASSUME NEW y \in Execs, ReconstructQuotaFailed(y)
        PROVE  \A x \in Execs : exec[x].sub \in Subs => exec'[x].sub = exec[x].sub
    BY <2>0, <2>5 DEF ReconstructQuotaFailed, TypeOK
  <2> QED BY <2>1, <2>2, <2>3, <2>4, <2>5, RowCases
<1>2. ProviderStarts \/ (\E kind \in {"completed", "cancelled", "failed", "rejected"} : ProviderIdles(kind))
      \/ UNCHANGED <<done, prompted>>
  BY QuotaKeeps
     DEF Next, DaemonStep, WrapperStep, ProviderStep, ClientStep, FaultStep, vars, history,
         Admit, Resubmit, HandOver, Push, PushFails, SampleBusy, Register, HandleTransition,
         HandleTurnState, HandleReceipt, HandleReport, Interrupt, Pause, Unpause, ReadPlain,
         ReadIdempotent, InjectionFails, ReadInterrupt, ForwardStarted, ForwardDispatched,
         ForwardFinished, ForwardRejected, Forwards, ProviderReports, Disconnect, Notice,
         DaemonCrash, WrapperRestart, Fault
<1>3. done \subseteq done' /\ prompted \subseteq prompted'
  BY <1>2 DEF ProviderStarts, ProviderIdles
<1> QED BY <1>1, <1>3 DEF Grows

(* What is known and true stays so.                                        *)
LEMMA TruthGrows ==
  ASSUME TypeOK, Grows, WorkKnown
  PROVE  /\ Created \subseteq Created' /\ KnownFrames \subseteq KnownFrames'
         /\ \A s \in Subs : Of(s) \subseteq Of(s)'
         /\ \A x \in Execs : DoneWork(Sub(x)) => DoneWork(Sub(x))'
         /\ \A x \in Execs : PromptedWork(Sub(x)) => PromptedWork(Sub(x))'
         /\ TrueEvents \subseteq TrueEvents' /\ TrueFrames \subseteq TrueFrames'
<1> USE DEF Sub
<1>1. Created \subseteq Created'
  BY DEF Created, Grows
<1>2. KnownFrames \subseteq KnownFrames'
  BY <1>1 DEF KnownFrames
<1>3. \A s \in Subs : Of(s) \subseteq Of(s)'
  BY DEF Of, Grows
<1>4. ASSUME NEW x \in Execs, DoneWork(Sub(x)) PROVE DoneWork(Sub(x))'
  <2>1. PICK y \in done : exec[y].sub = exec[x].sub
    BY <1>4 DEF DoneWork
  <2>2. y \in Execs /\ exec[y].sub \in Subs
    BY DEF WorkKnown, Created
  <2>3. exec'[y].sub = exec[y].sub /\ exec'[x].sub = exec[x].sub /\ y \in done'
    BY <2>1, <2>2 DEF Grows
  <2> QED BY <2>1, <2>3 DEF DoneWork
<1>5. ASSUME NEW x \in Execs, PromptedWork(Sub(x)) PROVE PromptedWork(Sub(x))'
  <2>1. PICK y \in prompted : exec[y].sub = exec[x].sub
    BY <1>5 DEF PromptedWork
  <2>2. y \in Execs /\ exec[y].sub \in Subs
    BY DEF WorkKnown, Created
  <2>3. exec'[y].sub = exec[y].sub /\ exec'[x].sub = exec[x].sub /\ y \in prompted'
    BY <2>1, <2>2 DEF Grows
  <2> QED BY <2>1, <2>3 DEF PromptedWork
<1>6. TrueEvents \subseteq TrueEvents'
  BY <1>1 DEF TrueEvents, Grows
<1>7. TrueFrames \subseteq TrueFrames'
  <2>1. ASSUME NEW f \in TrueFrames, f.kind = "state", f.to = "completed"
        PROVE  DoneWork(Sub(f.x))'
    <3>1. f \in ToDaemon /\ DoneWork(Sub(f.x))
      BY <2>1 DEF TrueFrames
    <3>2. f.x \in Execs
      BY <2>1, <3>1 DEF ToDaemon
    <3> QED BY <1>4, <3>1, <3>2
  <2>2. ASSUME NEW f \in TrueFrames, f.kind = "acked"
        PROVE  PromptedWork(Sub(f.x))'
    <3>1. f \in ToDaemon /\ PromptedWork(Sub(f.x))
      BY <2>2 DEF TrueFrames
    <3>2. f.x \in Execs
      BY <2>2, <3>1 DEF ToDaemon
    <3> QED BY <1>5, <3>1, <3>2
  <2> QED BY <2>1, <2>2 DEF TrueFrames
<1> QED BY <1>1, <1>2, <1>3, <1>4, <1>5, <1>6, <1>7

(* Frames to the wrapper are about executions that exist.                  *)
LEMMA SentNext ==
  ASSUME TypeOK, RowInv, TruthInv, [Next]_vars
  PROVE  outbox' \in Seq(KnownFrames) /\ toWrapper' \in Seq(KnownFrames)
<1> USE ExecutionConstants DEF TruthInv, SentKnown, store, delivery, control, handler, sockets,
        wrapper, provider, history
<1>1. \A x \in Execs : exec[x].state # "unused" => x \in Created
  BY DEF RowInv, Numbered, Created
<1>2. ASSUME NEW kind \in {"plain", "idempotent", "interrupt"}, NEW S, S \subseteq Created,
             NEW fs \in Batch(kind, S)
      PROVE  fs \in Seq(KnownFrames)
  <2>1. S \subseteq Execs
    BY <1>2 DEF Created
  <2>2. fs \in Seq({f \in ToWrapper : f.x \in S})
    BY <2>1, BatchType DEF TypeOK
  <2>3. {f \in ToWrapper : f.x \in S} \subseteq KnownFrames
    BY <1>2 DEF KnownFrames
  <2> QED BY <2>2, <2>3, SeqGrow
<1>3. \A i : At(i) \subseteq Created
  BY DEF At, Dispatching, WorkKnown
<1>4. ASSUME NEW sent \in Seq(KnownFrames), NEW frozen,
             Recover(sent, frozen) \/ NoRecovery(sent)
      PROVE  outbox' \in Seq(KnownFrames)
  <2>1. outbox \o sent \in Seq(KnownFrames)
    BY SeqConcat
  <2>2. ASSUME NEW x \in Execs,
               \E again \in Batch("idempotent", At(inst) \cup At(home[x])) :
                 outbox' = outbox \o sent \o again
        PROVE  outbox' \in Seq(KnownFrames)
    <3>1. PICK again \in Batch("idempotent", At(inst) \cup At(home[x])) :
                 outbox' = outbox \o sent \o again
      BY <2>2
    <3>2. again \in Seq(KnownFrames)
      BY <1>2, <1>3
    <3> QED BY <2>1, <3>1, <3>2, SeqConcat
  <2> QED BY <1>4, <2>1, <2>2 DEF Recover, NoRecovery
<1>5. <<>> \in Seq(KnownFrames)
  OBVIOUS
<1>6. ASSUME NEW frozen, Resume(frozen) \/ NoRecovery(<<>>) PROVE outbox' \in Seq(KnownFrames)
  BY <1>4, <1>5, <1>6 DEF Resume
<1>7. CASE Register
  <2>1. PICK sent \in Batch("idempotent", At(inst)) :
          Recover(sent, paused) \/ NoRecovery(sent)
    BY <1>7 DEF Register
  <2>2. sent \in Seq(KnownFrames)
    BY <1>2, <1>3
  <2> QED BY <1>4, <1>7, <2>1, <2>2 DEF Register
<1>8. CASE HandleTurnState
  <2>1. Resume(paused) \/ NoRecovery(<<>>)
    BY <1>8 DEF HandleTurnState
  <2> QED BY <1>6, <1>8, <2>1 DEF HandleTurnState, Consumed
<1>9. CASE Unpause
  <2>1. Resume(FALSE) \/ NoRecovery(<<>>)
    BY <1>9 DEF Unpause
  <2> QED BY <1>6, <1>9, <2>1 DEF Unpause
<1>10. CASE HandOver
  <2>1. handing \in Created
    BY <1>10 DEF HandOver, RowInv, Numbered, Created, TypeOK
  <2>2. \A kind \in {"plain", "idempotent"} : Frame(kind, handing) \in KnownFrames
    BY <2>1 DEF Frame, KnownFrames, ToWrapper, Created, TypeOK, Rows
  <2> QED BY <1>10, <2>2, SeqAppend DEF HandOver
<1>11. CASE Push
  BY <1>11, SeqTake, SeqAppend DEF Push
<1>12. ASSUME NEW S, S \subseteq Created, Dispatch(S) PROVE toWrapper' \in Seq(KnownFrames)
  <2>1. PICK fs \in Batch("interrupt", S) :
          toWrapper' = IF link = "up" THEN toWrapper \o fs ELSE toWrapper
    BY <1>12 DEF Dispatch
  <2>2. fs \in Seq(KnownFrames)
    BY <1>2, <1>12
  <2> QED BY <2>1, <2>2, SeqConcat
<1>13. ASSUME NEW x \in Execs, Interrupt(x)
       PROVE  outbox' \in Seq(KnownFrames) /\ toWrapper' \in Seq(KnownFrames)
  <2>1. {x} \subseteq Created
    BY <1>1, <1>13 DEF Interrupt, Live, Active
  <2> QED BY <1>12, <1>13, <2>1 DEF Interrupt
<1>14. CASE Pause
  <2>1. {x \in Execs : exec[x].state \in {"starting", "running"}} \subseteq Created
    BY <1>1
  <2> QED BY <1>12, <1>14, <2>1 DEF Pause
<1>15. CASE ReadPlain \/ ReadIdempotent \/ InjectionFails \/ ReadInterrupt
  <2>1. toWrapper # <<>> /\ toWrapper' = Tail(toWrapper) /\ UNCHANGED outbox
    BY <1>15 DEF ReadPlain, ReadIdempotent, InjectionFails, ReadInterrupt, Reads
  <2> QED BY <2>1, SeqTake
<1>16. CASE Disconnect \/ DaemonCrash \/ \E kept \in BOOLEAN : WrapperRestart(kept)
  BY <1>5, <1>16 DEF Disconnect, DaemonCrash, WrapperRestart, Cut
<1>17. ASSUME UNCHANGED <<outbox, toWrapper>>
       PROVE  outbox' \in Seq(KnownFrames) /\ toWrapper' \in Seq(KnownFrames)
  BY <1>17
<1>18. ASSUME QuotaStep \/ HandOverFails PROVE UNCHANGED <<outbox, toWrapper>>
  BY <1>18, QuotaKeeps
<1> QED BY <1>7, <1>8, <1>9, <1>10, <1>11, <1>13, <1>14, <1>15, <1>16, <1>17, <1>18
        DEF Next, DaemonStep, WrapperStep, ProviderStep, ClientStep, FaultStep, vars,
            Admit, Resubmit, PushFails, SampleBusy, HandleTransition, HandleReceipt,
            HandleReport, Consumed, ForwardStarted, ForwardDispatched, ForwardFinished,
            ForwardRejected, Forwards, ProviderStarts, ProviderIdles, ProviderReports, Notice

(* What the wrapper gives the provider exists.                             *)
LEMMA WorkNext ==
  ASSUME TypeOK, RowInv, TruthInv, [Next]_vars
  PROVE  /\ queue' \in Seq(Created) /\ active' \in Created \cup {None}
         /\ done' \subseteq Created /\ prompted' \subseteq Created
<1> USE ExecutionConstants DEF TruthInv, WorkKnown, store, delivery, control, handler, sockets,
        wrapper, provider, history
<1>1. ASSUME NEW kind, Reads(kind) PROVE Head(toWrapper).x \in Created
  BY <1>1, SeqTake DEF Reads, SentKnown, KnownFrames
<1>2. CASE ReadPlain
  BY <1>1, <1>2, SeqAppend DEF ReadPlain
<1>3. CASE ReadIdempotent
  <2>1. Append(queue, Head(toWrapper).x) \in Seq(Created)
    BY <1>1, <1>3, SeqAppend DEF ReadIdempotent
  <2>2. queue' = Append(queue, Head(toWrapper).x) \/ UNCHANGED queue
    BY <1>3 DEF ReadIdempotent
  <2>3. UNCHANGED <<active, done, prompted>>
    BY <1>3 DEF ReadIdempotent
  <2> QED BY <2>1, <2>2, <2>3
<1>4. CASE ReadInterrupt
  <2>1. UNCHANGED queue \/ \E i \in 1..Len(queue) :
          queue' = SubSeq(queue, 1, i - 1) \o SubSeq(queue, i + 1, Len(queue))
    <3>1. Queued(Sub(Head(toWrapper).x)) \subseteq 1..Len(queue)
      BY DEF Queued
    <3> QED BY <1>4, <3>1 DEF ReadInterrupt
  <2>2. queue' \in Seq(Created)
    BY <2>1, SeqCut
  <2> QED BY <1>4, <2>2 DEF ReadInterrupt
<1>5. CASE ProviderStarts
  <2>1. Head(queue) \in Created /\ Tail(queue) \in Seq(Created)
    BY <1>5, SeqTake DEF ProviderStarts
  <2> QED BY <1>5, <2>1 DEF ProviderStarts
<1>6. ASSUME NEW kind \in {"completed", "cancelled", "failed", "rejected"}, ProviderIdles(kind)
      PROVE  /\ queue' \in Seq(Created) /\ active' \in Created \cup {None}
             /\ done' \subseteq Created /\ prompted' \subseteq Created
  BY <1>6 DEF ProviderIdles
<1>7. ASSUME NEW kept \in BOOLEAN, WrapperRestart(kept)
      PROVE  /\ queue' \in Seq(Created) /\ active' \in Created \cup {None}
             /\ done' \subseteq Created /\ prompted' \subseteq Created
  <2>1. <<>> \in Seq(Created)
    OBVIOUS
  <2> QED BY <1>7, <2>1 DEF WrapperRestart, Fault
<1>8. ASSUME UNCHANGED <<queue, active, done, prompted>>
      PROVE  /\ queue' \in Seq(Created) /\ active' \in Created \cup {None}
             /\ done' \subseteq Created /\ prompted' \subseteq Created
  BY SMTT(30), <1>8
<1>9. ASSUME QuotaStep \/ HandOverFails PROVE UNCHANGED <<queue, active, done, prompted>>
  BY <1>9, QuotaKeeps
<1> QED BY <1>2, <1>3, <1>4, <1>5, <1>6, <1>7, <1>8, <1>9
        DEF Next, DaemonStep, WrapperStep, ProviderStep, ClientStep, FaultStep, vars,
            Admit, Resubmit, HandOver, Push, PushFails, SampleBusy, Register, HandleTransition,
            HandleTurnState, HandleReceipt, HandleReport, Interrupt, Pause, Unpause,
            InjectionFails, ForwardStarted, ForwardDispatched, ForwardFinished,
            ForwardRejected, Forwards, ProviderReports, Disconnect, Notice, DaemonCrash, Fault

(* The bindings and the pending deliveries of a message are of that        *)
(* message.                                                                *)
LEMMA BindingsNext ==
  ASSUME TypeOK, RowInv, TruthInv, [Next]_vars
  PROVE  /\ \A s \in Subs : bind'[s].x # None => bind'[s].x \in Of(s)
         /\ \A s \in Subs : pend'[s] \in Seq(Of(s))
<1> USE ExecutionConstants DEF TruthInv, BindingsKnown, store, delivery, control, handler,
        sockets, wrapper, provider, history
<1> DEFINE BindKnown == \A s \in Subs : bind'[s].x # None => bind'[s].x \in Of(s)
           PendKnown == \A s \in Subs : pend'[s] \in Seq(Of(s))
           f == Head(toWrapper)
<1>0. \A s \in Subs : <<>> \in Seq(Of(s))
  OBVIOUS
<1>1. ASSUME NEW kind, Reads(kind)
      PROVE  f.x \in Execs /\ Sub(f.x) \in Subs /\ f.x \in Of(Sub(f.x))
  BY <1>1, SeqTake DEF Reads, SentKnown, KnownFrames, Created, Of
<1>2. ASSUME f.x \in Of(Sub(f.x)),
             \/ bind' = [bind EXCEPT ![Sub(f.x)] = Binding(f)]
             \/ bind' = [bind EXCEPT ![Sub(f.x)] = NoBinding]
             \/ bind' = Rebound(f) \/ UNCHANGED bind
      PROVE  BindKnown
  <2>1. bind' \in {[bind EXCEPT ![Sub(f.x)] = Binding(f)],
                   [bind EXCEPT ![Sub(f.x)] = NoBinding], bind}
    BY <1>2 DEF Rebound
  <2>2. Binding(f).x = f.x /\ NoBinding.x = None
    BY DEF Binding, NoBinding
  <2>3. ASSUME NEW s \in Subs, bind'[s].x # None PROVE bind'[s].x \in Of(s)
    <3>1. CASE s = Sub(f.x)
      BY <1>2, <2>1, <2>2, <2>3, <3>1 DEF TypeOK
    <3>2. CASE s # Sub(f.x)
      BY <2>1, <2>3, <3>2 DEF TypeOK
    <3> QED BY <3>1, <3>2
  <2> QED BY <2>3
<1>3. ASSUME NEW s, NEW to, Published(s, to) PROVE BindKnown
  <2>1. UNCHANGED bind \/ bind' = [bind EXCEPT ![s] = NoBinding]
        \/ bind' = [bind EXCEPT ![s] = [x |-> @.x, state |-> to, rev |-> @.rev + 1]]
    BY <1>3 DEF Published
  <2>2. NoBinding.x = None
    BY DEF NoBinding
  <2>3. ASSUME NEW r \in Subs PROVE bind'[r].x \in {bind[r].x, None}
    BY SMTT(30), <2>1, <2>2 DEF TypeOK
  <2> QED BY <2>3
<1>4. ASSUME UNCHANGED bind PROVE BindKnown
  BY <1>4
<1>5. ASSUME UNCHANGED pend PROVE PendKnown
  BY <1>5
<1>6. ASSUME NEW s \in Subs,
             \/ pend' = [pend EXCEPT ![s] = IF @ = <<>> THEN @ ELSE Tail(@)]
             \/ pend[s] # <<>> /\ pend' = [pend EXCEPT ![s] = Tail(@)]
      PROVE  PendKnown
  <2>1. pend[s] # <<>> => Tail(pend[s]) \in Seq(Of(s))
    BY SeqTake
  <2> QED BY <1>6, <2>1 DEF TypeOK
<1>7. CASE ReadPlain
  BY <1>1, <1>2, <1>5, <1>7 DEF ReadPlain
<1>8. CASE ReadIdempotent
  <2>1. BindKnown
    BY <1>1, <1>2, <1>8 DEF ReadIdempotent
  <2>2. UNCHANGED pend \/ pend' = [pend EXCEPT ![Sub(f.x)] = Append(@, f.x)]
    BY <1>8 DEF ReadIdempotent
  <2>3. Append(pend[Sub(f.x)], f.x) \in Seq(Of(Sub(f.x)))
    BY <1>1, <1>8, SeqAppend DEF ReadIdempotent
  <2>4. PendKnown
    BY <1>5, <2>2, <2>3 DEF TypeOK
  <2> QED BY <2>1, <2>4
<1>9. CASE InjectionFails
  BY <1>1, <1>2, <1>5, <1>9 DEF InjectionFails
<1>10. CASE ReadInterrupt
  BY <1>3, <1>4, <1>5, <1>10 DEF ReadInterrupt
<1>11. CASE ForwardStarted \/ ForwardFinished
  BY <1>3, <1>4, <1>5, <1>11 DEF ForwardStarted, ForwardFinished
<1>12. ASSUME NEW kinds, Forwards(kinds) PROVE Sub(Head(events).x) \in Subs
  BY <1>12, SeqTake DEF Forwards, ReportsTrue, TrueEvents, Created
<1>13. CASE ForwardDispatched
  BY <1>4, <1>5, <1>6, <1>12, <1>13 DEF ForwardDispatched
<1>14. CASE ForwardRejected
  BY <1>3, <1>4, <1>5, <1>6, <1>12, <1>14 DEF ForwardRejected
<1>15. ASSUME NEW kept \in BOOLEAN, WrapperRestart(kept) PROVE BindKnown /\ PendKnown
  BY <1>0, <1>15 DEF WrapperRestart, NoBinding
<1>16. ASSUME QuotaStep \/ HandOverFails PROVE UNCHANGED <<bind, pend>>
  BY <1>16, QuotaKeeps
<1> QED BY <1>4, <1>5, <1>7, <1>8, <1>9, <1>10, <1>11, <1>13, <1>14, <1>15, <1>16
        DEF Next, DaemonStep, WrapperStep, ProviderStep, ClientStep, FaultStep, vars,
            Admit, Resubmit, HandOver, Push, PushFails, SampleBusy, Register, HandleTransition,
            HandleTurnState, HandleReceipt, HandleReport, Interrupt, Pause, Unpause,
            ProviderStarts, ProviderIdles, ProviderReports, Disconnect, Notice, DaemonCrash

(* The provider's events are true.                                         *)
LEMMA EventsNext ==
  ASSUME TypeOK, RowInv, TruthInv, [Next]_vars, TrueEvents \subseteq TrueEvents',
         Created \subseteq Created'
  PROVE  events' \in Seq(TrueEvents') /\ late' \in Seq(TrueEvents')
<1> USE ExecutionConstants DEF TruthInv, ReportsTrue, store, delivery, control, handler,
        sockets, wrapper, provider, history
<1>0. /\ events \in Seq(TrueEvents') /\ late \in Seq(TrueEvents')
      /\ <<>> \in Seq(TrueEvents')
  BY SeqGrow
<1>1. CASE ReadInterrupt
  <2>1. UNCHANGED events \/ \E i \in 1..Len(queue) :
          events' = Append(events, [kind |-> "rejected", x |-> queue[i]])
    <3>1. Queued(Sub(Head(toWrapper).x)) \subseteq 1..Len(queue)
      BY DEF Queued, TypeOK
    <3> QED BY <1>1, <3>1 DEF ReadInterrupt
  <2>2. ASSUME NEW i \in 1..Len(queue)
        PROVE  [kind |-> "rejected", x |-> queue[i]] \in TrueEvents
    <3>1. queue[i] \in Created
      BY DEF WorkKnown
    <3> QED BY <3>1 DEF TrueEvents, Events, Created
  <2>3. events' \in Seq(TrueEvents')
    BY <1>0, <2>1, <2>2, SeqAppend
  <2> QED BY <1>0, <1>1, <2>3 DEF ReadInterrupt
<1>2. CASE ForwardStarted \/ ForwardDispatched \/ ForwardFinished \/ ForwardRejected
  <2>1. events # <<>> /\ events' = Tail(events) /\ UNCHANGED late
    BY <1>2 DEF ForwardStarted, ForwardDispatched, ForwardFinished, ForwardRejected, Forwards
  <2> QED BY <1>0, <2>1, SeqTake
<1>3. CASE ProviderStarts
  <2>1. Head(queue) \in Created
    BY <1>3, SeqTake DEF ProviderStarts, WorkKnown
  <2>2. Head(queue) \in Created' /\ Head(queue) \in prompted'
    BY <1>3, <2>1 DEF ProviderStarts
  <2>3. /\ [kind |-> "started", x |-> Head(queue)] \in TrueEvents'
        /\ [kind |-> "dispatched", x |-> Head(queue)] \in TrueEvents'
    BY <2>2 DEF TrueEvents, Events, Created
  <2>4. <<[kind |-> "started", x |-> Head(queue)],
          [kind |-> "dispatched", x |-> Head(queue)]>> \in Seq(TrueEvents')
    BY <2>3, SeqShort
  <2> QED BY <1>0, <1>3, <2>4, SeqConcat DEF ProviderStarts
<1>4. ASSUME NEW kind \in {"completed", "cancelled", "failed", "rejected"}, ProviderIdles(kind)
      PROVE  events' \in Seq(TrueEvents') /\ late' \in Seq(TrueEvents')
  <2>1. active \in Created /\ (kind = "completed" => active \in done')
    BY <1>4 DEF ProviderIdles, WorkKnown
  <2>2. [kind |-> kind, x |-> active] \in TrueEvents'
    BY <1>4, <2>1 DEF TrueEvents, Events, Created
  <2>3. <<[kind |-> kind, x |-> active]>> \in Seq(TrueEvents')
    BY <2>2, SeqShort
  <2> QED BY <1>0, <1>4, <2>3 DEF ProviderIdles
<1>5. CASE ProviderReports
  BY <1>0, <1>5, SeqConcat DEF ProviderReports
<1>6. ASSUME NEW kept \in BOOLEAN, WrapperRestart(kept)
      PROVE  events' \in Seq(TrueEvents') /\ late' \in Seq(TrueEvents')
  BY <1>0, <1>6 DEF WrapperRestart
<1>7. ASSUME UNCHANGED <<events, late>>
      PROVE  events' \in Seq(TrueEvents') /\ late' \in Seq(TrueEvents')
  BY <1>0, <1>7
<1>8. ASSUME QuotaStep \/ HandOverFails PROVE UNCHANGED <<events, late>>
  BY <1>8, QuotaKeeps
<1> QED BY <1>1, <1>2, <1>3, <1>4, <1>5, <1>6, <1>7, <1>8
        DEF Next, DaemonStep, WrapperStep, ProviderStep, ClientStep, FaultStep, vars,
            Admit, Resubmit, HandOver, Push, PushFails, SampleBusy, Register, HandleTransition,
            HandleTurnState, HandleReceipt, HandleReport, Interrupt, Pause, Unpause, ReadPlain,
            ReadIdempotent, InjectionFails, Disconnect, Notice, DaemonCrash

(* The wrapper's frames are true.                                          *)
LEMMA FramesNext ==
  ASSUME TypeOK, RowInv, TruthInv, [Next]_vars
  PROVE  toDaemon' \in Seq(TrueFrames)
<1> USE ExecutionConstants DEF TruthInv, ReportsTrue, store, delivery, control, handler,
        sockets, wrapper, provider, history
<1> DEFINE e == Head(events)
           f == Head(toWrapper)
<1>0. <<>> \in Seq(TrueFrames)
  OBVIOUS
<1>1. ASSUME NEW fs \in Seq(TrueFrames), Written(fs) PROVE toDaemon' \in Seq(TrueFrames)
  BY <1>1, SeqConcat DEF Written
<1>2. /\ \A b \in BOOLEAN : [kind |-> "turn", busy |-> b] \in TrueFrames
      /\ \A x \in Execs, b \in BOOLEAN :
           [kind |-> "report", x |-> x, accepted |-> b] \in TrueFrames
      /\ \A x \in Execs : [kind |-> "indeterminate", x |-> x] \in TrueFrames
      /\ \A x \in Execs, rev \in Nat :
           [kind |-> "state", x |-> x, from |-> "starting", rev |-> rev, to |-> "failed"]
             \in TrueFrames
  BY DEF TrueFrames, ToDaemon, Active, Terminal
<1>3. \A x \in Execs : PromptedWork(Sub(x)) => [kind |-> "acked", x |-> x] \in TrueFrames
  BY DEF TrueFrames, ToDaemon
<1>4. ASSUME NEW s \in Subs, NEW to \in Active \cup Terminal, to = "completed" => DoneWork(s)
      PROVE  StateFrames(s, to) \in Seq(TrueFrames)
  <2>1. CASE ~Publishes(s, to)
    BY <1>0, <2>1 DEF StateFrames
  <2>2. CASE Publishes(s, to)
    <3>1. bind[s].x \in Execs /\ Sub(bind[s].x) = s
      BY <2>2 DEF Publishes, Bound, BindingsKnown, Of
    <3>2. bind[s].state \in Active /\ bind[s].rev \in Nat
      <4>1. bind[s] \in Bindings /\ bind[s].x # None
        BY <2>2 DEF Publishes, Bound, TypeOK
      <4> QED BY <4>1 DEF Bindings, NoBinding
    <3>3. [kind |-> "state", x |-> bind[s].x, from |-> bind[s].state,
           rev |-> bind[s].rev, to |-> to] \in TrueFrames
      BY <1>4, <3>1, <3>2 DEF TrueFrames, ToDaemon
    <3> QED BY <2>2, <3>3, SeqShort DEF StateFrames
  <2> QED BY <2>1, <2>2
<1>5. ASSUME NEW s \in Subs, NEW to \in Active \cup Terminal, to = "completed" => DoneWork(s),
             NEW b \in BOOLEAN
      PROVE  TurnFrame(b) \o StateFrames(s, to) \in Seq(TrueFrames)
  <2>1. TurnFrame(b) \in Seq(TrueFrames)
    BY <1>2, SeqShort DEF TurnFrame
  <2> QED BY <1>4, <1>5, <2>1, SeqConcat
<1>6. ASSUME NEW kind, Reads(kind) PROVE f.x \in Execs /\ f.rev \in Nat /\ Sub(f.x) \in Subs
  BY <1>6, SeqTake DEF Reads, SentKnown, KnownFrames, Created, ToWrapper
<1>7. ASSUME NEW kinds, Forwards(kinds)
      PROVE  e \in TrueEvents /\ e.kind \in kinds /\ Sub(e.x) \in Subs
  BY <1>7, SeqTake DEF Forwards, TrueEvents, Created
<1>8. CASE Register
  <2>1. <<[kind |-> "turn", busy |-> sample]>> \in Seq(TrueFrames)
    BY <1>2, SeqShort DEF TypeOK
  <2> QED BY <1>8, <2>1 DEF Register
<1>9. CASE HandleTransition \/ HandleTurnState \/ HandleReceipt \/ HandleReport
  <2>1. toDaemon # <<>> /\ toDaemon' = Tail(toDaemon)
    BY <1>9 DEF HandleTransition, HandleTurnState, HandleReceipt, HandleReport, Incoming,
                Consumed
  <2> QED BY <2>1, SeqTake
<1>10. CASE ReadIdempotent
  <2>1. f.x \in Execs
    BY <1>6, <1>10 DEF ReadIdempotent
  <2>2. [kind |-> Answer(f.x), x |-> f.x] \in TrueFrames
    BY <1>2, <1>3, <2>1 DEF Answer, ReceiptsTrue
  <2>3. <<[kind |-> Answer(f.x), x |-> f.x]>> \in Seq(TrueFrames)
    BY <2>2, SeqShort
  <2>4. UNCHANGED toDaemon \/ Written(<<[kind |-> Answer(f.x), x |-> f.x]>>)
    BY <1>10 DEF ReadIdempotent
  <2> QED BY <1>1, <2>3, <2>4
<1>11. CASE InjectionFails
  <2>1. f.x \in Execs /\ f.rev \in Nat
    BY <1>6, <1>11 DEF InjectionFails
  <2>2. /\ <<[kind |-> "indeterminate", x |-> f.x]>> \in Seq(TrueFrames)
        /\ <<[kind |-> "state", x |-> f.x, from |-> "starting", rev |-> f.rev,
              to |-> "failed"]>> \in Seq(TrueFrames)
    BY <1>2, <2>1, SeqShort
  <2>3. \/ Written(<<[kind |-> "indeterminate", x |-> f.x]>>)
        \/ Written(<<[kind |-> "state", x |-> f.x, from |-> "starting", rev |-> f.rev,
                      to |-> "failed"]>>)
    BY <1>11 DEF InjectionFails
  <2> QED BY <1>1, <2>2, <2>3
<1>12. CASE ReadInterrupt
  <2> DEFINE report(b) == <<[kind |-> "report", x |-> f.x, accepted |-> b]>>
             told == StateFrames(Sub(f.x), "interrupting") \o report(TRUE)
  <2>1. f.x \in Execs /\ Sub(f.x) \in Subs
    BY <1>6, <1>12 DEF ReadInterrupt
  <2>2. \A b \in BOOLEAN : report(b) \in Seq(TrueFrames)
    BY <1>2, <2>1, SeqShort
  <2>3. told \in Seq(TrueFrames)
    <3>1. StateFrames(Sub(f.x), "interrupting") \in Seq(TrueFrames)
      BY <1>4, <2>1 DEF Active
    <3> QED BY <2>2, <3>1, SeqConcat
  <2>4. Written(report(FALSE)) \/ Written(told)
    BY <1>12 DEF ReadInterrupt
  <2> HIDE DEF told, report
  <2> QED BY <1>1, <2>2, <2>3, <2>4
<1>13. CASE ForwardStarted
  <2>1. Sub(e.x) \in Subs
    BY <1>7, <1>13 DEF ForwardStarted
  <2>2. TurnFrame(TRUE) \o StateFrames(Sub(e.x), "running") \in Seq(TrueFrames)
    BY <1>5, <2>1 DEF Active
  <2> QED BY <1>1, <1>13, <2>2 DEF ForwardStarted
<1>14. CASE ForwardDispatched
  <2>1. e \in TrueEvents /\ e.kind = "dispatched" /\ Sub(e.x) \in Subs
    BY <1>7, <1>14 DEF ForwardDispatched
  <2>2. PromptedWork(Sub(e.x))
    BY <2>1 DEF TrueEvents, PromptedWork
  <2>3. CASE pend[Sub(e.x)] # <<>>
    <3>1. Head(pend[Sub(e.x)]) \in Of(Sub(e.x))
      BY <2>1, <2>3, SeqTake DEF BindingsKnown
    <3>2. [kind |-> "acked", x |-> Head(pend[Sub(e.x)])] \in TrueFrames
      BY <1>3, <2>2, <3>1 DEF Of
    <3>3. <<[kind |-> "acked", x |-> Head(pend[Sub(e.x)])]>> \in Seq(TrueFrames)
      BY <3>2, SeqShort
    <3> QED BY <1>1, <1>14, <2>3, <3>3 DEF ForwardDispatched
  <2>4. CASE pend[Sub(e.x)] = <<>>
    BY <1>14, <2>4 DEF ForwardDispatched
  <2> QED BY <2>3, <2>4
<1>15. CASE ForwardFinished
  <2>1. /\ e \in TrueEvents /\ e.kind \in {"completed", "cancelled", "failed"}
        /\ Sub(e.x) \in Subs
    BY <1>7, <1>15 DEF ForwardFinished
  <2>2. Outcome[e.kind] \in Active \cup Terminal
    BY <2>1 DEF Outcome, Terminal
  <2>3. Outcome[e.kind] = "completed" => DoneWork(Sub(e.x))
    BY <2>1 DEF Outcome, TrueEvents, DoneWork
  <2>4. TurnFrame(active # None) \o StateFrames(Sub(e.x), Outcome[e.kind]) \in Seq(TrueFrames)
    BY <1>5, <2>1, <2>2, <2>3
  <2> QED BY <1>1, <1>15, <2>4 DEF ForwardFinished
<1>16. CASE ForwardRejected
  <2> DEFINE lost == IF pend[Sub(e.x)] = <<>> THEN <<>>
                     ELSE <<[kind |-> "indeterminate", x |-> Head(pend[Sub(e.x)])]>>
             told == TurnFrame(active # None) \o StateFrames(Sub(e.x), "failed") \o lost
  <2>1. Sub(e.x) \in Subs
    BY <1>7, <1>16 DEF ForwardRejected
  <2>2. lost \in Seq(TrueFrames)
    <3>1. pend[Sub(e.x)] # <<>> => Head(pend[Sub(e.x)]) \in Execs
      BY <2>1, SeqTake DEF TypeOK
    <3> QED BY <1>0, <1>2, <3>1, SeqShort
  <2>3. TurnFrame(active # None) \o StateFrames(Sub(e.x), "failed") \in Seq(TrueFrames)
    BY <1>5, <2>1 DEF Terminal
  <2>4. told \in Seq(TrueFrames)
    <3> HIDE DEF lost
    <3> QED BY <2>2, <2>3, SeqConcat
  <2>5. Written(told) \/ UNCHANGED toDaemon
    BY <1>16 DEF ForwardRejected
  <2> HIDE DEF told
  <2> QED BY <1>1, <2>4, <2>5
<1>17. CASE Disconnect \/ DaemonCrash \/ \E kept \in BOOLEAN : WrapperRestart(kept)
  BY <1>0, <1>17 DEF Disconnect, DaemonCrash, WrapperRestart, Cut
<1>18. ASSUME UNCHANGED toDaemon PROVE toDaemon' \in Seq(TrueFrames)
  BY <1>18
<1>19. ASSUME QuotaStep \/ HandOverFails PROVE UNCHANGED toDaemon
  BY <1>19, QuotaKeeps
<1> QED BY <1>8, <1>9, <1>10, <1>11, <1>12, <1>13, <1>14, <1>15, <1>16, <1>17, <1>18, <1>19
        DEF Next, DaemonStep, WrapperStep, ProviderStep, ClientStep, FaultStep, vars,
            Admit, Resubmit, HandOver, Push, PushFails, SampleBusy, Interrupt, Pause, Unpause,
            ReadPlain, ProviderStarts, ProviderIdles, ProviderReports, Notice

(* A receipt says acked only of work that was prompted.                    *)
LEMMA ReceiptsNext ==
  ASSUME TypeOK, RowInv, TruthInv, [Next]_vars, NEW x \in Execs, receipt'[x] = "acked"
  PROVE  PromptedWork(Sub(x))
<1> USE ExecutionConstants DEF TruthInv, ReceiptsTrue, store, delivery, control, handler,
        sockets, wrapper, provider, history
<1>1. CASE ReadIdempotent \/ InjectionFails
  <2>1. UNCHANGED receipt \/ receipt' = [receipt EXCEPT ![Head(toWrapper).x] = "seen"]
    BY <1>1 DEF ReadIdempotent, InjectionFails
  <2> QED BY <2>1 DEF TypeOK
<1>2. CASE ForwardDispatched
  <2> DEFINE e == Head(events)
  <2>1. e \in TrueEvents /\ e.kind = "dispatched"
    BY <1>2, SeqTake DEF ForwardDispatched, Forwards, ReportsTrue
  <2>2. PromptedWork(Sub(e.x)) /\ Sub(e.x) \in Subs
    BY <2>1 DEF TrueEvents, Created, PromptedWork
  <2>3. CASE pend[Sub(e.x)] # <<>>
    <3>1. Head(pend[Sub(e.x)]) \in Of(Sub(e.x))
      BY <2>2, <2>3, SeqTake DEF BindingsKnown
    <3>2. receipt' = [receipt EXCEPT ![Head(pend[Sub(e.x)])] = "acked"]
      BY <1>2, <2>3 DEF ForwardDispatched
    <3> QED BY <2>2, <3>1, <3>2 DEF Of, TypeOK
  <2>4. CASE pend[Sub(e.x)] = <<>>
    BY <1>2, <2>4 DEF ForwardDispatched
  <2> QED BY <2>3, <2>4
<1>3. ASSUME NEW kept \in BOOLEAN, WrapperRestart(kept) PROVE PromptedWork(Sub(x))
  BY <1>3 DEF WrapperRestart
<1>4. ASSUME UNCHANGED receipt PROVE PromptedWork(Sub(x))
  BY Zenon, <1>4
<1>5. ASSUME QuotaStep \/ HandOverFails PROVE UNCHANGED receipt
  BY <1>5, QuotaKeeps
<1> QED BY <1>1, <1>2, <1>3, <1>4, <1>5
        DEF Next, DaemonStep, WrapperStep, ProviderStep, ClientStep, FaultStep, vars,
            Admit, Resubmit, HandOver, Push, PushFails, SampleBusy, Register, HandleTransition,
            HandleTurnState, HandleReceipt, HandleReport, Interrupt, Pause, Unpause, ReadPlain,
            ReadInterrupt, ForwardStarted, ForwardFinished, ForwardRejected, Forwards,
            ProviderStarts, ProviderIdles, ProviderReports, Disconnect, Notice, DaemonCrash

(* A delivery is of an execution that exists, and acked only if its work   *)
(* was prompted.                                                           *)
LEMMA DeliveriesNext ==
  ASSUME TypeOK, RowInv, TruthInv, [Next]_vars, NEW x \in Execs
  PROVE  /\ dlv'[x] # "none" => x \in Created
         /\ dlv'[x] = "acked" => PromptedWork(Sub(x))
<1> USE ExecutionConstants DEF TruthInv, WorkKnown, AckedWorkWasPrompted, store, delivery,
        control, handler, sockets, wrapper, provider, history
<1>1. CASE HandOver
  <2>1. handing \in Created
    BY <1>1 DEF HandOver, RowInv, Numbered, Created, TypeOK
  <2>2. dlv' = dlv \/ dlv' = [dlv EXCEPT ![handing] = "dispatching"]
    BY <1>1 DEF HandOver
  <2>3. dlv'[x] = dlv[x] \/ (x = handing /\ dlv'[x] = "dispatching")
    BY <2>2 DEF TypeOK
  <2> QED BY <2>1, <2>3
<1>2. CASE HandleReceipt
  <2> DEFINE f == Head(toDaemon)
  <2>1. f \in TrueFrames
    BY <1>2, SeqTake DEF HandleReceipt, Incoming, ReportsTrue
  <2>2. dlv'[x] = dlv[x] \/ (x = f.x /\ dlv[x] = "dispatching" /\ dlv'[x] = f.kind)
    BY <1>2 DEF HandleReceipt, TypeOK
  <2> QED BY <2>1, <2>2 DEF TrueFrames
<1>3. ASSUME UNCHANGED dlv
      PROVE  (dlv'[x] # "none" => x \in Created) /\ (dlv'[x] = "acked" => PromptedWork(Sub(x)))
  BY <1>3
<1>4. CASE HandOverFails
  <2>1. handing \in Created
    BY <1>4 DEF HandOverFails, RowInv, Numbered, Created, TypeOK
  <2>2. dlv' = dlv \/ \E to \in {"dispatching", "indeterminate"} :
                        dlv' = [dlv EXCEPT ![handing] = to]
    BY Zenon, <1>4 DEF HandOverFails
  <2>3. dlv'[x] = dlv[x] \/ (x = handing /\ dlv'[x] # "acked")
    BY <2>2 DEF TypeOK
  <2> QED BY <2>1, <2>3
<1>5. ASSUME NEW y \in Execs, FailsQuota(y)
      PROVE  (dlv'[x] # "none" => x \in Created) /\ (dlv'[x] = "acked" => PromptedWork(Sub(x)))
  <2>1. dlv'[x] = dlv[x] \/ (dlv[x] = "dispatching" /\ dlv'[x] = "indeterminate")
    BY <1>5 DEF FailsQuota, Dispatching
  <2> QED BY <2>1
<1>6. ASSUME QuotaStep
      PROVE  (dlv'[x] # "none" => x \in Created) /\ (dlv'[x] = "acked" => PromptedWork(Sub(x)))
  <2>1. UNCHANGED dlv \/ \E y \in Execs : FailsQuota(y)
    BY <1>6 DEF QuotaStep, Qualify, ClaimsQuota, ReconstructQuotaFailed, RedeliversQuota,
                SettlesQuota, Ticks
  <2> QED BY <1>3, <1>5, <2>1
<1> QED BY ZenonT(30), <1>1, <1>2, <1>3, <1>4, <1>6
        DEF Next, DaemonStep, WrapperStep, ProviderStep, ClientStep, FaultStep, vars,
            Admit, Resubmit, Push, PushFails, SampleBusy, Register, HandleTransition,
            HandleTurnState, HandleReport, Interrupt, Pause, Unpause, ReadPlain,
            ReadIdempotent, InjectionFails, ReadInterrupt, ForwardStarted, ForwardDispatched,
            ForwardFinished, ForwardRejected, Forwards, ProviderStarts, ProviderIdles,
            ProviderReports, Disconnect, Notice, DaemonCrash, WrapperRestart

(* A row becomes completed only by a frame that says so.                   *)
LEMMA RowsTrue ==
  ASSUME TypeOK, RowInv, TruthInv, [Next]_vars, NEW x \in Execs,
         exec'[x].state = "completed"
  PROVE  DoneWork(Sub(x))
<1> USE ExecutionConstants DEF TruthInv, CompletedWorkWasDone
<1>1. CASE UNCHANGED <<exec, last>>
  BY <1>1
<1>2. ASSUME NEW s \in Subs, NEW keyed \in BOOLEAN, Admit(s, keyed) PROVE exec'[x] = exec[x]
  <2>1. exec'[x] = exec[x] \/ exec'[x].state = "starting"
    BY <1>2 DEF Admit, TypeOK
  <2> QED BY <2>1
<1>3. ASSUME NEW y \in Execs, Rebuilt(y) PROVE exec'[x] = exec[x]
  <2>1. exec'[x] \in {exec[x], ChildOf(y), ClosedBy(y)}
    BY <1>3 DEF Rebuilt, Reconstruct, TypeOK
  <2>2. ChildOf(y).state # "completed" /\ ClosedBy(y).state # "completed"
    BY DEF ChildOf, ClosedBy, Moved
  <2> QED BY <2>1, <2>2
<1>4. ASSUME NEW y \in Execs, Shifted(y) PROVE exec'[x] = exec[x] \/ DoneWork(Sub(x))
  <2>1. PICK from \in Active, rev \in Nat, to \in Active \cup Terminal :
          /\ TransitionIfCurrent(y, from, rev, to)
          /\ to = "completed" =>
               \E f \in ToDaemon : /\ toDaemon # <<>> /\ f = Head(toDaemon) /\ f.x = y
                                   /\ f.kind = "state" /\ f.to = "completed"
    BY <1>4 DEF Shifted
  <2>2. exec'[x] = exec[x] \/ (x = y /\ exec'[x].state = to)
    BY <2>1 DEF TransitionIfCurrent, Moved, TypeOK
  <2>3. CASE x = y /\ to = "completed"
    <3>1. PICK f \in ToDaemon : /\ toDaemon # <<>> /\ f = Head(toDaemon) /\ f.x = y
                                /\ f.kind = "state" /\ f.to = "completed"
      BY <2>1, <2>3
    <3>2. f \in TrueFrames
      BY <3>1, SeqTake DEF ReportsTrue
    <3> QED BY <2>3, <3>1, <3>2 DEF TrueFrames
  <2> QED BY <2>2, <2>3
<1>5. ASSUME NEW y \in Execs, ReconstructQuotaFailed(y) PROVE exec'[x] = exec[x]
  <2>1. exec'[x] \in {exec[x], ChildOf(y)}
    BY <1>5 DEF ReconstructQuotaFailed, TypeOK
  <2>2. ChildOf(y).state # "completed"
    BY DEF ChildOf
  <2> QED BY <2>1, <2>2
<1> QED BY <1>1, <1>2, <1>3, <1>4, <1>5, RowCases

(* The invariants hold at first and every step keeps them.                 *)
LEMMA TruthInit == Init => TruthInv
<1> SUFFICES ASSUME Init PROVE TruthInv
  OBVIOUS
<1> USE ExecutionConstants DEF Init
<1>1. \A S : <<>> \in Seq(S)
  OBVIOUS
<1>2. SentKnown /\ WorkKnown
  BY <1>1 DEF SentKnown, WorkKnown
<1>3. BindingsKnown /\ ReportsTrue
  BY <1>1 DEF BindingsKnown, ReportsTrue, NoBinding
<1>4. ReceiptsTrue /\ CompletedWorkWasDone /\ AckedWorkWasPrompted
  BY DEF ReceiptsTrue, CompletedWorkWasDone, AckedWorkWasPrompted, NoRow
<1> QED BY <1>2, <1>3, <1>4 DEF TruthInv

(* Every step keeps the reports, bindings and receipts true of the turns. *)
LEMMA TruthNext == ASSUME TypeOK, RowInv, TruthInv, [Next]_vars PROVE TruthInv'
<1>1. Grows
  BY StepGrows
<1>2. /\ Created \subseteq Created' /\ KnownFrames \subseteq KnownFrames'
      /\ \A s \in Subs : Of(s) \subseteq Of(s)'
      /\ \A x \in Execs : DoneWork(Sub(x)) => DoneWork(Sub(x))'
      /\ \A x \in Execs : PromptedWork(Sub(x)) => PromptedWork(Sub(x))'
      /\ TrueEvents \subseteq TrueEvents' /\ TrueFrames \subseteq TrueFrames'
  BY <1>1, TruthGrows DEF TruthInv
<1>3. SentKnown'
  <2>1. outbox' \in Seq(KnownFrames') /\ toWrapper' \in Seq(KnownFrames')
    BY <1>2, SentNext, SeqGrow
  <2> QED BY <2>1 DEF SentKnown
<1>4. WorkKnown'
  <2>1. queue' \in Seq(Created')
    BY <1>2, WorkNext, SeqGrow
  <2>2. active' \in Created' \cup {None} /\ done' \subseteq Created' /\ prompted' \subseteq Created'
    BY <1>2, WorkNext
  <2>3. \A x \in Execs : dlv'[x] # "none" => x \in Created'
    BY <1>2, DeliveriesNext
  <2> QED BY <2>1, <2>2, <2>3 DEF WorkKnown
<1>5. BindingsKnown'
  <2>1. \A s \in Subs : bind'[s].x # None => bind'[s].x \in Of(s)'
    BY <1>2, BindingsNext
  <2>2. \A s \in Subs : pend'[s] \in Seq(Of(s)')
    BY <1>2, BindingsNext, SeqGrow
  <2> QED BY <2>1, <2>2 DEF BindingsKnown
<1>6. ReportsTrue'
  <2>1. toDaemon' \in Seq(TrueFrames')
    BY <1>2, FramesNext, SeqGrow
  <2> QED BY <1>2, <2>1, EventsNext DEF ReportsTrue
<1>7. ReceiptsTrue'
  BY <1>2, ReceiptsNext DEF ReceiptsTrue
<1>8. CompletedWorkWasDone'
  BY <1>2, RowsTrue DEF CompletedWorkWasDone
<1>9. AckedWorkWasPrompted'
  BY <1>2, DeliveriesNext DEF AckedWorkWasPrompted
<1> QED BY <1>3, <1>4, <1>5, <1>6, <1>7, <1>8, <1>9 DEF TruthInv

(* Every step keeps the types. *)
LEMMA TypeNext == ASSUME TypeOK, TruthInv, [Next]_vars PROVE TypeOK'
<1>1. events \in Seq(TrueEvents)
  BY DEF TruthInv, ReportsTrue
<1> QED BY <1>1, TypeAdmission, TypeHandlers, TypeControls, TypeReads, TypeForwards, TypeRest,
           TypeQuota
        DEF Next, DaemonStep, WrapperStep, ProviderStep, ClientStep, FaultStep

-----------------------------------------------------------------------------
(* Theorems.                                                               *)

IInv == TypeOK /\ RowInv /\ TruthInv

(* The inductive invariant holds in every state.                           *)
THEOREM Inductive == Spec => []IInv
<1>1. Init => IInv
  BY TypeInit, RowInit, TruthInit DEF IInv
<1>2. ASSUME IInv, [Next]_vars PROVE IInv'
  BY <1>2, TypeNext, RowNext, TruthNext DEF IInv
<1> QED BY <1>1, <1>2, PTL DEF Spec

(* Every variable of the daemon, the wrapper and the provider keeps its    *)
(* type.                                                                   *)
THEOREM TypeCorrect == Spec => []TypeOK
<1>1. IInv => TypeOK
  BY DEF IInv
<1> QED BY <1>1, Inductive, PTL

(* Whatever the pauses, reconnections and stops, a submission never has    *)
(* two executions that are not over.                                       *)
THEOREM OneLive == Spec => []OneLiveExecution
<1>1. IInv => OneLiveExecution
  BY DEF IInv, RowInv
<1> QED BY <1>1, Inductive, PTL

(* An execution is continued only after a fault it lived through, a pause  *)
(* that interrupted it or a qualified failure on a usage limit, and once.  *)
THEOREM RerunSafe == Spec => []RerunNeedsLoss
<1>1. IInv => RerunNeedsLoss
  BY DEF IInv, RowInv
<1> QED BY <1>1, Inductive, PTL

(* A row is shown completed only if a turn of its submission ended.        *)
THEOREM CompletedTrue == Spec => []CompletedWorkWasDone
<1>1. IInv => CompletedWorkWasDone
  BY DEF IInv, TruthInv
<1> QED BY <1>1, Inductive, PTL

(* A delivery is acknowledged only if a prompt of its submission was       *)
(* written.                                                                *)
THEOREM AckedTrue == Spec => []AckedWorkWasPrompted
<1>1. IInv => AckedWorkWasPrompted
  BY DEF IInv, TruthInv
<1> QED BY <1>1, Inductive, PTL

(* No step leaves a terminal state, late frames included.                  *)
THEOREM TerminalFinal == Spec => TerminalIsFinal
<1>1. ASSUME IInv, [Next]_vars
      PROVE  [\A x \in Execs : exec[x].state \in Terminal => exec'[x].state = exec[x].state]_vars
  <2>0. last \in Nat /\ (\A x \in Execs : exec[x].state \in Terminal => x # last + 1)
    BY <1>1, ExecutionConstants DEF IInv, RowInv, Numbered, TypeOK, Execs, Terminal
  <2>1. SUFFICES ASSUME NEW x \in Execs, exec[x].state \in Terminal
                 PROVE  exec'[x].state = exec[x].state
    OBVIOUS
  <2>2. x # last + 1 /\ exec[x].state \notin Active
    BY <2>0, <2>1 DEF Terminal, Active
  <2>3. CASE UNCHANGED <<exec, last>>
    BY <2>3
  <2>4. ASSUME NEW s \in Subs, NEW keyed \in BOOLEAN, Admit(s, keyed)
        PROVE  exec'[x] = exec[x]
    BY <1>1, <2>2, <2>4 DEF Admit, IInv, TypeOK
  <2>5. ASSUME NEW y \in Execs, Rebuilt(y) PROVE exec'[x].state = exec[x].state
    <3>1. exec' = [exec EXCEPT ![y] = ClosedBy(y), ![last + 1] = ChildOf(y)] /\ Closable(y)
      BY <2>5 DEF Rebuilt, Reconstruct
    <3>2. x = y => ClosedBy(y).state = exec[x].state
      BY <2>2, <3>1 DEF Closable, Live, ClosedBy, Moved
    <3> QED BY <1>1, <2>2, <3>1, <3>2 DEF IInv, TypeOK
  <2>6. ASSUME NEW y \in Execs, Shifted(y) PROVE exec'[x] = exec[x]
    BY <1>1, <2>2, <2>6 DEF Shifted, TransitionIfCurrent, IInv, TypeOK
  <2>7. ASSUME NEW y \in Execs, ReconstructQuotaFailed(y) PROVE exec'[x] = exec[x]
    BY <1>1, <2>2, <2>7 DEF ReconstructQuotaFailed, IInv, TypeOK
  <2> QED BY <1>1, <2>3, <2>4, <2>5, <2>6, <2>7, RowCases DEF IInv
<1> QED BY <1>1, Inductive, PTL DEF Spec, TerminalIsFinal
=============================================================================
