----------------------------- MODULE Execution -----------------------------
(***************************************************************************)
(* The durable executions of ONE agent: the turns its submissions start,   *)
(* how the wrapper reports them, how the daemon interrupts them for a      *)
(* pause and how it resumes them after a pause or a reconnection.          *)
(*                                                                         *)
(*   daemon, durable   exec     rows of executions                         *)
(*                     quota    the wait of a mission whose turn failed on *)
(*                              a usage limit, by execution                *)
(*                     dlv, home  the linked send_deliveries and the       *)
(*                              wrapper instance they are addressed to     *)
(*                     pause    rows of control_pause_interruptions        *)
(*                     paused   the referent's pause                       *)
(*                     cmd      the last control command on an execution   *)
(*   daemon, volatile  busy     presence.busy_since.is_some()              *)
(*                     handing  the execution a handler, still holding the *)
(*                              State mutex, has yet to hand over          *)
(*                     outbox   controls deferred until the mutex is free  *)
(*                     failing  plain deliveries whose write failed        *)
(*   socket            link, toWrapper, toDaemon                           *)
(*   wrapper, durable  inst     its instance id                            *)
(*                     receipt  delivery receipts of that instance         *)
(*   wrapper, volatile bind     execution_bindings, by message             *)
(*                     pend     IdempotentDeliveryTracker.pending          *)
(*                     loop     where the session loop is                  *)
(*   provider          queue, active, cancelled, late, events              *)
(*   history           done     executions whose turn came to its end      *)
(*                     prompted executions whose prompt was written        *)
(*                     shaken   executions that lived through a fault      *)
(*                                                                         *)
(* A submission is its message: the wrapper and the provider know a turn   *)
(* by the message id only. waiting_approval, waiting_user_input and the    *)
(* steering of a turn are left out; of native missions only the relaunch   *)
(* after a usage limit is kept. A managed wrapper always attests its turns *)
(* (turn_attest).                                                          *)
(***************************************************************************)
EXTENDS Naturals, Sequences, FiniteSets

CONSTANTS Subs,       \* submissions (messages that trigger a turn)
          MaxExecs,   \* bound of the model: executions ever created
          MaxFaults,  \* bound of the model: lost links, crashes, restarts, refusals
          MaxPauses,  \* bound of the model: pauses of the control
          MaxRounds,  \* relaunches after a usage limit, 2 in the code
          MaxUpsets,  \* bound of the model: pauses and relaunches together
          None

ASSUME ExecutionConstants ==
  /\ MaxExecs \in Nat /\ MaxFaults \in Nat /\ MaxPauses \in Nat
  /\ MaxRounds \in Nat /\ MaxUpsets \in Nat
  /\ None \notin Subs \cup Nat

VARIABLES exec, last, quota, dlv, home, pause, paused, cmd, busy, handing, outbox,
          failing, link, sample, toWrapper, toDaemon, inst, receipt, bind, pend, loop,
          queue, active, cancelled, late, events, done, prompted, shaken,
          faults, pauses

store    == <<exec, last, quota>>
delivery == <<dlv, home>>
control  == <<pause, paused, cmd, pauses>>
handler  == <<handing, outbox, failing>>
sockets  == <<link, sample, toWrapper, toDaemon>>
wrapper  == <<inst, receipt, bind, pend, loop>>
provider == <<queue, active, cancelled, late, events>>
history  == <<done, prompted, shaken>>
vars == <<exec, last, quota, dlv, home, pause, paused, cmd, busy, handing, outbox,
          failing, link, sample, toWrapper, toDaemon, inst, receipt, bind, pend, loop,
          queue, active, cancelled, late, events, done, prompted, shaken,
          faults, pauses>>

Execs == 1..MaxExecs
Active == {"starting", "running", "interrupting"}
Terminal == {"interrupted", "completed", "failed", "unreachable"}
Rows == [state : {"unused"} \cup Active \cup Terminal, gen : Nat, rev : Nat,
         sub : Subs \cup {None}, keyed : BOOLEAN, parent : Execs \cup {None}]
NoRow == [state |-> "unused", gen |-> 0, rev |-> 0, sub |-> None, keyed |-> FALSE,
          parent |-> None]
NoBinding == [x |-> None, state |-> "none", rev |-> 0]
Bindings == {NoBinding} \cup [x : Execs, state : Active, rev : Nat]

(* Frames of the two directions and events of the provider.                *)
Frame(kind, x) == [kind |-> kind, x |-> x, rev |-> exec[x].rev]
ToWrapper == [kind : {"plain", "idempotent", "interrupt"}, x : Execs, rev : Nat]
ToDaemon == [kind : {"turn"}, busy : BOOLEAN]
            \cup [kind : {"state"}, x : Execs, from : Active, rev : Nat,
                  to : Active \cup Terminal]
            \cup [kind : {"acked", "indeterminate"}, x : Execs]
            \cup [kind : {"report"}, x : Execs, accepted : BOOLEAN]
Events == [kind : {"started", "dispatched", "rejected", "completed", "cancelled",
                   "failed"}, x : Execs]

Live(x) == exec[x].state \in Active
Admitted(s) == \E x \in Execs : exec[x].sub = s
Sub(x) == exec[x].sub
Bound == {s \in Subs : bind[s].x # None}

(* One frame for each execution of S, the oldest first (the only element). *)
InOrder(S) == {q \in [1..Cardinality(S) -> S] :
                 \A i, j \in 1..Cardinality(S) : i < j => q[i] < q[j]}
Batch(kind, S) == {[i \in 1..Cardinality(S) |-> Frame(kind, q[i])] : q \in InOrder(S)}

Init == /\ exec = [x \in Execs |-> NoRow] /\ last = 0
        /\ quota = [x \in Execs |-> "none"]
        /\ dlv = [x \in Execs |-> "none"] /\ home = [x \in Execs |-> 0]
        /\ pause = [x \in Execs |-> "none"] /\ paused = FALSE
        /\ cmd = [x \in Execs |-> "none"]
        /\ busy = FALSE /\ handing = None /\ outbox = <<>> /\ failing = {}
        /\ link = "down" /\ sample = FALSE /\ toWrapper = <<>> /\ toDaemon = <<>>
        /\ inst = 1 /\ receipt = [x \in Execs |-> "none"]
        /\ bind = [s \in Subs |-> NoBinding] /\ pend = [s \in Subs |-> <<>>]
        /\ loop = "drain"
        /\ queue = <<>> /\ active = None /\ cancelled = FALSE /\ late = <<>>
        /\ events = <<>>
        /\ done = {} /\ prompted = {} /\ shaken = {}
        /\ faults = 0 /\ pauses = 0

-----------------------------------------------------------------------------
(* Admission and hand-over.                                                *)

(* admit_starting_message: one transaction writes the submission and its   *)
(* first execution; the handler then goes on to deliver it. The send came  *)
(* with an idempotency key or without.                                     *)
Admit(s, keyed) ==
  /\ handing = None /\ link = "up"
  /\ ~Admitted(s) /\ last < MaxExecs
  /\ last' = last + 1
  /\ exec' = [exec EXCEPT ![last + 1] = [state |-> "starting", gen |-> 1, rev |-> 0,
                                         sub |-> s, keyed |-> keyed, parent |-> None]]
  /\ handing' = last + 1
  /\ UNCHANGED <<quota, delivery, control, busy, outbox, failing, sockets, wrapper, provider,
                 history, faults>>

(* The client retries a send whose daemon stopped before the delivery was  *)
(* written: the admitted execution is linked if it is still open.          *)
Resubmit(x) ==
  /\ handing = None /\ link = "up"
  /\ Live(x) /\ exec[x].parent = None /\ exec[x].keyed
  /\ dlv[x] = "none"
  /\ handing' = x
  /\ UNCHANGED <<store, delivery, control, busy, outbox, failing, sockets, wrapper, provider,
                 history, faults>>

(* The delivery of the execution: a plain frame, or a durable delivery     *)
(* linked to the execution (begin_send_delivery_with_execution).           *)
HandOver ==
  /\ handing # None
  /\ handing' = None
  /\ LET plain == ~exec[handing].keyed IN
     /\ dlv' = IF plain THEN dlv ELSE [dlv EXCEPT ![handing] = "dispatching"]
     /\ home' = IF plain THEN home ELSE [home EXCEPT ![handing] = inst]
     /\ outbox' = IF link # "up" THEN outbox
                  ELSE Append(outbox, Frame(IF plain THEN "plain" ELSE "idempotent", handing))
     /\ failing' = IF plain /\ link # "up" THEN failing \cup {handing} ELSE failing
  /\ UNCHANGED <<store, control, busy, sockets, wrapper, provider, history, faults>>

(* The delivery of a reconstructed execution is refused or fails: before   *)
(* anything is written of it, or after. The execution stays as it is.      *)
HandOverFails ==
  /\ faults < MaxFaults /\ faults' = faults + 1
  /\ handing # None /\ exec[handing].parent # None
  /\ handing' = None
  /\ \/ UNCHANGED delivery
     \/ /\ dlv' = [dlv EXCEPT ![handing] = IF quota[exec[handing].parent] = "resumed"
                                           THEN "dispatching" ELSE "indeterminate"]
        /\ home' = [home EXCEPT ![handing] = inst]
  /\ UNCHANGED <<store, control, busy, outbox, failing, sockets, wrapper, provider, history>>

(* The deferred controls are written once the State mutex is released.     *)
Push ==
  /\ outbox # <<>> /\ link = "up"
  /\ toWrapper' = Append(toWrapper, Head(outbox)) /\ outbox' = Tail(outbox)
  /\ UNCHANGED <<store, delivery, control, busy, handing, failing, link, sample,
                 toDaemon, wrapper, provider, history, faults>>

(* A row moves to another state at its next revision.                      *)
Moved(row, to) == [state |-> to, gen |-> row.gen, rev |-> row.rev + 1, sub |-> row.sub,
                   keyed |-> row.keyed, parent |-> row.parent]

\* Faulty variant: nothing is compared.
TransitionIfCurrent_Unconditional(x, from, rev, to) ==
  exec' = [exec EXCEPT ![x] = Moved(@, to)]

(* Compare and set on state and revision (an execution keeps the           *)
(* generation it was created with).                                        *)
TransitionIfCurrent(x, from, rev, to) ==
  exec' = IF exec[x].state = from /\ exec[x].rev = rev
          THEN [exec EXCEPT ![x] = Moved(@, to)]
          ELSE exec

(* The write of a plain delivery failed.                                   *)
PushFails(x) ==
  /\ handing = None /\ x \in failing
  /\ failing' = failing \ {x}
  /\ TransitionIfCurrent(x, "starting", 0, "unreachable")
  /\ UNCHANGED <<last, quota, delivery, control, busy, handing, outbox, sockets, wrapper,
                 provider, history, faults>>

-----------------------------------------------------------------------------
(* Recovery.                                                               *)

Pending == {x \in Execs : pause[x] = "pending"}

Candidates == {x \in Execs : Live(x)} \cup Pending
Dispatching == {x \in Execs : dlv[x] = "dispatching"}

(* reconstruct_active_for_agent closes the parent and creates its child in *)
(* one transaction; a parent that is neither active nor interrupted by a   *)
(* pause makes it fail.                                                    *)
Closable(x) == Live(x) \/ (exec[x].state = "interrupted" /\ x \in Pending)

ClosedBy(x) == Moved(exec[x], IF exec[x].state = "interrupted" THEN "interrupted"
                              ELSE "unreachable")
ChildOf(x) == [state |-> "starting", gen |-> exec[x].gen + 1, rev |-> 0, sub |-> Sub(x),
               keyed |-> TRUE, parent |-> x]

\* Faulty variant: the parent is not closed.
Reconstruct_ParentOpen(x) ==
  /\ last' = last + 1
  /\ exec' = [exec EXCEPT ![last + 1] = ChildOf(x)]
  /\ pause' = [pause EXCEPT ![x] = IF @ = "pending" THEN "resumed" ELSE @]
  /\ handing' = last + 1

Reconstruct(x) ==
  /\ last' = last + 1
  /\ exec' = [exec EXCEPT ![x] = ClosedBy(x), ![last + 1] = ChildOf(x)]
  /\ pause' = [pause EXCEPT ![x] = IF @ = "pending" THEN "resumed" ELSE @]
  /\ handing' = last + 1

(* schedule_execution_recovery for an idle agent. A unique candidate whose *)
(* delivery is still dispatching is not replaced: its delivery is replayed *)
(* to the current instance, with all those of the instance it was meant    *)
(* for. A paused control reserves no continuation, and a mission is not    *)
(* resumed while it waits for a usage limit or once it has failed. An      *)
(* unreadable message closes the execution without a child. Whatever the   *)
(* candidate, the resumption guards of a mission, the specialists' budget  *)
(* or a storage error may leave all as it is. sent are the deliveries the  *)
(* caller has sent again already.                                          *)
Resumable == \A x \in Execs : quota[x] \in {"none", "done"}

At(i) == {x \in Dispatching : home[x] = i}

Adopts(x) == Resumable /\ Candidates = {x} /\ x \in Dispatching \ At(inst)

Governed(x, frozen) == Resumable /\ Candidates = {x} /\ x \notin Dispatching /\ ~frozen

Reconstructs(x, frozen) == Governed(x, frozen) /\ Closable(x) /\ last < MaxExecs

NoRecovery(sent) ==
  outbox' = outbox \o sent /\ UNCHANGED <<store, pause, handing, home>>

Recover(sent, frozen) ==
  \/ \E x \in Execs :
       /\ Reconstructs(x, frozen) /\ Reconstruct(x)
       /\ outbox' = outbox \o sent
       /\ UNCHANGED <<quota, home>>
  \/ \E x \in Execs :
       /\ Adopts(x)
       /\ home' = [y \in Execs |-> IF y \in At(home[x]) THEN inst ELSE home[y]]
       /\ \E again \in Batch("idempotent", At(inst) \cup At(home[x])) :
            outbox' = outbox \o sent \o again
       /\ UNCHANGED <<store, pause, handing>>
  \/ \E x \in Execs :
       /\ Governed(x, frozen) /\ Live(x)
       /\ TransitionIfCurrent(x, exec[x].state, exec[x].rev, "unreachable")
       /\ outbox' = outbox \o sent
       /\ UNCHANGED <<last, quota, pause, handing, home>>
  \/ NoRecovery(sent)

(* The wrapper reads whether its provider is in a turn, then connects and  *)
(* registers with that answer.                                             *)
SampleBusy ==
  /\ link = "down"
  /\ link' = "registering" /\ sample' = (active # None)
  /\ UNCHANGED <<store, delivery, control, busy, handler, toWrapper, toDaemon,
                 wrapper, provider, history, faults>>

(* Register: the presence, the deliveries of this instance again, the      *)
(* recovery of the agent's execution; the wrapper, once registered, starts *)
(* its loop over by announcing the state of its turn.                      *)
Register ==
  /\ handing = None /\ link = "registering"
  /\ link' = "up" /\ busy' = sample /\ sample' = FALSE
  /\ toDaemon' = <<[kind |-> "turn", busy |-> sample]>>
  /\ loop' = "drain"
  /\ \E sent \in Batch("idempotent", At(inst)) :
       IF sample THEN NoRecovery(sent) ELSE Recover(sent, paused)
  /\ UNCHANGED <<dlv, paused, cmd, pauses, failing, toWrapper, inst, receipt,
                 bind, pend, provider, history, faults>>

-----------------------------------------------------------------------------
(* The relaunch of a mission whose turn failed on a usage limit.           *)

Waited == {x \in Execs : quota[x] # "none"}
UnderWay == {x \in Execs : quota[x] \in {"waiting", "relaunching", "resumed"}}
Children(x) == {y \in Execs : exec[y].parent = x}

(* handle_quota_failure: the failure is qualified once, and a mission      *)
(* waits a bounded number of times.                                        *)
Qualify(x) ==
  /\ handing = None
  /\ exec[x].state = "failed" /\ exec[x].keyed /\ quota[x] = "none"
  /\ Resumable /\ Cardinality(Waited) < MaxRounds
  /\ pauses + Cardinality(Waited) < MaxUpsets
  /\ quota' = [quota EXCEPT ![x] = "waiting"]
  /\ UNCHANGED <<exec, last, delivery, control, busy, handler, sockets, wrapper, provider,
                 history, faults>>

(* relaunch_quota_task, once the limit is reset: first its intent, for a   *)
(* connected and idle agent; the rest may come at a later tick, when the   *)
(* agent may be in a turn again.                                           *)
Ticks(x, phase) ==
  /\ handing = None /\ link = "up" /\ ~paused /\ quota[x] = phase
  /\ UNCHANGED <<delivery, control, busy, outbox, failing, sockets, wrapper, provider,
                 history, faults>>

ClaimsQuota(x) ==
  /\ Ticks(x, "waiting") /\ ~busy
  /\ quota' = [quota EXCEPT ![x] = "relaunching"]
  /\ UNCHANGED <<exec, last, handing>>

(* reconstruct_quota_failed: the child of a failed leaf, which stays       *)
(* failed.                                                                 *)
ReconstructQuotaFailed(x) ==
  /\ Ticks(x, "relaunching") /\ last < MaxExecs
  /\ exec[x].state = "failed" /\ Children(x) = {}
  /\ quota' = [quota EXCEPT ![x] = "resumed"]
  /\ last' = last + 1
  /\ exec' = [exec EXCEPT ![last + 1] = ChildOf(x)]
  /\ handing' = last + 1

(* A later tick finds the child without a delivery.                        *)
RedeliversQuota(x) ==
  /\ Ticks(x, "resumed")
  /\ \E y \in Children(x) : dlv[y] = "none" /\ handing' = y
  /\ UNCHANGED store

(* settle_quota_acked.                                                     *)
SettlesQuota(x) ==
  /\ handing = None /\ quota[x] = "resumed" /\ \E y \in Children(x) : dlv[y] = "acked"
  /\ quota' = [quota EXCEPT ![x] = "done"]
  /\ UNCHANGED <<exec, last, delivery, control, busy, handler, sockets, wrapper, provider,
                 history, faults>>

(* fail_quota_task: the leaf of the mission is closed and the delivery of  *)
(* the relaunch, if it is under way, becomes indeterminate.                *)
FailsQuota(x) ==
  /\ handing = None /\ x \in UnderWay
  /\ quota' = [quota EXCEPT ![x] = "failed"]
  /\ \E y \in Execs :
       /\ Sub(y) = Sub(x) /\ Children(y) = {}
       /\ IF Live(y) THEN TransitionIfCurrent(y, exec[y].state, exec[y].rev, "unreachable")
                     ELSE UNCHANGED exec
  /\ dlv' = [y \in Execs |-> IF y \in Children(x) \cap Dispatching THEN "indeterminate"
                             ELSE dlv[y]]
  /\ UNCHANGED <<last, home, control, busy, handler, sockets, wrapper, provider, history,
                 faults>>

-----------------------------------------------------------------------------
(* The wrapper's frames.                                                   *)

Incoming(kind) ==
  handing = None /\ link = "up" /\ toDaemon # <<>> /\ Head(toDaemon).kind = kind
Consumed == toDaemon' = Tail(toDaemon) /\ UNCHANGED <<link, sample, toWrapper>>

(* handle_execution_transition.                                            *)
HandleTransition ==
  /\ Incoming("state")
  /\ LET f == Head(toDaemon) IN
     /\ TransitionIfCurrent(f.x, f.from, f.rev, f.to)
     /\ busy' = (busy \/ (f.to = "running" /\ exec' # exec))
  /\ Consumed
  /\ UNCHANGED <<last, quota, delivery, control, handler, wrapper, provider, history,
                 faults>>

\* Faulty variant: every end of a turn recovers the agent's execution.
Resume_Always(frozen) == Recover(<<>>, frozen)

(* The end of a turn lets what a pause interrupted resume.                 *)
Resume(frozen) == IF Pending # {} THEN Recover(<<>>, frozen) ELSE NoRecovery(<<>>)

HandleTurnState ==
  /\ Incoming("turn")
  /\ busy' = Head(toDaemon).busy
  /\ IF busy' THEN NoRecovery(<<>>) ELSE Resume(paused)
  /\ Consumed
  /\ UNCHANGED <<dlv, paused, cmd, pauses, failing, wrapper, provider, history, faults>>

(* acknowledge_send_delivery and mark_delivery_indeterminate.              *)
HandleReceipt ==
  /\ Incoming("acked") \/ Incoming("indeterminate")
  /\ LET f == Head(toDaemon) IN
     dlv' = [dlv EXCEPT ![f.x] = IF @ = "dispatching" /\ home[f.x] = inst THEN f.kind ELSE @]
  /\ Consumed
  /\ UNCHANGED <<store, home, control, busy, handler, wrapper, provider, history, faults>>

(* ControlExecutionReported.                                               *)
HandleReport ==
  /\ Incoming("report")
  /\ LET f == Head(toDaemon) IN
     cmd' = [cmd EXCEPT ![f.x] = IF @ # "dispatched" THEN @
                                 ELSE IF f.accepted THEN "accepted" ELSE "refused"]
  /\ Consumed
  /\ UNCHANGED <<store, delivery, pause, paused, pauses, busy, handler, wrapper,
                 provider, history, faults>>

-----------------------------------------------------------------------------
(* The referent's controls.                                                *)

(* handle_execution_control: the command is durable, dispatched, before    *)
(* its frame is written; without a route it is refused.                    *)
Dispatch(S) ==
  /\ cmd' = [x \in Execs |-> IF x \notin S THEN cmd[x]
                             ELSE IF link = "up" THEN "dispatched" ELSE "refused"]
  /\ \E fs \in Batch("interrupt", S) :
       toWrapper' = IF link = "up" THEN toWrapper \o fs ELSE toWrapper

(* A client interrupts one execution.                                      *)
Interrupt(x) ==
  /\ handing = None /\ Live(x) /\ cmd[x] = "none"
  /\ Dispatch({x})
  /\ UNCHANGED <<store, delivery, pause, paused, pauses, busy, handler, link, sample,
                 toDaemon, wrapper, provider, history, faults>>

(* The pause remembers the executions it interrupts, then interrupts them. *)
Pause ==
  /\ handing = None /\ ~paused /\ pauses < MaxPauses
  /\ pauses + Cardinality(Waited) < MaxUpsets
  /\ paused' = TRUE /\ pauses' = pauses + 1
  /\ LET S == {x \in Execs : exec[x].state \in {"starting", "running"}} IN
     /\ pause' = [x \in Execs |-> IF x \in S /\ pause[x] = "none" THEN "pending" ELSE pause[x]]
     /\ Dispatch(S)
  /\ UNCHANGED <<store, delivery, busy, handler, link, sample, toDaemon, wrapper,
                 provider, history, faults>>

Unpause ==
  /\ handing = None /\ paused
  /\ paused' = FALSE
  /\ IF link = "up" /\ ~busy THEN Resume(FALSE) ELSE NoRecovery(<<>>)
  /\ UNCHANGED <<dlv, cmd, pauses, busy, failing, sockets, wrapper, provider,
                 history, faults>>

-----------------------------------------------------------------------------
(* The wrapper. Its loop drains the provider's events, then reads one      *)
(* frame. A frame it writes on a broken connection is lost.                *)

Written(fs) == toDaemon' = IF link = "up" THEN toDaemon \o fs ELSE toDaemon

(* publish_execution_transition: the binding moves on without waiting for  *)
(* the daemon's answer, and is forgotten with its terminal state.          *)
Publishes(s, to) == s \in Bound /\ bind[s].state # to
StateFrames(s, to) ==
  IF ~Publishes(s, to) THEN <<>>
  ELSE <<[kind |-> "state", x |-> bind[s].x, from |-> bind[s].state,
          rev |-> bind[s].rev, to |-> to]>>

\* Faulty variant: the binding of a turn that is over is kept.
Published_Kept(s, to) ==
  bind' = IF ~Publishes(s, to) THEN bind
          ELSE [bind EXCEPT ![s] = [x |-> @.x, state |-> to, rev |-> @.rev + 1]]

Published(s, to) ==
  bind' = IF ~Publishes(s, to) THEN bind
          ELSE [bind EXCEPT ![s] = IF to \in Terminal THEN NoBinding
                                   ELSE [x |-> @.x, state |-> to, rev |-> @.rev + 1]]

Reads(kind) ==
  /\ link = "up" /\ toWrapper # <<>> /\ Head(toWrapper).kind = kind
  /\ loop = "read" \/ events = <<>>
  /\ toWrapper' = Tail(toWrapper) /\ loop' = "drain"
  /\ UNCHANGED <<link, sample>>

Binding(f) == [x |-> f.x, state |-> "starting", rev |-> f.rev]

(* DeliverExecution: the binding replaces the one of the message.          *)
ReadPlain ==
  /\ Reads("plain")
  /\ LET f == Head(toWrapper) IN
     /\ bind' = [bind EXCEPT ![Sub(f.x)] = Binding(f)]
     /\ queue' = Append(queue, f.x)
  /\ UNCHANGED <<store, delivery, control, busy, handler, toDaemon, inst, receipt, pend,
                 active, cancelled, late, events, history, faults>>

(* DeliverIdempotent: a binding of the message is kept; the receipt lets a *)
(* delivery through once, and a second one is only reported.               *)
Fresh(x) == receipt[x] = "none"

\* Faulty variant: a receipt is taken for the prompt.
Answer_Seen(x) == "acked"

Answer(x) == IF receipt[x] = "acked" THEN "acked" ELSE "indeterminate"

Rebound(f) == IF Sub(f.x) \in Bound THEN bind
              ELSE [bind EXCEPT ![Sub(f.x)] = Binding(f)]

ReadIdempotent ==
  /\ Reads("idempotent")
  /\ LET f == Head(toWrapper) IN
     /\ bind' = Rebound(f)
     /\ IF Fresh(f.x)
        THEN /\ receipt' = [receipt EXCEPT ![f.x] = "seen"]
             /\ pend' = [pend EXCEPT ![Sub(f.x)] = Append(@, f.x)]
             /\ queue' = Append(queue, f.x)
             /\ UNCHANGED toDaemon
        ELSE /\ Written(<<[kind |-> Answer(f.x), x |-> f.x]>>)
             /\ UNCHANGED <<receipt, pend, queue>>
  /\ UNCHANGED <<store, delivery, control, busy, handler, inst, active, cancelled, late,
                 events, history, faults>>

(* The provider refuses the message: a plain execution fails, an           *)
(* idempotent delivery becomes indeterminate and its execution stays.      *)
InjectionFails ==
  /\ faults < MaxFaults /\ faults' = faults + 1
  /\ LET f == Head(toWrapper) IN
     \/ /\ Reads("plain")
        /\ bind' = [bind EXCEPT ![Sub(f.x)] = NoBinding]
        /\ Written(<<[kind |-> "state", x |-> f.x, from |-> "starting", rev |-> f.rev,
                      to |-> "failed"]>>)
        /\ UNCHANGED receipt
     \/ /\ Reads("idempotent") /\ Fresh(f.x)
        /\ bind' = Rebound(f)
        /\ receipt' = [receipt EXCEPT ![f.x] = "seen"]
        /\ Written(<<[kind |-> "indeterminate", x |-> f.x]>>)
  /\ shaken' = shaken \cup {Head(toWrapper).x}
  /\ UNCHANGED <<store, delivery, control, busy, handler, inst, pend, provider, done,
                 prompted>>

(* apply_execution_control: the command must aim at the binding's revision *)
(* and the provider must still hold the message. A queued prompt is        *)
(* withdrawn, a running turn is asked to stop.                             *)
Queued(s) == {i \in DOMAIN queue : Sub(queue[i]) = s}

Accepts(f) ==
  /\ Sub(f.x) \in Bound /\ bind[Sub(f.x)].x = f.x
  /\ bind[Sub(f.x)].rev = f.rev
  /\ (active # None /\ Sub(active) = Sub(f.x)) \/ Queued(Sub(f.x)) # {}

ReadInterrupt ==
  /\ Reads("interrupt")
  /\ LET f == Head(toWrapper)
         s == Sub(f.x)
         report(b) == <<[kind |-> "report", x |-> f.x, accepted |-> b]>> IN
     IF ~Accepts(f)
     THEN /\ Written(report(FALSE))
          /\ UNCHANGED <<bind, queue, cancelled, events>>
     ELSE /\ Written(StateFrames(s, "interrupting") \o report(TRUE))
          /\ Published(s, "interrupting")
          /\ IF active # None /\ Sub(active) = s
             THEN cancelled' = TRUE /\ UNCHANGED <<queue, events>>
             ELSE \E i \in Queued(s) :
                  /\ \A j \in Queued(s) : i <= j
                  /\ queue' = SubSeq(queue, 1, i - 1) \o SubSeq(queue, i + 1, Len(queue))
                  /\ events' = Append(events, [kind |-> "rejected", x |-> queue[i]])
                  /\ UNCHANGED cancelled
  /\ UNCHANGED <<store, delivery, control, busy, handler, inst, receipt, pend, active,
                 late, history, faults>>

-----------------------------------------------------------------------------
(* The provider's events, forwarded one by one: each knows its message     *)
(* only. While some message is bound, the turns of the others are ignored. *)

Ignored(s) == Bound # {} /\ s \notin Bound
TurnFrame(b) == <<[kind |-> "turn", busy |-> b]>>

Forwards(kinds) ==
  /\ link \in {"up", "broken"} /\ events # <<>> /\ Head(events).kind \in kinds
  /\ loop = "drain" \/ toWrapper = <<>>
  /\ events' = Tail(events) /\ loop' = IF Len(events) = 1 THEN "read" ELSE "drain"
  /\ UNCHANGED <<store, delivery, control, busy, handler, link, sample, toWrapper, inst,
                 queue, active, cancelled, late, history, faults>>

ForwardStarted ==
  /\ Forwards({"started"})
  /\ LET s == Sub(Head(events).x) IN
     IF Ignored(s) THEN UNCHANGED <<bind, toDaemon>>
     ELSE /\ Written(TurnFrame(TRUE) \o StateFrames(s, "running"))
          /\ Published(s, "running")
  /\ UNCHANGED <<receipt, pend>>

(* prompt_dispatched: the first pending delivery of the message is         *)
(* acknowledged, its receipt first.                                        *)
ForwardDispatched ==
  /\ Forwards({"dispatched"})
  /\ LET s == Sub(Head(events).x) IN
     IF pend[s] = <<>> THEN UNCHANGED <<receipt, pend, toDaemon>>
     ELSE /\ pend' = [pend EXCEPT ![s] = Tail(@)]
          /\ receipt' = [receipt EXCEPT ![Head(pend[s])] = "acked"]
          /\ Written(<<[kind |-> "acked", x |-> Head(pend[s])]>>)
  /\ UNCHANGED bind

\* Faulty variant: a turn that was cancelled counts as completed.
Outcome_Cancelled ==
  [completed |-> "completed", cancelled |-> "completed", failed |-> "failed"]

(* The end of a turn: the state of the agent first, its execution next.    *)
Outcome == [completed |-> "completed", cancelled |-> "interrupted", failed |-> "failed"]
ForwardFinished ==
  /\ Forwards({"completed", "cancelled", "failed"})
  /\ LET s == Sub(Head(events).x)
         to == Outcome[Head(events).kind] IN
     IF Ignored(s) THEN UNCHANGED <<bind, toDaemon>>
     ELSE /\ Written(TurnFrame(active # None) \o StateFrames(s, to))
          /\ Published(s, to)
  /\ UNCHANGED <<receipt, pend>>

ForwardRejected ==
  /\ Forwards({"rejected"})
  /\ LET s == Sub(Head(events).x)
         lost == IF pend[s] = <<>> THEN <<>>
                 ELSE <<[kind |-> "indeterminate", x |-> Head(pend[s])]>> IN
     IF Ignored(s) THEN UNCHANGED <<bind, toDaemon, pend>>
     ELSE /\ Written(TurnFrame(active # None) \o StateFrames(s, "failed") \o lost)
          /\ Published(s, "failed")
          /\ pend' = [pend EXCEPT ![s] = IF @ = <<>> THEN @ ELSE Tail(@)]
  /\ UNCHANGED receipt

-----------------------------------------------------------------------------
(* The provider session: one turn at a time, prompts in order. It shows    *)
(* itself idle before it has queued the terminal event of its turn, which  *)
(* is a rejection when the prompt's request came back with an error.       *)

ProviderStarts ==
  /\ queue # <<>> /\ active = None /\ late = <<>>
  /\ active' = Head(queue) /\ queue' = Tail(queue)
  /\ events' = events \o <<[kind |-> "started", x |-> Head(queue)],
                           [kind |-> "dispatched", x |-> Head(queue)]>>
  /\ prompted' = prompted \cup {Head(queue)}
  /\ UNCHANGED <<store, delivery, control, busy, handler, sockets, wrapper, cancelled, late, done,
                 shaken, faults>>

ProviderIdles(kind) ==
  /\ active # None
  /\ kind \in {"completed", "failed", "rejected"} \cup (IF cancelled THEN {"cancelled"} ELSE {})
  /\ active' = None /\ cancelled' = FALSE /\ late' = <<[kind |-> kind, x |-> active]>>
  /\ done' = IF kind = "completed" THEN done \cup {active} ELSE done
  /\ UNCHANGED <<store, delivery, control, busy, handler, sockets, wrapper, queue,
                 events, prompted, shaken, faults>>

ProviderReports ==
  /\ late # <<>>
  /\ events' = events \o late /\ late' = <<>>
  /\ UNCHANGED <<store, delivery, control, busy, handler, sockets, wrapper, queue,
                 active, cancelled, history, faults>>

-----------------------------------------------------------------------------
(* Faults.                                                                 *)

Fault == /\ faults < MaxFaults /\ faults' = faults + 1
         /\ shaken' = shaken \cup {x \in Execs : Live(x)}
         /\ UNCHANGED <<done, prompted>>
Unsent == {outbox[i].x : i \in {j \in DOMAIN outbox : outbox[j].kind = "plain"}}
Cut == toWrapper' = <<>> /\ toDaemon' = <<>>

(* The connection breaks; the wrapper notices when it next reads.          *)
Disconnect ==
  /\ link = "up" /\ Fault /\ Cut
  /\ link' = "broken" /\ busy' = FALSE
  /\ outbox' = <<>> /\ failing' = failing \cup Unsent
  /\ UNCHANGED <<store, delivery, control, handing, sample, wrapper, provider>>

Notice ==
  /\ link = "broken" /\ (loop = "read" \/ events = <<>>)
  /\ link' = "down"
  /\ UNCHANGED <<store, delivery, control, busy, handler, sample, toWrapper, toDaemon,
                 wrapper, provider, history, faults>>

(* The daemon stops, between any two of its transactions, and restarts.    *)
DaemonCrash ==
  /\ Fault /\ Cut
  /\ link' = IF link = "up" THEN "broken" ELSE IF link = "registering" THEN "down" ELSE link
  /\ busy' = FALSE /\ handing' = None /\ outbox' = <<>> /\ failing' = {}
  /\ sample' = FALSE
  /\ UNCHANGED <<store, delivery, control, wrapper, provider>>

(* The wrapper stops with its provider and restarts, under the instance id *)
(* it had or under a new one.                                              *)
WrapperRestart(kept) ==
  /\ Fault /\ Cut
  /\ link' = "down" /\ busy' = FALSE
  /\ outbox' = <<>> /\ failing' = failing \cup Unsent
  /\ inst' = IF kept THEN inst ELSE inst + 1
  /\ receipt' = IF kept THEN receipt ELSE [x \in Execs |-> "none"]
  /\ bind' = [s \in Subs |-> NoBinding] /\ pend' = [s \in Subs |-> <<>>]
  /\ loop' = "drain"
  /\ queue' = <<>> /\ active' = None /\ cancelled' = FALSE /\ late' = <<>>
  /\ events' = <<>>
  /\ sample' = FALSE
  /\ UNCHANGED <<store, delivery, control, handing>>

-----------------------------------------------------------------------------
DaemonStep ==
  \/ HandOver \/ Push \/ (\E x \in Execs : PushFails(x)) \/ Register
  \/ HandleTransition \/ HandleTurnState \/ HandleReceipt \/ HandleReport
QuotaStep ==
  \E x \in Execs : \/ Qualify(x) \/ ClaimsQuota(x) \/ ReconstructQuotaFailed(x)
                   \/ RedeliversQuota(x) \/ SettlesQuota(x) \/ FailsQuota(x)
WrapperStep ==
  \/ SampleBusy \/ Notice \/ ReadPlain \/ ReadIdempotent \/ ReadInterrupt
  \/ ForwardStarted \/ ForwardDispatched \/ ForwardFinished \/ ForwardRejected
ProviderStep ==
  \/ ProviderStarts \/ ProviderReports
  \/ \E kind \in {"completed", "cancelled", "failed", "rejected"} : ProviderIdles(kind)
ClientStep ==
  \/ \E s \in Subs, keyed \in BOOLEAN : Admit(s, keyed)
  \/ \E x \in Execs : Resubmit(x) \/ Interrupt(x)
  \/ Pause \/ Unpause
FaultStep ==
  \/ HandOverFails \/ InjectionFails \/ Disconnect \/ DaemonCrash
  \/ \E kept \in BOOLEAN : WrapperRestart(kept)

Next == DaemonStep \/ QuotaStep \/ WrapperStep \/ ProviderStep \/ ClientStep \/ FaultStep
Spec == Init /\ [][Next]_vars

-----------------------------------------------------------------------------
(* Properties.                                                             *)

(* Every variable keeps its type (the rows of executions and send_deliveries, *)
(* the frames of both directions, the bindings of the wrapper).               *)
TypeOK ==
  /\ exec \in [Execs -> Rows] /\ last \in 0..MaxExecs
  /\ quota \in [Execs -> {"none", "waiting", "relaunching", "resumed", "done", "failed"}]
  /\ dlv \in [Execs -> {"none", "dispatching", "acked", "indeterminate"}]
  /\ home \in [Execs -> Nat] /\ inst \in Nat
  /\ pause \in [Execs -> {"none", "pending", "resumed"}] /\ paused \in BOOLEAN
  /\ cmd \in [Execs -> {"none", "dispatched", "accepted", "refused"}]
  /\ busy \in BOOLEAN /\ handing \in Execs \cup {None} /\ failing \subseteq Execs
  /\ outbox \in Seq(ToWrapper) /\ toWrapper \in Seq(ToWrapper)
  /\ toDaemon \in Seq(ToDaemon)
  /\ link \in {"up", "broken", "down", "registering"} /\ sample \in BOOLEAN
  /\ receipt \in [Execs -> {"none", "seen", "acked"}]
  /\ bind \in [Subs -> Bindings] /\ pend \in [Subs -> Seq(Execs)]
  /\ loop \in {"drain", "read"}
  /\ queue \in Seq(Execs) /\ active \in Execs \cup {None} /\ cancelled \in BOOLEAN
  /\ late \in Seq(Events) /\ events \in Seq(Events)
  /\ done \subseteq Execs /\ prompted \subseteq Execs /\ shaken \subseteq Execs
  /\ faults \in 0..MaxFaults /\ pauses \in 0..MaxPauses

(* A submission has at most one execution that is not over: what resumes it *)
(* after a pause or a reconnection closes the execution it replaces in the  *)
(* same transaction (reconstruct_active_for_agent), whatever the number of  *)
(* reconnections, pauses, retries and stops of the daemon.                  *)
OneLiveExecution ==
  \A x, y \in Execs : Live(x) /\ Live(y) /\ Sub(x) = Sub(y) => x = y

(* A terminal state is never left: the late frames of a wrapper that does   *)
(* not know its execution was replaced, and the failed writes, change       *)
(* nothing (transition_if_current).                                         *)
TerminalIsFinal ==
  [][\A x \in Execs : exec[x].state \in Terminal => exec'[x].state = exec[x].state]_vars

DoneWork(s) == \E x \in done : Sub(x) = s
PromptedWork(s) == \E x \in prompted : Sub(x) = s

(* An execution is shown completed only if a turn of its submission came to *)
(* its end at the provider, and not because one was cancelled, refused or   *)
(* cut off (forward_managed_events, handle_execution_transition). Not of    *)
(* the execution itself: the wrapper knows a turn by its message, and the   *)
(* end of the parent's turn may close the child.                            *)
CompletedWorkWasDone ==
  \A x \in Execs : exec[x].state = "completed" => DoneWork(Sub(x))

(* The delivery of an execution is acknowledged only if the prompt of its   *)
(* submission was written to the provider: a receipt found after a restart  *)
(* proves nothing (IdempotentDeliveryTracker, acknowledge_send_delivery).   *)
AckedWorkWasPrompted ==
  \A x \in Execs : dlv[x] = "acked" => PromptedWork(Sub(x))

Relaunched == {"resumed", "done", "failed"}
Limited(p) == exec[p].state = "failed" /\ quota[p] \in Relaunched

(* Work is given to the agent a second time only after a loss of the        *)
(* connection, a stop of one side or a refusal met by the first execution,  *)
(* after a pause that interrupted it (schedule_execution_recovery) or after *)
(* a failure on a usage limit that was qualified (reconstruct_quota_failed); *)
(* and no two of these give it twice for the same execution.                *)
RerunNeedsLoss ==
  \A x \in Execs : exec[x].parent # None =>
    /\ \/ exec[x].parent \in shaken \/ pause[exec[x].parent] = "resumed"
       \/ Limited(exec[x].parent)
    /\ \A y \in Execs : exec[y].parent = exec[x].parent => y = x
=============================================================================
