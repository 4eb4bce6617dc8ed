--------------------------- MODULE EditableQueue ---------------------------
(***************************************************************************)
(* What the held queue promises about order: a list of waiting messages    *)
(* that join at the end, leave in turn from the front, and may be          *)
(* promoted, withdrawn or moved from anywhere, the others keeping their    *)
(* order. Nobody who could have waited overtakes those who wait.           *)
(***************************************************************************)
EXTENDS Naturals, Sequences, SequencesExt

CONSTANT Messages

VARIABLES queue, left

Init == queue = <<>> /\ left = [m \in Messages |-> "no"]

Gone(m, how) == left' = [left EXCEPT ![m] = how]

Join(m) == /\ left[m] = "no" /\ ~Contains(queue, m)
           /\ queue' = Append(queue, m)
           /\ UNCHANGED left

(* A message the queue is not for, or one that finds it empty.             *)
PassBy(m) == /\ left[m] = "no" /\ ~Contains(queue, m)
             /\ \/ Gone(m, "bypass")
                \/ queue = <<>> /\ Gone(m, "direct")
             /\ UNCHANGED queue

Release == /\ queue # <<>>
           /\ queue' = Tail(queue)
           /\ Gone(Head(queue), "released")

Promote(m) == /\ Contains(queue, m)
              /\ queue' = SelectSeq(queue, LAMBDA x : x # m)
              /\ Gone(m, "promoted")

Withdraw(M) == /\ \A m \in M : Contains(queue, m)
               /\ queue' = SelectSeq(queue, LAMBDA x : x \notin M)
               /\ left' = [m \in Messages |-> IF m \in M THEN "withdrawn" ELSE left[m]]

(* Take m out, then insert it before the mark, or at the end.              *)
Move(m) ==
  LET others == SelectSeq(queue, LAMBDA x : x # m)
  IN /\ Contains(queue, m)
     /\ \E i \in 1 .. Len(others) + 1 : queue' = InsertAt(others, i, m)
     /\ UNCHANGED left

Next == \/ Release
        \/ \E m \in Messages : Join(m) \/ PassBy(m) \/ Promote(m) \/ Move(m)
        \/ \E M \in SUBSET Messages : Withdraw(M)

Spec == Init /\ [][Next]_<<queue, left>>
=============================================================================
