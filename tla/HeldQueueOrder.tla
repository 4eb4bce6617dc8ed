--------------------------- MODULE HeldQueueOrder ---------------------------
(***************************************************************************)
(* The order of the held queue: the ranks of HeldQueue against the list of *)
(* EditableQueue.                                                          *)
(***************************************************************************)
EXTENDS HeldQueue, Sequences, SequencesExt

(* SELECT ... WHERE phase = 'held' ORDER BY queue_rank *)
HeldInOrder == SetToSortSeq(Held, LAMBDA x, y : rank[x] < rank[y])

Queue == INSTANCE EditableQueue WITH queue <- HeldInOrder

(* The rows and their ranks implement a list: messages join at the end,    *)
(* leave from the front, and nothing but an edit changes their order, not  *)
(* even a restart or another instance (queue_rank, release_next_held,      *)
(* should_hold).                                                           *)
ImplementsQueue == Queue!Spec

(* The list edit of apply_reorder, on the ids alone.                       *)
ReorderedList(q, m, b) ==
  LET others == SelectSeq(q, LAMBDA x : x # m)
      mark   == SelectInSeq(others, LAMBDA x : x = b)
  IN IF b = m THEN Append(others, m) ELSE InsertAt(others, mark, m)

(* A reordering leaves the queue as the edit of the list would: the ranks  *)
(* written one by one are those of the new list, and no row that is not    *)
(* held moves (apply_reorder).                                             *)
ReordersAsAsked ==
  [][\A r \in EditIds, m, b \in Messages :
       EditReorders(r, m, b) =>
         /\ HeldInOrder' = ReorderedList(HeldInOrder, m, b)
         /\ \A x \in Messages \ Held : rank'[x] = rank[x]]_vars
=============================================================================
