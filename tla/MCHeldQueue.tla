---------------------------- MODULE MCHeldQueue ----------------------------
EXTENDS HeldQueueOrder

Interchangeable == Permutations(Messages \ (Replies \cup Unqueueable)) \cup Permutations(EditIds)
=============================================================================
