------------------------------- MODULE Queues -------------------------------
(***************************************************************************)
(* What offering an element to an EventQueue does to its contents; the     *)
(* reader's queue, the writer's queue and the abstract queue all use it.   *)
(***************************************************************************)
EXTENDS Naturals, Sequences

\* Variants: the capacity test is left out, or the element put in front.
EnqueueUnbounded(q, e, cap) == Append(q, e)
EnqueueFront(q, e, cap) == IF Len(q) = cap THEN q ELSE <<e>> \o q

\* Offering e to a queue q of capacity cap: a full queue drops it.
Enqueue(q, e, cap) == IF Len(q) = cap THEN q ELSE Append(q, e)
=============================================================================
