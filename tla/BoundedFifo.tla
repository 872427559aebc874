---------------------------- MODULE BoundedFifo ----------------------------
(***************************************************************************)
(* What the event queue of the process kernel promises process_post and    *)
(* do_event: a queue of at most Size items, first in first out.             *)
(***************************************************************************)
EXTENDS Naturals, Sequences

CONSTANTS Item, Size

VARIABLE queue

Init == queue = <<>>

Put(item) == Len(queue) < Size /\ queue' = Append(queue, item)
Take == queue # <<>> /\ queue' = Tail(queue)

Next == Take \/ \E item \in Item : Put(item)

Spec == Init /\ [][Next]_queue
=============================================================================
