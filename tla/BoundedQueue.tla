----------------------------- MODULE BoundedQueue -----------------------------
(***************************************************************************)
(* What a single-producer single-consumer ring promises: a FIFO queue of   *)
(* at most Capacity values.  The producer pushes 0, 1, 2, ... in order, as *)
(* the two-thread harness does, and the consumer takes them from the front.*)
(***************************************************************************)
EXTENDS Integers, Sequences

CONSTANTS Capacity, Items

VARIABLES queue,    \* the values in flight, oldest first
          sent,     \* values pushed so far
          received  \* values popped so far, in order

Init == queue = <<>> /\ sent = 0 /\ received = <<>>

Push == /\ sent < Items /\ Len(queue) < Capacity
        /\ queue' = Append(queue, sent)
        /\ sent' = sent + 1
        /\ UNCHANGED received

Pop == /\ queue # <<>>
       /\ queue' = Tail(queue)
       /\ received' = Append(received, Head(queue))
       /\ UNCHANGED sent

Next == Push \/ Pop
Safety == Init /\ [][Next]_<<queue, sent, received>>
=============================================================================
