----------------------------- MODULE FifoQueue -----------------------------
(***************************************************************************)
(* What a user of the bus FIFO relies on: a bounded first-in first-out     *)
(* queue that changes by one clock cycle at a time.  In one cycle a word   *)
(* may enter at the tail while another leaves at the head; a reset empties *)
(* the queue.  Nothing is lost, duplicated or reordered once accepted.     *)
(***************************************************************************)
EXTENDS Naturals, Sequences

CONSTANTS Data,     \* the words the queue may hold
          Capacity  \* the largest number of words it may hold

VARIABLE q

Init == q = << >>

Reset == q' = << >>

\* One word enters and none leaves.
Push(d) ==
  /\ Len(q) < Capacity
  /\ q' = Append(q, d)

\* One word leaves and none enters.
Pop ==
  /\ q # << >>
  /\ q' = Tail(q)

\* A word enters in the very cycle in which another leaves.
PopPush(d) ==
  /\ q # << >>
  /\ q' = Append(Tail(q), d)

Next ==
  \/ Reset
  \/ Pop
  \/ \E d \in Data : Push(d) \/ PopPush(d)

Spec == Init /\ [][Next]_q

=============================================================================
