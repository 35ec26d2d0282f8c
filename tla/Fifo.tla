-------------------------------- MODULE Fifo --------------------------------
(***************************************************************************)
(* What queue.h promises: values come out in the order they went in.       *)
(***************************************************************************)
EXTENDS Sequences, Naturals

CONSTANTS
  Values, None,
  Capacity   \* nodes that memory has room for

VARIABLES
  queue,
  last     \* the last operation with what went in or came out

Init == queue = <<>> /\ last = <<"init", None>>

Push(v) ==
  /\ Len(queue) < Capacity
  /\ queue' = Append(queue, v)
  /\ last' = <<"push", v>>

Pop ==
  \/ queue = <<>> /\ last' = <<"pop", None>> /\ UNCHANGED queue
  \/ queue # <<>> /\ last' = <<"pop", Head(queue)>> /\ queue' = Tail(queue)

Next == Pop \/ \E v \in Values : Push(v)

Spec == Init /\ [][Next]_<<queue, last>>
=============================================================================
