------------------------------- MODULE Deque -------------------------------
(***************************************************************************)
(* What the command queue promises: a sequence of at most MaxLength        *)
(* commands, taken from the front, given at the back or put back in front. *)
(* A command that finds it full is not stored.                             *)
(***************************************************************************)
EXTENDS Integers, Sequences

CONSTANTS Command,    \* what can be queued
          MaxLength   \* commands it holds

VARIABLE queue

Init == queue = <<>>

Append_(c) == queue' = IF Len(queue) < MaxLength THEN Append(queue, c) ELSE queue

Prepend(c) == queue' = IF Len(queue) < MaxLength THEN <<c>> \o queue ELSE queue

Take == queue' = IF queue = <<>> THEN <<>> ELSE Tail(queue)

Empty == queue' = <<>>

Next ==
  \/ \E c \in Command : Append_(c) \/ Prepend(c)
  \/ Take
  \/ Empty

Spec == Init /\ [][Next]_queue
=============================================================================
