---------------------------- MODULE CommandOrder ----------------------------
(***************************************************************************)
(* What the command exchange promises its callers: the commands given to   *)
(* it end one at a time and in the order given, each once. A command that  *)
(* finds no room is refused, and an unanswered probe drops all the others. *)
(***************************************************************************)
EXTENDS Naturals, Sequences

CONSTANT Id           \* commands, numbered as they are given

VARIABLE waiting      \* commands not ended, the one being run in front

Init == waiting = <<>>

Give(n) ==
  /\ \A i \in 1 .. Len(waiting) : waiting[i] < n
  /\ waiting' = Append(waiting, n)

End == waiting # <<>> /\ waiting' = Tail(waiting)

Abandon == waiting' = <<>>

Next == (\E n \in Id : Give(n)) \/ End \/ Abandon

Spec == Init /\ [][Next]_waiting
=============================================================================
