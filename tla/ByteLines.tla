------------------------------ MODULE ByteLines ------------------------------
(***************************************************************************)
(* What the line reader promises about the bytes of the radar. `text` is   *)
(* all that was read since the last newline or prompt.                     *)
(*   - A newline delivers the whole text (without trailing spaces) if it   *)
(*     is not longer than MaxLine, and nothing if it is: never a part.     *)
(*   - A text that ends in ":/>" is a prompt. Only in a text longer than   *)
(*     MaxLine may a prompt be missed.                                     *)
(*   - Every newline and every prompt ends what was before it.             *)
(***************************************************************************)
EXTENDS Integers, Sequences, FiniteSets

CONSTANTS Byte,       \* what a byte can be, "?" standing for all above 0x7E
          MaxLine     \* longest line delivered

VARIABLES text,       \* bytes since the last newline or prompt
          skip,       \* the last event was a prompt: one space may follow
          event       \* what the last byte completed

vars == <<text, skip, event>>

Nothing   == [kind |-> "NONE", line |-> <<>>]
Overflow  == [kind |-> "OVERFLOW", line |-> <<>>]
Prompt    == [kind |-> "PROMPT", line |-> <<>>]
Line(l)   == [kind |-> "LINE", line |-> l]

Blank == " "

(* Without the spaces at its end: what some other byte follows stays. *)
Trimmed(l) ==
  LET kept == {n \in 1 .. Len(l) : \E k \in n .. Len(l) : l[k] # Blank}
  IN  SubSeq(l, 1, Cardinality(kept))

EndsInPrompt(l) ==
  /\ Len(l) >= 4
  /\ l[Len(l) - 2] = ":" /\ l[Len(l) - 1] = "/" /\ l[Len(l)] = ">"

Init == text = <<>> /\ skip = FALSE /\ event = Nothing

SkipBlank ==
  /\ skip /\ skip' = FALSE
  /\ event' = Nothing
  /\ UNCHANGED text

Newline ==
  /\ text' = <<>> /\ skip' = FALSE
  /\ event' = IF Len(text) > MaxLine \/ Trimmed(text) = <<>>
              THEN Nothing ELSE Line(Trimmed(text))

Ignore == skip' = FALSE /\ event' = Nothing /\ UNCHANGED text

Put(b) ==
  LET t == Append(text, b)
  IN  \/ /\ EndsInPrompt(t)
         /\ text' = <<>> /\ skip' = TRUE /\ event' = Prompt
      \/ /\ EndsInPrompt(t) => Len(t) > MaxLine
         /\ text' = t /\ skip' = FALSE
         /\ event' = IF Len(t) = MaxLine + 1 THEN Overflow ELSE Nothing

Next ==
  \/ SkipBlank
  \/ Newline
  \/ Ignore
  \/ \E b \in Byte : Put(b)

Spec == Init /\ [][Next]_vars
=============================================================================
