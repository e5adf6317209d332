----------------------------- MODULE LineReader -----------------------------
(***************************************************************************)
(* mmwave_line_reader: LineReader::feed(), one action per path through it. *)
(* A byte is a character, "NL", "CR" (also a zero byte) or "HIGH" (0x7F    *)
(* and above).                                                             *)
(***************************************************************************)
EXTENDS Integers, Sequences

CONSTANTS Byte,           \* bytes that can arrive
          LINE_CAPACITY   \* size of buf_ (128 in the code)

ASSUME ReaderAssumption == LINE_CAPACITY \in Nat /\ LINE_CAPACITY >= 2

VARIABLES buf,            \* buf_[0 .. len_ - 1]
          pendingReset,   \* the line in buf is delivered, drop it at the next byte
          discarding,     \* inside a line that did not fit
          skipSpace,      \* swallow one space after a prompt
          event,          \* what feed() returned, with the line
          since           \* history, no code: bytes since the last newline or prompt

readerVars == <<buf, pendingReset, discarding, skipSpace, event, since>>

MaxLine == LINE_CAPACITY - 1

(* What the buffer holds for a byte: anything above 0x7E becomes a '?'. *)
Stored(b) == IF b = "HIGH" THEN "?" ELSE b

Lines == INSTANCE ByteLines WITH
  Byte <- {Stored(b) : b \in Byte}, text <- since, skip <- skipSpace

ReaderInit ==
  /\ buf = <<>> /\ since = <<>>
  /\ pendingReset = FALSE /\ discarding = FALSE /\ skipSpace = FALSE
  /\ event = Lines!Nothing

(* The buffer when a byte is looked at: a delivered line is dropped first. *)
Open == IF pendingReset THEN <<>> ELSE buf

SwallowSpace ==
  /\ skipSpace' = FALSE
  /\ event' = Lines!Nothing
  /\ UNCHANGED <<buf, pendingReset, discarding, since>>

Ignore ==
  /\ buf' = Open /\ pendingReset' = FALSE /\ skipSpace' = FALSE
  /\ event' = Lines!Nothing
  /\ UNCHANGED <<discarding, since>>

EndDiscarding ==
  /\ discarding
  /\ discarding' = FALSE
  /\ buf' = <<>> /\ pendingReset' = FALSE /\ skipSpace' = FALSE
  /\ event' = Lines!Nothing
  /\ since' = <<>>

(* Mutant: what is left of a discarded line is delivered. *)
AlteredEndLine ==
  LET l == Lines!Trimmed(Open)
  IN  /\ buf' = l
      /\ pendingReset' = (l # <<>>)
      /\ event' = IF l = <<>> THEN Lines!Nothing ELSE Lines!Line(l)
      /\ skipSpace' = FALSE
      /\ since' = <<>>
      /\ UNCHANGED discarding

EndLine ==
  LET l == Lines!Trimmed(Open)
  IN  /\ ~discarding
      /\ buf' = l
      /\ pendingReset' = (l # <<>>)
      /\ event' = IF l = <<>> THEN Lines!Nothing ELSE Lines!Line(l)
      /\ skipSpace' = FALSE
      /\ since' = <<>>
      /\ UNCHANGED discarding

(* tail_is_prompt_: three characters and at least one before them. *)
TailIsPrompt(l) == Lines!EndsInPrompt(l)

(* Mutant: the full buffer is not emptied. *)
AlteredOverflow(b) ==
  /\ Len(Open) >= MaxLine /\ ~discarding
  /\ discarding' = TRUE
  /\ buf' = Append(Open, b) /\ pendingReset' = FALSE /\ skipSpace' = FALSE
  /\ event' = Lines!Overflow
  /\ since' = Append(since, b)

(* The first byte too many: the line is dropped, the byte kept. *)
Overflow(b) ==
  /\ Len(Open) >= MaxLine /\ ~discarding
  /\ discarding' = TRUE
  /\ buf' = <<b>> /\ pendingReset' = FALSE /\ skipSpace' = FALSE
  /\ event' = Lines!Overflow
  /\ since' = Append(since, b)

(* An ordinary byte; a discarded line starts over whenever it fills buf. *)
Keep(b) ==
  LET l == IF Len(Open) >= MaxLine THEN <<b>> ELSE Append(Open, b)
      prompt == b = ">" /\ TailIsPrompt(l)
  IN  /\ Len(Open) >= MaxLine => discarding
      /\ pendingReset' = FALSE
      /\ buf' = IF prompt THEN <<>> ELSE l
      /\ skipSpace' = prompt
      /\ event' = IF prompt THEN Lines!Prompt ELSE Lines!Nothing
      /\ discarding' = (discarding /\ ~prompt)
      /\ since' = IF prompt THEN <<>> ELSE Append(since, b)

Feed(b) ==
  IF skipSpace /\ b = " " THEN SwallowSpace
  ELSE IF b = "CR" THEN Ignore
  ELSE IF b = "NL" THEN EndDiscarding \/ EndLine
  ELSE Overflow(Stored(b)) \/ Keep(Stored(b))

ReaderNext == \E b \in Byte : Feed(b)

ReaderSpec == ReaderInit /\ [][ReaderNext]_readerVars

-----------------------------------------------------------------------------
ReaderType ==
  /\ buf \in Seq({Stored(b) : b \in Byte})
  /\ since \in Seq({Stored(b) : b \in Byte})
  /\ pendingReset \in BOOLEAN /\ discarding \in BOOLEAN /\ skipSpace \in BOOLEAN

(* The buffer with its final zero never outgrows the array, and it holds   *)
(* exactly what a newline is to deliver: all bytes of the line, or, once   *)
(* the line did not fit, some of its last ones with the line marked to be  *)
(* dropped (feed() of mmwave_line_reader.cpp).                             *)
BufferHoldsLine ==
  /\ Len(buf) <= MaxLine
  /\ IF discarding
     THEN /\ ~pendingReset
          /\ Len(since) > MaxLine /\ Len(buf) <= Len(since)
          /\ \A i \in 1 .. Len(buf) : buf[i] = since[Len(since) - Len(buf) + i]
     ELSE since = Open

LinesAreWhole == Lines!Spec
=============================================================================
