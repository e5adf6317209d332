--------------------------- MODULE ExchangeProofs ---------------------------
(***************************************************************************)
(* The exchange changes its queue and its reader only through their        *)
(* methods, so that both keep their promises inside it; and its commands   *)
(* end in turn, for every capacity, operation, loss and timing.            *)
(***************************************************************************)
EXTENDS Exchange, SerialProofs

USE QueueAssumption

ReceivedByte == [byte : Byte, for : Nat]
PrintedLine  == [text : Seq(Byte), for : Nat]

WireType ==
  /\ uart \in Seq(ReceivedByte)
  /\ printing \in Seq(PrintedLine)

Flight(active, tail, result, cmd) ==
  [active |-> active, tail |-> tail, result |-> result, cmd |-> cmd]

Flies ==
  /\ inflight = Flight(inflight.active, inflight.tail, inflight.result, inflight.cmd)
  /\ inflight.active \in BOOLEAN
  /\ inflight.active => inflight.cmd \in Command

(* The commands that wait were given, and can be sent. *)
Held ==
  /\ given \in 0 .. MaxCommands
  /\ operation \in Operations
  /\ Contents \in Seq(Command)
  /\ \A i \in 1 .. Len(Contents) : Contents[i].id <= given
  /\ inflight.active => inflight.cmd.id <= given

ExchangeInv == QueueType /\ ReaderInv /\ WireType /\ Flies /\ Held

-----------------------------------------------------------------------------
(* What the assumption says of commands and of text, fact by fact.         *)

LEMMA CommandParts ==
  ASSUME NEW c \in Command
  PROVE  /\ c.id \in 1 .. MaxCommands /\ c.id \in Nat
         /\ c.kind \in Kinds
         /\ [c EXCEPT !.reparse = TRUE] \in Command
         /\ [c EXCEPT !.reparse = TRUE].id = c.id
         /\ c.retries > 0 => [c EXCEPT !.retries = @ - 1] \in Command
         /\ [c EXCEPT !.retries = @ - 1].id = c.id
         /\ [c EXCEPT !.retries = @ - 1].kind = c.kind
<1>1. /\ MaxCommands \in Nat /\ MaxRetries \in Nat
      /\ Command = [id : 1 .. MaxCommands, kind : Kinds, retries : 0 .. MaxRetries,
                    reparse : BOOLEAN]
  BY ExchangeAssumption
<1>2. c \in [id : 1 .. MaxCommands, kind : Kinds, retries : 0 .. MaxRetries,
             reparse : BOOLEAN]
  BY <1>1
<1>3. [c EXCEPT !.reparse = TRUE] \in Command /\ [c EXCEPT !.reparse = TRUE].id = c.id
  BY <1>1, <1>2
<1>4. c.retries > 0 => [c EXCEPT !.retries = @ - 1] \in Command
  BY <1>1, <1>2
<1>5. /\ [c EXCEPT !.retries = @ - 1].id = c.id
      /\ [c EXCEPT !.retries = @ - 1].kind = c.kind
  BY <1>2
<1>6. c.id \in 1 .. MaxCommands /\ c.id \in Nat /\ c.kind \in Kinds
  BY <1>1, <1>2
<1>. QED
  BY <1>3, <1>4, <1>5, <1>6

(* A command as it is given. *)
LEMMA GivenParts ==
  ASSUME NEW n \in 1 .. MaxCommands, NEW kind \in Kinds
  PROVE  [id |-> n, kind |-> kind, retries |-> Retries[kind], reparse |-> FALSE] \in Command
<1>1. /\ MaxRetries \in Nat /\ Retries \in [Kinds -> 0 .. MaxRetries]
      /\ Command = [id : 1 .. MaxCommands, kind : Kinds, retries : 0 .. MaxRetries,
                    reparse : BOOLEAN]
  BY ExchangeAssumption
<1>. QED
  BY <1>1

LEMMA AnswerText ==
  ASSUME NEW kind \in Kinds, NEW answer \in Answers(kind)
  PROVE  answer \in Seq(Seq(Byte))
BY ExchangeAssumption

LEMMA FixedText ==
  /\ Prompt \in Seq(Byte) /\ "NL" \in Byte
  /\ \A kind \in Kinds : <<kind, "NL">> \in Seq(Byte)
  /\ <<"$", "1", "*", "NL">> \in Seq(Byte)
<1>1. Kinds \subseteq Byte /\ {"$", "1", "*", "NL"} \subseteq Byte /\ Prompt \in Seq(Byte)
  BY ExchangeAssumption
<1>2. \A kind \in Kinds : <<kind, "NL">> \in Seq(Byte)
  BY <1>1
<1>3. <<"$", "1", "*", "NL">> \in Seq(Byte)
  BY <1>1
<1>. QED
  BY <1>1, <1>2, <1>3

LEMMA ReceivedType ==
  ASSUME NEW text \in Seq(Byte), NEW n \in Nat
  PROVE  Received(text, n) \in Seq(ReceivedByte)
<1>1. \A i \in 1 .. Len(text) : [byte |-> text[i], for |-> n] \in ReceivedByte
  BY DEF ReceivedByte
<1>2. Len(text) \in Nat
  OBVIOUS
<1>. QED
  BY <1>1, <1>2, IsASeq DEF Received

LEMMA WithoutType ==
  ASSUME NEW text \in Seq(Byte), NEW k \in 1 .. Len(text)
  PROVE  Without(text, k) \in Seq(Byte)
<1>1. Len(text) \in Nat
  OBVIOUS
<1>2. SubSeq(text, 1, k - 1) \in Seq(Byte)
  BY <1>1, SubSeqProperties
<1>3. SubSeq(text, k + 1, Len(text)) \in Seq(Byte)
  BY <1>1, SubSeqProperties
<1>. QED
  BY <1>2, <1>3 DEF Without

(* What the radar prints for a command is lines of bytes. *)
LEMMA HeardType ==
  ASSUME NEW kind \in Kinds, NEW n \in Nat, NEW answer \in Answers(kind),
         printing \in Seq(PrintedLine), Heard(kind, n, answer)
  PROVE  printing' \in Seq(PrintedLine)
<1>. DEFINE body  == [i \in 1 .. Len(answer) |-> Append(answer[i], "NL")]
            lines == <<<<kind, "NL">>>> \o Lined(answer)
            more  == [i \in 1 .. Len(lines) |-> [text |-> lines[i], for |-> n]]
<1>1. answer \in Seq(Seq(Byte)) /\ Len(answer) \in Nat
  BY AnswerText
<1>2. \A i \in 1 .. Len(answer) : Append(answer[i], "NL") \in Seq(Byte)
  BY <1>1, FixedText
<1>3. body \in Seq(Seq(Byte))
  BY <1>1, <1>2, IsASeq
<1>4. <<Prompt>> \in Seq(Seq(Byte)) /\ <<<<kind, "NL">>>> \in Seq(Seq(Byte))
  BY FixedText
<1>5. Lined(answer) \in Seq(Seq(Byte))
  BY <1>3, <1>4 DEF Lined
<1>6. lines \in Seq(Seq(Byte)) /\ Len(lines) \in Nat
  BY <1>4, <1>5
<1>. HIDE DEF lines
<1>7. \A i \in 1 .. Len(lines) : [text |-> lines[i], for |-> n] \in PrintedLine
  BY <1>6 DEF PrintedLine
<1>8. more \in Seq(PrintedLine)
  BY <1>6, <1>7, IsASeq
<1>9. printing' = printing \o more
  BY DEF Heard, lines
<1>. QED
  BY <1>8, <1>9

LEMMA TransmitType ==
  ASSUME NEW kind \in Kinds, NEW n \in Nat, NEW before, WireType, Transmit(kind, n, before)
  PROVE  WireType'
<1>1. uart' = uart
  BY DEF Transmit
<1>2. \/ \E answer \in Answers(kind) : Heard(kind, n, answer)
      \/ printing' = printing
  BY DEF Transmit
<1>3. printing' \in Seq(PrintedLine)
  BY <1>2, HeardType DEF WireType
<1>. QED
  BY <1>1, <1>3 DEF WireType

-----------------------------------------------------------------------------
(* Commands by their numbers.                                              *)

Ids(s) == [i \in 1 .. Len(s) |-> s[i].id]

LEMMA IdsType ==
  ASSUME NEW s \in Seq(Command)
  PROVE  /\ Ids(s) \in Seq(Nat) /\ Len(Ids(s)) = Len(s) /\ Len(s) \in Nat
         /\ \A i \in 1 .. Len(s) : Ids(s)[i] = s[i].id /\ s[i].id \in Nat /\ s[i] \in Command
<1>1. Len(s) \in Nat /\ \A i \in 1 .. Len(s) : s[i] \in Command
  OBVIOUS
<1>2. \A i \in 1 .. Len(s) : s[i].id \in Nat
  BY <1>1, CommandParts
<1>3. Ids(s) \in Seq(Nat)
  BY <1>1, <1>2, IsASeq DEF Ids
<1>. QED
  BY <1>1, <1>2, <1>3 DEF Ids

LEMMA IdsPrepend ==
  ASSUME NEW s \in Seq(Command), NEW c \in Command
  PROVE  Ids(<<c>> \o s) = <<c.id>> \o Ids(s)
<1>. DEFINE t == <<c>> \o s
            w == <<c.id>> \o Ids(s)
<1>1. t \in Seq(Command) /\ Len(t) = Len(s) + 1 /\ t[1] = c
      /\ \A i \in 1 .. Len(s) : t[i + 1] = s[i]
  OBVIOUS
<1>2. Ids(s) \in Seq(Nat) /\ Len(Ids(s)) = Len(s) /\ Len(s) \in Nat /\ c.id \in Nat
      /\ \A i \in 1 .. Len(s) : Ids(s)[i] = s[i].id
  BY IdsType, CommandParts
<1>3. w \in Seq(Nat) /\ Len(w) = Len(s) + 1 /\ w[1] = c.id
      /\ \A i \in 1 .. Len(s) : w[i + 1] = Ids(s)[i]
  BY <1>2
<1>4. Ids(t) \in Seq(Nat) /\ Len(Ids(t)) = Len(s) + 1
      /\ \A i \in 1 .. Len(s) + 1 : Ids(t)[i] = t[i].id
  BY <1>1, IdsType
<1>. HIDE DEF t, w
<1>5. ASSUME NEW i \in 1 .. Len(s) + 1
      PROVE  Ids(t)[i] = w[i]
  <2>1. CASE i = 1
    BY <1>1, <1>3, <1>4, <2>1
  <2>2. CASE i # 1
    <3>1. i - 1 \in 1 .. Len(s) /\ (i - 1) + 1 = i
      BY <1>2, <2>2
    <3>2. t[i] = s[i - 1] /\ w[i] = Ids(s)[i - 1] /\ Ids(s)[i - 1] = s[i - 1].id
      BY <1>1, <1>2, <1>3, <3>1
    <3>. QED
      BY <1>4, <3>2
  <2>. QED
    BY <2>1, <2>2
<1>6. Ids(t) = w
  BY <1>3, <1>4, <1>5, SeqEqual
<1>. QED
  BY <1>6 DEF t, w

LEMMA IdsAppend ==
  ASSUME NEW s \in Seq(Command), NEW c \in Command
  PROVE  Ids(Append(s, c)) = Append(Ids(s), c.id)
<1>. DEFINE t == Append(s, c)
            w == Append(Ids(s), c.id)
<1>1. t \in Seq(Command) /\ Len(t) = Len(s) + 1 /\ t[Len(s) + 1] = c
      /\ \A i \in 1 .. Len(s) : t[i] = s[i]
  OBVIOUS
<1>2. Ids(s) \in Seq(Nat) /\ Len(Ids(s)) = Len(s) /\ Len(s) \in Nat /\ c.id \in Nat
      /\ \A i \in 1 .. Len(s) : Ids(s)[i] = s[i].id
  BY IdsType, CommandParts
<1>3. w \in Seq(Nat) /\ Len(w) = Len(s) + 1 /\ w[Len(s) + 1] = c.id
      /\ \A i \in 1 .. Len(s) : w[i] = Ids(s)[i]
  BY <1>2
<1>4. Ids(t) \in Seq(Nat) /\ Len(Ids(t)) = Len(s) + 1
      /\ \A i \in 1 .. Len(s) + 1 : Ids(t)[i] = t[i].id
  BY <1>1, IdsType
<1>. HIDE DEF t, w
<1>5. \A i \in 1 .. Len(s) + 1 : i \in 1 .. Len(s) \/ i = Len(s) + 1
  BY <1>2
<1>6. ASSUME NEW i \in 1 .. Len(s) + 1
      PROVE  Ids(t)[i] = w[i]
  <2>1. Ids(t)[i] = t[i].id
    BY <1>4
  <2>2. CASE i \in 1 .. Len(s)
    <3>1. t[i] = s[i] /\ w[i] = Ids(s)[i] /\ Ids(s)[i] = s[i].id
      BY <1>1, <1>2, <1>3, <2>2
    <3>. QED
      BY <2>1, <3>1
  <2>3. CASE i = Len(s) + 1
    <3>1. t[i] = c /\ w[i] = c.id
      BY <1>1, <1>3, <2>3
    <3>. QED
      BY <2>1, <3>1
  <2>. QED
    BY <1>5, <2>2, <2>3
<1>7. Ids(t) = w
  BY <1>3, <1>4, <1>6, SeqEqual
<1>. QED
  BY <1>7 DEF t, w

LEMMA IdsTail ==
  ASSUME NEW s \in Seq(Command), s # <<>>
  PROVE  /\ Ids(Tail(s)) = Tail(Ids(s)) /\ Ids(s) # <<>>
         /\ <<s[1].id>> \o Ids(Tail(s)) = Ids(s)
<1>. DEFINE t == Tail(s)
<1>1. s[1] \in Command /\ t \in Seq(Command) /\ s = <<s[1]>> \o t
  <2>1. /\ t \in Seq(Command) /\ Len(t) = Len(s) - 1 /\ Len(s) \in Nat /\ Len(s) >= 1
        /\ \A i \in 1 .. Len(t) : t[i] = s[i + 1]
    BY HeadTailProperties, EmptySeq
  <2>2. s[1] \in Command
    BY <2>1
  <2>. DEFINE w == <<s[1]>> \o t
  <2>3. w \in Seq(Command) /\ Len(w) = Len(t) + 1 /\ w[1] = s[1]
        /\ \A i \in 1 .. Len(t) : w[i + 1] = t[i]
    BY <2>1, <2>2
  <2>. HIDE DEF w, t
  <2>4. ASSUME NEW i \in 1 .. Len(s)
        PROVE  s[i] = w[i]
    <3>1. i = 1 \/ (i - 1 \in 1 .. Len(t) /\ (i - 1) + 1 = i)
      BY <2>1
    <3>2. CASE i = 1
      BY <2>3, <3>2
    <3>3. CASE i - 1 \in 1 .. Len(t) /\ (i - 1) + 1 = i
      BY <2>1, <2>3, <3>3
    <3>. QED
      BY <3>1, <3>2, <3>3
  <2>5. s = w
    BY <2>1, <2>3, <2>4, SeqEqual
  <2>. QED
    BY <2>1, <2>2, <2>5 DEF w
<1>2. Ids(s) = <<s[1].id>> \o Ids(t)
  BY <1>1, IdsPrepend
<1>3. Ids(t) \in Seq(Nat) /\ s[1].id \in Nat
  BY <1>1, IdsType, CommandParts
<1>. HIDE DEF t
<1>4. Tail(<<s[1].id>> \o Ids(t)) = Ids(t) /\ <<s[1].id>> \o Ids(t) # <<>>
  BY <1>3
<1>. QED
  BY <1>2, <1>4 DEF t

(* What waits, by the command in flight and the contents of the queue. *)
LEMMA WaitingIs ==
  QueueType => Waiting = (IF inflight.active THEN <<inflight.cmd.id>> ELSE <<>>) \o Ids(Contents)
<1>. SUFFICES ASSUME QueueType
              PROVE  [i \in 1 .. count |-> Contents[i].id] = Ids(Contents)
  BY DEF Waiting
<1>. QED
  BY ContentsType DEF Ids

LEMMA WaitingIsPrimed ==
  QueueType' => Waiting' = (IF inflight'.active THEN <<inflight'.cmd.id>> ELSE <<>>)
                             \o Ids(Contents')
<1>. SUFFICES ASSUME QueueType'
              PROVE  [i \in 1 .. count' |-> Contents'[i].id] = Ids(Contents')
  BY DEF Waiting
<1>1. items' \in [Slots -> Item] /\ head' \in Slots /\ count' \in 0 .. QUEUE_CAPACITY
  BY DEF QueueType, Item, Slots
<1>2. Len(Contents') = count'
  BY <1>1, RingType DEF Contents
<1>. QED
  BY <1>2 DEF Ids

-----------------------------------------------------------------------------
(* Every step keeps the queue's promise and takes its commands in turn.    *)

Turned == QueueType' /\ Flies' /\ Held' /\ [Order!Next]_Waiting

Ready == QueueType /\ Flies /\ Held

LEMMA SameContents ==
  ASSUME QueueType, UNCHANGED queueVars
  PROVE  QueueType' /\ Contents' = Contents
BY DEF queueVars, QueueType, Contents

(* A step that leaves the queue and the command in flight. *)
LEMMA KeepTurn ==
  ASSUME Ready, UNCHANGED <<queueVars, operation, given>>, Flies',
         inflight'.active = inflight.active,
         inflight.active => inflight'.cmd.id = inflight.cmd.id
  PROVE  Turned
<1>1. QueueType' /\ Contents' = Contents
  BY SameContents DEF Ready
<1>2. Held'
  BY <1>1 DEF Ready, Held
<1>3. Waiting' = Waiting
  BY <1>1, WaitingIs, WaitingIsPrimed DEF Ready
<1>. QED
  BY <1>1, <1>2, <1>3 DEF Turned

LEMMA PassTurn ==
  ASSUME Ready, Pass, UNCHANGED <<operation, given>>
  PROVE  Turned
<1>1. UNCHANGED queueVars /\ inflight' = inflight
  BY DEF Pass
<1>2. Flies'
  BY <1>1 DEF Ready, Flies
<1>. QED
  BY <1>1, <1>2, KeepTurn DEF Ready, Flies

LEMMA StartTailTurn ==
  ASSUME Ready, NEW r, StartTail(r), UNCHANGED <<operation, given>>
  PROVE  Turned
<1>1. UNCHANGED queueVars
      /\ inflight' = [inflight EXCEPT !.tail = TRUE, !.result = r]
  BY DEF StartTail
<1>2. inflight' = Flight(inflight.active, TRUE, r, inflight.cmd)
  BY <1>1 DEF Ready, Flies, Flight
<1>3. inflight'.active = inflight.active /\ inflight'.cmd = inflight.cmd
  BY <1>2 DEF Flight
<1>4. Flies'
  BY <1>2, <1>3 DEF Ready, Flies, Flight
<1>. QED
  BY <1>1, <1>3, <1>4, KeepTurn

(* The command in flight ends, and with an unanswered probe all others. *)
LEMMA FinishTurn ==
  ASSUME Ready, inflight.active, NEW r, Finish(r), UNCHANGED <<operation, given>>
  PROVE  Turned
<1>1. inflight' = [Idle EXCEPT !.result = r]
  BY DEF Finish
<1>2. inflight' = Flight(FALSE, FALSE, r, NoCommand)
  BY <1>1 DEF Idle, Flight
<1>3. ~inflight'.active /\ Flies'
  BY <1>2 DEF Flies, Flight
<1>4. Contents \in Seq(Command) /\ inflight.cmd.id \in Nat
  BY CommandParts DEF Ready, Held, Flies
<1>5. Ids(Contents) \in Seq(Nat)
  BY <1>4, IdsType
<1>6. Waiting = <<inflight.cmd.id>> \o Ids(Contents)
  BY WaitingIs DEF Ready
<1>7. CASE ClearQueue
  <2>1. QueueType' /\ Contents' = <<>>
    <3>1. QueueType'
      BY <1>7, QueueAssumption DEF ClearQueue, Ready, QueueType, Slots
    <3>2. Sequenced!Empty
      BY <1>7, ClearSequenced DEF Ready
    <3>. QED
      BY <3>1, <3>2 DEF Sequenced!Empty
  <2>2. Held'
    BY <2>1, <1>3 DEF Ready, Held
  <2>3. Waiting' = <<>>
    BY <2>1, <1>3, WaitingIsPrimed DEF Ids
  <2>4. Order!Abandon
    BY <2>3 DEF Order!Abandon
  <2>. QED
    BY <2>1, <2>2, <2>4, <1>3 DEF Turned, Order!Next
<1>8. CASE UNCHANGED queueVars
  <2>1. QueueType' /\ Contents' = Contents
    BY <1>8, SameContents DEF Ready
  <2>2. Held'
    BY <2>1, <1>3 DEF Ready, Held
  <2>3. Waiting' = Ids(Contents)
    BY <2>1, <1>3, <1>5, WaitingIsPrimed
  <2>4. Waiting # <<>> /\ Tail(Waiting) = Ids(Contents)
    BY <1>4, <1>5, <1>6
  <2>5. Order!End
    BY <2>3, <2>4 DEF Order!End
  <2>. QED
    BY <2>1, <2>2, <2>5, <1>3 DEF Turned, Order!Next
<1>. QED
  BY <1>7, <1>8 DEF Finish

(* ... or it goes back to the front, to be asked again. *)
LEMMA CompleteTurn ==
  ASSUME Ready, inflight.active, NEW r, Complete(r), UNCHANGED <<operation, given>>
  PROVE  Turned
<1>1. CASE Finish(r)
  BY <1>1, FinishTurn
<1>2. CASE /\ ~QueueFull /\ PushFront([inflight.cmd EXCEPT !.reparse = TRUE])
           /\ inflight' = Idle
  <2>. DEFINE c == [inflight.cmd EXCEPT !.reparse = TRUE]
  <2>1. c \in Command /\ c.id = inflight.cmd.id /\ inflight.cmd.id \in Nat
    BY CommandParts DEF Ready, Flies
  <2>2. Contents \in Seq(Command) /\ Len(Contents) = count /\ count < QUEUE_CAPACITY
    BY <1>2, ContentsType, QueueAssumption DEF Ready, Held, QueueFull, QueueType
  <2>3. Sequenced!Prepend(c) /\ QueueType'
    BY <1>2, <2>1, PushFrontSequenced, PushFrontType DEF Ready
  <2>. HIDE DEF c
  <2>4. Contents' = <<c>> \o Contents
    BY <2>2, <2>3 DEF Sequenced!Prepend
  <2>5. Contents' \in Seq(Command) /\ Len(Contents') = Len(Contents) + 1
        /\ Contents'[1] = c /\ \A i \in 1 .. Len(Contents) : Contents'[i + 1] = Contents[i]
    BY <2>1, <2>2, <2>4
  <2>6. inflight' = Flight(FALSE, FALSE, "NONE", NoCommand)
    BY <1>2 DEF Idle, Flight
  <2>7. ~inflight'.active /\ Flies'
    BY <2>6 DEF Flies, Flight
  <2>8. ASSUME NEW i \in 1 .. Len(Contents')
        PROVE  Contents'[i].id <= given
    <3>1. i = 1 \/ (i - 1 \in 1 .. Len(Contents) /\ (i - 1) + 1 = i)
      BY <2>2, <2>5
    <3>2. CASE i = 1
      BY <3>2, <2>1, <2>5 DEF Ready, Held
    <3>3. CASE i - 1 \in 1 .. Len(Contents) /\ (i - 1) + 1 = i
      BY <3>3, <2>5 DEF Ready, Held
    <3>. QED
      BY <3>1, <3>2, <3>3
  <2>9. Held'
    BY <2>5, <2>7, <2>8 DEF Ready, Held
  <2>10. Ids(Contents') = <<inflight.cmd.id>> \o Ids(Contents)
    BY <2>1, <2>2, <2>4, IdsPrepend
  <2>11. Ids(Contents') \in Seq(Nat)
    BY <2>5, IdsType
  <2>12. Waiting' = Waiting
    <3>1. Waiting' = <<>> \o Ids(Contents')
      BY <2>3, <2>7, WaitingIsPrimed
    <3>2. <<>> \o Ids(Contents') = Ids(Contents')
      BY <2>11
    <3>3. Waiting = <<inflight.cmd.id>> \o Ids(Contents)
      BY WaitingIs DEF Ready
    <3>. QED
      BY <2>10, <3>1, <3>2, <3>3
  <2>. QED
    BY <2>3, <2>7, <2>9, <2>12 DEF Turned
<1>. QED
  BY <1>1, <1>2 DEF Complete

LEMMA OnLineTurn ==
  ASSUME Ready, NEW l, OnLine(l), UNCHANGED <<operation, given>>
  PROVE  Turned
<1>1. \/ Pass
      \/ inflight.active /\ \E r : Complete(r)
      \/ \E r : StartTail(r)
  BY Zenon DEF OnLine
<1>. QED
  BY <1>1, PassTurn, CompleteTurn, StartTailTurn

LEMMA OnPromptTurn ==
  ASSUME Ready, OnPrompt, UNCHANGED <<operation, given>>
  PROVE  Turned
<1>1. Pass \/ (inflight.active /\ Complete(inflight.result))
  BY DEF OnPrompt
<1>. QED
  BY <1>1, PassTurn, CompleteTurn

-----------------------------------------------------------------------------
(* The actions.                                                            *)

(* What is in front of the queue, and what is behind it. *)
LEMMA FrontIs ==
  ASSUME Ready, count > 0
  PROVE  /\ Contents # <<>> /\ Front = Contents[1] /\ Front \in Command
         /\ Contents \in Seq(Command) /\ Front.id \in Nat
<1>1. /\ Len(Contents) = count /\ count \in Nat /\ head \in Slots
      /\ Contents[1] = items[(head + (1 - 1)) % QUEUE_CAPACITY]
  BY ContentsType DEF Ready, QueueType
<1>2. Contents \in Seq(Command)
  BY DEF Ready, Held
<1>3. (head + (1 - 1)) % QUEUE_CAPACITY = head
  BY <1>1, AtHead
<1>4. Contents[1] \in Command /\ Contents # <<>>
  BY <1>1, <1>2
<1>. QED
  BY <1>1, <1>2, <1>3, <1>4, CommandParts DEF Front

(* The queue after its front was taken. *)
LEMMA PoppedIs ==
  ASSUME Ready, count > 0, PopFront
  PROVE  /\ QueueType' /\ Contents' = Tail(Contents) /\ Contents' \in Seq(Command)
         /\ \A i \in 1 .. Len(Contents') : Contents'[i].id <= given
<1>1. Contents # <<>> /\ Contents \in Seq(Command)
  BY FrontIs
<1>2. QueueType' /\ Sequenced!Take
  BY PopFrontType, PopFrontSequenced DEF Ready
<1>3. Contents' = Tail(Contents)
  BY <1>1, <1>2 DEF Sequenced!Take
<1>4. /\ Tail(Contents) \in Seq(Command) /\ Len(Tail(Contents)) = Len(Contents) - 1
      /\ \A i \in 1 .. Len(Tail(Contents)) : Tail(Contents)[i] = Contents[i + 1]
      /\ Len(Contents) \in Nat
  BY <1>1, HeadTailProperties
<1>5. \A i \in 1 .. Len(Contents) : Contents[i].id <= given
  BY DEF Ready, Held
<1>6. \A i \in 1 .. Len(Tail(Contents)) : i + 1 \in 1 .. Len(Contents)
  BY <1>4
<1>. QED
  BY <1>2, <1>3, <1>4, <1>5, <1>6

LEMMA FeedByteTurn ==
  ASSUME Ready, FeedByte
  PROVE  Turned
<1>1. UNCHANGED <<operation, given>>
  BY DEF FeedByte
<1>2. (\E l : OnLine(l)) \/ OnPrompt \/ Pass
  BY DEF FeedByte
<1>. QED
  BY <1>1, <1>2, OnLineTurn, OnPromptTurn, PassTurn

LEMMA EndTailTurn ==
  ASSUME Ready, EndTail
  PROVE  Turned
BY CompleteTurn DEF EndTail, TailOver

LEMMA GiveUpTurn ==
  ASSUME Ready, GiveUp
  PROVE  Turned
<1>1. inflight.active /\ UNCHANGED <<operation, given>> /\ \E r : Complete(r)
  BY DEF GiveUp, TimedOut
<1>. QED
  BY <1>1, CompleteTurn

LEMMA RetryTurn ==
  ASSUME Ready, Retry
  PROVE  Turned
<1>. DEFINE c == [inflight.cmd EXCEPT !.retries = @ - 1]
<1>1. inflight.active /\ inflight.cmd \in Command /\ inflight.cmd.retries > 0
  BY DEF Retry, TimedOut, Ready, Flies
<1>2. c \in Command /\ c.id = inflight.cmd.id
  BY <1>1, CommandParts
<1>3. inflight' = [active |-> TRUE, tail |-> FALSE, result |-> "NONE", cmd |-> c]
      /\ UNCHANGED <<queueVars, operation, given>>
  BY DEF Retry, Send
<1>. HIDE DEF c
<1>4. inflight' = Flight(TRUE, FALSE, "NONE", c)
  BY <1>3 DEF Flight
<1>5. inflight'.active = TRUE /\ inflight'.cmd = c
  BY <1>4 DEF Flight
<1>6. Flies'
  BY <1>2, <1>4, <1>5 DEF Flies, Flight
<1>7. inflight'.active = inflight.active
  BY <1>1, <1>5 DEF Ready, Flies
<1>. QED
  BY <1>2, <1>3, <1>5, <1>6, <1>7, KeepTurn

LEMMA DoMarkerTurn ==
  ASSUME Ready, DoMarker
  PROVE  Turned
<1>1. /\ ~inflight.active /\ count > 0 /\ PopFront
      /\ UNCHANGED <<operation, given>> /\ inflight' = inflight
  BY DEF DoMarker, DriveReady, flightVars
<1>2. /\ QueueType' /\ Contents' = Tail(Contents) /\ Contents' \in Seq(Command)
      /\ \A i \in 1 .. Len(Contents') : Contents'[i].id <= given
  BY <1>1, PoppedIs
<1>3. Contents # <<>> /\ Contents \in Seq(Command)
  BY <1>1, FrontIs
<1>4. Flies' /\ Held'
  BY <1>1, <1>2 DEF Ready, Flies, Held
<1>5. Ids(Contents) \in Seq(Nat) /\ Ids(Contents') \in Seq(Nat)
  BY <1>2, <1>3, IdsType
<1>6. Ids(Contents') = Tail(Ids(Contents)) /\ Ids(Contents) # <<>>
  BY <1>2, <1>3, IdsTail
<1>7. Waiting = Ids(Contents) /\ Waiting' = Ids(Contents')
  <2>1. Waiting = <<>> \o Ids(Contents)
    BY <1>1, WaitingIs DEF Ready
  <2>2. Waiting' = <<>> \o Ids(Contents')
    BY <1>1, <1>2, WaitingIsPrimed
  <2>. QED
    BY <1>5, <2>1, <2>2
<1>8. Order!End
  BY <1>6, <1>7 DEF Order!End
<1>. QED
  BY <1>2, <1>4, <1>8 DEF Turned, Order!Next

LEMMA SendNextTurn ==
  ASSUME Ready, SendNext
  PROVE  Turned
<1>1. /\ ~inflight.active /\ count > 0 /\ PopFront
      /\ UNCHANGED <<operation, given>>
      /\ inflight' = [active |-> TRUE, tail |-> FALSE, result |-> "NONE", cmd |-> Front]
  BY DEF SendNext, DriveReady, Send
<1>2. /\ QueueType' /\ Contents' = Tail(Contents) /\ Contents' \in Seq(Command)
      /\ \A i \in 1 .. Len(Contents') : Contents'[i].id <= given
  BY <1>1, PoppedIs
<1>3. /\ Contents # <<>> /\ Front = Contents[1] /\ Front \in Command
      /\ Contents \in Seq(Command)
  BY <1>1, FrontIs
<1>4. inflight' = Flight(TRUE, FALSE, "NONE", Front)
  BY <1>1 DEF Flight
<1>5. inflight'.active = TRUE /\ inflight'.cmd = Front
  BY <1>4 DEF Flight
<1>6. Flies'
  BY <1>3, <1>4, <1>5 DEF Flies, Flight
<1>7. Front.id <= given
  <2>1. 1 \in 1 .. Len(Contents)
    BY <1>3
  <2>. QED
    BY <2>1, <1>3 DEF Ready, Held
<1>8. Held'
  BY <1>1, <1>2, <1>5, <1>7 DEF Ready, Held
<1>9. Ids(Contents) \in Seq(Nat)
  BY <1>3, IdsType
<1>10. <<Contents[1].id>> \o Ids(Contents') = Ids(Contents)
  BY <1>2, <1>3, IdsTail
<1>11. Waiting' = <<Contents[1].id>> \o Ids(Contents')
  BY <1>2, <1>3, <1>5, WaitingIsPrimed
<1>12. Waiting = Ids(Contents)
  <2>1. Waiting = <<>> \o Ids(Contents)
    BY <1>1, WaitingIs DEF Ready
  <2>. QED
    BY <1>9, <2>1
<1>. QED
  BY <1>2, <1>6, <1>8, <1>10, <1>11, <1>12 DEF Turned

(* A command is given the next number; a full queue refuses it. *)
LEMMA GiveTurn ==
  ASSUME Ready, Give
  PROVE  Turned
<1>. DEFINE kind == operation[given + 1]
            c == [id |-> given + 1, kind |-> kind, retries |-> Retries[kind],
                  reparse |-> FALSE]
<1>1. /\ given < MaxCommands /\ given < Len(operation) /\ ~inflight.active
      /\ given' = given + 1 /\ PushBack(c)
      /\ inflight' = inflight /\ operation' = operation
  BY DEF Give, flightVars
<1>2. /\ given \in 0 .. MaxCommands /\ MaxCommands \in Nat
      /\ operation \in Seq(Kinds)
  BY ExchangeAssumption DEF Ready, Held
<1>3. given + 1 \in 1 .. MaxCommands /\ given \in Nat
  BY <1>1, <1>2
<1>4. kind \in Kinds
  BY <1>1, <1>2
<1>5. c \in Command /\ c.id = given + 1
  BY <1>3, <1>4, GivenParts
<1>. HIDE DEF c, kind
<1>6. QueueType' /\ Sequenced!Append_(c)
  BY <1>1, <1>5, PushBackType, PushBackSequenced DEF Ready
<1>7. /\ Contents \in Seq(Command) /\ Len(Contents) \in Nat
      /\ \A i \in 1 .. Len(Contents) : Contents[i].id <= given
      /\ \A i \in 1 .. Len(Contents) : Contents[i].id \in Nat
  BY IdsType DEF Ready, Held
<1>8. Flies'
  BY <1>1 DEF Ready, Flies
<1>9. Waiting = Ids(Contents) /\ Ids(Contents) \in Seq(Nat)
  <2>1. Waiting = <<>> \o Ids(Contents)
    BY <1>1, WaitingIs DEF Ready
  <2>. QED
    BY <1>7, <2>1, IdsType
<1>10. CASE Len(Contents) < QUEUE_CAPACITY
  <2>1. Contents' = Append(Contents, c)
    BY <1>6, <1>10 DEF Sequenced!Append_
  <2>2. /\ Contents' \in Seq(Command) /\ Len(Contents') = Len(Contents) + 1
        /\ Contents'[Len(Contents) + 1] = c
        /\ \A i \in 1 .. Len(Contents) : Contents'[i] = Contents[i]
    BY <1>5, <1>7, <2>1
  <2>3. ASSUME NEW i \in 1 .. Len(Contents')
        PROVE  Contents'[i].id <= given + 1
    <3>1. i \in 1 .. Len(Contents) \/ i = Len(Contents) + 1
      BY <1>7, <2>2
    <3>2. CASE i \in 1 .. Len(Contents)
      <4>1. Contents'[i].id = Contents[i].id /\ Contents[i].id <= given
            /\ Contents[i].id \in Nat
        BY <1>7, <2>2, <3>2
      <4>. QED
        BY <1>3, <4>1
    <3>3. CASE i = Len(Contents) + 1
      BY <1>3, <1>5, <2>2, <3>3
    <3>. QED
      BY <3>1, <3>2, <3>3
  <2>4. Held'
    <3>1. given' \in 0 .. MaxCommands /\ operation' \in Operations
      BY <1>1, <1>2, <1>3 DEF Ready, Held
    <3>2. ~inflight'.active
      BY <1>1
    <3>. QED
      BY <1>1, <2>2, <2>3, <3>1, <3>2 DEF Held
  <2>5. Ids(Contents') = Append(Ids(Contents), given + 1) /\ Ids(Contents') \in Seq(Nat)
    BY <1>5, <1>7, <2>1, <2>2, IdsAppend, IdsType
  <2>6. Waiting' = Append(Waiting, given + 1)
    <3>1. Waiting' = <<>> \o Ids(Contents')
      BY <1>1, <1>6, WaitingIsPrimed
    <3>2. <<>> \o Ids(Contents') = Ids(Contents')
      BY <2>5
    <3>. QED
      BY <1>9, <2>5, <3>1, <3>2
  <2>7. ASSUME NEW i \in 1 .. Len(Waiting)
        PROVE  Waiting[i] < given + 1
    <3>1. i \in 1 .. Len(Contents) /\ Waiting[i] = Contents[i].id
      BY <1>7, <1>9, IdsType
    <3>2. Contents[i].id <= given /\ Contents[i].id \in Nat
      BY <1>7, <3>1
    <3>. QED
      BY <1>3, <3>1, <3>2
  <2>8. Order!Give(given + 1)
    BY <2>6, <2>7 DEF Order!Give
  <2>. QED
    BY <1>3, <1>6, <1>8, <2>4, <2>8 DEF Turned, Order!Next
<1>11. CASE ~(Len(Contents) < QUEUE_CAPACITY)
  <2>1. Contents' = Contents
    BY <1>6, <1>11 DEF Sequenced!Append_
  <2>2. Held'
    <3>1. given' \in 0 .. MaxCommands /\ operation' \in Operations /\ ~inflight'.active
      BY <1>1, <1>2, <1>3 DEF Ready, Held
    <3>2. \A i \in 1 .. Len(Contents) : Contents[i].id <= given + 1
      BY <1>3, <1>7
    <3>. QED
      BY <1>1, <1>7, <2>1, <3>1, <3>2 DEF Held
  <2>3. Waiting' = Waiting
    <3>1. Waiting' = <<>> \o Ids(Contents)
      BY <1>1, <1>6, <2>1, WaitingIsPrimed
    <3>. QED
      BY <1>9, <3>1
  <2>. QED
    BY <1>6, <1>8, <2>2, <2>3 DEF Turned
<1>. QED
  BY <1>10, <1>11

(* The radar and the clock leave the queue and the command alone. *)
LEMMA OtherTurn ==
  ASSUME Ready, UNCHANGED <<queueVars, inflight, operation, given>>
  PROVE  Turned
<1>1. Flies'
  BY DEF Ready, Flies
<1>. QED
  BY <1>1, KeepTurn

LEMMA NextTurn ==
  ASSUME Ready, [ExchangeNext]_exchangeVars
  PROVE  Turned
<1>1. ASSUME PrintLine \/ Report \/ BootNoise \/ Tick \/ UNCHANGED exchangeVars
      PROVE  Turned
  <2>1. UNCHANGED <<queueVars, inflight, operation, given>>
    BY <1>1 DEF PrintLine, Report, BootNoise, Tick, exchangeVars, flightVars
  <2>. QED
    BY <2>1, OtherTurn
<1>. QED
  BY <1>1, FeedByteTurn, EndTailTurn, GiveUpTurn, RetryTurn, DoMarkerTurn, SendNextTurn,
     GiveTurn DEF ExchangeNext

-----------------------------------------------------------------------------
(* Every step changes the queue and the reader by their own methods, and   *)
(* what is on the wire stays text.                                         *)

LEMMA CompleteQueue ==
  ASSUME Ready, WireType, inflight.active, NEW r, Complete(r)
  PROVE  [QueueNext]_queueVars /\ printing' \in Seq(PrintedLine)
<1>1. CASE Finish(r)
  <2>1. ClearQueue \/ UNCHANGED queueVars
    BY <1>1 DEF Finish
  <2>2. \/ printing' = printing \o <<[text |-> Prompt, for |-> 0]>>
        \/ printing' = printing
    BY <1>1 DEF Finish
  <2>3. <<[text |-> Prompt, for |-> 0]>> \in Seq(PrintedLine)
    BY FixedText DEF PrintedLine
  <2>. QED
    BY <2>1, <2>2, <2>3 DEF QueueNext, WireType
<1>2. CASE /\ PushFront([inflight.cmd EXCEPT !.reparse = TRUE])
           /\ UNCHANGED printing
  BY <1>2, CommandParts DEF QueueNext, Ready, Flies, WireType
<1>. QED
  BY <1>1, <1>2 DEF Complete

LEMMA FeedByteWire ==
  ASSUME Ready, WireType, FeedByte
  PROVE  [QueueNext]_queueVars /\ ReaderNext /\ WireType'
<1>1. uart # <<>> /\ uart \in Seq(ReceivedByte) /\ uart' = Tail(uart)
  BY DEF FeedByte, WireType
<1>2. Head(uart) \in ReceivedByte /\ Tail(uart) \in Seq(ReceivedByte)
  BY <1>1, HeadTailProperties
<1>3. Head(uart).byte \in Byte
  BY <1>2 DEF ReceivedByte
<1>4. ReaderNext
  BY <1>3 DEF FeedByte, ReaderNext
<1>5. (\E l : OnLine(l)) \/ OnPrompt \/ Pass
  BY DEF FeedByte
<1>6. ASSUME NEW l, OnLine(l)
      PROVE  \/ Pass
             \/ inflight.active /\ \E r : Complete(r)
             \/ \E r : StartTail(r)
  BY <1>6, Zenon DEF OnLine
<1>7. Pass \/ (\E r : inflight.active /\ Complete(r)) \/ (\E r : StartTail(r))
  BY <1>5, <1>6 DEF OnPrompt
<1>8. ASSUME Pass
      PROVE  [QueueNext]_queueVars /\ printing' \in Seq(PrintedLine)
  BY <1>8 DEF Pass, WireType
<1>9. ASSUME NEW r, inflight.active, Complete(r)
      PROVE  [QueueNext]_queueVars /\ printing' \in Seq(PrintedLine)
  BY <1>9, CompleteQueue
<1>10. ASSUME NEW r, StartTail(r)
       PROVE  [QueueNext]_queueVars /\ printing' \in Seq(PrintedLine)
  BY <1>10 DEF StartTail, WireType
<1>11. [QueueNext]_queueVars /\ printing' \in Seq(PrintedLine)
  BY <1>7, <1>8, <1>9, <1>10
<1>. QED
  BY <1>1, <1>2, <1>4, <1>11 DEF WireType

LEMMA EndWire ==
  ASSUME Ready, WireType, EndTail \/ GiveUp
  PROVE  [QueueNext]_queueVars /\ UNCHANGED readerVars /\ WireType'
<1>1. /\ inflight.active /\ \E r : Complete(r)
      /\ UNCHANGED readerVars /\ uart' = uart
  BY DEF EndTail, GiveUp, TailOver, TimedOut
<1>2. [QueueNext]_queueVars /\ printing' \in Seq(PrintedLine)
  BY <1>1, CompleteQueue
<1>. QED
  BY <1>1, <1>2 DEF WireType

LEMMA SendingWire ==
  ASSUME Ready, WireType, Retry \/ SendNext
  PROVE  [QueueNext]_queueVars /\ UNCHANGED readerVars /\ WireType'
<1>1. CASE Retry
  <2>. DEFINE c == [inflight.cmd EXCEPT !.retries = @ - 1]
  <2>1. c.kind \in Kinds /\ c.id \in Nat
    BY <1>1, CommandParts DEF Retry, TimedOut, Ready, Flies
  <2>2. Transmit(c.kind, c.id, said) /\ UNCHANGED <<readerVars, queueVars>>
    BY <1>1 DEF Retry, Send
  <2>. QED
    BY <2>1, <2>2, TransmitType DEF Retry
<1>2. CASE SendNext
  <2>1. count > 0 /\ PopFront /\ UNCHANGED readerVars
    BY <1>2 DEF SendNext, DriveReady
  <2>2. Front.kind \in Kinds /\ Front.id \in Nat
    BY <2>1, FrontIs, CommandParts
  <2>3. \E before : Transmit(Front.kind, Front.id, before)
    BY <1>2 DEF SendNext, Send
  <2>4. WireType'
    BY <2>2, <2>3, TransmitType
  <2>. QED
    BY <2>1, <2>4 DEF QueueNext
<1>. QED
  BY <1>1, <1>2

LEMMA QueueingWire ==
  ASSUME Ready, WireType, Give \/ DoMarker
  PROVE  [QueueNext]_queueVars /\ UNCHANGED readerVars /\ WireType'
<1>1. CASE Give
  <2>. DEFINE c == [id |-> given + 1, kind |-> operation[given + 1],
                    retries |-> Retries[operation[given + 1]], reparse |-> FALSE]
  <2>1. /\ given < MaxCommands /\ given < Len(operation) /\ PushBack(c)
        /\ UNCHANGED <<readerVars, uart, printing>>
    BY <1>1 DEF Give, wireVars
  <2>2. /\ given \in 0 .. MaxCommands /\ MaxCommands \in Nat
        /\ operation \in Seq(Kinds)
    BY ExchangeAssumption DEF Ready, Held
  <2>3. given + 1 \in 1 .. MaxCommands /\ operation[given + 1] \in Kinds
    BY <2>1, <2>2
  <2>4. c \in Command
    BY <2>3, GivenParts
  <2>. HIDE DEF c
  <2>. QED
    BY <2>1, <2>4 DEF QueueNext, WireType
<1>2. CASE DoMarker
  BY <1>2 DEF DoMarker, QueueNext, WireType, wireVars
<1>. QED
  BY <1>1, <1>2

LEMMA PrintedWire ==
  ASSUME WireType, PrintLine
  PROVE  WireType'
<1>. DEFINE line == Head(printing)
<1>1. printing # <<>> /\ printing \in Seq(PrintedLine) /\ printing' = Tail(printing)
  BY DEF PrintLine, WireType
<1>2. line \in PrintedLine /\ Tail(printing) \in Seq(PrintedLine)
  BY <1>1, HeadTailProperties
<1>3. line.text \in Seq(Byte) /\ line.for \in Nat
  BY <1>2 DEF PrintedLine
<1>. HIDE DEF line
<1>4. \/ uart' = Received(line.text, line.for)
      \/ \E k \in 1 .. Len(line.text) : uart' = Received(Without(line.text, k), line.for)
  BY DEF PrintLine, line
<1>5. uart' \in Seq(ReceivedByte)
  BY <1>3, <1>4, ReceivedType, WithoutType
<1>. QED
  BY <1>1, <1>2, <1>5 DEF WireType

LEMMA OtherWire ==
  ASSUME WireType, PrintLine \/ Report \/ BootNoise \/ Tick \/ UNCHANGED exchangeVars
  PROVE  UNCHANGED <<queueVars, readerVars>> /\ WireType'
<1>1. UNCHANGED <<queueVars, readerVars>>
  BY DEF PrintLine, Report, BootNoise, Tick, exchangeVars
<1>2. CASE PrintLine
  BY <1>1, <1>2, PrintedWire
<1>3. CASE Report
  <2>1. uart' = Received(<<"$", "1", "*", "NL">>, 0) /\ printing' = printing
    BY <1>3 DEF Report
  <2>2. uart' \in Seq(ReceivedByte)
    BY <2>1, FixedText, ReceivedType
  <2>. QED
    BY <1>1, <2>1, <2>2 DEF WireType
<1>4. CASE BootNoise
  <2>1. (\E text \in Noise : uart' = Received(text, 0)) /\ printing' = printing
    BY <1>4 DEF BootNoise
  <2>2. \A text \in Noise : text \in Seq(Byte)
    BY ExchangeAssumption
  <2>3. uart' \in Seq(ReceivedByte)
    BY <2>1, <2>2, ReceivedType
  <2>. QED
    BY <1>1, <2>1, <2>3 DEF WireType
<1>5. CASE Tick \/ UNCHANGED exchangeVars
  BY <1>1, <1>5 DEF Tick, exchangeVars, wireVars, WireType
<1>. QED
  BY <1>2, <1>3, <1>4, <1>5

LEMMA NextWire ==
  ASSUME Ready, WireType, [ExchangeNext]_exchangeVars
  PROVE  [QueueNext]_queueVars /\ [ReaderNext]_readerVars /\ WireType'
BY FeedByteWire, EndWire, SendingWire, QueueingWire, OtherWire DEF ExchangeNext

-----------------------------------------------------------------------------
LEMMA ExchangeInvInit == ExchangeInit => ExchangeInv
<1>. SUFFICES ASSUME ExchangeInit PROVE ExchangeInv
  OBVIOUS
<1>0. QueueInit /\ ReaderInit /\ uart = <<>> /\ printing = <<>>
  BY DEF ExchangeInit
<1>1. QueueType
  BY <1>0, QueueAssumption DEF QueueInit, QueueType, Slots
<1>2. ReaderInv
  BY <1>0, InitGood
<1>3. WireType
  BY <1>0, EmptySeq DEF WireType
<1>4. inflight = Flight(FALSE, FALSE, "NONE", NoCommand)
  BY DEF ExchangeInit, Idle, Flight
<1>5. Flies /\ ~inflight.active
  BY <1>4 DEF Flies, Flight
<1>6. Contents = <<>>
  BY <1>1, InitSequenced DEF ExchangeInit, Sequenced!Init
<1>7. Held
  <2>1. given = 0 /\ operation \in Operations /\ MaxCommands \in Nat
    BY ExchangeAssumption DEF ExchangeInit
  <2>. QED
    BY <1>5, <1>6, <2>1 DEF Held
<1>. QED
  BY <1>1, <1>2, <1>3, <1>5, <1>7 DEF ExchangeInv

LEMMA ExchangeStep ==
  ASSUME ExchangeInv, [ExchangeNext]_exchangeVars
  PROVE  /\ ExchangeInv'
         /\ [QueueNext]_queueVars /\ [ReaderNext]_readerVars /\ [Order!Next]_Waiting
<1>1. Turned
  BY NextTurn DEF ExchangeInv, Ready
<1>2. [QueueNext]_queueVars /\ [ReaderNext]_readerVars /\ WireType'
  BY NextWire DEF ExchangeInv, Ready
<1>3. ReaderInv'
  BY <1>2, FeedGood DEF ExchangeInv, Good, ReaderInv
<1>. QED
  BY <1>1, <1>2, <1>3 DEF ExchangeInv, Turned

(* In the exchange the queue is used as a queue: whatever is retried,      *)
(* asked again or dropped, its ring stays a sequence (drive_queue_,        *)
(* complete_).                                                             *)
THEOREM ExchangeKeepsSequence == ExchangeSpec => RingIsSequence
<1>1. ExchangeInit => ExchangeInv /\ Sequenced!Init
  BY ExchangeInvInit, InitSequenced DEF ExchangeInit
<1>2. ExchangeInv /\ [ExchangeNext]_exchangeVars
        => ExchangeInv' /\ [Sequenced!Next]_Contents
  BY ExchangeStep, NextSequenced DEF ExchangeInv
<1>. QED
  BY <1>1, <1>2, PTL DEF ExchangeSpec, RingIsSequence, Sequenced!Spec

(* Whatever the radar and the line make of its text, the exchange reads    *)
(* whole lines (feed() of the engine and of the line reader).              *)
THEOREM ExchangeReadsLines == ExchangeSpec => LinesAreWhole
<1>1. ExchangeInit => ExchangeInv /\ Lines!Init
  BY ExchangeInvInit, InitGood DEF ExchangeInit
<1>2. ExchangeInv /\ [ExchangeNext]_exchangeVars
        => ExchangeInv' /\ [Lines!Next]_(Lines!vars)
  BY ExchangeStep, FeedGood DEF ExchangeInv, Good
<1>. QED
  BY <1>1, <1>2, PTL DEF ExchangeSpec, LinesAreWhole, Lines!Spec

(* The commands of every operation end one at a time, in the order given,  *)
(* each once, for every capacity, number of retries, loss and timing       *)
(* (drive_queue_, complete_ and loop of mmwave_engine.cpp).                *)
THEOREM CommandsInTurn == ExchangeSpec => InTurn
<1>1. ExchangeInit => ExchangeInv /\ Order!Init
  <2>. SUFFICES ASSUME ExchangeInit PROVE ExchangeInv /\ Waiting = <<>>
    BY DEF Order!Init
  <2>1. ExchangeInv
    BY ExchangeInvInit
  <2>2. count = 0 /\ ~inflight.active
    BY DEF ExchangeInit, QueueInit, Idle
  <2>3. [i \in 1 .. count |-> Contents[i].id] = <<>>
    BY <2>2
  <2>4. Waiting = <<>> \o <<>>
    BY <2>2, <2>3 DEF Waiting
  <2>. QED
    BY <2>1, <2>4
<1>2. ExchangeInv /\ [ExchangeNext]_exchangeVars => ExchangeInv' /\ [Order!Next]_Waiting
  BY ExchangeStep
<1>. QED
  BY <1>1, <1>2, PTL DEF ExchangeSpec, InTurn, Order!Spec
=============================================================================
