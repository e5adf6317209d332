------------------------------ MODULE Exchange ------------------------------
(***************************************************************************)
(* The command exchange: the queue of commands, the one in flight with its *)
(* timers, the reader and classifier of what the radar prints, and a radar *)
(* that answers line by line over a serial line that can lose things.      *)
(* A word of an answer is one byte of the line: losing it stands for       *)
(* damaging it. Time goes in ticks; ages grow up to the largest limit.     *)
(***************************************************************************)
EXTENDS LineReader, CommandQueue

CONSTANTS
  MaxCommands,                 \* bound: commands of an operation
  Operations,                  \* what is queued together: sequences of kinds
  MaxLoss,                     \* bound: bytes, commands and answers lost
  MaxReports, MaxNoise,        \* bounds: report lines, pieces of boot noise
  Noise,                       \* pieces of text printed while booting
  Retries, MaxRetries,         \* of each kind, as enqueue_() sets them; the most
  TIMEOUT, SAVE_TIMEOUT, TAIL, VERSION_TAIL, GAP, SAVE_GAP,
  LINE_TIME                    \* the radar's next line takes at most this long

(* Answers can only be told apart if they arrive before their command is   *)
(* given up, and their last two lines before the wait for them is over. An *)
(* answer has at most four lines, the echo and the prompt among them. One  *)
(* that comes later would count for the next command: a Done has no name.  *)
ASSUME TimingAssumption ==
  /\ TIMEOUT > 4 * LINE_TIME /\ SAVE_TIMEOUT >= TIMEOUT
  /\ TAIL > 2 * LINE_TIME /\ VERSION_TAIL >= TAIL

VARIABLES
  inflight,     \* the command sent, its tail and result
  sinceTx,      \* age of the last send (sent_ms, last_tx_ms)
  sinceTail,    \* age of tail_start
  gap,          \* gap_ms_
  lastCmd,      \* last_cmd_: what was sent last
  uart,         \* bytes received and not read: what, and for which command
  printing,     \* lines the radar has still to print
  sinceLine,    \* age of the radar's last line
  from,         \* history: for which commands the line being read was printed
  said,         \* history: what the radar answered to the command in flight
  operation, given,             \* the commands to queue, how many are
  lost, reports, noise          \* how often: losses, reports, noise

wireVars == <<uart, printing, sinceLine, said, lost, reports, noise>>
flightVars == <<inflight, sinceTx, sinceTail, gap, lastCmd>>
exchangeVars == <<readerVars, queueVars, flightVars, wireVars, operation, given,
                  from>>

(* getSWV (and getHWV), get and set commands of a group, sensorStop and    *)
(* sensorStart, saveConfig, resetCfg, setRunApp, and the markers.          *)
Kinds == {"swv", "get", "set", "stop", "start", "save", "reset", "runApp", "marker"}

NoReply == {"runApp"}

(* A set without reply is handled as any other set. *)
HandledAs(kind) == IF kind = "runApp" THEN "set" ELSE kind

Limit(kind) == IF kind = "save" THEN SAVE_TIMEOUT
               ELSE IF kind \in NoReply THEN GAP ELSE TIMEOUT

GapAfter(kind) == IF kind \in {"save", "reset"} THEN SAVE_GAP ELSE GAP

-----------------------------------------------------------------------------
(* The radar: what it may print for a command, without the prompt.         *)
Prompt == <<"leapMMW", ":", "/", ">">>
Answers(kind) ==
  CASE kind = "swv"    -> {<<<<"Version">>, <<"Done">>>>}
    [] kind = "get"    -> {<<<<"Response", "1.5">>, <<"Done">>>>, <<<<"Error">>>>,
                           <<<<"not recognized">>>>}
    [] kind = "set"    -> {<<<<"Done">>>>, <<<<"Error">>>>, <<<<"is not stopped">>>>,
                           <<<<"not recognized">>>>}
    [] kind = "stop"   -> {<<<<"Done">>>>, <<<<"stopped already">>, <<"Done">>>>}
    [] kind = "start"  -> {<<<<"Done">>>>, <<<<"can't startSensor">>>>,
                           <<<<"started already">>>>,
                           <<<<"started already">>, <<"Done">>>>}
    [] kind = "save"   -> {<<<<"Done">>>>, <<<<"Error">>>>,
                           <<<<"save cfg complete">>, <<"Done">>>>,
                           <<<<"no parameter has changed">>, <<"Done">>>>,
                           <<<<"no parameter has changed">>, <<"Error">>>>,
                           <<<<"is not stopped">>, <<"Error">>>>}
    [] kind = "reset"  -> {<<<<"Done">>>>, <<<<"factory reset complete">>, <<"Done">>>>}
    [] OTHER           -> {<<>>}

(* The answers by which the radar says that it did what it was told. *)
Success(kind) ==
  CASE kind = "get"   -> {a \in Answers(kind) : a[1][1] = "Response"}
    [] kind = "set"   -> {<<<<"Done">>>>}
    [] kind = "start" -> {a \in Answers(kind) : a[1][1] # "can't startSensor"}
    [] kind = "save"  -> {a \in Answers(kind) :
                            a[1][1] \notin {"Error", "is not stopped"}}
    [] OTHER          -> Answers(kind)

(* Whatever the engine sends can be queued, and whatever the radar prints  *)
(* can be read.                                                            *)
ASSUME ExchangeAssumption ==
  /\ MaxCommands \in Nat /\ \A s \in Operations : s \in Seq(Kinds)
  /\ MaxRetries \in Nat /\ Retries \in [Kinds -> 0 .. MaxRetries]
  /\ Command = [id : 1 .. MaxCommands, kind : Kinds, retries : 0 .. MaxRetries,
                reparse : BOOLEAN]
  /\ Kinds \cup {"$", "1", "*", "NL"} \subseteq Byte /\ Prompt \in Seq(Byte)
  /\ \A text \in Noise : text \in Seq(Byte)
  /\ \A kind \in Kinds : \A answer \in Answers(kind) : answer \in Seq(Seq(Byte))

Lined(answer) == [i \in 1 .. Len(answer) |-> Append(answer[i], "NL")] \o <<Prompt>>

(* It prints the echo first, and answers in the order it was asked. *)
Heard(kind, n, answer) ==
  LET lines == <<<<kind, "NL">>>> \o Lined(answer)
  IN  printing' = printing \o [i \in 1 .. Len(lines) |-> [text |-> lines[i], for |-> n]]

(* Bound: things get lost only when the radar booted without noise. *)
MayLose == lost < MaxLoss /\ noise = 0

(* A command goes out; the radar hears it and picks an answer, or not.    *)
(* `before` is what it has answered to the same command already.          *)
Transmit(kind, n, before) ==
  /\ \/ /\ \E answer \in Answers(kind) :
              Heard(kind, n, answer) /\ said' = before \cup {answer}
        /\ UNCHANGED lost
     \/ /\ MayLose /\ lost' = lost + 1
        /\ said' = before /\ UNCHANGED printing
  /\ sinceLine' = IF printing = <<>> THEN 0 ELSE sinceLine
  /\ UNCHANGED <<uart, reports, noise>>

Received(text, n) == [i \in 1 .. Len(text) |-> [byte |-> text[i], for |-> n]]

Without(text, k) == SubSeq(text, 1, k - 1) \o SubSeq(text, k + 1, Len(text))

-----------------------------------------------------------------------------
(* classify(): the kind of a line. A phrase is looked for in this order.   *)
Phrases ==
  << <<"can't startSensor", "UNSAVED_CANT_START">>,
     <<"save cfg complete", "SAVE_COMPLETE">>,
     <<"factory reset complete", "FACTORY_RESET_DONE">>,
     <<"stopped already", "ALREADY_STOPPED">>,
     <<"started already", "ALREADY_STARTED">>,
     <<"is not stopped", "NOT_STOPPED">>,
     <<"no parameter has changed", "NOTHING_TO_SAVE">>,
     <<"not recognized", "UNRECOGNIZED">> >>

Holds(l, word) == \E i \in 1 .. Len(l) : l[i] = word

PhraseKind(l) ==
  LET found == {i \in 1 .. Len(Phrases) : Holds(l, Phrases[i][1])}
  IN  IF found = {} THEN "UNKNOWN"
      ELSE Phrases[CHOOSE i \in found : \A k \in found : i <= k][2]

(* A Response without a number, or with a word that is none, is malformed. *)
Malformed(l) == Len(l) = 1 \/ \E i \in 2 .. Len(l) : l[i] # "1.5"

Classify(l) ==
  CASE l = <<lastCmd>>     -> "ECHO"
    [] l # <<lastCmd>> /\ l[1] = "$"  ->
         IF Len(l) >= 2 /\ l[Len(l)] = "*" THEN "SENTENCE" ELSE "UNKNOWN"
    [] l = <<"Done">>      -> "DONE"
    [] l[1] = "Error"      -> "ERROR"
    [] l[1] = "Response"   -> IF Malformed(l) THEN "MALFORMED" ELSE "RESPONSE"
    [] l[1] = "Version"    -> "VERSION"
    [] OTHER               -> PhraseKind(l)

(* on_reply_(): what a reply makes of a command without a reply so far.    *)
(* Ends: the result at once; Waits: the result once the answer is over.    *)
(* Mutant: an Error ends saveConfig as it ends sensorStop. *)
AlteredEnds ==
  {<<"swv", "DONE", "OK">>, <<"swv", "ERROR", "ERROR">>,
   <<"get", "DONE", "ERROR">>, <<"get", "ERROR", "ERROR">>,
   <<"set", "DONE", "OK">>, <<"set", "ERROR", "ERROR">>,
   <<"stop", "DONE", "OK">>, <<"stop", "ERROR", "OK">>,
   <<"start", "DONE", "OK">>, <<"start", "ERROR", "ERROR">>,
   <<"save", "DONE", "OK">>, <<"save", "ERROR", "OK">>,
   <<"reset", "DONE", "OK">>, <<"reset", "ERROR", "ERROR">>}

Ends ==
  {<<"swv", "DONE", "OK">>, <<"swv", "ERROR", "ERROR">>,
   <<"get", "DONE", "ERROR">>, <<"get", "ERROR", "ERROR">>,
   <<"set", "DONE", "OK">>, <<"set", "ERROR", "ERROR">>,
   <<"stop", "DONE", "OK">>, <<"stop", "ERROR", "OK">>,
   <<"start", "DONE", "OK">>, <<"start", "ERROR", "ERROR">>,
   <<"save", "DONE", "OK">>, <<"save", "ERROR", "ERROR">>,
   <<"reset", "DONE", "OK">>, <<"reset", "ERROR", "ERROR">>}

(* Mutant: a set does not know the text a running radar refuses it with. *)
AlteredWaits ==
  {<<"swv", "VERSION", "OK">>, <<"swv", "RESPONSE", "OK">>,
   <<"swv", "MALFORMED", "OK">>, <<"swv", "UNRECOGNIZED", "UNRECOGNIZED">>,
   <<"get", "RESPONSE", "OK">>, <<"get", "MALFORMED", "MALFORMED">>,
   <<"get", "UNRECOGNIZED", "UNRECOGNIZED">>, <<"get", "NOT_STOPPED", "ERROR">>,
   <<"set", "UNRECOGNIZED", "UNRECOGNIZED">>,
   <<"stop", "ALREADY_STOPPED", "OK">>,
   <<"start", "ALREADY_STARTED", "OK">>, <<"start", "UNSAVED_CANT_START", "UNSAVED">>,
   <<"save", "NOTHING_TO_SAVE", "OK">>, <<"save", "NOT_STOPPED", "NOT_STOPPED">>,
   <<"reset", "UNRECOGNIZED", "UNRECOGNIZED">>}

Waits ==
  {<<"swv", "VERSION", "OK">>, <<"swv", "RESPONSE", "OK">>,
   <<"swv", "MALFORMED", "OK">>, <<"swv", "UNRECOGNIZED", "UNRECOGNIZED">>,
   <<"get", "RESPONSE", "OK">>, <<"get", "MALFORMED", "MALFORMED">>,
   <<"get", "UNRECOGNIZED", "UNRECOGNIZED">>, <<"get", "NOT_STOPPED", "ERROR">>,
   <<"set", "NOT_STOPPED", "ERROR">>, <<"set", "UNRECOGNIZED", "UNRECOGNIZED">>,
   <<"stop", "ALREADY_STOPPED", "OK">>,
   <<"start", "ALREADY_STARTED", "OK">>, <<"start", "UNSAVED_CANT_START", "UNSAVED">>,
   <<"save", "NOTHING_TO_SAVE", "OK">>, <<"save", "NOT_STOPPED", "NOT_STOPPED">>,
   <<"reset", "UNRECOGNIZED", "UNRECOGNIZED">>}

(* Lines that say nothing about the command in flight. *)
NoVerdict == {"SENTENCE", "ECHO", "UNKNOWN", "SAVE_COMPLETE", "FACTORY_RESET_DONE"}

TailLimit(kind, result) ==
  IF kind = "swv" /\ result = "OK" THEN VERSION_TAIL ELSE TAIL

-----------------------------------------------------------------------------
Idle == [active |-> FALSE, tail |-> FALSE, result |-> "NONE", cmd |-> NoCommand]

ExchangeInit ==
  /\ ReaderInit /\ QueueInit
  /\ inflight = Idle
  /\ sinceTx = SAVE_GAP /\ sinceTail = 0 /\ gap = 0 /\ lastCmd = ""
  /\ uart = <<>> /\ printing = <<>> /\ sinceLine = 0 /\ said = {}
  /\ from = {} /\ operation \in Operations /\ given = 0 /\ lost = 0 /\ reports = 0 /\ noise = 0

(* Mutant: the command stays in flight when its time is over. *)
AlteredFinish(result) ==
  /\ inflight' = [inflight EXCEPT !.tail = FALSE, !.result = result,
                                  !.active = (result = "TIMEOUT")]
  /\ sinceTail' = 0
  /\ said' = {}
  /\ UNCHANGED <<queueVars, printing>>

(* The command is over; a probe without an answer drops all that follow.   *)
Finish(result) ==
  /\ inflight' = [Idle EXCEPT !.result = result]
  /\ sinceTail' = 0
  /\ said' = {}
  /\ IF inflight.cmd.kind = "swv" /\ result = "TIMEOUT"
     THEN /\ ClearQueue
          /\ \/ printing' = printing \o <<[text |-> Prompt, for |-> 0]>>
             \/ UNCHANGED printing
     ELSE UNCHANGED <<queueVars, printing>>

(* Mutant: what is to be asked again goes to the end of the queue. *)
AlteredComplete(result) ==
  IF result = "MALFORMED" /\ ~inflight.cmd.reparse /\ ~QueueFull
  THEN /\ PushBack([inflight.cmd EXCEPT !.reparse = TRUE])
       /\ inflight' = Idle /\ sinceTail' = 0
       /\ UNCHANGED <<said, printing>>
  ELSE Finish(result)

(* complete_(): what could not be parsed is asked once more. *)
Complete(result) ==
  IF result = "MALFORMED" /\ ~inflight.cmd.reparse /\ ~QueueFull
  THEN /\ PushFront([inflight.cmd EXCEPT !.reparse = TRUE])
       /\ inflight' = Idle /\ sinceTail' = 0
       /\ UNCHANGED <<said, printing>>
  ELSE Finish(result)

(* Mutant: the rest of the answer is not waited for. *)
AlteredStartTail(result) == Complete(result)

(* start_tail_(): the result is known, the answer not over. *)
StartTail(result) ==
  /\ inflight' = [inflight EXCEPT !.tail = TRUE, !.result = result]
  /\ sinceTail' = 0
  /\ UNCHANGED <<queueVars, said, printing>>

Pass == UNCHANGED <<queueVars, inflight, sinceTail, said, printing>>

(* on_line_() and on_reply_(). *)
OnLine(l) ==
  LET kind  == HandledAs(inflight.cmd.kind)
      reply == Classify(l)
      Ending  == {r \in {v[3] : v \in Ends} : <<kind, reply, r>> \in Ends}
      Waiting == {r \in {v[3] : v \in Waits} : <<kind, reply, r>> \in Waits}
  IN  IF ~inflight.active \/ reply \in NoVerdict THEN Pass
      ELSE IF inflight.tail THEN Complete(inflight.result)
      ELSE \/ \E r \in Ending : Complete(r)
           \/ \E r \in Waiting : StartTail(r)
           \/ Ending \cup Waiting = {} /\ Pass

OnPrompt ==
  IF inflight.active /\ inflight.tail THEN Complete(inflight.result) ELSE Pass

(* feed(): the next byte. *)
FeedByte ==
  /\ uart # <<>>
  /\ Feed(Head(uart).byte)
  /\ uart' = Tail(uart)
  /\ from' = IF since' = <<>> THEN {} ELSE from \cup {Head(uart).for}
  /\ CASE event'.kind = "LINE"   -> OnLine(event'.line)
       [] event'.kind = "PROMPT" -> OnPrompt
       [] OTHER                  -> Pass
  /\ UNCHANGED <<sinceTx, gap, lastCmd, sinceLine, lost, reports, noise, operation, given>>

(* send_() *)
Send(c, before) ==
  /\ inflight' = [active |-> TRUE, tail |-> FALSE, result |-> "NONE", cmd |-> c]
  /\ sinceTx' = 0 /\ sinceTail' = 0
  /\ gap' = GapAfter(c.kind)
  /\ lastCmd' = c.kind
  /\ Transmit(c.kind, c.id, before)

TailOver == inflight.active /\ inflight.tail
            /\ sinceTail >= TailLimit(inflight.cmd.kind, inflight.result)

TimedOut == inflight.active /\ ~inflight.tail /\ sinceTx >= Limit(inflight.cmd.kind)

(* loop(): the answer's end is not waited for any longer. *)
EndTail ==
  /\ uart = <<>> /\ TailOver
  /\ Complete(inflight.result)
  /\ UNCHANGED <<readerVars, from, sinceTx, gap, lastCmd, uart, sinceLine, lost, reports,
                 noise, operation, given>>

(* loop(): no answer in time. *)
GiveUp ==
  /\ uart = <<>> /\ TimedOut
  /\ inflight.cmd.kind \in NoReply \/ inflight.cmd.retries = 0
  /\ Complete(IF inflight.cmd.kind \in NoReply THEN "OK" ELSE "TIMEOUT")
  /\ UNCHANGED <<readerVars, from, sinceTx, gap, lastCmd, uart, sinceLine, lost, reports,
                 noise, operation, given>>

Retry ==
  /\ uart = <<>> /\ TimedOut
  /\ inflight.cmd.kind \notin NoReply /\ inflight.cmd.retries > 0
  /\ Send([inflight.cmd EXCEPT !.retries = @ - 1], said)
  /\ UNCHANGED <<readerVars, from, queueVars, operation, given>>

(* drive_queue_(): a marker is done when it is reached, a command is sent  *)
(* when the line has been quiet long enough.                               *)
DriveReady ==
  ~inflight.active /\ count > 0 /\ (Front.kind = "marker" \/ sinceTx >= gap)

DoMarker ==
  /\ uart = <<>> /\ DriveReady /\ Front.kind = "marker"
  /\ PopFront
  /\ UNCHANGED <<readerVars, from, flightVars, wireVars, operation, given>>

SendNext ==
  /\ uart = <<>> /\ DriveReady /\ Front.kind # "marker"
  /\ PopFront
  /\ Send(Front, IF Front.reparse THEN said ELSE {})
  /\ UNCHANGED <<readerVars, from, operation, given>>

(* enqueue_(): commands are queued while none is in flight. *)
Give ==
  /\ given < MaxCommands /\ given < Len(operation) /\ ~inflight.active /\ uart = <<>>
  /\ given' = given + 1
  /\ LET kind == operation[given + 1] IN
       PushBack([id |-> given + 1, kind |-> kind, retries |-> Retries[kind],
                 reparse |-> FALSE])
  /\ UNCHANGED <<readerVars, from, flightVars, wireVars, operation>>

-----------------------------------------------------------------------------
(* The radar prints its next line; a byte of it may get lost. Reading does *)
(* not send, so whether a line is read before the next one is printed      *)
(* makes no difference.                                                    *)
PrintLine ==
  /\ printing # <<>> /\ uart = <<>>
  /\ LET line == Head(printing) IN
     \/ uart' = Received(line.text, line.for) /\ UNCHANGED lost
     \/ /\ MayLose /\ lost' = lost + 1
        /\ \E k \in 1 .. Len(line.text) :
             uart' = Received(Without(line.text, k), line.for)
  /\ printing' = Tail(printing)
  /\ sinceLine' = 0
  /\ UNCHANGED <<readerVars, from, queueVars, flightVars, said, reports, noise, operation, given>>

Report ==
  /\ reports < MaxReports /\ uart = <<>>
  /\ reports' = reports + 1
  /\ uart' = Received(<<"$", "1", "*", "NL">>, 0)
  /\ UNCHANGED <<readerVars, from, queueVars, flightVars, printing, sinceLine, said, lost,
                 noise, operation, given>>

BootNoise ==
  /\ noise < MaxNoise /\ given = 0 /\ uart = <<>>
  /\ noise' = noise + 1
  /\ \E text \in Noise : uart' = Received(text, 0)
  /\ UNCHANGED <<readerVars, from, queueVars, flightVars, printing, sinceLine, said, lost,
                 reports, operation, given>>

Older(age, limit) == IF age < limit THEN age + 1 ELSE age

(* Time passes when the loop has done all it can, and not past the moment  *)
(* the radar's next line is due.                                           *)
Tick ==
  /\ uart = <<>> /\ ~TailOver /\ ~TimedOut /\ ~DriveReady
  /\ printing = <<>> \/ sinceLine < LINE_TIME
  /\ sinceTx' = Older(sinceTx, IF inflight.active THEN SAVE_TIMEOUT ELSE SAVE_GAP)
  /\ sinceTail' = IF inflight.tail THEN Older(sinceTail, VERSION_TAIL) ELSE 0
  /\ sinceLine' = IF printing = <<>> THEN 0 ELSE sinceLine + 1
  /\ UNCHANGED <<readerVars, from, queueVars, inflight, gap, lastCmd, uart, printing, said,
                 lost, reports, noise, operation, given>>

ExchangeNext ==
  \/ FeedByte \/ EndTail \/ GiveUp \/ Retry \/ DoMarker \/ SendNext
  \/ Give
  \/ PrintLine \/ Report \/ BootNoise
  \/ Tick

(* The loop runs, time passes, and the radar prints what it began. *)
ExchangeFair ==
  /\ WF_exchangeVars(FeedByte) /\ WF_exchangeVars(EndTail)
  /\ WF_exchangeVars(GiveUp) /\ WF_exchangeVars(Retry)
  /\ WF_exchangeVars(DoMarker) /\ WF_exchangeVars(SendNext)
  /\ WF_exchangeVars(PrintLine) /\ WF_exchangeVars(Tick)

ExchangeSpec == ExchangeInit /\ [][ExchangeNext]_exchangeVars /\ ExchangeFair

-----------------------------------------------------------------------------
(* Commands that have not ended. *)
Waiting ==
  (IF inflight.active THEN <<inflight.cmd.id>> ELSE <<>>)
    \o [i \in 1 .. count |-> Contents[i].id]

Order == INSTANCE CommandOrder WITH Id <- 1 .. MaxCommands, waiting <- Waiting

(* Commands end one at a time, in the order in which they were given, each *)
(* exactly once: whatever is retried, asked again or given up, none is     *)
(* overtaken, run twice or forgotten (drive_queue_, complete_ and loop of  *)
(* mmwave_engine.cpp).                                                     *)
InTurn == Order!Spec

(* A step that read an answer or the end of one for the command in flight. *)
Credited ==
  uart # <<>> /\ uart' = Tail(uart) /\ inflight.active /\ inflight' # inflight

(* A line or prompt ends a command, or decides its result, only if it was  *)
(* printed for that command: the rest of an answer is never taken for the  *)
(* answer to the next one (on_reply_, on_prompt_, start_tail_).            *)
OwnAnswer == 
  [][Credited => inflight.cmd.id \in from \cup {Head(uart).for}]_exchangeVars

(* A command counts as done only if the radar said that it did it, however *)
(* its lines were damaged on the way (classify, on_reply_).                *)
OkIsTrue ==
  [][(inflight.active /\ ~inflight'.active /\ inflight'.result = "OK"
        /\ inflight.cmd.kind \notin NoReply)
       => said \cap Success(inflight.cmd.kind) # {}]_exchangeVars

(* A command is sent again only if something was lost: every answer that   *)
(* arrives whole is understood, and in time (on_reply_, the limits of      *)
(* mmwave_engine.h).                                                       *)
RetryMeansLoss ==
  [][(inflight'.active /\ inflight'.cmd.id > 0 /\ sinceTx' = 0 /\ sinceTx > 0
        /\ (inflight'.cmd.reparse \/ inflight'.cmd.retries < Retries[inflight'.cmd.kind]))
       => lost + noise > 0]_exchangeVars

(* Every command given ends: nothing is waited for without a limit (loop,  *)
(* drive_queue_).                                                          *)
EveryCommandEnds ==
  \A n \in 1 .. MaxCommands :
    (\E i \in 1 .. Len(Waiting) : Waiting[i] = n)
      ~> ~ (\E i \in 1 .. Len(Waiting) : Waiting[i] = n)
=============================================================================
