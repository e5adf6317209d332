------------------------- MODULE EngineSafetyProofs -------------------------
(***************************************************************************)
(* Two safety properties of Engine, for every set of groups, values,       *)
(* firmwares, faults and users: an operation is never left without a       *)
(* command, a marker or a wait that ends it, and a radar that the user     *)
(* stopped is not started again.                                           *)
(*                                                                         *)
(* Both rest on what may stand in the command queue, so they are proved    *)
(* from the identifiers in a queue, Ids(q).                                *)
(***************************************************************************)
EXTENDS EngineProofs

Ids(q) == {q[i].id : i \in 1..Len(q)}

LEMMA IdsEmpty == Ids(<<>>) = {}
  BY DEF Ids

LEMMA IdsOne == ASSUME NEW c PROVE Ids(<<c>>) = {c.id}
  BY DEF Ids

LEMMA IdsConcat ==
  ASSUME NEW p \in Seq(Command), NEW q \in Seq(Command)
  PROVE  Ids(p \o q) = Ids(p) \cup Ids(q)
  <1>1. \A i \in 1..Len(p) : i \in 1..Len(p \o q) /\ (p \o q)[i] = p[i]
    BY ConcatProperties
  <1>2. \A i \in 1..Len(q) :
          Len(p) + i \in 1..Len(p \o q) /\ (p \o q)[Len(p) + i] = q[i]
    BY ConcatProperties
  <1>3. \A i \in 1..Len(p \o q) :
          \/ i \in 1..Len(p) /\ (p \o q)[i] = p[i]
          \/ i - Len(p) \in 1..Len(q) /\ (p \o q)[i] = q[i - Len(p)]
    BY ConcatProperties
  <1>4. Ids(p) \subseteq Ids(p \o q) BY <1>1 DEF Ids
  <1>5. Ids(q) \subseteq Ids(p \o q) BY <1>2 DEF Ids
  <1>6. Ids(p \o q) \subseteq Ids(p) \cup Ids(q) BY <1>3 DEF Ids
  <1> QED BY <1>4, <1>5, <1>6

LEMMA IdsTail ==
  ASSUME NEW q \in Seq(Command), q # <<>>
  PROVE  Ids(Tail(q)) \subseteq Ids(q) /\ Head(q).id \in Ids(q)
  <1>1. /\ Len(q) \in Nat /\ Len(q) # 0 /\ Len(Tail(q)) = Len(q) - 1
        /\ \A i \in 1..Len(Tail(q)) : Tail(q)[i] = q[i + 1]
        /\ Head(q) = q[1]
    BY HeadTailProperties, EmptySeq
  <1> QED BY <1>1 DEF Ids

\* What the engine puts into the queue.
LEMMA IdsMarker == ASSUME NEW id PROVE Ids(Marker(id)) = {id}
  BY IdsOne DEF Marker, Cmd

LEMMA IdsCmd ==
  ASSUME NEW id, NEW n, NEW fs PROVE Ids(<<Cmd(id, n, fs)>>) = {id}
  BY IdsOne DEF Cmd

LEMMA IdsStop == Ids(Stop) = {"STOP"}
  BY IdsOne DEF Stop, Cmd

LEMMA IdsStart == ASSUME NEW fs PROVE Ids(Start(fs)) = {"START"}
  BY IdsOne DEF Start, Cmd

LEMMA IdsBatch ==
  ASSUME NEW id, NEW gs, NEW n PROVE Ids(Batch(id, gs, n)) \subseteq {id}
  <1>1. [Cmd(id, n, {}) EXCEPT !.groups = gs].id = id BY DEF Cmd
  <1> QED BY <1>1, IdsOne, IdsEmpty DEF Batch

LEMMA IdsGets ==
  ASSUME NEW gs \in SUBSET Groups PROVE Ids(Gets(gs)) \subseteq {"GET_GROUP"}
  <1> DEFINE p == Batch("GET_GROUP", gs \ Probe, Retries)
             q == Batch("GET_GROUP", gs \cap Probe, 0)
  <1>1. p \in Seq(Command) /\ q \in Seq(Command)
    BY BatchType, RetriesType DEF WireIds
  <1>2. Ids(p) \subseteq {"GET_GROUP"} /\ Ids(q) \subseteq {"GET_GROUP"}
    BY IdsBatch
  <1> HIDE DEF p, q
  <1>3. Ids(p \o q) \subseteq {"GET_GROUP"} BY <1>1, <1>2, IdsConcat
  <1> QED BY <1>3 DEF Gets, p, q

LEMMA IdsReadBack ==
  ASSUME NEW gs \in SUBSET Groups
  PROVE  /\ Ids(ReadBack(gs)) \subseteq {"GET_GROUP", "START"}
         /\ belief.userStopped => "START" \notin Ids(ReadBack(gs))
  <1> DEFINE start == IF belief.userStopped THEN <<>> ELSE Start({})
             gets == Gets(Readable(gs))
  <1>1. start \in Seq(Command) /\ gets \in Seq(Command)
    BY StartType, GetsType, ReadableType
  <1>2. Ids(gets) \subseteq {"GET_GROUP"} BY IdsGets, ReadableType
  <1>3. Ids(start) \subseteq (IF belief.userStopped THEN {} ELSE {"START"})
    BY IdsStart, IdsEmpty
  <1>4. ReadBack(gs) \in {gets \o start, start \o gets} BY DEF ReadBack
  <1> HIDE DEF start, gets
  <1>5. Ids(ReadBack(gs)) = Ids(gets) \cup Ids(start)
    <2>1. Ids(gets \o start) = Ids(gets) \cup Ids(start) BY <1>1, IdsConcat
    <2>2. Ids(start \o gets) = Ids(start) \cup Ids(gets) BY <1>1, IdsConcat
    <2> QED BY <1>4, <2>1, <2>2
  <1> QED BY <1>2, <1>3, <1>5

LEMMA IdsFailQueue ==
  ASSUME NEW c
  PROVE  /\ Ids(FailQueue(c)) \subseteq {"START", "FAIL_END"}
         /\ ~(task.stopped /\ task.restart) => "START" \notin Ids(FailQueue(c))
  <1> DEFINE start == <<Cmd("START", 1, {"FAILURE_PATH"})>>
             end == Marker("FAIL_END")
  <1>1. start \in Seq(Command) /\ <<>> \in Seq(Command)
    BY CmdType, RetriesType DEF WireIds, Flags
  <1>2. end \in Seq(Command) BY MarkerType DEF Markers, EndMarkers
  <1>3. Ids(start) = {"START"} /\ Ids(end) = {"FAIL_END"}
    BY IdsCmd, IdsMarker
  <1>4. \/ FailQueue(c) = <<>> \o end
        \/ task.stopped /\ task.restart /\ FailQueue(c) = start \o end
    BY DEF FailQueue
  <1> HIDE DEF start, end
  <1>5. Ids(<<>> \o end) = {"FAIL_END"}
    <2>1. Ids(<<>> \o end) = Ids(<<>>) \cup Ids(end) BY <1>1, <1>2, IdsConcat
    <2> QED BY <1>3, <2>1, IdsEmpty
  <1>6. Ids(start \o end) = {"START", "FAIL_END"}
    <2>1. Ids(start \o end) = Ids(start) \cup Ids(end) BY <1>1, <1>2, IdsConcat
    <2> QED BY <1>3, <2>1
  <1>7. CASE FailQueue(c) = <<>> \o end BY <1>5, <1>7
  <1>8. CASE task.stopped /\ task.restart /\ FailQueue(c) = start \o end
    BY <1>6, <1>8
  <1> QED BY <1>4, <1>7, <1>8

-----------------------------------------------------------------------------
(* Every operation ends with a marker of its own.                          *)

\* The markers that may end operation o.
EndsOf(o) ==
  CASE o \in {"PROBE", "MODE_SWITCH"} -> {"PROBE_DONE", "FAIL_END"}
    [] o = "BOOT_READ" -> {"FIRST_READ", "READ_END", "FAIL_END"}
    [] o = "READ" -> {"READ_END", "FAIL_END"}
    [] o \in {"TXN", "FACTORY_RESET"} -> {"TXN_END", "FAIL_END"}
    [] o = "RUN_CTRL" -> {"RUN_DONE", "FAIL_END"}
    [] o = "PING" -> {"PING_END", "FAIL_END"}
    [] OTHER -> {}

\* An end marker of es closes the queue, and there is no other in it.
WellEnded(q, es) ==
  /\ q # <<>> /\ q[Len(q)].id \in es
  /\ \A i \in 1..(Len(q) - 1) : q[i].id \notin EndMarkers

EndInv ==
  /\ op = "NONE" => Dry /\ ~mode.waiting
  /\ op = "RESTART" =>
       /\ ~mode.waiting
       /\ \/ fly = Nil /\ queue = <<Cmd("RESET_SYSTEM", 0, {})>>
          \/ fly # Nil /\ fly.id = "RESET_SYSTEM" /\ queue = <<>>
  /\ op \notin {"NONE", "RESTART"} => WellEnded(queue, EndsOf(op))
  /\ life = "PROBE" => op \in {"PROBE", "BOOT_READ"}

LEMMA EndsOfEndMarkers == ASSUME NEW o PROVE EndsOf(o) \subseteq EndMarkers
  BY DEF EndsOf, EndMarkers

LEMMA EndedMarker ==
  ASSUME NEW es, NEW id \in es PROVE WellEnded(Marker(id), es)
  BY DEF WellEnded, Marker, Cmd

LEMMA EndedConcat ==
  ASSUME NEW p \in Seq(Command), NEW q \in Seq(Command), NEW es,
         Ids(p) \cap EndMarkers = {}, WellEnded(q, es)
  PROVE  WellEnded(p \o q, es)
  <1>1. Len(q) \in Nat /\ Len(q) # 0 /\ Len(p) \in Nat
    BY EmptySeq DEF WellEnded
  <1>2. Len(p \o q) = Len(p) + Len(q) BY ConcatProperties
  <1>3. (p \o q)[Len(p \o q)] = q[Len(q)]
    BY <1>1, <1>2, ConcatProperties
  <1>4. \A i \in 1..Len(p) : (p \o q)[i] = p[i] /\ p[i].id \notin EndMarkers
    BY ConcatProperties DEF Ids
  <1>5. \A i \in 1..(Len(p \o q) - 1) : (p \o q)[i].id \notin EndMarkers
    <2> TAKE i \in 1..(Len(p \o q) - 1)
    <2>1. CASE i \in 1..Len(p) BY <1>4, <2>1
    <2>2. CASE i \notin 1..Len(p)
      <3>1. i - Len(p) \in 1..(Len(q) - 1) BY <1>1, <1>2, <2>2
      <3>2. (p \o q)[i] = q[i - Len(p)] BY <1>1, <1>2, <3>1, ConcatProperties
      <3> QED BY <3>1, <3>2 DEF WellEnded
    <2> QED BY <2>1, <2>2
  <1>6. p \o q # <<>> BY <1>1, <1>2
  <1> QED BY <1>3, <1>5, <1>6 DEF WellEnded

LEMMA EndedTail ==
  ASSUME NEW q \in Seq(Command), NEW es \in SUBSET EndMarkers, WellEnded(q, es)
  PROVE  /\ Head(q).id \notin EndMarkers => WellEnded(Tail(q), es)
         /\ Head(q).id \in EndMarkers => Tail(q) = <<>> /\ Head(q).id \in es
  <1>1. /\ q # <<>> /\ Len(q) \in Nat /\ Len(q) # 0 /\ Len(Tail(q)) = Len(q) - 1
        /\ \A i \in 1..Len(Tail(q)) : Tail(q)[i] = q[i + 1]
        /\ Head(q) = q[1] /\ Tail(q) \in Seq(Command)
    BY HeadTailProperties, EmptySeq DEF WellEnded
  <1>2. CASE Head(q).id \notin EndMarkers
    <2>1. Len(q) > 1 BY <1>1, <1>2 DEF WellEnded
    <2>2. Tail(q) # <<>>
      <3>1. Len(Tail(q)) # 0 BY <1>1, <2>1
      <3> QED BY <1>1, <3>1, EmptySeq
    <2>3. Tail(q)[Len(Tail(q))] = q[Len(q)]
      <3>1. Len(Tail(q)) \in 1..Len(Tail(q)) /\ Len(Tail(q)) + 1 = Len(q)
        BY <1>1, <2>1
      <3> QED BY <1>1, <3>1
    <2>4. \A i \in 1..(Len(Tail(q)) - 1) : Tail(q)[i].id \notin EndMarkers
      BY <1>1 DEF WellEnded
    <2> QED BY <1>2, <2>2, <2>3, <2>4 DEF WellEnded
  <1>3. CASE Head(q).id \in EndMarkers
    <2>1. Len(q) = 1 BY <1>1, <1>3 DEF WellEnded
    <2>2. Head(q).id \in es BY <1>1, <2>1 DEF WellEnded
    <2>3. Len(Tail(q)) = 0 BY <1>1, <2>1
    <2>4. Tail(q) = <<>> BY <1>1, <2>3, EmptySeq
    <2> QED BY <1>3, <2>2, <2>4
  <1> QED BY <1>2, <1>3

LEMMA EndedFailQueue ==
  ASSUME NEW c, NEW es, "FAIL_END" \in es PROVE WellEnded(FailQueue(c), es)
  <1> DEFINE start == <<Cmd("START", 1, {"FAILURE_PATH"})>>
             end == Marker("FAIL_END")
  <1>1. start \in Seq(Command) /\ <<>> \in Seq(Command)
    BY CmdType, RetriesType DEF WireIds, Flags
  <1>2. end \in Seq(Command) BY MarkerType DEF Markers, EndMarkers
  <1>3. Ids(start) = {"START"} BY IdsCmd
  <1>4. FailQueue(c) \in {<<>> \o end, start \o end} BY DEF FailQueue
  <1>5. WellEnded(end, es) BY EndedMarker
  <1> HIDE DEF start, end
  <1>6. WellEnded(<<>> \o end, es)
    BY <1>1, <1>2, <1>5, IdsEmpty, EndedConcat
  <1>7. WellEnded(start \o end, es)
    <2>1. Ids(start) \cap EndMarkers = {} BY <1>3 DEF EndMarkers
    <2> QED BY <1>1, <1>2, <1>5, <2>1, EndedConcat
  <1> QED BY <1>4, <1>6, <1>7

\* The operation that runs has its marker ahead.
Ahead == WellEnded(queue, EndsOf(op))

LEMMA AheadTail ==
  ASSUME TypeOK, Ahead, Head(queue).id \notin EndMarkers
  PROVE  WellEnded(Tail(queue), EndsOf(op))
  BY EndedTail, EndsOfEndMarkers DEF Ahead, TypeOK, ControlOK

\* Only the marker of the running operation is ever worked off, and then the
\* queue is empty.
LEMMA AheadMarker ==
  ASSUME TypeOK, EndInv, NEW id \in EndMarkers, AtMarker(id)
  PROVE  /\ op \notin {"NONE", "RESTART"} /\ id \in EndsOf(op)
         /\ Tail(queue) = <<>> /\ fly = Nil /\ ~mode.waiting
  <1>1. /\ fly = Nil /\ ~mode.waiting /\ queue # <<>> /\ Head(queue).id = id
        /\ queue \in Seq(Command)
    BY DEF AtMarker, TypeOK, ControlOK
  <1>2. op # "NONE" BY <1>1 DEF EndInv, Dry
  <1>3. op # "RESTART"
    <2> SUFFICES ASSUME op = "RESTART" PROVE FALSE OBVIOUS
    <2>1. queue = <<Cmd("RESET_SYSTEM", 0, {})>> BY <1>1 DEF EndInv
    <2>2. Head(queue).id = "RESET_SYSTEM" BY <2>1 DEF Cmd
    <2> QED BY <1>1, <2>2 DEF EndMarkers
  <1>4. WellEnded(queue, EndsOf(op)) BY <1>2, <1>3 DEF EndInv
  <1>5. Tail(queue) = <<>> /\ id \in EndsOf(op)
    BY <1>1, <1>4, EndedTail, EndsOfEndMarkers
  <1> QED BY <1>1, <1>2, <1>3, <1>5

LEMMA EndInit == ASSUME Init PROVE EndInv
  BY DEF Init, EndInv, Dry, BootMode

\* Steps that leave the operation alone.
LEMMA EndFrame ==
  ASSUME EndInv, UNCHANGED <<life, op, queue, fly>>,
         mode'.waiting = mode.waiting
  PROVE  EndInv'
  BY DEF EndInv, Dry, WellEnded

LEMMA EndUser == ASSUME TypeOK, EndInv, UserNext PROVE EndInv'
  <1>1. CASE EspReboot BY <1>1 DEF EspReboot, EndInv, Dry, BootMode
  <1>2. CASE ~EspReboot
    <2>1. mode'.waiting = mode.waiting
      <3>1. ASSUME NEW m \in Modes, SetWorkMode(m) PROVE mode'.waiting = mode.waiting
        BY <3>1 DEF SetWorkMode, TypeOK, ControlOK, ModeType
      <3> QED BY <1>2, <3>1
          DEF UserNext, SetDesired, RequestRefresh, RequestRestart,
              RequestFactoryReset, RequestRunning, Request, RadarPowerCycle
    <2>2. UNCHANGED <<life, op, queue, fly>>
      BY <1>2
      DEF UserNext, SetDesired, SetWorkMode, RequestRefresh, RequestRestart,
          RequestFactoryReset, RequestRunning, Request, RadarPowerCycle
    <2> QED BY <2>1, <2>2, EndFrame
  <1> QED BY <1>1, <1>2

LEMMA EndSend == ASSUME TypeOK, EndInv, Send PROVE EndInv'
  <1> DEFINE h == Head(queue)
             g == CHOOSE g \in h.groups : TRUE
             rest == IF h.groups = {g} THEN <<>>
                     ELSE <<[h EXCEPT !.groups = @ \ {g}]>>
  <1>1. /\ queue \in Seq(Command) /\ queue # <<>>
        /\ h \in Command /\ Tail(queue) \in Seq(Command)
    BY DEF Send, TypeOK, ControlOK
  <1>2. UNCHANGED <<life, op, mode>> /\ h.id \notin Markers
    BY DEF Send, Draining
  <1>3. op # "NONE" BY <1>1 DEF EndInv, Dry
  <1>4. CASE op = "RESTART"
    <2>1. queue = <<Cmd("RESET_SYSTEM", 0, {})>>
      BY <1>1, <1>4 DEF EndInv
    <2>2. h = Cmd("RESET_SYSTEM", 0, {}) /\ Tail(queue) = <<>> BY <2>1
    <2>3. h.groups = {} /\ h.id = "RESET_SYSTEM" BY <2>2 DEF Cmd
    <2>4. fly' = h /\ queue' = Tail(queue) BY <2>3 DEF Send
    <2>5. fly' # Nil BY <1>1, <2>4, NilAssumption
    <2> QED BY <1>2, <1>4, <2>2, <2>3, <2>4, <2>5 DEF EndInv
  <1>5. CASE op # "RESTART"
    <2>1. WellEnded(Tail(queue), EndsOf(op))
      <3>1. Ahead BY <1>3, <1>5 DEF EndInv, Ahead
      <3>2. h.id \notin EndMarkers BY <1>2 DEF Markers
      <3> QED BY <3>1, <3>2, AheadTail
    <2>2. WellEnded(queue', EndsOf(op))
      <3>1. CASE h.groups = {}
        <4>1. queue' = Tail(queue) BY <3>1 DEF Send
        <4> QED BY <2>1, <4>1
      <3>2. CASE h.groups # {}
        <4>1. queue' = rest \o Tail(queue) BY <3>2 DEF Send
        <4>2. /\ [h EXCEPT !.groups = @ \ {g}] \in Command
              /\ [h EXCEPT !.groups = @ \ {g}].id = h.id
          <5> HIDE DEF g, h
          <5> QED BY <1>1 DEF Command
        <4>3. rest \in Seq(Command) BY <4>2
        <4>4. Ids(rest) \subseteq {h.id} BY <4>2, IdsOne, IdsEmpty
        <4>5. Ids(rest) \cap EndMarkers = {} BY <1>2, <4>4 DEF Markers
        <4> HIDE DEF rest
        <4> QED BY <1>1, <2>1, <4>1, <4>3, <4>5, EndedConcat
      <3> QED BY <3>1, <3>2
    <2> QED BY <1>2, <1>3, <1>5, <2>2 DEF EndInv
  <1> QED BY <1>4, <1>5

\* What on_done_() makes of the operation: it goes on, or it is over.
Goes == UNCHANGED <<life, op>> /\ WellEnded(queue', EndsOf(op))

Over == /\ op' = "NONE" /\ queue' = <<>> /\ mode'.waiting = FALSE
        /\ life' # "PROBE"

LEMMA BackoffOver ==
  ASSUME NEW m \in ModeType, NEW p, EnterBackoff(m, p) PROVE Over
  <1>1. mode'.waiting = FALSE BY DEF EnterBackoff, ModeType
  <1> QED BY <1>1 DEF EnterBackoff, Over

LEMMA FailEndIn ==
  ASSUME op \in Ops, op \notin {"NONE", "RESTART"} PROVE "FAIL_END" \in EndsOf(op)
  BY DEF Ops, EndsOf

LEMMA OpFailedGoes ==
  ASSUME Ahead, "FAIL_END" \in EndsOf(op), NEW c, OpFailed(c)
  PROVE  WellEnded(queue', EndsOf(op))
  BY EndedFailQueue DEF OpFailed, Ahead

LEMMA EndDone ==
  ASSUME TypeOK, Ahead, "FAIL_END" \in EndsOf(op), NEW c \in WireCommand, NEW o,
         OnDone(c, o)
  PROVE  Goes \/ Over
  <1>1. /\ c.id \in WireIds /\ c \in Command /\ queue \in Seq(Command)
        /\ mode \in ModeType
    BY DEF WireCommand, TypeOK, ControlOK
  <1>2. CASE UNCHANGED <<life, op, queue>> BY <1>2 DEF Goes, Ahead
  <1>3. CASE UNCHANGED <<life, op>> /\ OpFailed(c)
    BY <1>3, OpFailedGoes DEF Goes
  <1>4. CASE c.id = "GET_SWV"
    BY <1>1, <1>2, <1>4, BackoffOver DEF OnDone, GetSwvDone
  <1>5. CASE c.id = "GET_GROUP"
    BY <1>2, <1>3, <1>5 DEF OnDone, GetGroupDone, GetApplied, GetFailed
  <1>6. CASE c.id = "SET_GROUP"
    BY <1>2, <1>3, <1>6 DEF OnDone, SetGroupDone
  <1>7. CASE c.id = "SET_RUN_APP"
    <2>1. SetRunAppDone(c, o) BY <1>7 DEF OnDone
    <2>2. UNCHANGED <<life, op>> BY <2>1 DEF SetRunAppDone
    <2>3. \/ queue' = queue
          \/ queue' = Tail(queue) /\ Head(queue).id = "MODE_WAIT"
      BY <2>1 DEF SetRunAppDone
    <2>4. "MODE_WAIT" \notin EndMarkers BY DEF EndMarkers
    <2> QED BY <2>2, <2>3, <2>4, AheadTail DEF Goes, Ahead
  <1>8. CASE c.id = "STOP"
    BY <1>2, <1>3, <1>8 DEF OnDone, StopDone
  <1>9. CASE c.id = "START"
    <2> DEFINE again == <<Cmd("SAVE", 1, {}),
                          Cmd("START", 1, c.flags \cup {"START_RETRY"})>>
    <2>1. StartDone(c, o) BY <1>9 DEF OnDone
    <2>2. UNCHANGED <<life, op>> BY <2>1 DEF StartDone
    <2>3. queue' = queue \/ OpFailed(c) \/ queue' = again \o queue
      BY <2>1 DEF StartDone
    <2>4. CASE queue' = again \o queue
      <3>1. c.flags \cup {"START_RETRY"} \in SUBSET Flags
        BY <1>1 DEF Command, Flags
      <3>2. again \in Seq(Command) BY <3>1, CmdType, RetriesType DEF WireIds
      <3>3. Ids(again) \cap EndMarkers = {} BY DEF Ids, Cmd, EndMarkers
      <3> HIDE DEF again
      <3> QED BY <1>1, <2>2, <2>4, <3>2, <3>3, EndedConcat DEF Goes, Ahead
    <2> QED BY <1>2, <1>3, <2>2, <2>3, <2>4
  <1>10. CASE c.id = "SAVE"
    BY <1>2, <1>3, <1>10 DEF OnDone, SaveDone
  <1>11. CASE c.id = "RESET_CFG"
    BY <1>2, <1>3, <1>11 DEF OnDone, ResetCfgDone
  <1>12. CASE c.id = "RESET_SYSTEM"
    <2>1. mode'.waiting = FALSE
      BY <1>1, <1>12 DEF OnDone, ResetSystemDone, ModeType
    <2> QED BY <1>12, <2>1 DEF OnDone, ResetSystemDone, Over
  <1> QED BY <1>1, <1>4, <1>5, <1>6, <1>7, <1>8, <1>9, <1>10, <1>11, <1>12
          DEF WireIds

LEMMA EndComplete ==
  ASSUME TypeOK, EndInv, fly # Nil, NEW o,
         fly.id = "RESET_SYSTEM" => o.result # "MALFORMED", Complete(fly, o)
  PROVE  EndInv'
  <1>1. fly \in WireCommand /\ fly.id \in WireIds
    BY DEF TypeOK, WireOK, WireCommand
  <1>2. op # "NONE" BY DEF EndInv, Dry
  <1>3. fly' = Nil BY DEF Complete
  <1>4. CASE op = "RESTART"
    <2>1. fly.id = "RESET_SYSTEM" BY <1>4 DEF EndInv
    <2>2. ResetSystemDone(fly, o) BY <2>1 DEF Complete, OnDone
    <2>3. mode'.waiting = FALSE
      BY <2>2 DEF ResetSystemDone, TypeOK, ControlOK, ModeType
    <2> QED BY <1>3, <2>2, <2>3 DEF ResetSystemDone, EndInv, Dry
  <1>5. CASE op # "RESTART"
    <2>1. Ahead /\ op \in Ops BY <1>2, <1>5 DEF EndInv, Ahead, TypeOK, ControlOK
    <2>2. "FAIL_END" \in EndsOf(op) BY <1>2, <1>5, <2>1, FailEndIn
    <2>3. CASE o.result = "MALFORMED" /\ "REPARSE" \notin fly.flags
      <3> DEFINE again == [fly EXCEPT !.flags = @ \cup {"REPARSE"}]
      <3>1. again \in Command /\ again.id = fly.id
        BY <1>1 DEF WireCommand, Command, Flags
      <3>2. queue' = <<again>> \o queue /\ UNCHANGED <<life, op>>
        BY <2>3 DEF Complete
      <3> HIDE DEF again
      <3>3. <<again>> \in Seq(Command) /\ queue \in Seq(Command)
        BY <3>1 DEF TypeOK, ControlOK
      <3>4. Ids(<<again>>) \cap EndMarkers = {}
        BY <1>1, <3>1, IdsOne DEF WireIds, EndMarkers
      <3>5. WellEnded(queue', EndsOf(op))
        BY <2>1, <3>2, <3>3, <3>4, EndedConcat DEF Ahead
      <3> QED BY <1>2, <1>5, <3>2, <3>5 DEF EndInv
    <2>4. CASE ~(o.result = "MALFORMED" /\ "REPARSE" \notin fly.flags)
      <3>1. OnDone(fly, o) BY <2>4 DEF Complete
      <3>2. Goes \/ Over BY <1>1, <2>1, <2>2, <3>1, EndDone
      <3>3. CASE Goes BY <1>2, <1>5, <3>3 DEF Goes, EndInv
      <3>4. CASE Over BY <1>3, <3>4 DEF Over, EndInv, Dry
      <3> QED BY <3>2, <3>3, <3>4
    <2> QED BY <2>3, <2>4
  <1> QED BY <1>4, <1>5

LEMMA EndTimeout == ASSUME TypeOK, EndInv, Timeout PROVE EndInv'
  <1>1. fly # Nil /\ fly \in WireCommand BY DEF Timeout, TypeOK, WireOK
  <1>2. CASE fly.id \notin NoReply /\ fly.retries > 0
    <2>1. fly' = [fly EXCEPT !.retries = @ - 1] /\ UNCHANGED <<life, op, queue, mode>>
      BY <1>2 DEF Timeout
    <2>2. fly'.id = fly.id /\ fly' # Nil
      <3>1. fly' \in Command
        BY <1>1, <1>2, <2>1, RetriesType DEF WireCommand, Command
      <3> QED BY <1>1, <2>1, <3>1, NilAssumption DEF WireCommand, Command
    <2> QED BY <1>1, <2>1, <2>2 DEF EndInv, Dry, WellEnded
  <1>3. CASE ~(fly.id \notin NoReply /\ fly.retries > 0)
    <2>1. PICK r \in {"OK", "TIMEOUT"} : Complete(fly, Out(radar, r))
      BY <1>3 DEF Timeout
    <2>2. Out(radar, r).result # "MALFORMED" BY DEF Out
    <2> QED BY <1>1, <2>1, <2>2, EndComplete
  <1> QED BY <1>2, <1>3

LEMMA EndWire == ASSUME TypeOK, EndInv, WireNext PROVE EndInv'
  <1>1. CASE Send BY <1>1, EndSend
  <1>2. CASE Answer
    <2>1. PICK o \in Outcomes(fly) : o.result # "NONE" /\ Complete(fly, o)
      BY <1>2 DEF Answer
    <2>2. fly.id # "RESET_SYSTEM" BY <2>1 DEF Outcomes, Out
    <2> QED BY <1>2, <2>1, <2>2, EndComplete DEF Answer
  <1>3. CASE CarriedOut \/ CommandLost
    BY <1>3, EndFrame DEF CarriedOut, CommandLost
  <1>4. CASE Timeout BY <1>4, EndTimeout
  <1>5. CASE Sentence
    <2>1. UNCHANGED <<life, op, queue, fly>> BY <1>5 DEF Sentence
    <2>2. mode'.waiting = mode.waiting
      <3>1. mode' \in {mode, LearntMode(radar.app)} BY <1>5 DEF Sentence
      <3> QED BY <3>1 DEF LearntMode, TypeOK, ControlOK, ModeType
    <2> QED BY <2>1, <2>2, EndFrame
  <1> QED BY <1>1, <1>2, <1>3, <1>4, <1>5 DEF WireNext

\* An operation that starts, with its commands p and its marker.
LEMMA EndStart ==
  ASSUME NEW p \in Seq(Command), Ids(p) \cap EndMarkers = {}, NEW id \in Markers,
         id \in EndsOf(op)', op' \notin {"NONE", "RESTART"},
         queue' = p \o Marker(id), life' = "PROBE" => op' \in {"PROBE", "BOOT_READ"}
  PROVE  EndInv'
  <1>1. Marker(id) \in Seq(Command) BY MarkerType
  <1>2. WellEnded(Marker(id), EndsOf(op)') BY EndedMarker
  <1>3. WellEnded(queue', EndsOf(op)') BY <1>1, <1>2, EndedConcat
  <1> QED BY <1>3 DEF EndInv, WellEnded

\* A marker that ends its operation.
LEMMA EndOver ==
  ASSUME queue' = <<>>, op' = "NONE", fly' = Nil, ~mode'.waiting, life' # "PROBE"
  PROVE  EndInv'
  BY DEF EndInv, Dry

LEMMA EndProbeDone == ASSUME TypeOK, EndInv, ProbeDone PROVE EndInv'
  <1> DEFINE p == Gets({RangeGroup})
  <1>1. Tail(queue) = <<>>
    BY AheadMarker DEF ProbeDone, EndMarkers
  <1>2. p \in Seq(Command) BY GetsType, GroupAssumption
  <1>3. Ids(p) \cap EndMarkers = {}
    <2>1. Ids(p) \subseteq {"GET_GROUP"} BY IdsGets, GroupAssumption
    <2> HIDE DEF p
    <2> QED BY <2>1 DEF EndMarkers
  <1>4. queue' = <<>> \o p \o Marker("FIRST_READ") BY <1>1 DEF ProbeDone
  <1> HIDE DEF p
  <1>5. <<>> \o p = p BY <1>2, ConcatEmptySeq
  <1>6. "FIRST_READ" \in EndsOf(op)' /\ op' = "BOOT_READ"
    BY DEF ProbeDone, EndsOf
  <1>7. "FIRST_READ" \in Markers BY DEF Markers, EndMarkers
  <1> QED BY <1>2, <1>3, <1>4, <1>5, <1>6, <1>7, EndStart

LEMMA EndFirstRead == ASSUME TypeOK, EndInv, FirstRead PROVE EndInv'
  <1> DEFINE some == Gets(Readable(Groups \ {RangeGroup}))
             all == Gets(Readable(Groups))
             recovery == IF RecoveryStart THEN Start({"RECOVERY"}) ELSE <<>>
             start == IF belief.userStopped THEN <<>> ELSE Start({})
             end == Marker("READ_END")
  <1>1. op = "BOOT_READ" /\ Tail(queue) = <<>>
    <2>1. Tail(queue) = <<>> /\ "FIRST_READ" \in EndsOf(op)
      BY AheadMarker DEF FirstRead, EndMarkers
    <2> QED BY <2>1 DEF EndsOf
  <1>2. some \in Seq(Command) /\ all \in Seq(Command) BY GetsType, ReadableType
  <1>3. recovery \in Seq(Command) /\ start \in Seq(Command) BY StartType DEF Flags
  <1>4. Ids(some) \subseteq {"GET_GROUP"} /\ Ids(all) \subseteq {"GET_GROUP"}
    BY IdsGets, ReadableType
  <1>5. Ids(recovery) \subseteq {"START"} /\ Ids(start) \subseteq {"START"}
    BY IdsStart, IdsEmpty
  <1>6. \/ queue' = <<>> \o some \o recovery \o end
        \/ queue' = <<>> \o Stop \o all \o start \o end
    BY <1>1 DEF FirstRead
  <1>7. op' = op /\ life' = life BY DEF FirstRead
  <1>8. "READ_END" \in EndsOf(op)' BY <1>1, <1>7 DEF EndsOf
  <1>9. "READ_END" \in Markers BY DEF Markers, EndMarkers
  <1>10. <<>> \o some = some /\ <<>> \o Stop = Stop
    BY <1>2, StopType, ConcatEmptySeq
  <1> HIDE DEF some, all, recovery, start
  <1>11. CASE queue' = <<>> \o some \o recovery \o end
    <2>1. some \o recovery \in Seq(Command) BY <1>2, <1>3, ConcatType
    <2>2. Ids(some \o recovery) = Ids(some) \cup Ids(recovery)
      BY <1>2, <1>3, IdsConcat
    <2>3. Ids(some \o recovery) \cap EndMarkers = {}
      BY <1>4, <1>5, <2>2 DEF EndMarkers
    <2> QED BY <1>1, <1>7, <1>8, <1>9, <1>10, <1>11, <2>1, <2>3, EndStart
  <1>12. CASE queue' = <<>> \o Stop \o all \o start \o end
    <2>1. Stop \o all \in Seq(Command) BY <1>2, StopType, ConcatType
    <2>2. Stop \o all \o start \in Seq(Command) BY <1>3, <2>1, ConcatType
    <2>3. Ids(Stop \o all) = Ids(Stop) \cup Ids(all)
      BY <1>2, StopType, IdsConcat
    <2>4. Ids(Stop \o all \o start) = Ids(Stop \o all) \cup Ids(start)
      BY <1>3, <2>1, IdsConcat
    <2>5. Ids(Stop \o all \o start) \cap EndMarkers = {}
      BY <1>4, <1>5, <2>3, <2>4, IdsStop DEF EndMarkers
    <2> QED BY <1>1, <1>7, <1>8, <1>9, <1>10, <1>12, <2>2, <2>5, EndStart
  <1> QED BY <1>6, <1>11, <1>12

LEMMA EndDrive == ASSUME TypeOK, EndInv, DriveNext PROVE EndInv'
  <1>1. mode \in ModeType /\ queue \in Seq(Command) BY DEF TypeOK, ControlOK
  <1>2. CASE SkipSave
    <2>1. Head(queue).id = "SAVE" /\ queue # <<>> /\ ~mode.waiting
      BY <1>2 DEF SkipSave, Skippable
    <2>2. op \notin {"NONE", "RESTART"}
      BY <2>1 DEF EndInv, Dry, Cmd
    <2>3. WellEnded(Tail(queue), EndsOf(op))
      BY <2>1, <2>2, AheadTail DEF EndInv, Ahead, EndMarkers
    <2> QED BY <1>2, <2>2, <2>3 DEF SkipSave, EndInv
  <1>3. CASE ProbeDone BY <1>3, EndProbeDone
  <1>4. CASE FirstRead BY <1>4, EndFirstRead
  <1>5. CASE ReadEnd
    <2>1. Tail(queue) = <<>> /\ fly = Nil /\ ~mode.waiting /\ "READ_END" \in EndsOf(op)
      BY <1>5, AheadMarker DEF ReadEnd, EndMarkers
    <2>2. op = "READ" BY <1>5, <2>1 DEF ReadEnd, EndsOf
    <2>3. life # "PROBE" BY <2>2 DEF EndInv
    <2> QED BY <1>5, <2>1, <2>3, EndOver DEF ReadEnd
  <1>6. CASE BootReadEnd
    <2>1. Tail(queue) = <<>> /\ fly = Nil /\ ~mode.waiting
      BY <1>6, AheadMarker DEF BootReadEnd, EndMarkers
    <2>2. ~mode'.waiting
      <3>1. PICK silent \in BOOLEAN, reports \in BOOLEAN :
              FinishBootRead(silent, reports)
        BY <1>6 DEF BootReadEnd
      <3>2. PICK m \in {mode, LearntMode("PRESENCE")} :
              mode' = [m EXCEPT
                         !.shown = IF HasModes THEN m.reported ELSE @,
                         !.pending = FALSE, !.rejected = @ /\ ~mode.pending]
        BY <3>1 DEF FinishBootRead
      <3>3. LearntMode("PRESENCE") \in ModeType
        BY LearntType DEF Modes
      <3>4. m \in ModeType BY <1>1, <3>2, <3>3
      <3>5. LearntMode("PRESENCE").waiting = mode.waiting
        BY <1>1 DEF LearntMode, ModeType
      <3>6. mode'.waiting = m.waiting BY <3>2, <3>4 DEF ModeType
      <3> QED BY <2>1, <3>2, <3>5, <3>6
    <2> QED BY <1>6, <2>1, <2>2, EndOver DEF BootReadEnd
  <1>7. CASE TxnEnd
    <2>1. Tail(queue) = <<>> /\ fly = Nil /\ ~mode.waiting /\ "TXN_END" \in EndsOf(op)
      BY <1>7, AheadMarker DEF TxnEnd, EndMarkers
    <2>2. op \in {"TXN", "FACTORY_RESET"} BY <2>1 DEF EndsOf
    <2>3. life # "PROBE" BY <2>2 DEF EndInv
    <2>4. mode'.waiting = mode.waiting BY <1>1, <1>7 DEF TxnEnd, ModeType
    <2> QED BY <1>7, <2>1, <2>3, <2>4, EndOver DEF TxnEnd
  <1>8. CASE RunDone
    <2>1. Tail(queue) = <<>> /\ fly = Nil /\ ~mode.waiting /\ "RUN_DONE" \in EndsOf(op)
      BY <1>8, AheadMarker DEF RunDone, EndMarkers
    <2>2. op = "RUN_CTRL" BY <2>1 DEF EndsOf
    <2>3. life # "PROBE" BY <2>2 DEF EndInv
    <2> QED BY <1>8, <2>1, <2>3, EndOver DEF RunDone
  <1>9. CASE FailEnd
    <2>1. fly = Nil BY <1>9 DEF FailEnd, AtMarker
    <2>2. EnterBackoff([mode EXCEPT !.confirm = FALSE], [pub EXCEPT !.error = TRUE])
            /\ fly' = fly
      BY <1>9 DEF FailEnd
    <2>3. [mode EXCEPT !.confirm = FALSE] \in ModeType BY <1>1 DEF ModeType
    <2>4. Over BY <2>2, <2>3, BackoffOver
    <2> QED BY <2>1, <2>2, <2>4, EndOver DEF Over
  <1>10. CASE PingEnd
    <2>1. Tail(queue) = <<>> /\ fly = Nil /\ ~mode.waiting /\ "PING_END" \in EndsOf(op)
      BY <1>10, AheadMarker DEF PingEnd, EndMarkers
    <2>2. op = "PING" BY <2>1 DEF EndsOf
    <2>3. life # "PROBE" BY <2>2 DEF EndInv
    <2> QED BY <1>10, <2>1, <2>3, EndOver DEF PingEnd
  <1>11. CASE ModeWait
    <2>1. Head(queue).id = "MODE_WAIT" /\ queue # <<>> /\ fly = Nil /\ ~mode.waiting
      BY <1>11 DEF ModeWait, AtMarker
    <2>2. op \notin {"NONE", "RESTART"} BY <2>1 DEF EndInv, Dry, Cmd
    <2>3. WellEnded(Tail(queue), EndsOf(op))
      BY <2>1, <2>2, AheadTail DEF EndInv, Ahead, EndMarkers
    <2> QED BY <1>11, <2>2, <2>3 DEF ModeWait, EndInv
  <1>12. CASE ModeWaitSeen
    <2>1. op \notin {"NONE", "RESTART"} BY <1>12 DEF ModeWaitSeen, EndInv
    <2> QED BY <1>12, <2>1 DEF ModeWaitSeen, EndInv, WellEnded
  <1>13. CASE ModeWaitExpired
    <2> DEFINE start == Cmd("START", 1, {"RECOVERY"})
    <2>1. op \notin {"NONE", "RESTART"} BY <1>13 DEF ModeWaitExpired, EndInv
    <2>2. <<start>> \in Seq(Command)
      BY CmdType, RetriesType DEF WireIds, Flags
    <2>3. Ids(<<start>>) \cap EndMarkers = {} BY IdsCmd DEF EndMarkers
    <2>4. queue' = <<start>> \o queue /\ UNCHANGED <<life, op>>
      BY <1>13 DEF ModeWaitExpired
    <2> HIDE DEF start
    <2>5. WellEnded(queue', EndsOf(op))
      BY <1>1, <2>1, <2>2, <2>3, <2>4, EndedConcat DEF EndInv
    <2> QED BY <2>1, <2>4, <2>5 DEF EndInv
  <1> QED BY <1>2, <1>3, <1>4, <1>5, <1>6, <1>7, <1>8, <1>9, <1>10, <1>11,
             <1>12, <1>13 DEF DriveNext

LEMMA EndSchedule == ASSUME TypeOK, EndInv, ScheduleNext PROVE EndInv'
  <1>1. CASE StartProbe
    <2> DEFINE p == <<Cmd("GET_SWV", Retries, {})>>
    <2>1. p \in Seq(Command) BY CmdType, RetriesType DEF WireIds
    <2>2. Ids(p) \cap EndMarkers = {} BY IdsCmd DEF EndMarkers
    <2>3. /\ "PROBE_DONE" \in EndsOf(op)' /\ op' = "PROBE"
          /\ "PROBE_DONE" \in Markers
      BY <1>1 DEF StartProbe, EndsOf, Markers, EndMarkers
    <2>4. queue' = p \o Marker("PROBE_DONE") BY <1>1 DEF StartProbe
    <2> HIDE DEF p
    <2> QED BY <2>1, <2>2, <2>3, <2>4, EndStart
  <1>2. CASE StartRestart
    BY <1>2 DEF StartRestart, Idle, Dry, EndInv
  <1>3. CASE FactoryRefused \/ ReadsDropped
    BY <1>3, EndFrame DEF FactoryRefused, ReadsDropped
  <1>4. CASE StartFactoryReset
    <2> DEFINE body == <<Cmd("RESET_CFG", Retries, {}), Cmd("SAVE", 1, {})>>
               back == ReadBack(Groups)
    <2>1. body \in Seq(Command) BY CmdType, RetriesType DEF WireIds
    <2>2. back \in Seq(Command) BY ReadBackType
    <2>3. Ids(body) = {"RESET_CFG", "SAVE"}
      <3>1. Len(body) = 2 /\ body[1].id = "RESET_CFG" /\ body[2].id = "SAVE"
        BY DEF Cmd
      <3> HIDE DEF body
      <3>2. 1..Len(body) = {1, 2} BY <3>1
      <3> QED BY <3>1, <3>2 DEF Ids
    <2>4. Ids(back) \subseteq {"GET_GROUP", "START"} BY IdsReadBack
    <2>5. queue' = Stop \o body \o back \o Marker("TXN_END")
      BY <1>4 DEF StartFactoryReset
    <2> HIDE DEF body, back
    <2>6. Stop \o body \in Seq(Command) /\ Stop \o body \o back \in Seq(Command)
      BY <2>1, <2>2, StopType, ConcatType
    <2>7. Ids(Stop \o body) = Ids(Stop) \cup Ids(body)
      BY <2>1, StopType, IdsConcat
    <2>8. Ids(Stop \o body \o back) = Ids(Stop \o body) \cup Ids(back)
      BY <2>2, <2>6, IdsConcat
    <2>9. Ids(Stop \o body \o back) \cap EndMarkers = {}
      BY <2>3, <2>4, <2>7, <2>8, IdsStop DEF EndMarkers
    <2>10. /\ "TXN_END" \in EndsOf(op)' /\ op' = "FACTORY_RESET"
           /\ "TXN_END" \in Markers /\ life' # "PROBE"
      BY <1>4 DEF StartFactoryReset, Idle, EndsOf, Markers, EndMarkers
    <2> QED BY <2>5, <2>6, <2>9, <2>10, EndStart
  <1>5. CASE StartRun
    <2>1. PICK p \in {Start({}), Stop} : queue' = p \o Marker("RUN_DONE")
      BY <1>5 DEF StartRun
    <2>2. p \in Seq(Command) BY StartType, StopType
    <2>3. Ids(p) \cap EndMarkers = {} BY IdsStart, IdsStop DEF EndMarkers
    <2>4. /\ "RUN_DONE" \in EndsOf(op)' /\ op' = "RUN_CTRL"
          /\ "RUN_DONE" \in Markers /\ life' # "PROBE"
      BY <1>5 DEF StartRun, Idle, EndsOf, Markers, EndMarkers
    <2> QED BY <2>1, <2>2, <2>3, <2>4, EndStart
  <1>6. CASE StartTxn
    <2> DEFINE dirty == {g \in Groups : want[g] # Nil}
               kept == {g \in dirty : Applicable(g)}
               sent == {g \in kept : Usable(g)}
               body == Batch("SET_GROUP", sent, Retries)
               save == <<Cmd("SAVE", 1, {"OPTIONAL_SAVE"})>>
               back == ReadBack(sent)
    <2>1. CASE sent = {}
      <3>1. UNCHANGED <<op, queue>> BY <1>6, <2>1 DEF StartTxn
      <3> QED BY <1>6, <3>1, EndFrame DEF StartTxn
    <2>2. CASE sent # {}
      <3>1. /\ op' = "TXN"
            /\ queue' = Stop \o body \o save \o back \o Marker("TXN_END")
        BY <1>6, <2>2 DEF StartTxn
      <3>2. sent \in SUBSET Groups OBVIOUS
      <3> HIDE DEF sent
      <3>3. body \in Seq(Command) BY <3>2, BatchType, RetriesType DEF WireIds
      <3>4. save \in Seq(Command) BY CmdType, RetriesType DEF WireIds, Flags
      <3>5. back \in Seq(Command) BY <3>2, ReadBackType
      <3>6. /\ Ids(body) \subseteq {"SET_GROUP"} /\ Ids(save) = {"SAVE"}
            /\ Ids(back) \subseteq {"GET_GROUP", "START"}
        BY <3>2, IdsBatch, IdsCmd, IdsReadBack
      <3> HIDE DEF body, save, back
      <3>7. /\ Stop \o body \in Seq(Command)
            /\ Stop \o body \o save \in Seq(Command)
            /\ Stop \o body \o save \o back \in Seq(Command)
        BY <3>3, <3>4, <3>5, StopType, ConcatType
      <3>8. Ids(Stop \o body) = Ids(Stop) \cup Ids(body)
        BY <3>3, StopType, IdsConcat
      <3>9. Ids(Stop \o body \o save) = Ids(Stop \o body) \cup Ids(save)
        BY <3>4, <3>7, IdsConcat
      <3>10. Ids(Stop \o body \o save \o back)
               = Ids(Stop \o body \o save) \cup Ids(back)
        BY <3>5, <3>7, IdsConcat
      <3>11. Ids(Stop \o body \o save \o back) \cap EndMarkers = {}
        BY <3>6, <3>8, <3>9, <3>10, IdsStop DEF EndMarkers
      <3>12. /\ "TXN_END" \in EndsOf(op)' /\ "TXN_END" \in Markers /\ life' # "PROBE"
        BY <1>6, <3>1 DEF StartTxn, MayApply, Idle, EndsOf, Markers, EndMarkers
      <3> QED BY <3>1, <3>7, <3>11, <3>12, EndStart
    <2> QED BY <2>1, <2>2
  <1>7. CASE SwitchNothing
    <2>1. mode'.waiting = mode.waiting
      BY <1>7 DEF SwitchNothing, TypeOK, ControlOK, ModeType
    <2> QED BY <1>7, <2>1, EndFrame DEF SwitchNothing
  <1>8. CASE StartModeSwitch
    <2> DEFINE set == <<Cmd("SET_RUN_APP", Retries, {})>>
               wait == Marker("MODE_WAIT")
               ask == <<Cmd("GET_SWV", Retries, {})>>
    <2>1. /\ set \in Seq(Command) /\ ask \in Seq(Command)
          /\ wait \in Seq(Command)
      BY CmdType, RetriesType, MarkerType DEF WireIds, Markers
    <2>2. /\ Ids(set) = {"SET_RUN_APP"} /\ Ids(wait) = {"MODE_WAIT"}
          /\ Ids(ask) = {"GET_SWV"}
      BY IdsCmd, IdsMarker
    <2>3. queue' = Stop \o set \o wait \o ask \o Marker("PROBE_DONE")
      BY <1>8 DEF StartModeSwitch
    <2> HIDE DEF set, wait, ask
    <2>4. /\ Stop \o set \in Seq(Command) /\ Stop \o set \o wait \in Seq(Command)
          /\ Stop \o set \o wait \o ask \in Seq(Command)
      BY <2>1, StopType, ConcatType
    <2>5. Ids(Stop \o set) = Ids(Stop) \cup Ids(set)
      BY <2>1, StopType, IdsConcat
    <2>6. Ids(Stop \o set \o wait) = Ids(Stop \o set) \cup Ids(wait)
      BY <2>1, <2>4, IdsConcat
    <2>7. Ids(Stop \o set \o wait \o ask) = Ids(Stop \o set \o wait) \cup Ids(ask)
      BY <2>1, <2>4, IdsConcat
    <2>8. Ids(Stop \o set \o wait \o ask) \cap EndMarkers = {}
      BY <2>2, <2>5, <2>6, <2>7, IdsStop DEF EndMarkers
    <2>9. /\ "PROBE_DONE" \in EndsOf(op)' /\ op' = "MODE_SWITCH"
          /\ "PROBE_DONE" \in Markers /\ life' # "PROBE"
      BY <1>8 DEF StartModeSwitch, MayApply, Idle, EndsOf, Markers, EndMarkers
    <2> QED BY <2>3, <2>4, <2>8, <2>9, EndStart
  <1>9. CASE StartRefresh \/ StartModeRead
    <2> DEFINE p == IF belief.requiresStop THEN Stop \o ReadBack(Groups)
                    ELSE Gets(Readable(Groups))
    <2>1. PICK st : StartRead(st) BY <1>9 DEF StartRefresh, StartModeRead
    <2>2. queue' = p \o Marker("READ_END") /\ op' = "READ" /\ life' = life
      BY <2>1 DEF StartRead
    <2>3. p \in Seq(Command)
      BY ReadBackType, GetsType, ReadableType, StopType, ConcatType
    <2>4. Ids(p) \subseteq {"STOP", "GET_GROUP", "START"}
      <3>1. Ids(Stop \o ReadBack(Groups)) = Ids(Stop) \cup Ids(ReadBack(Groups))
        BY StopType, ReadBackType, IdsConcat
      <3>2. Ids(Gets(Readable(Groups))) \subseteq {"GET_GROUP"}
        BY IdsGets, ReadableType
      <3>3. Ids(ReadBack(Groups)) \subseteq {"GET_GROUP", "START"}
        BY IdsReadBack
      <3> QED BY <3>1, <3>2, <3>3, IdsStop
    <2> HIDE DEF p
    <2>5. Ids(p) \cap EndMarkers = {} BY <2>4 DEF EndMarkers
    <2>6. /\ "READ_END" \in EndsOf(op)' /\ "READ_END" \in Markers /\ life # "PROBE"
      BY <1>9, <2>2
      DEF StartRefresh, StartModeRead, Idle, EndsOf, Markers, EndMarkers
    <2> QED BY <2>2, <2>3, <2>5, <2>6, EndStart
  <1> QED BY <1>1, <1>2, <1>3, <1>4, <1>5, <1>6, <1>7, <1>8, <1>9 DEF ScheduleNext

LEMMA EndCheck == ASSUME TypeOK, EndInv, CheckNext PROVE EndInv'
  <1>1. CASE CheckReport
    <2>1. CASE belief.userStopped
      BY <1>1, <2>1, EndFrame DEF CheckReport
    <2>2. CASE ~belief.userStopped
      <3>1. /\ queue' = Start({"RECOVERY"}) \o Marker("RUN_DONE")
            /\ op' = "RUN_CTRL"
        BY <1>1, <2>2 DEF CheckReport
      <3>2. Start({"RECOVERY"}) \in Seq(Command) BY StartType DEF Flags
      <3>3. Ids(Start({"RECOVERY"})) \cap EndMarkers = {}
        BY IdsStart DEF EndMarkers
      <3>4. /\ "RUN_DONE" \in EndsOf(op)' /\ "RUN_DONE" \in Markers
            /\ life' # "PROBE"
        BY <1>1, <3>1 DEF CheckReport, Quiet, Idle, EndsOf, Markers, EndMarkers
      <3> QED BY <3>1, <3>2, <3>3, <3>4, EndStart
    <2> QED BY <2>1, <2>2
  <1>2. CASE CheckLink
    <2> DEFINE p == <<Cmd("GET_SWV", 1, {})>>
    <2>1. p \in Seq(Command) BY CmdType, RetriesType DEF WireIds
    <2>2. Ids(p) \cap EndMarkers = {} BY IdsCmd DEF EndMarkers
    <2>3. queue' = p \o Marker("PING_END") BY <1>2 DEF CheckLink
    <2> HIDE DEF p
    <2>4. /\ "PING_END" \in EndsOf(op)' /\ op' = "PING" /\ "PING_END" \in Markers
          /\ life' # "PROBE"
      BY <1>2 DEF CheckLink, Quiet, Idle, EndsOf, Markers, EndMarkers
    <2> QED BY <2>1, <2>2, <2>3, <2>4, EndStart
  <1>3. CASE ConfirmExpired
    <2>1. mode'.waiting = mode.waiting
      BY <1>3 DEF ConfirmExpired, TypeOK, ControlOK, ModeType
    <2> QED BY <1>3, <2>1, EndFrame DEF ConfirmExpired
  <1> QED BY <1>1, <1>2, <1>3 DEF CheckNext

LEMMA EndNext == ASSUME TypeOK, EndInv, [Next]_vars PROVE EndInv'
  <1>1. ASSUME UNCHANGED vars PROVE EndInv'
    BY <1>1, EndFrame DEF vars
  <1> QED BY <1>1, EndUser, EndWire, EndDrive, EndSchedule, EndCheck DEF Next

\* A running operation always has a command, a marker or a wait ahead that ends
\* it, so schedule_() is never locked out (loop(), drive_queue_(), op_failed_()).
THEOREM OperationsEnd == Spec => []OperationHasEnd
  <1>1. Init => EndInv BY EndInit
  <1>2. TypeOK /\ EndInv /\ [Next]_vars => EndInv' BY EndNext
  <1>3. EndInv => OperationHasEnd
    BY DEF EndInv, OperationHasEnd, WellEnded, Dry
  <1> QED BY <1>1, <1>2, <1>3, TypeCorrect, PTL DEF Spec

-----------------------------------------------------------------------------
(* A radar that the user stopped is not started again.  The engine starts a *)
(* radar by a command that may have been queued long before, so the         *)
(* invariant speaks of what is pending and of what a failure would still    *)
(* put into the queue.                                                      *)

\* What is still to be sent or worked off, with the command in flight.
Pending == Ids(queue) \cup (IF fly = Nil THEN {} ELSE {fly.id})

\* A failure of the running operation starts the radar.
Restarts == task.stopped /\ task.restart

\* Operations that stop no radar to start it again.
Plain == {"NONE", "RESTART", "RUN_CTRL", "PING", "PROBE", "MODE_SWITCH"}

Asking == {"PROBE", "PING", "MODE_SWITCH"}

\* What may not be pending once the user has stopped the radar.
Starting == {"START", "MODE_WAIT"}

UserInv ==
  /\ belief.userStopped =>
       Pending \cap Starting = {} /\ ~mode.waiting /\ ~Restarts
  /\ op \in Plain => ~Restarts
  /\ op # "RESTART" => "RESET_SYSTEM" \notin Pending
  /\ op \notin Asking => "GET_SWV" \notin Pending

-----------------------------------------------------------------------------
(* Queues put together from several pieces.                                *)

LEMMA Ids3 ==
  ASSUME NEW a \in Seq(Command), NEW b \in Seq(Command), NEW c \in Seq(Command)
  PROVE  /\ a \o b \o c \in Seq(Command)
         /\ Ids(a \o b \o c) = Ids(a) \cup Ids(b) \cup Ids(c)
  <1>1. a \o b \in Seq(Command) /\ Ids(a \o b) = Ids(a) \cup Ids(b)
    BY ConcatType, IdsConcat
  <1> DEFINE ab == a \o b
  <1> HIDE DEF ab
  <1>2. ab \in Seq(Command) => ab \o c \in Seq(Command) /\ Ids(ab \o c) = Ids(ab) \cup Ids(c)
    BY ConcatType, IdsConcat
  <1> QED BY <1>1, <1>2 DEF ab

LEMMA Ids4 ==
  ASSUME NEW a \in Seq(Command), NEW b \in Seq(Command), NEW c \in Seq(Command),
         NEW d \in Seq(Command)
  PROVE  /\ a \o b \o c \o d \in Seq(Command)
         /\ Ids(a \o b \o c \o d) = Ids(a) \cup Ids(b) \cup Ids(c) \cup Ids(d)
  <1> DEFINE abc == a \o b \o c
  <1>1. abc \in Seq(Command) /\ Ids(abc) = Ids(a) \cup Ids(b) \cup Ids(c)
    BY Ids3
  <1> HIDE DEF abc
  <1>2. abc \o d \in Seq(Command) /\ Ids(abc \o d) = Ids(abc) \cup Ids(d)
    BY <1>1, ConcatType, IdsConcat
  <1> QED BY <1>1, <1>2 DEF abc

LEMMA Ids5 ==
  ASSUME NEW a \in Seq(Command), NEW b \in Seq(Command), NEW c \in Seq(Command),
         NEW d \in Seq(Command), NEW e \in Seq(Command)
  PROVE  Ids(a \o b \o c \o d \o e)
           = Ids(a) \cup Ids(b) \cup Ids(c) \cup Ids(d) \cup Ids(e)
  <1> DEFINE abcd == a \o b \o c \o d
  <1>1. /\ abcd \in Seq(Command)
        /\ Ids(abcd) = Ids(a) \cup Ids(b) \cup Ids(c) \cup Ids(d)
    BY Ids4
  <1> HIDE DEF abcd
  <1>2. Ids(abcd \o e) = Ids(abcd) \cup Ids(e) BY <1>1, IdsConcat
  <1> QED BY <1>1, <1>2 DEF abcd

-----------------------------------------------------------------------------
(* What keeps the invariant.                                               *)

\* The operation goes on; what it puts into the queue does not start a radar
\* that the user stopped.
LEMMA UserGoes ==
  ASSUME UserInv, NEW new,
         op' = op, Pending' \subseteq Pending \cup new,
         new \cap {"RESET_SYSTEM", "GET_SWV"} = {},
         belief.userStopped => new \cap Starting = {},
         belief'.userStopped => belief.userStopped,
         mode'.waiting => mode.waiting \/ ~belief'.userStopped,
         Restarts' => Restarts
  PROVE  UserInv'
  BY DEF UserInv

\* The operation goes on and puts nothing into the queue.
LEMMA UserShrinks ==
  ASSUME UserInv, op' = op, Pending' \subseteq Pending,
         belief'.userStopped => belief.userStopped,
         mode'.waiting => mode.waiting \/ ~belief'.userStopped,
         Restarts' => Restarts
  PROVE  UserInv'
  BY DEF UserInv

\* The operation is over and nothing is pending.
LEMMA UserOver ==
  ASSUME op' = "NONE", Pending' = {}, ~mode'.waiting, ~Restarts'
  PROVE  UserInv'
  BY DEF UserInv, Plain

\* An operation starts, or takes over from another.
LEMMA UserStart ==
  ASSUME fly' = Nil, "RESET_SYSTEM" \notin Ids(queue'),
         op' \notin Asking => "GET_SWV" \notin Ids(queue'),
         belief'.userStopped =>
           Ids(queue') \cap Starting = {} /\ ~mode'.waiting /\ ~Restarts',
         op' \in Plain => ~Restarts'
  PROVE  UserInv'
  <1>1. Pending' = Ids(queue') BY DEF Pending, Ids
  <1> QED BY <1>1 DEF UserInv

LEMMA UserInit == ASSUME Init PROVE UserInv
  BY DEF Init, UserInv, Pending, Restarts, Ids, BootTask, BootBelief

LEMMA UserFrame ==
  ASSUME UserInv, UNCHANGED <<op, queue, fly>>,
         belief'.userStopped => belief.userStopped,
         mode'.waiting => mode.waiting, Restarts' => Restarts
  PROVE  UserInv'
  <1>1. Pending' = Pending BY DEF Pending, Ids
  <1> QED BY <1>1 DEF UserInv

\* Error flags and lists of settings decide nothing about the radar.
LEMMA RestartsKept ==
  ASSUME TypeOK, UserNext \/ SetError PROVE Restarts' => Restarts
  <1>1. task \in TaskType BY DEF TypeOK, ControlOK
  <1>2. task' \in {task, BootTask, [task EXCEPT !.error = TRUE]}
    BY DEF UserNext, SetDesired, SetWorkMode, RequestRefresh, RequestRestart,
           RequestFactoryReset, RequestRunning, Request, RadarPowerCycle,
           EspReboot, SetError
  <1> QED BY <1>1, <1>2 DEF Restarts, TaskType, BootTask

LEMMA UserUser == ASSUME TypeOK, UserInv, UserNext PROVE UserInv'
  <1>1. CASE EspReboot
    BY <1>1 DEF EspReboot, UserInv, Pending, Restarts, Ids, BootTask, BootBelief
  <1>2. CASE ~EspReboot
    <2>1. mode'.waiting = mode.waiting
      <3>1. ASSUME NEW m \in Modes, SetWorkMode(m) PROVE mode'.waiting = mode.waiting
        BY <3>1 DEF SetWorkMode, TypeOK, ControlOK, ModeType
      <3> QED BY <1>2, <3>1
          DEF UserNext, SetDesired, RequestRefresh, RequestRestart,
              RequestFactoryReset, RequestRunning, Request, RadarPowerCycle
    <2>2. UNCHANGED <<op, queue, fly, belief>>
      BY <1>2
      DEF UserNext, SetDesired, SetWorkMode, RequestRefresh, RequestRestart,
          RequestFactoryReset, RequestRunning, Request, RadarPowerCycle
    <2> QED BY <2>1, <2>2, RestartsKept, UserFrame
  <1> QED BY <1>1, <1>2

LEMMA UserSend == ASSUME TypeOK, UserInv, Send PROVE UserInv'
  <1> DEFINE h == Head(queue)
             g == CHOOSE g \in h.groups : TRUE
             rest == IF h.groups = {g} THEN <<>>
                     ELSE <<[h EXCEPT !.groups = @ \ {g}]>>
  <1>1. /\ queue \in Seq(Command) /\ queue # <<>>
        /\ h \in Command /\ Tail(queue) \in Seq(Command)
    BY DEF Send, TypeOK, ControlOK
  <1>2. Ids(Tail(queue)) \subseteq Ids(queue) /\ h.id \in Ids(queue)
    BY <1>1, IdsTail
  <1>3. Ids(queue') \subseteq Ids(queue) /\ fly'.id = h.id
    <2>1. CASE h.groups = {}
      BY <1>2, <2>1 DEF Send
    <2>2. CASE h.groups # {}
      <3>1. queue' = rest \o Tail(queue) /\ fly' = [h EXCEPT !.groups = {g}]
        BY <2>2 DEF Send
      <3>2. /\ [h EXCEPT !.groups = @ \ {g}] \in Command
            /\ [h EXCEPT !.groups = @ \ {g}].id = h.id
            /\ [h EXCEPT !.groups = {g}].id = h.id
        <4> HIDE DEF g, h
        <4> QED BY <1>1 DEF Command
      <3>3. rest \in Seq(Command) BY <3>2
      <3>4. Ids(rest) \subseteq {h.id} BY <3>2, IdsOne, IdsEmpty
      <3> HIDE DEF rest
      <3>5. Ids(queue') = Ids(rest) \cup Ids(Tail(queue))
        BY <1>1, <3>1, <3>3, IdsConcat
      <3> QED BY <1>2, <3>1, <3>2, <3>4, <3>5
    <2> QED BY <2>1, <2>2
  <1>4. Pending' \subseteq Pending BY <1>2, <1>3 DEF Pending, Ids
  <1>5. UNCHANGED <<op, belief, mode, task>> BY DEF Send
  <1>6. Restarts' => Restarts BY <1>5 DEF Restarts
  <1> QED BY <1>4, <1>5, <1>6, UserShrinks

-----------------------------------------------------------------------------
(* Commands that finish.                                                   *)

\* What on_done_() leaves: the operation goes on, or it is over.  A command of
\* its own that starts the radar is added only where the user did not stop it.
Added == IF belief.userStopped THEN {"SAVE", "FAIL_END"}
         ELSE {"SAVE", "FAIL_END", "START"}

UserKept ==
  /\ op' = op /\ Ids(queue') \subseteq Ids(queue) \cup Added
  /\ belief'.userStopped => belief.userStopped
  /\ mode'.waiting => mode.waiting
  /\ Restarts' => Restarts

UserDropped ==
  /\ op' = "NONE" /\ queue' = <<>> /\ mode'.waiting = FALSE /\ ~Restarts'

LEMMA OpFailedKept ==
  ASSUME TypeOK, belief.userStopped => ~Restarts, NEW c, OpFailed(c)
  PROVE  Ids(queue') \subseteq Ids(queue) \cup Added /\ (Restarts' => Restarts)
  <1>1. task \in TaskType BY DEF TypeOK, ControlOK
  <1>2. task' \in {task, [task EXCEPT !.failing = TRUE]} BY DEF OpFailed
  <1>3. Restarts' => Restarts BY <1>1, <1>2 DEF Restarts, TaskType
  <1>4. queue' \in {queue, FailQueue(c)} BY DEF OpFailed
  <1>5. Ids(FailQueue(c)) \subseteq Added
    BY IdsFailQueue DEF Added, Restarts
  <1> QED BY <1>3, <1>4, <1>5

\* What the results of commands do to the belief leaves the user's stop alone.
LEMMA StopKept ==
  ASSUME TypeOK,
         belief' \in {belief, [belief EXCEPT !.requiresStop = TRUE],
                      [belief EXCEPT !.unconfirmed = TRUE],
                      [belief EXCEPT !.running = TRUE, !.known = TRUE],
                      [belief EXCEPT !.running = FALSE, !.known = TRUE],
                      [belief EXCEPT !.running = TRUE, !.known = TRUE,
                                     !.unconfirmed = FALSE]}
  PROVE  belief'.userStopped = belief.userStopped
  BY DEF TypeOK, ControlOK, BeliefType

LEMMA TaskKept ==
  ASSUME TypeOK, NEW gs,
         task' \in {task, [task EXCEPT !.error = TRUE],
                    [task EXCEPT !.saveError = TRUE],
                    [task EXCEPT !.readOk = @ \cup gs],
                    [task EXCEPT !.setOk = @ \cup gs],
                    [task EXCEPT !.setFail = @ \cup gs, !.error = TRUE]}
  PROVE  Restarts' => Restarts
  BY DEF TypeOK, ControlOK, TaskType, Restarts

LEMMA BackoffDropped ==
  ASSUME TypeOK, NEW m \in ModeType, NEW p, EnterBackoff(m, p), ~Restarts'
  PROVE  UserDropped
  <1>1. mode'.waiting = FALSE BY DEF EnterBackoff, ModeType
  <1> QED BY <1>1 DEF EnterBackoff, UserDropped

LEMMA UserGetDone ==
  ASSUME TypeOK, belief.userStopped => ~Restarts, NEW c \in WireCommand, NEW o,
         GetGroupDone(c, o)
  PROVE  UserKept
  <1>1. PICK g \in c.groups :
          IF o.result = "OK" THEN GetApplied(g, o.val) ELSE GetFailed(c, g, o.result)
    BY DEF GetGroupDone
  <1>2. op' = op /\ mode' = mode BY DEF GetGroupDone
  <1>3. belief' \in {belief, [belief EXCEPT !.requiresStop = TRUE]}
    <2>1. CASE o.result = "OK" BY <1>1, <2>1 DEF GetApplied
    <2>2. CASE o.result # "OK" BY <1>1, <2>2 DEF GetFailed
    <2> QED BY <2>1, <2>2
  <1>4. \/ OpFailed(c)
        \/ queue' = queue /\ task' \in {task, [task EXCEPT !.readOk = @ \cup {g}]}
    <2>1. CASE o.result = "OK" BY <1>1, <2>1 DEF GetApplied
    <2>2. CASE o.result # "OK" BY <1>1, <2>2 DEF GetFailed
    <2> QED BY <2>1, <2>2
  <1>5. belief'.userStopped = belief.userStopped BY <1>3, StopKept
  <1>6. CASE OpFailed(c) BY <1>2, <1>5, <1>6, OpFailedKept DEF UserKept
  <1>7. CASE queue' = queue /\ task' \in {task, [task EXCEPT !.readOk = @ \cup {g}]}
    <2>1. Restarts' => Restarts
      BY <1>7 DEF Restarts, TaskType, TypeOK, ControlOK
    <2> QED BY <1>2, <1>5, <1>7, <2>1 DEF UserKept
  <1> QED BY <1>4, <1>6, <1>7

LEMMA UserStartDone ==
  ASSUME TypeOK, ~belief.userStopped, NEW c \in WireCommand, NEW o,
         StartDone(c, o)
  PROVE  UserKept
  <1> DEFINE again == <<Cmd("SAVE", 1, {}),
                        Cmd("START", 1, c.flags \cup {"START_RETRY"})>>
  <1>1. op' = op /\ mode' = mode BY DEF StartDone
  <1>2. belief' \in {belief, [belief EXCEPT !.running = TRUE, !.known = TRUE,
                                            !.unconfirmed = FALSE]}
    BY DEF StartDone
  <1>3. belief'.userStopped = belief.userStopped BY <1>2, StopKept
  <1>4. \/ OpFailed(c)
        \/ queue' \in {queue, again \o queue}
             /\ task' \in {task, [task EXCEPT !.error = TRUE]}
    BY DEF StartDone, SetError
  <1>5. CASE OpFailed(c) BY <1>1, <1>3, <1>5, OpFailedKept DEF UserKept
  <1>6. CASE queue' \in {queue, again \o queue}
               /\ task' \in {task, [task EXCEPT !.error = TRUE]}
    <2>1. Ids(again) = {"SAVE", "START"}
      <3>1. Len(again) = 2 /\ again[1].id = "SAVE" /\ again[2].id = "START"
        BY DEF Cmd
      <3> HIDE DEF again
      <3>2. 1..Len(again) = {1, 2} BY <3>1
      <3> QED BY <3>1, <3>2 DEF Ids
    <2>2. again \in Seq(Command)
      <3>1. c.flags \cup {"START_RETRY"} \in SUBSET Flags
        BY DEF WireCommand, Command, Flags
      <3> QED BY <3>1, CmdType, RetriesType DEF WireIds
    <2> HIDE DEF again
    <2>3. Ids(again \o queue) = Ids(again) \cup Ids(queue)
      BY <2>2, IdsConcat DEF TypeOK, ControlOK
    <2>4. Ids(queue') \subseteq Ids(queue) \cup Added
      BY <1>6, <2>1, <2>3 DEF Added
    <2>5. Restarts' => Restarts BY <1>6, TaskKept
    <2> QED BY <1>1, <1>3, <2>4, <2>5 DEF UserKept
  <1> QED BY <1>4, <1>5, <1>6

\* The remaining commands of an operation.
LEMMA UserCommandDone ==
  ASSUME TypeOK, belief.userStopped => ~Restarts, NEW c \in WireCommand, NEW o,
         c.id \in {"SET_GROUP", "SET_RUN_APP", "STOP", "SAVE", "RESET_CFG"},
         OnDone(c, o)
  PROVE  UserKept
  <1>1. /\ op' = op
        /\ belief' \in {belief, [belief EXCEPT !.unconfirmed = TRUE],
                        [belief EXCEPT !.running = TRUE, !.known = TRUE],
                        [belief EXCEPT !.running = FALSE, !.known = TRUE]}
        /\ mode' \in {mode, [mode EXCEPT !.seen = FALSE], [mode EXCEPT !.rejected = TRUE]}
    BY DEF OnDone, SetGroupDone, SetRunAppDone, StopDone, SaveDone, ResetCfgDone
  <1>2. belief'.userStopped = belief.userStopped BY <1>1, StopKept
  <1>3. mode'.waiting = mode.waiting
    BY <1>1 DEF TypeOK, ControlOK, ModeType
  <1>4. \/ OpFailed(c)
        \/ /\ queue' \in {queue, Tail(queue)} /\ (queue' # queue => queue # <<>>)
           /\ task' \in {task, [task EXCEPT !.error = TRUE],
                         [task EXCEPT !.saveError = TRUE],
                         [task EXCEPT !.setOk = @ \cup c.groups],
                         [task EXCEPT !.setFail = @ \cup c.groups, !.error = TRUE]}
    <2>1. CASE c.id = "SET_GROUP" BY <2>1 DEF OnDone, SetGroupDone
    <2>2. CASE c.id = "SET_RUN_APP" BY <2>2 DEF OnDone, SetRunAppDone, SetError
    <2>3. CASE c.id = "STOP" BY <2>3 DEF OnDone, StopDone
    <2>4. CASE c.id = "SAVE" BY <2>4 DEF OnDone, SaveDone, SetError
    <2>5. CASE c.id = "RESET_CFG"
      <3>1. ResetCfgDone(c, o) BY <2>5 DEF OnDone
      <3>2. CASE o.result = "OK" BY <3>1, <3>2 DEF ResetCfgDone
      <3>3. CASE o.result = "TIMEOUT" BY <3>1, <3>3 DEF ResetCfgDone
      <3>4. CASE o.result \notin {"OK", "TIMEOUT"}
        BY <3>1, <3>4 DEF ResetCfgDone, SetError
      <3> QED BY <3>2, <3>3, <3>4
    <2> QED BY <2>1, <2>2, <2>3, <2>4, <2>5
  <1>5. CASE OpFailed(c) BY <1>1, <1>2, <1>3, <1>5, OpFailedKept DEF UserKept
  <1>6. CASE ~OpFailed(c)
    <2>1. Ids(queue') \subseteq Ids(queue)
      BY <1>4, <1>6, IdsTail DEF TypeOK, ControlOK
    <2>2. Restarts' => Restarts
      BY <1>4, <1>6 DEF Restarts, TaskType, TypeOK, ControlOK
    <2> QED BY <1>1, <1>2, <1>3, <2>1, <2>2 DEF UserKept
  <1> QED BY <1>5, <1>6

LEMMA UserDone ==
  ASSUME TypeOK, UserInv, fly # Nil, NEW o, OnDone(fly, o)
  PROVE  UserKept \/ UserDropped
  <1>1. fly \in WireCommand /\ fly.id \in WireIds
    BY DEF TypeOK, WireOK, WireCommand
  <1>2. fly.id \in Pending BY DEF Pending
  <1>3. belief.userStopped => ~Restarts BY DEF UserInv
  <1>4. CASE fly.id = "GET_SWV"
    <2>1. ~Restarts BY <1>2, <1>4 DEF UserInv, Asking, Plain
    <2>2. GetSwvDone(fly, o) BY <1>4 DEF OnDone
    <2>3. task' = task BY <2>2 DEF GetSwvDone
    <2>4. ~Restarts' BY <2>1, <2>3 DEF Restarts
    <2>5. CASE o.result = "TIMEOUT"
      <3>1. EnterBackoff(mode, pub) BY <2>2, <2>5 DEF GetSwvDone
      <3>2. mode \in ModeType BY DEF TypeOK, ControlOK
      <3> QED BY <2>4, <3>1, <3>2, BackoffDropped
    <2>6. CASE o.result # "TIMEOUT"
      BY <2>2, <2>4, <2>6 DEF GetSwvDone, UserKept
    <2> QED BY <2>5, <2>6
  <1>5. CASE fly.id = "GET_GROUP"
    BY <1>1, <1>3, <1>5, UserGetDone DEF OnDone
  <1>6. CASE fly.id = "START"
    <2>1. ~belief.userStopped BY <1>2, <1>6 DEF UserInv, Starting
    <2> QED BY <1>1, <1>6, <2>1, UserStartDone DEF OnDone
  <1>7. CASE fly.id = "RESET_SYSTEM"
    <2>1. ~Restarts BY <1>2, <1>7 DEF UserInv, Plain
    <2>2. ResetSystemDone(fly, o) BY <1>7 DEF OnDone
    <2>3. task' = task /\ op' = "NONE" /\ queue' = <<>>
      BY <2>2 DEF ResetSystemDone
    <2>4. mode'.waiting = FALSE
      BY <2>2 DEF ResetSystemDone, TypeOK, ControlOK, ModeType
    <2>5. ~Restarts' BY <2>1, <2>3 DEF Restarts
    <2> QED BY <2>3, <2>4, <2>5 DEF UserDropped
  <1>8. CASE fly.id \in {"SET_GROUP", "SET_RUN_APP", "STOP", "SAVE", "RESET_CFG"}
    BY <1>1, <1>3, <1>8, UserCommandDone
  <1> QED BY <1>1, <1>4, <1>5, <1>6, <1>7, <1>8 DEF WireIds

LEMMA UserComplete ==
  ASSUME TypeOK, UserInv, fly # Nil, NEW o, Complete(fly, o)
  PROVE  UserInv'
  <1>1. fly' = Nil /\ fly \in WireCommand BY DEF Complete, TypeOK, WireOK
  <1>2. Pending' = Ids(queue') BY <1>1 DEF Pending, Ids
  <1>3. Ids(queue) \subseteq Pending BY DEF Pending
  <1>4. CASE o.result = "MALFORMED" /\ "REPARSE" \notin fly.flags
    <2> DEFINE again == [fly EXCEPT !.flags = @ \cup {"REPARSE"}]
    <2>1. again \in Command /\ again.id = fly.id
      BY <1>1 DEF WireCommand, Command, Flags
    <2>2. queue' = <<again>> \o queue /\ UNCHANGED <<op, task, belief, mode>>
      BY <1>4 DEF Complete
    <2> HIDE DEF again
    <2>3. Ids(queue') = {fly.id} \cup Ids(queue)
      <3>1. <<again>> \in Seq(Command) /\ queue \in Seq(Command)
        BY <2>1 DEF TypeOK, ControlOK
      <3>2. Ids(<<again>>) = {fly.id} BY <2>1, IdsOne
      <3>3. Ids(<<again>> \o queue) = Ids(<<again>>) \cup Ids(queue) BY <3>1, IdsConcat
      <3> QED BY <2>2, <3>2, <3>3
    <2>4. Pending' \subseteq Pending BY <1>2, <1>3, <2>3 DEF Pending
    <2>5. Restarts' => Restarts BY <2>2 DEF Restarts
    <2> QED BY <2>2, <2>4, <2>5, UserShrinks
  <1>5. CASE ~(o.result = "MALFORMED" /\ "REPARSE" \notin fly.flags)
    <2>1. OnDone(fly, o) BY <1>5 DEF Complete
    <2>2. CASE UserKept
      <3>1. Pending' \subseteq Pending \cup Added
        BY <1>2, <1>3, <2>2 DEF UserKept
      <3>2. /\ Added \cap {"RESET_SYSTEM", "GET_SWV"} = {}
            /\ belief.userStopped => Added \cap Starting = {}
        BY DEF Added, Starting
      <3> QED BY <2>2, <3>1, <3>2, UserGoes DEF UserKept
    <2>3. CASE UserDropped
      <3>1. Pending' = {} BY <1>2, <2>3 DEF UserDropped, Ids
      <3> QED BY <2>3, <3>1, UserOver DEF UserDropped
    <2> QED BY <2>1, <2>2, <2>3, UserDone
  <1> QED BY <1>4, <1>5

LEMMA UserTimeout == ASSUME TypeOK, UserInv, Timeout PROVE UserInv'
  <1>1. fly # Nil /\ fly \in WireCommand BY DEF Timeout, TypeOK, WireOK
  <1>2. CASE fly.id \notin NoReply /\ fly.retries > 0
    <2>1. /\ fly' = [fly EXCEPT !.retries = @ - 1]
          /\ UNCHANGED <<op, queue, task, belief, mode>>
      BY <1>2 DEF Timeout
    <2>2. fly'.id = fly.id BY <1>1, <2>1 DEF WireCommand, Command
    <2>3. Pending' \subseteq Pending BY <1>1, <2>1, <2>2 DEF Pending, Ids
    <2>4. Restarts' => Restarts BY <2>1 DEF Restarts
    <2> QED BY <2>1, <2>3, <2>4, UserShrinks
  <1>3. CASE ~(fly.id \notin NoReply /\ fly.retries > 0)
    <2>1. PICK r \in {"OK", "TIMEOUT"} : Complete(fly, Out(radar, r))
      BY <1>3 DEF Timeout
    <2> QED BY <1>1, <2>1, UserComplete
  <1> QED BY <1>2, <1>3

LEMMA UserWire == ASSUME TypeOK, UserInv, WireNext PROVE UserInv'
  <1>1. CASE Send BY <1>1, UserSend
  <1>2. CASE Answer BY <1>2, UserComplete DEF Answer
  <1>3. CASE CarriedOut \/ CommandLost
    <2>1. UNCHANGED <<op, queue, fly, task, belief, mode>>
      BY <1>3 DEF CarriedOut, CommandLost
    <2>2. Restarts' => Restarts BY <2>1 DEF Restarts
    <2> QED BY <2>1, <2>2, UserFrame
  <1>4. CASE Timeout BY <1>4, UserTimeout
  <1>5. CASE Sentence
    <2>1. UNCHANGED <<op, queue, fly, task>> BY <1>5 DEF Sentence
    <2>2. mode'.waiting = mode.waiting
      <3>1. mode' \in {mode, LearntMode(radar.app)} BY <1>5 DEF Sentence
      <3> QED BY <3>1 DEF LearntMode, TypeOK, ControlOK, ModeType
    <2>3. belief'.userStopped => belief.userStopped
      BY <1>5 DEF Sentence, TypeOK, ControlOK, BeliefType
    <2>4. Restarts' => Restarts BY <2>1 DEF Restarts
    <2> QED BY <2>1, <2>2, <2>3, <2>4, UserFrame
  <1> QED BY <1>1, <1>2, <1>3, <1>4, <1>5 DEF WireNext

-----------------------------------------------------------------------------
(* Markers.                                                                *)

\* A marker that ends its operation leaves nothing pending.
LEMMA UserEnd ==
  ASSUME fly = Nil, fly' = fly, queue' = <<>>, op' = "NONE", ~mode'.waiting,
         ~Restarts'
  PROVE  UserInv'
  <1>1. Pending' = {} BY DEF Pending, Ids
  <1> QED BY <1>1, UserOver

LEMMA UserProbeDone == ASSUME TypeOK, EndInv, UserInv, ProbeDone PROVE UserInv'
  <1> DEFINE p == Gets({RangeGroup})
             end == Marker("FIRST_READ")
  <1>1. Tail(queue) = <<>> /\ fly = Nil /\ ~mode.waiting
    BY AheadMarker DEF ProbeDone, EndMarkers
  <1>2. p \in Seq(Command) /\ Ids(p) \subseteq {"GET_GROUP"}
    BY GetsType, IdsGets, GroupAssumption
  <1>3. end \in Seq(Command) /\ Ids(end) = {"FIRST_READ"}
    BY MarkerType, IdsMarker DEF Markers, EndMarkers
  <1>4. queue' = <<>> \o p \o end BY <1>1 DEF ProbeDone
  <1> HIDE DEF p, end
  <1>5. <<>> \o p = p BY <1>2, ConcatEmptySeq
  <1>6. Ids(queue') \subseteq {"GET_GROUP", "FIRST_READ"}
    BY <1>2, <1>3, <1>4, <1>5, IdsConcat
  <1>7. ~Restarts'
    BY DEF ProbeDone, Restarts, TypeOK, ControlOK, TaskType
  <1>8. ~mode'.waiting
    <2>1. mode' = [mode EXCEPT !.lastRead = ReadMode(mode.work)] BY DEF ProbeDone
    <2> QED BY <1>1, <2>1 DEF TypeOK, ControlOK, ModeType
  <1>9. fly' = Nil BY <1>1 DEF ProbeDone
  <1> QED BY <1>6, <1>7, <1>8, <1>9, UserStart DEF Starting

LEMMA UserFirstRead == ASSUME TypeOK, EndInv, UserInv, FirstRead PROVE UserInv'
  <1> DEFINE some == Gets(Readable(Groups \ {RangeGroup}))
             all == Gets(Readable(Groups))
             recovery == IF RecoveryStart THEN Start({"RECOVERY"}) ELSE <<>>
             start == IF belief.userStopped THEN <<>> ELSE Start({})
             end == Marker("READ_END")
  <1>1. /\ op = "BOOT_READ" /\ Tail(queue) = <<>> /\ fly = Nil /\ ~mode.waiting
    <2>1. /\ Tail(queue) = <<>> /\ "FIRST_READ" \in EndsOf(op) /\ fly = Nil
          /\ ~mode.waiting
      BY AheadMarker DEF FirstRead, EndMarkers
    <2> QED BY <2>1 DEF EndsOf
  <1>2. some \in Seq(Command) /\ all \in Seq(Command) BY GetsType, ReadableType
  <1>3. recovery \in Seq(Command) /\ start \in Seq(Command) BY StartType DEF Flags
  <1>4. end \in Seq(Command) /\ Ids(end) = {"READ_END"}
    BY MarkerType, IdsMarker DEF Markers, EndMarkers
  <1>5. Ids(some) \subseteq {"GET_GROUP"} /\ Ids(all) \subseteq {"GET_GROUP"}
    BY IdsGets, ReadableType
  <1>6. /\ Ids(recovery) \subseteq {"START"} /\ Ids(start) \subseteq {"START"}
        /\ belief.userStopped => Ids(recovery) = {} /\ Ids(start) = {}
    BY IdsStart, IdsEmpty DEF RecoveryStart
  <1>7. CASE RangeGroup \in task.readOk
    <2>1. queue' = <<>> \o some \o recovery \o end BY <1>1, <1>7 DEF FirstRead
    <2>2. /\ belief' = [belief EXCEPT !.requiresStop = @ /\ KnownStopped, !.recover = FALSE]
          /\ task' = [task EXCEPT !.firstRead = FALSE]
      BY <1>7 DEF FirstRead
    <2>3. belief'.userStopped = belief.userStopped
      BY <2>2 DEF TypeOK, ControlOK, BeliefType
    <2>4. Restarts' => Restarts
      BY <2>2 DEF Restarts, TypeOK, ControlOK, TaskType
    <2>5. belief.userStopped => ~Restarts BY DEF UserInv
    <2> HIDE DEF some, recovery, end
    <2>6. <<>> \o some = some BY <1>2, ConcatEmptySeq
    <2>7. Ids(queue') = Ids(some) \cup Ids(recovery) \cup Ids(end)
      BY <1>2, <1>3, <1>4, <2>1, <2>6, Ids3
    <2>8. op' = op /\ fly' = Nil /\ ~mode'.waiting
      BY <1>1 DEF FirstRead, TypeOK, ControlOK, ModeType
    <2>9. "RESET_SYSTEM" \notin Ids(queue') /\ "GET_SWV" \notin Ids(queue')
      BY <1>4, <1>5, <1>6, <2>7
    <2>10. belief'.userStopped => Ids(queue') \cap Starting = {}
      BY <1>4, <1>5, <1>6, <2>3, <2>7 DEF Starting
    <2> QED BY <1>1, <2>3, <2>4, <2>5, <2>8, <2>9, <2>10, UserStart DEF Plain
  <1>8. CASE RangeGroup \notin task.readOk
    <2>1. queue' = <<>> \o Stop \o all \o start \o end BY <1>1, <1>8 DEF FirstRead
    <2>2. /\ belief' = [belief EXCEPT !.requiresStop = TRUE, !.recover = FALSE]
          /\ task' = [task EXCEPT !.firstRead = FALSE, !.stopped = TRUE,
                                  !.restart = ~belief.userStopped]
      BY <1>8 DEF FirstRead
    <2>3. belief'.userStopped = belief.userStopped
      BY <2>2 DEF TypeOK, ControlOK, BeliefType
    <2>4. belief.userStopped => ~Restarts'
      BY <2>2 DEF Restarts, TypeOK, ControlOK, TaskType
    <2> HIDE DEF all, start, end
    <2>5. <<>> \o Stop = Stop BY StopType, ConcatEmptySeq
    <2>6. Ids(queue') = Ids(Stop) \cup Ids(all) \cup Ids(start) \cup Ids(end)
      BY <1>2, <1>3, <1>4, <2>1, <2>5, StopType, Ids4
    <2>7. op' = op /\ fly' = Nil /\ ~mode'.waiting
      BY <1>1 DEF FirstRead, TypeOK, ControlOK, ModeType
    <2>8. "RESET_SYSTEM" \notin Ids(queue') /\ "GET_SWV" \notin Ids(queue')
      BY <1>4, <1>5, <1>6, <2>6, IdsStop
    <2>9. belief'.userStopped => Ids(queue') \cap Starting = {}
      BY <1>4, <1>5, <1>6, <2>3, <2>6, IdsStop DEF Starting
    <2> QED BY <1>1, <2>3, <2>4, <2>7, <2>8, <2>9, UserStart DEF Plain
  <1> QED BY <1>7, <1>8

LEMMA UserDrive == ASSUME TypeOK, EndInv, UserInv, DriveNext PROVE UserInv'
  <1>1. mode \in ModeType /\ queue \in Seq(Command) /\ task \in TaskType
    BY DEF TypeOK, ControlOK
  <1>2. CASE SkipSave \/ ModeWait
    <2>1. queue # <<>> /\ queue' = Tail(queue) /\ UNCHANGED <<op, fly, task, belief>>
      BY <1>2 DEF SkipSave, ModeWait, AtMarker
    <2>2. Ids(queue') \subseteq Ids(queue) /\ Head(queue).id \in Ids(queue)
      BY <1>1, <2>1, IdsTail
    <2>3. Pending' \subseteq Pending BY <2>1, <2>2 DEF Pending, Ids
    <2>4. Restarts' => Restarts BY <2>1 DEF Restarts
    <2>5. mode'.waiting => mode.waiting \/ ~belief'.userStopped
      <3>1. CASE SkipSave BY <3>1 DEF SkipSave
      <3>2. CASE ModeWait
        <4>1. "MODE_WAIT" \in Pending
          BY <2>2, <3>2 DEF ModeWait, AtMarker, Pending
        <4> QED BY <2>1, <4>1 DEF UserInv, Starting
      <3> QED BY <1>2, <3>1, <3>2
    <2> QED BY <2>1, <2>3, <2>4, <2>5, UserShrinks
  <1>3. CASE ProbeDone BY <1>3, UserProbeDone
  <1>4. CASE FirstRead BY <1>4, UserFirstRead
  <1>5. CASE ReadEnd
    <2>1. Tail(queue) = <<>> /\ fly = Nil /\ ~mode.waiting
      BY <1>5, AheadMarker DEF ReadEnd, EndMarkers
    <2>2. ~Restarts' BY <1>1, <1>5 DEF ReadEnd, Restarts, TaskType
    <2> QED BY <1>5, <2>1, <2>2, UserEnd DEF ReadEnd
  <1>6. CASE BootReadEnd
    <2>1. Tail(queue) = <<>> /\ fly = Nil
      BY <1>6, AheadMarker DEF BootReadEnd, EndMarkers
    <2>2. PICK silent \in BOOLEAN, reports \in BOOLEAN :
            FinishBootRead(silent, reports)
      BY <1>6 DEF BootReadEnd
    <2>3. ~Restarts'
      <3>1. PICK bad : task' = [task EXCEPT !.stopped = FALSE, !.error = bad]
        BY <2>2 DEF FinishBootRead
      <3> QED BY <1>1, <3>1 DEF Restarts, TaskType
    <2>4. op' = "NONE" /\ queue' = <<>> /\ fly' = fly
      BY <1>6, <2>1 DEF BootReadEnd
    <2>5. EndInv' BY <1>6, EndDrive DEF DriveNext
    <2>6. ~mode'.waiting BY <2>4, <2>5 DEF EndInv
    <2> QED BY <2>1, <2>3, <2>4, <2>6, UserEnd
  <1>7. CASE TxnEnd
    <2>1. Tail(queue) = <<>> /\ fly = Nil /\ ~mode.waiting
      BY <1>7, AheadMarker DEF TxnEnd, EndMarkers
    <2>2. ~Restarts'
      <3>1. PICK bad : task' = [task EXCEPT !.stopped = FALSE, !.error = bad]
        BY <1>7 DEF TxnEnd
      <3> QED BY <1>1, <3>1 DEF Restarts, TaskType
    <2>3. ~mode'.waiting BY <1>1, <1>7, <2>1 DEF TxnEnd, ModeType
    <2> QED BY <1>7, <2>1, <2>2, <2>3, UserEnd DEF TxnEnd
  <1>8. CASE RunDone \/ PingEnd
    <2>1. PICK id \in {"RUN_DONE", "PING_END"} : AtMarker(id)
      BY <1>8 DEF RunDone, PingEnd
    <2>2. Tail(queue) = <<>> /\ fly = Nil /\ ~mode.waiting /\ id \in EndsOf(op)
      BY <2>1, AheadMarker DEF EndMarkers
    <2>3. op \in Plain BY <2>2 DEF EndsOf, Plain
    <2>4. UNCHANGED <<fly, task, mode>> /\ queue' = <<>> /\ op' = "NONE"
      BY <1>8, <2>2 DEF RunDone, PingEnd
    <2>5. ~Restarts' BY <2>3, <2>4 DEF UserInv, Restarts
    <2> QED BY <2>2, <2>4, <2>5, UserEnd
  <1>9. CASE FailEnd
    <2>1. fly = Nil /\ fly' = fly BY <1>9 DEF FailEnd, AtMarker
    <2>2. EnterBackoff([mode EXCEPT !.confirm = FALSE], [pub EXCEPT !.error = TRUE])
      BY <1>9 DEF FailEnd
    <2>3. [mode EXCEPT !.confirm = FALSE] \in ModeType BY <1>1 DEF ModeType
    <2>4. ~Restarts' BY <1>1, <1>9 DEF FailEnd, Restarts, TaskType
    <2>5. UserDropped BY <2>2, <2>3, <2>4, BackoffDropped
    <2> QED BY <2>1, <2>5, UserEnd DEF UserDropped
  <1>10. CASE ModeWaitSeen
    <2>1. UNCHANGED <<op, queue, fly, task, belief>> BY <1>10 DEF ModeWaitSeen
    <2>2. ~mode'.waiting BY <1>1, <1>10 DEF ModeWaitSeen, ModeType
    <2>3. Restarts' => Restarts BY <2>1 DEF Restarts
    <2> QED BY <2>1, <2>2, <2>3, UserFrame
  <1>11. CASE ModeWaitExpired
    <2> DEFINE start == Cmd("START", 1, {"RECOVERY"})
    <2>1. ~belief.userStopped /\ mode.waiting
      BY <1>11 DEF ModeWaitExpired, UserInv
    <2>2. queue' = <<start>> \o queue /\ UNCHANGED <<op, fly, task, belief>>
      BY <1>11 DEF ModeWaitExpired
    <2>3. <<start>> \in Seq(Command) BY CmdType, RetriesType DEF WireIds, Flags
    <2>4. Ids(<<start>>) = {"START"} BY IdsCmd
    <2> HIDE DEF start
    <2>5. Ids(queue') = {"START"} \cup Ids(queue)
      BY <1>1, <2>2, <2>3, <2>4, IdsConcat
    <2>6. Pending' \subseteq Pending \cup {"START"}
      BY <2>2, <2>5 DEF Pending, Ids
    <2>7. Restarts' => Restarts BY <2>2 DEF Restarts
    <2>8. {"START"} \cap {"RESET_SYSTEM", "GET_SWV"} = {} OBVIOUS
    <2> QED BY <2>1, <2>2, <2>6, <2>7, <2>8, UserGoes
  <1> QED BY <1>2, <1>3, <1>4, <1>5, <1>6, <1>7, <1>8, <1>9, <1>10, <1>11
          DEF DriveNext

-----------------------------------------------------------------------------
(* Operations that start.                                                  *)

LEMMA UserDry ==
  ASSUME EndInv, UserInv, Dry
  PROVE  op = "NONE" /\ fly = Nil /\ ~mode.waiting /\ ~Restarts
  BY DEF EndInv, UserInv, Dry, WellEnded, Plain

LEMMA UserTxn == ASSUME TypeOK, EndInv, UserInv, StartTxn PROVE UserInv'
  <1> DEFINE dirty == {g \in Groups : want[g] # Nil}
             kept == {g \in dirty : Applicable(g)}
             sent == {g \in kept : Usable(g)}
             error == kept # dirty
             body == Batch("SET_GROUP", sent, Retries)
             save == <<Cmd("SAVE", 1, {"OPTIONAL_SAVE"})>>
             back == ReadBack(sent)
             end == Marker("TXN_END")
  <1>1. op = "NONE" /\ fly = Nil /\ ~mode.waiting /\ ~Restarts
    BY UserDry DEF StartTxn, MayApply, Idle
  <1>2. UNCHANGED <<fly, belief, mode>> BY DEF StartTxn
  <1>3. task \in TaskType BY DEF TypeOK, ControlOK
  <1>4. CASE sent = {}
    <2>1. UNCHANGED <<op, queue>> BY <1>4 DEF StartTxn
    <2>2. task' = [BeginTxn(task) EXCEPT !.error = error, !.setFail = kept]
      BY <1>4 DEF StartTxn
    <2> HIDE DEF error, kept
    <2>3. Restarts' => Restarts BY <1>3, <2>2 DEF BeginTxn, Restarts, TaskType
    <2> QED BY <1>2, <2>1, <2>3, UserFrame
  <1>5. CASE sent # {}
    <2>1. /\ op' = "TXN" /\ queue' = Stop \o body \o save \o back \o end
          /\ task' = [BeginTxn(task) EXCEPT
                        !.error = error, !.setFail = kept \ sent,
                        !.stopped = TRUE, !.restart = ~belief.userStopped]
      BY <1>5 DEF StartTxn
    <2>2. sent \in SUBSET Groups OBVIOUS
    <2> HIDE DEF sent, kept, error
    <2>3. /\ body \in Seq(Command) /\ save \in Seq(Command)
          /\ back \in Seq(Command) /\ end \in Seq(Command)
      <3>1. body \in Seq(Command) BY <2>2, BatchType, RetriesType DEF WireIds
      <3>2. save \in Seq(Command) BY CmdType, RetriesType DEF WireIds, Flags
      <3>3. back \in Seq(Command) BY <2>2, ReadBackType
      <3>4. end \in Seq(Command) BY MarkerType DEF Markers, EndMarkers
      <3> QED BY <3>1, <3>2, <3>3, <3>4
    <2>4. /\ Ids(body) \subseteq {"SET_GROUP"} /\ Ids(save) = {"SAVE"}
          /\ Ids(back) \subseteq {"GET_GROUP", "START"}
          /\ belief.userStopped => "START" \notin Ids(back)
          /\ Ids(end) = {"TXN_END"}
      BY <2>2, IdsBatch, IdsCmd, IdsReadBack, IdsMarker
    <2> HIDE DEF body, save, back, end
    <2>5. Ids(queue') = Ids(Stop) \cup Ids(body) \cup Ids(save) \cup Ids(back) \cup Ids(end)
      BY <2>1, <2>3, StopType, Ids5
    <2>6. belief.userStopped => ~Restarts'
      BY <1>3, <2>1 DEF BeginTxn, Restarts, TaskType
    <2>7. "RESET_SYSTEM" \notin Ids(queue') /\ "GET_SWV" \notin Ids(queue')
      BY <2>4, <2>5, IdsStop
    <2>8. belief.userStopped => Ids(queue') \cap Starting = {}
      BY <2>4, <2>5, IdsStop DEF Starting
    <2> QED BY <1>1, <1>2, <2>1, <2>6, <2>7, <2>8, UserStart DEF Plain
  <1> QED BY <1>4, <1>5

LEMMA UserFactoryReset ==
  ASSUME TypeOK, EndInv, UserInv, StartFactoryReset PROVE UserInv'
  <1> DEFINE body == <<Cmd("RESET_CFG", Retries, {}), Cmd("SAVE", 1, {})>>
             back == ReadBack(Groups)
             end == Marker("TXN_END")
  <1>1. fly = Nil /\ ~mode.waiting BY UserDry DEF StartFactoryReset, Idle
  <1>2. UNCHANGED <<fly, belief>> /\ op' = "FACTORY_RESET" BY DEF StartFactoryReset
  <1>3. ~mode'.waiting
    BY <1>1 DEF StartFactoryReset, TypeOK, ControlOK, ModeType
  <1>4. belief.userStopped => ~Restarts'
    <2>1. task' = [BeginTxn(task) EXCEPT !.stopped = TRUE,
                                         !.restart = ~belief.userStopped]
      BY DEF StartFactoryReset
    <2> QED BY <2>1 DEF BeginTxn, Restarts, TypeOK, ControlOK, TaskType
  <1>5. queue' = Stop \o body \o back \o end BY DEF StartFactoryReset
  <1>6. body \in Seq(Command) /\ back \in Seq(Command) /\ end \in Seq(Command)
    <2>1. body \in Seq(Command) BY CmdType, RetriesType DEF WireIds
    <2>2. end \in Seq(Command) BY MarkerType DEF Markers, EndMarkers
    <2> QED BY <2>1, <2>2, ReadBackType
  <1>7. Ids(body) = {"RESET_CFG", "SAVE"}
    <2>1. Len(body) = 2 /\ body[1].id = "RESET_CFG" /\ body[2].id = "SAVE"
      BY DEF Cmd
    <2> HIDE DEF body
    <2>2. 1..Len(body) = {1, 2} BY <2>1
    <2> QED BY <2>1, <2>2 DEF Ids
  <1>8. /\ Ids(back) \subseteq {"GET_GROUP", "START"}
        /\ belief.userStopped => "START" \notin Ids(back)
        /\ Ids(end) = {"TXN_END"}
    BY IdsReadBack, IdsMarker
  <1> HIDE DEF body, back, end
  <1>9. Ids(queue') = Ids(Stop) \cup Ids(body) \cup Ids(back) \cup Ids(end)
    BY <1>5, <1>6, StopType, Ids4
  <1>10. "RESET_SYSTEM" \notin Ids(queue') /\ "GET_SWV" \notin Ids(queue')
    BY <1>7, <1>8, <1>9, IdsStop
  <1>11. belief.userStopped => Ids(queue') \cap Starting = {}
    BY <1>7, <1>8, <1>9, IdsStop DEF Starting
  <1> QED BY <1>1, <1>2, <1>3, <1>4, <1>10, <1>11, UserStart DEF Plain

LEMMA UserModeSwitch ==
  ASSUME TypeOK, EndInv, UserInv, StartModeSwitch PROVE UserInv'
  <1> DEFINE set == <<Cmd("SET_RUN_APP", Retries, {})>>
             wait == Marker("MODE_WAIT")
             ask == <<Cmd("GET_SWV", Retries, {})>>
             end == Marker("PROBE_DONE")
  <1>1. fly = Nil BY UserDry DEF StartModeSwitch, MayApply, Idle
  <1>2. /\ fly' = fly /\ op' = "MODE_SWITCH"
        /\ queue' = Stop \o set \o wait \o ask \o end
    BY DEF StartModeSwitch
  <1>3. ~belief'.userStopped
    BY DEF StartModeSwitch, TypeOK, ControlOK, BeliefType
  <1>4. ~Restarts'
    BY DEF StartModeSwitch, Restarts, TypeOK, ControlOK, TaskType
  <1>5. /\ set \in Seq(Command) /\ ask \in Seq(Command)
        /\ wait \in Seq(Command) /\ end \in Seq(Command)
    BY CmdType, RetriesType, MarkerType DEF WireIds, Markers, EndMarkers
  <1>6. /\ Ids(set) = {"SET_RUN_APP"} /\ Ids(wait) = {"MODE_WAIT"}
        /\ Ids(ask) = {"GET_SWV"} /\ Ids(end) = {"PROBE_DONE"}
    BY IdsCmd, IdsMarker
  <1> HIDE DEF set, wait, ask, end
  <1>7. Ids(queue') = Ids(Stop) \cup Ids(set) \cup Ids(wait) \cup Ids(ask) \cup Ids(end)
    BY <1>2, <1>5, StopType, Ids5
  <1>8. "RESET_SYSTEM" \notin Ids(queue') BY <1>6, <1>7, IdsStop
  <1> QED BY <1>1, <1>2, <1>3, <1>4, <1>8, UserStart DEF Asking

LEMMA UserRead ==
  ASSUME TypeOK, EndInv, UserInv, StartRefresh \/ StartModeRead PROVE UserInv'
  <1> DEFINE get == Gets(Readable(Groups))
             back == ReadBack(Groups)
             end == Marker("READ_END")
  <1>1. fly = Nil /\ ~mode.waiting
    BY UserDry DEF StartRefresh, StartModeRead, Idle
  <1>2. PICK st : StartRead(st) BY DEF StartRefresh, StartModeRead
  <1>3. UNCHANGED <<fly, belief>> /\ op' = "READ" BY <1>2 DEF StartRead
  <1>4. ~mode'.waiting
    BY <1>1 DEF StartRefresh, StartModeRead, TypeOK, ControlOK, ModeType
  <1>5. belief.userStopped => ~Restarts'
    <2>1. task \in TaskType BY DEF TypeOK, ControlOK
    <2>2. CASE belief.requiresStop
      BY <1>2, <2>1, <2>2 DEF StartRead, Restarts, TaskType
    <2>3. CASE ~belief.requiresStop
      <3>1. belief.requiresStop = FALSE
        BY <2>3 DEF TypeOK, ControlOK, BeliefType
      <3> QED BY <1>2, <2>1, <3>1 DEF StartRead, Restarts, TaskType
    <2> QED BY <2>2, <2>3
  <1>6. \/ queue' = Stop \o back \o end
        \/ queue' = get \o end
    BY <1>2 DEF StartRead
  <1>7. /\ get \in Seq(Command) /\ back \in Seq(Command)
        /\ end \in Seq(Command)
    BY GetsType, ReadableType, ReadBackType, MarkerType DEF Markers, EndMarkers
  <1>8. /\ Ids(back) \subseteq {"GET_GROUP", "START"}
        /\ belief.userStopped => "START" \notin Ids(back)
        /\ Ids(get) \subseteq {"GET_GROUP"} /\ Ids(end) = {"READ_END"}
    BY IdsReadBack, IdsGets, ReadableType, IdsMarker
  <1> HIDE DEF get, back, end
  <1>9. \/ Ids(queue') = Ids(Stop) \cup Ids(back) \cup Ids(end)
        \/ Ids(queue') = Ids(get) \cup Ids(end)
    <2>1. Ids(Stop \o back \o end) = Ids(Stop) \cup Ids(back) \cup Ids(end)
      BY <1>7, StopType, Ids3
    <2>2. Ids(get \o end) = Ids(get) \cup Ids(end) BY <1>7, IdsConcat
    <2> QED BY <1>6, <2>1, <2>2
  <1>10. "RESET_SYSTEM" \notin Ids(queue') /\ "GET_SWV" \notin Ids(queue')
    BY <1>8, <1>9, IdsStop
  <1>11. belief.userStopped => Ids(queue') \cap Starting = {}
    BY <1>8, <1>9, IdsStop DEF Starting
  <1> QED BY <1>1, <1>3, <1>4, <1>5, <1>10, <1>11, UserStart DEF Plain

LEMMA UserRunOp ==
  ASSUME TypeOK, EndInv, UserInv, StartRun PROVE UserInv'
  <1> DEFINE p == IF req.run = "on" THEN Start({}) ELSE Stop
             end == Marker("RUN_DONE")
  <1>1. fly = Nil /\ ~mode.waiting /\ ~Restarts BY UserDry DEF StartRun, Idle
  <1>2. /\ UNCHANGED <<fly, task, mode>> /\ op' = "RUN_CTRL"
        /\ queue' = p \o end
    BY DEF StartRun
  <1>3. ~Restarts' BY <1>1, <1>2 DEF Restarts
  <1>4. belief'.userStopped <=> req.run = "off"
    BY DEF StartRun, TypeOK, ControlOK, BeliefType
  <1>5. p \in Seq(Command) /\ end \in Seq(Command)
    BY StartType, StopType, MarkerType DEF Markers, EndMarkers
  <1>6. /\ Ids(p) = (IF req.run = "on" THEN {"START"} ELSE {"STOP"})
        /\ Ids(end) = {"RUN_DONE"}
    BY IdsStart, IdsStop, IdsMarker
  <1> HIDE DEF p, end
  <1>7. Ids(queue') = Ids(p) \cup Ids(end) BY <1>2, <1>5, IdsConcat
  <1>8. "RESET_SYSTEM" \notin Ids(queue') /\ "GET_SWV" \notin Ids(queue')
    BY <1>6, <1>7
  <1>9. belief'.userStopped => Ids(queue') \cap Starting = {}
    BY <1>4, <1>6, <1>7 DEF Starting
  <1> QED BY <1>1, <1>2, <1>3, <1>8, <1>9, UserStart

\* An operation that asks the radar for its version, or restarts it.
LEMMA UserAsk ==
  ASSUME TypeOK, EndInv, UserInv, Dry,
         NEW id \in {"GET_SWV", "RESET_SYSTEM"}, NEW n \in 0..Retries,
         NEW tail \in Seq(Command), Ids(tail) \cap (Starting \cup {"GET_SWV", "RESET_SYSTEM"}) = {},
         queue' = <<Cmd(id, n, {})>> \o tail,
         op' \in (IF id = "GET_SWV" THEN {"PROBE", "PING"} ELSE {"RESTART"}),
         UNCHANGED <<fly, mode, belief>>, Restarts' => Restarts
  PROVE  UserInv'
  <1>1. fly = Nil /\ ~mode.waiting /\ ~Restarts BY UserDry
  <1> DEFINE p == <<Cmd(id, n, {})>>
  <1>2. p \in Seq(Command) BY CmdType DEF WireIds
  <1>3. Ids(p) = {id} BY IdsCmd
  <1> HIDE DEF p
  <1>4. Ids(queue') = {id} \cup Ids(tail) BY <1>2, <1>3, IdsConcat DEF p
  <1>5. Ids(queue') \cap Starting = {} BY <1>4 DEF Starting
  <1>6. CASE id = "GET_SWV"
    <2>1. op' \in Asking /\ "RESET_SYSTEM" \notin Ids(queue')
      BY <1>4, <1>6 DEF Asking
    <2> QED BY <1>1, <1>5, <2>1, UserStart
  <1>7. CASE id = "RESET_SYSTEM"
    <2>1. op' = "RESTART" /\ "GET_SWV" \notin Ids(queue') BY <1>4, <1>7
    <2>2. Pending' = Ids(queue') BY <1>1 DEF Pending, Ids
    <2> QED BY <1>1, <1>5, <2>1, <2>2 DEF UserInv
  <1> QED BY <1>6, <1>7

LEMMA UserSchedule == ASSUME TypeOK, EndInv, UserInv, ScheduleNext PROVE UserInv'
  <1>1. CASE StartProbe
    <2> DEFINE end == Marker("PROBE_DONE")
    <2>1. end \in Seq(Command) /\ Ids(end) = {"PROBE_DONE"}
      BY MarkerType, IdsMarker DEF Markers, EndMarkers
    <2>2. /\ Dry /\ op' = "PROBE" /\ UNCHANGED <<fly, mode, belief>>
          /\ queue' = <<Cmd("GET_SWV", Retries, {})>> \o end
          /\ task' = [task EXCEPT !.failing = FALSE]
      BY <1>1 DEF StartProbe
    <2>3. Restarts' => Restarts
      BY <2>2 DEF Restarts, TypeOK, ControlOK, TaskType
    <2> HIDE DEF end
    <2>4. Ids(end) \cap (Starting \cup {"GET_SWV", "RESET_SYSTEM"}) = {}
      BY <2>1 DEF Starting
    <2> QED BY <2>1, <2>2, <2>3, <2>4, RetriesType, UserAsk
  <1>2. CASE StartRestart
    <2> DEFINE p == <<Cmd("RESET_SYSTEM", 0, {})>>
    <2>1. /\ Dry /\ op' = "RESTART" /\ UNCHANGED <<fly, mode, belief, task>>
          /\ queue' = p
      BY <1>2 DEF StartRestart, Idle
    <2>2. p \in Seq(Command) BY CmdType, RetriesType DEF WireIds
    <2>3. p \o <<>> = p BY <2>2, ConcatEmptySeq
    <2>4. <<>> \in Seq(Command) /\ Ids(<<>>) = {} BY IdsEmpty
    <2>5. Restarts' => Restarts BY <2>1 DEF Restarts
    <2>6. queue' = p \o <<>> BY <2>1, <2>3
    <2> QED BY <2>1, <2>4, <2>5, <2>6, RetriesType, UserAsk
  <1>3. CASE FactoryRefused \/ ReadsDropped
    <2>1. UNCHANGED <<op, queue, fly, belief, mode>>
      BY <1>3 DEF FactoryRefused, ReadsDropped
    <2>2. Restarts' => Restarts
      <3>1. CASE FactoryRefused BY <3>1, RestartsKept DEF FactoryRefused
      <3>2. CASE ReadsDropped BY <3>2 DEF ReadsDropped, Restarts
      <3> QED BY <1>3, <3>1, <3>2
    <2> QED BY <2>1, <2>2, UserFrame
  <1>4. CASE SwitchNothing
    <2>1. UNCHANGED <<op, queue, fly, belief>> BY <1>4 DEF SwitchNothing
    <2>2. mode'.waiting = mode.waiting
      BY <1>4 DEF SwitchNothing, TypeOK, ControlOK, ModeType
    <2>3. Restarts' => Restarts
      BY <1>4 DEF SwitchNothing, Restarts, TypeOK, ControlOK, TaskType
    <2> QED BY <2>1, <2>2, <2>3, UserFrame
  <1>5. CASE StartRefresh \/ StartModeRead BY <1>5, UserRead
  <1> QED BY <1>1, <1>2, <1>3, <1>4, <1>5, UserFactoryReset, UserRunOp, UserTxn,
             UserModeSwitch DEF ScheduleNext

LEMMA UserCheck == ASSUME TypeOK, EndInv, UserInv, CheckNext PROVE UserInv'
  <1>1. CASE CheckReport
    <2>1. belief'.userStopped = belief.userStopped
      BY <1>1 DEF CheckReport, TypeOK, ControlOK, BeliefType
    <2>2. UNCHANGED <<fly, mode, task>> BY <1>1 DEF CheckReport
    <2>3. Restarts' => Restarts BY <2>2 DEF Restarts
    <2>4. CASE belief.userStopped
      <3>1. UNCHANGED <<op, queue>> BY <1>1, <2>4 DEF CheckReport
      <3> QED BY <2>1, <2>2, <2>3, <3>1, UserFrame
    <2>5. CASE ~belief.userStopped
      <3> DEFINE p == Start({"RECOVERY"})
                 end == Marker("RUN_DONE")
      <3>1. queue' = p \o end /\ op' = "RUN_CTRL"
        BY <1>1, <2>5 DEF CheckReport
      <3>2. p \in Seq(Command) /\ end \in Seq(Command)
        BY StartType, MarkerType DEF Flags, Markers, EndMarkers
      <3>3. Ids(p) = {"START"} /\ Ids(end) = {"RUN_DONE"} BY IdsStart, IdsMarker
      <3> HIDE DEF p, end
      <3>4. Ids(queue') = {"START", "RUN_DONE"} BY <3>1, <3>2, <3>3, IdsConcat
      <3>5. fly = Nil /\ ~Restarts
        BY <1>1, UserDry DEF CheckReport, Quiet, Idle
      <3> QED BY <2>1, <2>2, <2>3, <2>5, <3>4, <3>5, UserStart
    <2> QED BY <2>4, <2>5
  <1>2. CASE CheckLink
    <2> DEFINE end == Marker("PING_END")
    <2>1. end \in Seq(Command) /\ Ids(end) = {"PING_END"}
      BY MarkerType, IdsMarker DEF Markers, EndMarkers
    <2>2. /\ Dry /\ op' = "PING" /\ UNCHANGED <<fly, mode, belief, task>>
          /\ queue' = <<Cmd("GET_SWV", 1, {})>> \o end
      BY <1>2 DEF CheckLink, Quiet, Idle
    <2>3. Restarts' => Restarts BY <2>2 DEF Restarts
    <2> HIDE DEF end
    <2>4. Ids(end) \cap (Starting \cup {"GET_SWV", "RESET_SYSTEM"}) = {}
      BY <2>1 DEF Starting
    <2> QED BY <2>1, <2>2, <2>3, <2>4, RetriesType, UserAsk
  <1>3. CASE ConfirmExpired
    <2>1. UNCHANGED <<op, queue, fly, belief, task>> BY <1>3 DEF ConfirmExpired
    <2>2. mode'.waiting = mode.waiting
      BY <1>3 DEF ConfirmExpired, TypeOK, ControlOK, ModeType
    <2>3. Restarts' => Restarts BY <2>1 DEF Restarts
    <2> QED BY <2>1, <2>2, <2>3, UserFrame
  <1> QED BY <1>1, <1>2, <1>3 DEF CheckNext

LEMMA UserNextStep == ASSUME TypeOK, EndInv, UserInv, [Next]_vars PROVE UserInv'
  <1>1. ASSUME UNCHANGED vars PROVE UserInv'
    <2>1. UNCHANGED <<op, queue, fly, belief, mode, task>> BY <1>1 DEF vars
    <2>2. Restarts' => Restarts BY <2>1 DEF Restarts
    <2> QED BY <2>1, <2>2, UserFrame
  <1> QED BY <1>1, UserUser, UserWire, UserDrive, UserSchedule, UserCheck DEF Next

\* While the engine knows that the user stopped the radar, no command of any
\* operation, failure or recovery starts it again (user_stopped_, ReadBack(),
\* op_failed_(), on_marker_()).
THEOREM UserStopHolds == Spec => UserStopIsKept
  <1> DEFINE Step == fly # Nil /\ fly.id = "START" /\ ~radar.running
                       /\ radar'.running => ~belief.userStopped
  <1>1. Init => EndInv /\ UserInv BY EndInit, UserInit
  <1>2. TypeOK /\ EndInv /\ UserInv /\ [Next]_vars => EndInv' /\ UserInv'
    BY EndNext, UserNextStep
  <1>3. UserInv => Step BY DEF UserInv, Pending, Starting
  <1>4. UserInv /\ [Next]_vars => [Step]_vars BY <1>3
  <1> QED BY <1>1, <1>2, <1>4, TypeCorrect, PTL DEF Spec, UserStopIsKept
=============================================================================
