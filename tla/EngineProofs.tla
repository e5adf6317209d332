---------------------------- MODULE EngineProofs ----------------------------
(***************************************************************************)
(* Proofs about Engine, for every set of groups, values and firmwares.     *)
(***************************************************************************)
EXTENDS Engine, SequenceTheorems, TLAPS

-----------------------------------------------------------------------------
(* Commands and pieces of the queue.                                       *)

\* Cmd() builds commands.
LEMMA CmdType ==
  ASSUME NEW id \in WireIds \cup Markers, NEW n \in 0..Retries,
         NEW fs \in SUBSET Flags
  PROVE  Cmd(id, n, fs) \in Command
  BY DEF Cmd, Command

LEMMA ConcatType ==
  \A s \in Seq(Command), t \in Seq(Command) : s \o t \in Seq(Command)
  BY ConcatProperties

\* Two retries or none: every retry count of the code is in range.
LEMMA RetriesType == Retries \in Nat /\ 0 \in 0..Retries /\ 1 \in 0..Retries
                       /\ Retries \in 0..Retries
  BY ValueAssumption

LEMMA MarkerType ==
  ASSUME NEW id \in Markers PROVE Marker(id) \in Seq(Command)
  BY CmdType, RetriesType DEF Marker

LEMMA StopType == Stop \in Seq(Command)
  BY CmdType, RetriesType DEF Stop, WireIds

LEMMA StartType ==
  ASSUME NEW fs \in SUBSET Flags PROVE Start(fs) \in Seq(Command)
  BY CmdType, RetriesType DEF Start, WireIds

\* A batch of gets or sets is one command, or none.
LEMMA BatchType ==
  ASSUME NEW id \in WireIds, NEW gs \in SUBSET Groups, NEW n \in 0..Retries
  PROVE  Batch(id, gs, n) \in Seq(Command)
  <1>1. [Cmd(id, n, {}) EXCEPT !.groups = gs] \in Command
    BY DEF Cmd, Command
  <1> QED BY <1>1 DEF Batch

LEMMA GetsType ==
  ASSUME NEW gs \in SUBSET Groups PROVE Gets(gs) \in Seq(Command)
  <1>1. Batch("GET_GROUP", gs \ Probe, Retries) \in Seq(Command)
    BY BatchType, RetriesType DEF WireIds
  <1>2. Batch("GET_GROUP", gs \cap Probe, 0) \in Seq(Command)
    BY BatchType, RetriesType DEF WireIds
  <1> QED BY <1>1, <1>2, ConcatProperties DEF Gets

LEMMA ReadBackType ==
  ASSUME NEW gs \in SUBSET Groups PROVE ReadBack(gs) \in Seq(Command)
  <1> DEFINE start == IF belief.userStopped THEN <<>> ELSE Start({})
  <1>1. start \in Seq(Command) BY StartType
  <1>2. Gets(Readable(gs)) \in Seq(Command) BY GetsType DEF Readable
  <1> QED BY <1>1, <1>2, ConcatProperties DEF ReadBack

LEMMA FailQueueType ==
  ASSUME NEW c PROVE FailQueue(c) \in Seq(Command)
  <1>1. <<Cmd("START", 1, {"FAILURE_PATH"})>> \in Seq(Command)
    BY CmdType, RetriesType DEF WireIds, Flags
  <1>2. Marker("FAIL_END") \in Seq(Command)
    BY MarkerType DEF Markers, EndMarkers
  <1> QED BY <1>1, <1>2, ConcatProperties DEF FailQueue

\* What an entity is shown of a setting is a value, or nothing.
LEMMA DisplayType ==
  ASSUME TypeOK, NEW g \in Groups, NEW m PROVE Display(g, m) \in Vals \cup {Nil}
  BY DEF Display, TypeOK, SettingsOK, Settings

-----------------------------------------------------------------------------
(* The radar.                                                              *)

LEMMA RadarParts ==
  ASSUME radar \in RadarType
  PROVE  /\ radar.val \in Stored /\ radar.saved \in Stored /\ radar.app \in Modes
         /\ radar.running \in BOOLEAN /\ radar.quiet \in 0..2
         /\ radar.unsaved \in BOOLEAN
         /\ Now \in [Groups -> Vals]
  BY DEF RadarType, Stored, Now

\* What a command or the passing of time does to the radar leaves it a radar.
LEMMA RadarStep ==
  ASSUME radar \in RadarType
  PROVE  /\ \A b \in BOOLEAN : [radar EXCEPT !.running = b] \in RadarType
         /\ \A b \in BOOLEAN : [radar EXCEPT !.unsaved = b] \in RadarType
         /\ \A s \in Stored, b \in BOOLEAN :
              [radar EXCEPT !.saved = s, !.unsaved = b] \in RadarType
         /\ \A s \in Stored, t \in Stored, b \in BOOLEAN :
              [radar EXCEPT !.val = s, !.saved = t, !.unsaved = b] \in RadarType
         /\ \A n \in 0..2 : [radar EXCEPT !.quiet = n] \in RadarType
  BY DEF RadarType, Stored

LEMMA StartedType ==
  ASSUME radar \in RadarType
  PROVE  /\ Started(radar) \in RadarType
         /\ Rebooted \in RadarType
         /\ \A m \in Modes, b \in BOOLEAN :
              [Started(radar) EXCEPT !.app = m, !.unsaved = b] \in RadarType
  BY DEF Started, Rebooted, RadarType

\* A refusal changes at most whether the radar has something to save.
LEMMA RefusalsType ==
  ASSUME radar \in RadarType, NEW dirty \in BOOLEAN, NEW o \in Refusals(dirty)
  PROVE  /\ o.radar \in RadarType /\ o.result = "ERROR"
         /\ \E b \in BOOLEAN : o.radar = [radar EXCEPT !.unsaved = b]
         /\ ~dirty => o.radar = radar
  <1>1. PICK d \in {FALSE, dirty} :
          o = Out([radar EXCEPT !.unsaved = radar.unsaved \/ d], "ERROR")
    BY DEF Refusals
  <1> DEFINE b == radar.unsaved \/ d
  <1>2. b \in BOOLEAN OBVIOUS
  <1>3. o.radar = [radar EXCEPT !.unsaved = b] /\ o.result = "ERROR"
    BY <1>1 DEF Out
  <1>4. ~dirty => b = radar.unsaved BY RadarParts
  <1> HIDE DEF b
  <1>5. [radar EXCEPT !.unsaved = b] \in RadarType BY <1>2, RadarStep
  <1>6. ASSUME ~dirty PROVE o.radar = radar BY <1>3, <1>4, <1>6 DEF RadarType
  <1> QED BY <1>2, <1>3, <1>5, <1>6

-----------------------------------------------------------------------------
(* What the commands that change settings do to the radar, field by field.  *)

SameRun(r) ==
  /\ r.app = radar.app /\ r.running = radar.running
  /\ r.fw = radar.fw /\ r.quiet = radar.quiet

LEMMA SetFields ==
  ASSUME radar \in RadarType, NEW g \in Groups, NEW o \in SetOutcomes(g)
  PROVE  /\ o.result \in {"UNRECOGNIZED", "ERROR", "NOT_STOPPED", "OK"}
         /\ o.result = "NOT_STOPPED" => radar.running
         /\ radar.running => o.radar = radar
         /\ SameRun(o.radar) /\ o.radar.saved = radar.saved
         /\ o.result # "OK" => o.radar.val = radar.val
         /\ ~o.radar.unsaved => ~radar.unsaved /\ o.radar.val = radar.val
  <1>1. CASE \E r \in {"UNRECOGNIZED", "ERROR", "NOT_STOPPED"} :
               /\ o = Out(radar, r) /\ (r = "NOT_STOPPED" => radar.running)
    BY <1>1 DEF Out, SameRun
  <1>2. CASE ~radar.running /\ o \in Refusals(~HasModes)
    <2>1. PICK d \in {FALSE, ~HasModes} :
            o = Out([radar EXCEPT !.unsaved = radar.unsaved \/ d], "ERROR")
      BY <1>2 DEF Refusals
    <2> QED BY <1>2, <2>1 DEF Out, SameRun, RadarType
  <1>3. CASE /\ ~radar.running
             /\ \E v \in Vals :
                  o = Out([radar EXCEPT !.val[radar.app][g] = v,
                                        !.unsaved = @ \/ v # Now[g]], "OK")
    <2>1. PICK v \in Vals :
            o = Out([radar EXCEPT !.val[radar.app][g] = v,
                                  !.unsaved = @ \/ v # Now[g]], "OK")
      BY <1>3
    <2> DEFINE dirty == radar.unsaved \/ v # Now[g]
    <2>2. /\ o.result = "OK"
          /\ o.radar = [radar EXCEPT !.val[radar.app][g] = v, !.unsaved = dirty]
      BY <2>1 DEF Out
    <2>3. /\ o.radar.unsaved = dirty /\ SameRun(o.radar)
          /\ o.radar.saved = radar.saved
          /\ o.radar.val = [radar.val EXCEPT ![radar.app][g] = v]
      <3> HIDE DEF dirty
      <3> QED BY <2>2 DEF SameRun, RadarType
    <2>4. ASSUME v = Now[g] PROVE o.radar.val = radar.val
      BY <2>3, <2>4 DEF Now, RadarType
    <2> QED BY <1>3, <2>2, <2>3, <2>4
  <1> QED BY <1>1, <1>2, <1>3 DEF SetOutcomes

LEMMA SaveFields ==
  ASSUME radar \in RadarType, NEW o \in SaveOutcomes
  PROVE  \/ /\ HasModes /\ o.radar = radar
            /\ \/ o.result = "NOT_STOPPED" /\ radar.running
               \/ o.result = "ERROR" /\ ~radar.unsaved
         \/ /\ o.result = "OK" /\ SameRun(o.radar) /\ ~o.radar.unsaved
            /\ o.radar.val = radar.val /\ o.radar.saved = radar.val
  <1>1. \/ o = Out(radar, "NOT_STOPPED") /\ HasModes /\ radar.running
        \/ o = Out(radar, "ERROR") /\ HasModes /\ ~radar.unsaved
        \/ o = Out([radar EXCEPT !.saved = radar.val, !.unsaved = FALSE], "OK")
    BY DEF SaveOutcomes
  <1>2. CASE o.result # "OK" BY <1>1, <1>2 DEF Out
  <1>3. CASE o.result = "OK"
    <2>1. o.radar = [radar EXCEPT !.saved = radar.val, !.unsaved = FALSE]
      BY <1>1, <1>3 DEF Out
    <2> QED BY <1>3, <2>1 DEF SameRun, RadarType
  <1> QED BY <1>2, <1>3

LEMMA ResetCfgFields ==
  ASSUME radar \in RadarType, NEW o \in ResetCfgOutcomes
  PROVE  \/ o.result = "ERROR" /\ o.radar = radar
         \/ /\ o.result = "OK" /\ SameRun(o.radar)
            /\ o.radar.val = [m \in Modes |-> [g \in Groups |-> Default]]
            /\ ~HasModes => ~o.radar.unsaved
            /\ ~o.radar.unsaved =>
                 \/ ~HasModes /\ o.radar.val = o.radar.saved
                 \/ /\ ~radar.unsaved /\ o.radar.val = radar.val
                    /\ o.radar.saved = radar.saved
  <1> DEFINE all == [m \in Modes |-> [g \in Groups |-> Default]]
  <1> DEFINE kept == IF HasModes THEN radar.saved ELSE all
  <1> DEFINE dirty == HasModes /\ (radar.unsaved \/ all # radar.val)
  <1>1. \/ o = Out(radar, "ERROR")
        \/ o = Out([radar EXCEPT !.val = all, !.saved = kept, !.unsaved = dirty], "OK")
    BY DEF ResetCfgOutcomes
  <1>2. /\ ~HasModes => ~dirty /\ kept = all
        /\ HasModes => kept = radar.saved
        /\ ~dirty => ~HasModes \/ (~radar.unsaved /\ all = radar.val)
    BY GroupAssumption
  <1> HIDE DEF all, kept, dirty
  <1>3. CASE o = Out(radar, "ERROR") BY <1>3 DEF Out
  <1>4. CASE o = Out([radar EXCEPT !.val = all, !.saved = kept, !.unsaved = dirty],
                     "OK")
    <2>1. /\ o.result = "OK"
          /\ o.radar = [radar EXCEPT !.val = all, !.saved = kept, !.unsaved = dirty]
      BY <1>4 DEF Out
    <2>2. /\ SameRun(o.radar) /\ o.radar.val = all /\ o.radar.saved = kept
          /\ o.radar.unsaved = dirty
      BY <2>1 DEF SameRun, RadarType
    <2> QED BY <1>2, <2>1, <2>2 DEF all
  <1> QED BY <1>1, <1>3, <1>4

LEMMA SetRunAppFields ==
  ASSUME radar \in RadarType, NEW o \in SetRunAppOutcomes
  PROVE  \/ o.result = "ERROR" /\ o.radar = radar
         \/ \E m \in Modes \cap {mode.target} :
              /\ o.result = "NONE" /\ o.radar.app = m /\ o.radar.running = TRUE
              /\ o.radar.val = radar.val /\ o.radar.saved = radar.saved
              /\ o.radar.fw = radar.fw
              /\ o.radar.unsaved = (radar.unsaved \/ m # radar.app)
  <1>1. CASE o \in Refusals(FALSE) BY <1>1, RefusalsType
  <1>2. CASE o \notin Refusals(FALSE)
    <2>1. PICK m \in Modes \cap {mode.target} :
            o = Out([Started(radar) EXCEPT !.app = m,
                                           !.unsaved = @ \/ m # radar.app], "NONE")
      BY <1>2 DEF SetRunAppOutcomes
    <2> DEFINE dirty == Started(radar).unsaved \/ m # radar.app
    <2>2. /\ o.result = "NONE"
          /\ o.radar = [Started(radar) EXCEPT !.app = m, !.unsaved = dirty]
      BY <2>1 DEF Out
    <2>3. Started(radar).unsaved = radar.unsaved BY DEF Started, RadarType
    <2>4. dirty = (radar.unsaved \/ m # radar.app) BY <2>3
    <2> HIDE DEF dirty
    <2> QED BY <2>2, <2>4 DEF Started, RadarType
  <1> QED BY <1>1, <1>2

\* A radar that reboots runs with what it has saved.
LEMMA RebootedFields ==
  ASSUME radar \in RadarType
  PROVE  /\ Rebooted.val = radar.saved /\ Rebooted.saved = radar.saved
         /\ ~Rebooted.unsaved /\ Rebooted.running = TRUE
         /\ Rebooted.app = radar.app /\ Rebooted.fw = radar.fw
  BY DEF Rebooted, Started, RadarType

LEMMA WaitedType ==
  ASSUME radar \in RadarType, NEW n \in 0..2, Waited(n)
  PROVE  radar' \in RadarType
  <1>1. (IF radar.quiet + n > 2 THEN 2 ELSE radar.quiet + n) \in 0..2
    BY RadarParts
  <1>2. [radar EXCEPT !.quiet = IF @ + n > 2 THEN 2 ELSE @ + n] \in RadarType
    BY <1>1, RadarStep
  <1> QED BY <1>2 DEF Waited

LEMMA SetOutcomesType ==
  ASSUME radar \in RadarType, NEW g \in Groups, NEW o \in SetOutcomes(g)
  PROVE  o.radar \in RadarType
  <1>1. \/ o \in {Out(radar, r) : r \in {"UNRECOGNIZED", "ERROR", "NOT_STOPPED"}}
        \/ \E v \in Vals :
             o = Out([radar EXCEPT !.val[radar.app][g] = v,
                                   !.unsaved = @ \/ v # Now[g]], "OK")
        \/ o \in Refusals(~HasModes)
    BY DEF SetOutcomes
  <1>2. CASE o \in {Out(radar, r) : r \in {"UNRECOGNIZED", "ERROR", "NOT_STOPPED"}}
    BY <1>2 DEF Out
  <1>3. CASE \E v \in Vals :
               o = Out([radar EXCEPT !.val[radar.app][g] = v,
                                     !.unsaved = @ \/ v # Now[g]], "OK")
    <2>1. PICK v \in Vals :
            o = Out([radar EXCEPT !.val[radar.app][g] = v,
                                  !.unsaved = @ \/ v # Now[g]], "OK")
      BY <1>3
    <2> DEFINE dirty == radar.unsaved \/ v # Now[g]
    <2>2. [radar.val[radar.app] EXCEPT ![g] = v] \in [Groups -> Vals]
      BY RadarParts DEF Stored
    <2>3. [radar.val EXCEPT ![radar.app][g] = v] \in Stored
      BY <2>2, RadarParts DEF Stored
    <2>4. dirty \in BOOLEAN OBVIOUS
    <2>5. o.radar = [radar EXCEPT !.val[radar.app][g] = v, !.unsaved = dirty]
      BY <2>1 DEF Out
    <2> HIDE DEF dirty
    <2>6. [radar EXCEPT !.val[radar.app][g] = v, !.unsaved = dirty] \in RadarType
      BY <2>3, <2>4 DEF RadarType, Stored
    <2> QED BY <2>5, <2>6
  <1>4. CASE o \in Refusals(~HasModes)
    BY <1>4, RefusalsType
  <1> QED BY <1>1, <1>2, <1>3, <1>4

\* A get changes nothing and brings a value of the setting.
LEMMA GetOutcomesType ==
  ASSUME radar \in RadarType, NEW g \in Groups, NEW o \in GetOutcomes(g)
  PROVE  o.radar = radar /\ (o.result = "OK" => o.val \in Vals)
  <1>1. Now[g] \in Vals BY RadarParts
  <1>2. \/ o \in {Out(radar, r) : r \in {"UNRECOGNIZED", "ERROR", "MALFORMED", "SHORT"}}
        \/ o = [Out(radar, "OK") EXCEPT !.val = Now[g]]
    BY DEF GetOutcomes
  <1> QED BY <1>1, <1>2 DEF Out

LEMMA OutcomesType ==
  ASSUME TypeOK, NEW c \in WireCommand, NEW o \in Outcomes(c)
  PROVE  /\ o.radar \in RadarType
         /\ c.id = "GET_GROUP" /\ o.result = "OK" => o.val \in Vals
  <1> USE DEF TypeOK, WireOK
  <1>1. c.id \in WireIds /\ c.groups \subseteq Groups BY DEF WireCommand, Command
  <1>2. CASE c.id = "GET_SWV" BY <1>2 DEF Outcomes, Out
  <1>3. CASE c.id = "GET_GROUP"
    <2>1. PICK g \in Groups : o \in GetOutcomes(g) BY <1>1, <1>3 DEF Outcomes
    <2> QED BY <2>1, GetOutcomesType
  <1>4. CASE c.id = "SET_GROUP"
    <2>1. PICK g \in Groups : o \in SetOutcomes(g) BY <1>1, <1>4 DEF Outcomes
    <2> QED BY <2>1, <1>4, SetOutcomesType
  <1>5. CASE c.id = "STOP"
    <2>1. o.radar = [radar EXCEPT !.running = FALSE] BY <1>5 DEF Outcomes, Out
    <2> QED BY <2>1, <1>5, RadarStep
  <1>6. CASE c.id = "START"
    <2>1. o.radar \in {radar, Started(radar)}
      BY <1>6 DEF Outcomes, StartOutcomes, Out
    <2> QED BY <2>1, <1>6, StartedType
  <1>7. CASE c.id = "SAVE"
    <2>1. o.radar \in {radar, [radar EXCEPT !.saved = radar.val, !.unsaved = FALSE]}
      BY <1>7 DEF Outcomes, SaveOutcomes, Out
    <2> QED BY <2>1, <1>7, RadarStep, RadarParts
  <1>8. CASE c.id = "RESET_CFG"
    <2> DEFINE all == [m \in Modes |-> [g \in Groups |-> Default]]
    <2> DEFINE kept == IF HasModes THEN radar.saved ELSE all
    <2> DEFINE dirty == HasModes /\ (radar.unsaved \/ all # radar.val)
    <2>1. all \in Stored BY ValueAssumption DEF Stored
    <2>2. kept \in Stored BY <2>1, RadarParts
    <2>3. dirty \in BOOLEAN BY GroupAssumption
    <2>4. o.radar \in {radar, [radar EXCEPT !.val = all, !.saved = kept,
                                            !.unsaved = dirty]}
      BY <1>8 DEF Outcomes, ResetCfgOutcomes, Out
    <2> HIDE DEF all, kept, dirty
    <2>5. [radar EXCEPT !.val = all, !.saved = kept, !.unsaved = dirty] \in RadarType
      BY <2>1, <2>2, <2>3, RadarStep
    <2> QED BY <2>4, <2>5, <1>8
  <1>9. CASE c.id = "SET_RUN_APP"
    <2>1. o \in SetRunAppOutcomes BY <1>9 DEF Outcomes
    <2>2. CASE o \in Refusals(FALSE) BY <2>2, <1>9, RefusalsType
    <2>3. CASE o \notin Refusals(FALSE)
      <3>1. PICK m \in Modes :
              o = Out([Started(radar) EXCEPT !.app = m,
                                             !.unsaved = @ \/ m # radar.app], "NONE")
        BY <2>1, <2>3 DEF SetRunAppOutcomes
      <3> DEFINE dirty == Started(radar).unsaved \/ m # radar.app
      <3>2. o.radar = [Started(radar) EXCEPT !.app = m, !.unsaved = dirty]
        BY <3>1 DEF Out
      <3>3. dirty \in BOOLEAN OBVIOUS
      <3> HIDE DEF dirty
      <3> QED BY <3>2, <3>3, StartedType, <1>9
    <2> QED BY <2>2, <2>3
  <1>10. CASE c.id = "RESET_SYSTEM"
    <2>1. o.radar = Rebooted BY <1>10 DEF Outcomes, Out
    <2> QED BY <2>1, <1>10, StartedType
  <1> QED BY <1>1, <1>2, <1>3, <1>4, <1>5, <1>6, <1>7, <1>8, <1>9, <1>10 DEF WireIds

-----------------------------------------------------------------------------
(* What finishing a command does to the engine.                            *)

LEMMA RunningPubType ==
  ASSUME NEW p \in PubType, NEW on \in BOOLEAN PROVE RunningPub(p, on) \in PubType
  BY DEF RunningPub, PubType

LEMMA OpFailedType ==
  ASSUME TypeOK, NEW c, OpFailed(c)
  PROVE  queue' \in Seq(Command) /\ task' \in TaskType
  <1>1. [task EXCEPT !.failing = TRUE] \in TaskType
    BY DEF TypeOK, ControlOK, TaskType
  <1> QED BY <1>1, FailQueueType DEF OpFailed, TypeOK, ControlOK

LEMMA SetErrorType ==
  ASSUME TypeOK, SetError PROVE task' \in TaskType /\ pub' \in PubType
  BY DEF SetError, TypeOK, ControlOK, TaskType, PubType

LEMMA EnterBackoffType ==
  ASSUME TypeOK, NEW m \in ModeType, NEW p \in PubType, EnterBackoff(m, p)
  PROVE  /\ life' \in {"BOOT_WAIT", "PROBE", "BACKOFF", "RUNNING"} /\ op' \in Ops
         /\ queue' \in Seq(Command) /\ belief' \in BeliefType
         /\ mode' \in ModeType /\ pub' \in PubType
  <1>1. belief' \in BeliefType
    BY DEF EnterBackoff, TypeOK, ControlOK, BeliefType
  <1>2. mode' \in ModeType BY DEF EnterBackoff, ModeType
  <1>3. pub' \in PubType BY DEF EnterBackoff, PubType, Statuses
  <1> QED BY <1>1, <1>2, <1>3 DEF EnterBackoff, Ops

\* The running switch follows the belief.
LEMMA BelievedType ==
  ASSUME TypeOK, NEW on \in BOOLEAN
  PROVE  /\ [belief EXCEPT !.running = on, !.known = TRUE] \in BeliefType
         /\ [belief EXCEPT !.running = on, !.known = TRUE, !.unconfirmed = FALSE]
              \in BeliefType
         /\ RunningPub(pub, on) \in PubType
         /\ RunningPub([pub EXCEPT !.error = TRUE], on) \in PubType
  <1>1. [pub EXCEPT !.error = TRUE] \in PubType
    BY DEF TypeOK, ControlOK, PubType
  <1>2. pub \in PubType /\ belief \in BeliefType BY DEF TypeOK, ControlOK
  <1> QED BY <1>1, <1>2, RunningPubType DEF BeliefType

LEMMA GetSwvDoneType ==
  ASSUME TypeOK, NEW c, NEW o, GetSwvDone(c, o)
  PROVE  ControlOK' /\ SettingsOK'
  <1> USE DEF TypeOK, ControlOK, SettingsOK
  <1>1. CASE o.result = "TIMEOUT"
    <2>1. EnterBackoff(mode, pub) BY <1>1 DEF GetSwvDone
    <2> QED BY <2>1, EnterBackoffType DEF GetSwvDone, params
  <1>2. CASE o.result # "TIMEOUT" BY <1>2 DEF GetSwvDone, params
  <1> QED BY <1>1, <1>2

LEMMA GetFailedType ==
  ASSUME TypeOK, NEW c, NEW g \in Groups, NEW r, GetFailed(c, g, r)
  PROVE  /\ unsup' \in SUBSET Probe /\ queue' \in Seq(Command)
         /\ task' \in TaskType /\ belief' \in BeliefType /\ reported' \in Settings
  <1>1. [belief EXCEPT !.requiresStop = TRUE] \in BeliefType
    BY DEF TypeOK, ControlOK, BeliefType
  <1>2. queue \in Seq(Command) /\ task \in TaskType /\ belief \in BeliefType
          /\ unsup \in SUBSET Probe /\ reported \in Settings
    BY DEF TypeOK, ControlOK, SettingsOK
  <1>3. CASE r # "MALFORMED" /\ g \in Probe /\ op = "BOOT_READ"
    BY <1>2, <1>3 DEF GetFailed
  <1>4. CASE /\ ~(r # "MALFORMED" /\ g \in Probe /\ op = "BOOT_READ")
             /\ r \in {"MALFORMED", "TIMEOUT"}
    BY <1>2, <1>4, OpFailedType DEF GetFailed
  <1>5. CASE /\ ~(r # "MALFORMED" /\ g \in Probe /\ op = "BOOT_READ")
             /\ r \notin {"MALFORMED", "TIMEOUT"}
    BY <1>1, <1>2, <1>5 DEF GetFailed
  <1> QED BY <1>3, <1>4, <1>5

LEMMA GetGroupDoneType ==
  ASSUME TypeOK, NEW c \in Command, NEW o, o.result = "OK" => o.val \in Vals,
         GetGroupDone(c, o)
  PROVE  ControlOK' /\ SettingsOK'
  <1>1. PICK g \in Groups :
          IF o.result = "OK" THEN GetApplied(g, o.val) ELSE GetFailed(c, g, o.result)
    BY DEF GetGroupDone, Command
  <1>2. /\ unsup' \in SUBSET Probe /\ queue' \in Seq(Command)
        /\ task' \in TaskType /\ belief' \in BeliefType /\ reported' \in Settings
    <2>1. CASE o.result = "OK"
      <3>1. [task EXCEPT !.readOk = @ \cup {g}] \in TaskType
        BY DEF TypeOK, ControlOK, TaskType
      <3>2. [reported EXCEPT ![g] = o.val] \in Settings
        BY <2>1 DEF TypeOK, SettingsOK, Settings
      <3> QED BY <1>1, <2>1, <3>1, <3>2 DEF GetApplied, TypeOK, ControlOK, SettingsOK
    <2>2. CASE o.result # "OK" BY <1>1, <2>2, GetFailedType
    <2> QED BY <2>1, <2>2
  <1> QED BY <1>2 DEF GetGroupDone, TypeOK, ControlOK, SettingsOK

LEMMA SetGroupDoneType ==
  ASSUME TypeOK, NEW c \in Command, NEW o, SetGroupDone(c, o)
  PROVE  ControlOK' /\ SettingsOK'
  <1>1. c.groups \in SUBSET Groups BY DEF Command
  <1>2. /\ [task EXCEPT !.setOk = @ \cup c.groups] \in TaskType
        /\ [task EXCEPT !.setFail = @ \cup c.groups, !.error = TRUE] \in TaskType
    BY <1>1 DEF TypeOK, ControlOK, TaskType
  <1>3. [pub EXCEPT !.error = TRUE] \in PubType
    BY DEF TypeOK, ControlOK, PubType
  <1> USE DEF TypeOK, ControlOK, SettingsOK
  <1>4. CASE o.result = "OK" BY <1>2, <1>4 DEF SetGroupDone, params
  <1>5. CASE o.result = "TIMEOUT"
    <2>1. OpFailed(c) BY <1>5 DEF SetGroupDone
    <2> QED BY <2>1, <1>5, OpFailedType DEF SetGroupDone, params
  <1>6. CASE o.result = "NOT_STOPPED"
    BY <1>2, <1>6, BelievedType DEF SetGroupDone, params
  <1>7. CASE o.result \notin {"OK", "TIMEOUT", "NOT_STOPPED"}
    BY <1>2, <1>3, <1>7 DEF SetGroupDone, params
  <1> QED BY <1>4, <1>5, <1>6, <1>7

LEMMA SetRunAppDoneType ==
  ASSUME TypeOK, NEW c, NEW o, SetRunAppDone(c, o)
  PROVE  ControlOK' /\ SettingsOK'
  <1>1. /\ [mode EXCEPT !.seen = FALSE] \in ModeType
        /\ [mode EXCEPT !.rejected = TRUE] \in ModeType
    BY DEF TypeOK, ControlOK, ModeType
  <1>2. queue # <<>> => Tail(queue) \in Seq(Command) BY DEF TypeOK, ControlOK
  <1>3. CASE o.result = "OK"
    BY <1>1, <1>3, BelievedType
    DEF SetRunAppDone, params, TypeOK, ControlOK, SettingsOK
  <1>4. CASE o.result # "OK"
    <2>1. SetError BY <1>4 DEF SetRunAppDone
    <2> QED BY <1>1, <1>2, <1>4, <2>1, SetErrorType
            DEF SetRunAppDone, params, TypeOK, ControlOK, SettingsOK
  <1> QED BY <1>3, <1>4

LEMMA StopDoneType ==
  ASSUME TypeOK, NEW c, NEW o, StopDone(c, o)
  PROVE  ControlOK' /\ SettingsOK'
  <1> USE DEF TypeOK, ControlOK, SettingsOK
  <1>1. [belief EXCEPT !.unconfirmed = TRUE] \in BeliefType BY DEF BeliefType
  <1>2. CASE o.result = "TIMEOUT"
    <2>1. OpFailed(c) BY <1>2 DEF StopDone
    <2> QED BY <1>1, <1>2, <2>1, OpFailedType DEF StopDone, params
  <1>3. CASE o.result # "TIMEOUT"
    BY <1>3, BelievedType DEF StopDone, params
  <1> QED BY <1>2, <1>3

LEMMA StartDoneType ==
  ASSUME TypeOK, NEW c \in Command, NEW o, StartDone(c, o)
  PROVE  ControlOK' /\ SettingsOK'
  <1> DEFINE done == o.result = "OK" \/ (o.result = "ERROR" /\ "RECOVERY" \in c.flags)
             unsaved == o.result = "UNSAVED" /\ "START_RETRY" \notin c.flags
             again == <<Cmd("SAVE", 1, {}),
                        Cmd("START", 1, c.flags \cup {"START_RETRY"})>>
  <1>1. CASE done
    BY <1>1, BelievedType DEF StartDone, params, TypeOK, ControlOK, SettingsOK
  <1>2. CASE ~done /\ unsaved
    <2>1. c.flags \cup {"START_RETRY"} \in SUBSET Flags BY DEF Command, Flags
    <2>2. again \in Seq(Command) BY <2>1, CmdType, RetriesType DEF WireIds
    <2>3. queue' = again \o queue BY <1>2 DEF StartDone
    <2>4. queue' \in Seq(Command)
      BY <2>2, <2>3, ConcatProperties DEF TypeOK, ControlOK
    <2>5. UNCHANGED <<belief, pub, task>> BY <1>2 DEF StartDone
    <2> QED BY <2>4, <2>5 DEF StartDone, params, TypeOK, ControlOK, SettingsOK
  <1>3. CASE ~done /\ ~unsaved /\ o.result = "TIMEOUT"
    <2>1. UNCHANGED <<belief, pub>> /\ (UNCHANGED <<queue, task>> \/ OpFailed(c))
      BY <1>3 DEF StartDone
    <2> QED BY <2>1, OpFailedType
            DEF StartDone, params, TypeOK, ControlOK, SettingsOK
  <1>4. CASE ~done /\ ~unsaved /\ o.result # "TIMEOUT"
    <2>1. SetError /\ UNCHANGED <<queue, belief>> BY <1>4 DEF StartDone
    <2> QED BY <2>1, SetErrorType
            DEF StartDone, params, TypeOK, ControlOK, SettingsOK
  <1> QED BY <1>1, <1>2, <1>3, <1>4

LEMMA SaveDoneType ==
  ASSUME TypeOK, NEW c, NEW o, SaveDone(c, o)
  PROVE  ControlOK' /\ SettingsOK'
  <1>1. /\ [task EXCEPT !.saveError = TRUE] \in TaskType
        /\ [task EXCEPT !.error = TRUE] \in TaskType
    BY DEF TypeOK, ControlOK, TaskType
  <1>2. UNCHANGED <<life, op, req, mode, params>> BY DEF SaveDone
  <1>3. /\ queue' \in Seq(Command) /\ belief' \in BeliefType
        /\ pub' \in PubType /\ task' \in TaskType
    <2> USE DEF TypeOK, ControlOK
    <2>1. CASE o.result = "OK" BY <2>1 DEF SaveDone
    <2>2. CASE o.result = "TIMEOUT" BY <2>2, OpFailedType DEF SaveDone
    <2>3. CASE o.result = "ERROR" /\ op \in {"TXN", "FACTORY_RESET"}
      BY <1>1, <2>3 DEF SaveDone
    <2>4. CASE o.result = "NOT_STOPPED" BY <1>1, <2>4, BelievedType DEF SaveDone
    <2>5. CASE /\ o.result \notin {"OK", "TIMEOUT", "NOT_STOPPED"}
               /\ ~(o.result = "ERROR" /\ op \in {"TXN", "FACTORY_RESET"})
      BY <2>5, SetErrorType DEF SaveDone
    <2> QED BY <2>1, <2>2, <2>3, <2>4, <2>5
  <1> QED BY <1>2, <1>3 DEF params, TypeOK, ControlOK, SettingsOK

LEMMA ResetCfgDoneType ==
  ASSUME TypeOK, NEW c, NEW o, ResetCfgDone(c, o)
  PROVE  ControlOK' /\ SettingsOK'
  <1>1. queue' \in Seq(Command) /\ task' \in TaskType /\ pub' \in PubType
    <2> USE DEF TypeOK, ControlOK
    <2>1. CASE o.result = "OK" BY <2>1 DEF ResetCfgDone
    <2>2. CASE o.result = "TIMEOUT" BY <2>2, OpFailedType DEF ResetCfgDone
    <2>3. CASE o.result \notin {"OK", "TIMEOUT"}
      BY <2>3, SetErrorType DEF ResetCfgDone
    <2> QED BY <2>1, <2>2, <2>3
  <1> QED BY <1>1 DEF ResetCfgDone, params, TypeOK, ControlOK, SettingsOK

LEMMA ResetSystemDoneType ==
  ASSUME TypeOK, NEW c, NEW o, ResetSystemDone(c, o)
  PROVE  ControlOK' /\ SettingsOK'
  <1> USE DEF TypeOK, ControlOK, SettingsOK
  <1>1. belief' \in BeliefType BY DEF ResetSystemDone, BootBelief, BeliefType
  <1>2. mode' \in ModeType BY DEF ResetSystemDone, ModeType
  <1>3. pub' \in PubType BY DEF ResetSystemDone, PubType, Statuses
  <1> QED BY <1>1, <1>2, <1>3 DEF ResetSystemDone, Ops

LEMMA OnDoneType ==
  ASSUME TypeOK, NEW c \in WireCommand, NEW o,
         c.id = "GET_GROUP" /\ o.result = "OK" => o.val \in Vals, OnDone(c, o)
  PROVE  ControlOK' /\ SettingsOK'
  <1>1. c \in Command /\ c.id \in WireIds BY DEF WireCommand
  <1>2. CASE c.id = "GET_SWV" BY <1>2, GetSwvDoneType DEF OnDone
  <1>3. CASE c.id = "GET_GROUP" BY <1>1, <1>3, GetGroupDoneType DEF OnDone
  <1>4. CASE c.id = "SET_GROUP" BY <1>1, <1>4, SetGroupDoneType DEF OnDone
  <1>5. CASE c.id = "SET_RUN_APP" BY <1>5, SetRunAppDoneType DEF OnDone
  <1>6. CASE c.id = "STOP" BY <1>6, StopDoneType DEF OnDone
  <1>7. CASE c.id = "START" BY <1>1, <1>7, StartDoneType DEF OnDone
  <1>8. CASE c.id = "SAVE" BY <1>8, SaveDoneType DEF OnDone
  <1>9. CASE c.id = "RESET_CFG" BY <1>9, ResetCfgDoneType DEF OnDone
  <1>10. CASE c.id = "RESET_SYSTEM" BY <1>10, ResetSystemDoneType DEF OnDone
  <1> QED BY <1>1, <1>2, <1>3, <1>4, <1>5, <1>6, <1>7, <1>8, <1>9, <1>10 DEF WireIds

LEMMA CompleteType ==
  ASSUME TypeOK, fly # Nil, NEW o, radar' \in RadarType,
         fly.id = "GET_GROUP" /\ o.result = "OK" => o.val \in Vals,
         Complete(fly, o)
  PROVE  TypeOK'
  <1>1. fly \in WireCommand /\ fly \in Command
    BY DEF TypeOK, WireOK, WireCommand
  <1>2. WireOK' BY DEF Complete, WireOK
  <1>3. CASE o.result = "MALFORMED" /\ "REPARSE" \notin fly.flags
    <2> DEFINE again == [fly EXCEPT !.flags = @ \cup {"REPARSE"}]
    <2>1. again \in Command /\ queue \in Seq(Command)
      BY <1>1 DEF Command, Flags, TypeOK, ControlOK
    <2>2. queue' = <<again>> \o queue BY <1>3 DEF Complete
    <2> HIDE DEF again
    <2>3. <<again>> \in Seq(Command) BY <2>1
    <2>4. queue' \in Seq(Command) BY <2>1, <2>2, <2>3, ConcatProperties
    <2> QED BY <1>2, <1>3, <2>4 DEF Complete, TypeOK, ControlOK, SettingsOK, params
  <1>4. CASE ~(o.result = "MALFORMED" /\ "REPARSE" \notin fly.flags)
    <2>1. OnDone(fly, o) BY <1>4 DEF Complete
    <2> QED BY <1>1, <1>2, <2>1, OnDoneType DEF TypeOK
  <1> QED BY <1>3, <1>4

-----------------------------------------------------------------------------
(* Types: initial state, entity calls and the outside world.               *)

LEMMA InitType == ASSUME Init PROVE TypeOK
  <1>1. /\ mode \in ModeType /\ task \in TaskType /\ belief \in BeliefType
        /\ req \in ReqType /\ pub \in PubType
    BY DEF Init, BootMode, BootTask, BootBelief, BootReq, BootPub, ModeType,
           TaskType, BeliefType, ReqType, PubType, Statuses
  <1>2. radar \in RadarType BY DEF Init, RadarType, Modes
  <1>3. SettingsOK BY DEF Init, SettingsOK, Settings, NoValue
  <1>4. /\ life \in {"BOOT_WAIT", "PROBE", "BACKOFF", "RUNNING"}
        /\ op \in Ops /\ queue \in Seq(Command)
    BY DEF Init, Ops
  <1>5. fly \in WireCommand \cup {Nil} BY DEF Init
  <1>6. muted \in BOOLEAN BY DEF Init
  <1> QED BY <1>1, <1>2, <1>3, <1>4, <1>5, <1>6 DEF TypeOK, ControlOK, WireOK

LEMMA SetDesiredType ==
  ASSUME TypeOK, NEW g \in Groups, NEW v \in Vals, SetDesired(g, v)
  PROVE  TypeOK'
  <1>1. /\ [task EXCEPT !.error = TRUE] \in TaskType
        /\ [pub EXCEPT !.error = TRUE] \in PubType
    BY DEF TypeOK, ControlOK, TaskType, PubType
  <1>2. /\ [shown EXCEPT ![g] = Display(g, mode.work)] \in Settings
        /\ [shown EXCEPT ![g] = v] \in Settings
        /\ [want EXCEPT ![g] = v] \in Settings
    BY DisplayType DEF TypeOK, SettingsOK, Settings
  <1> QED BY <1>1, <1>2 DEF SetDesired, TypeOK, ControlOK, SettingsOK, WireOK

LEMMA SetWorkModeType ==
  ASSUME TypeOK, NEW m \in Modes, SetWorkMode(m) PROVE TypeOK'
  <1>1. /\ [task EXCEPT !.error = TRUE] \in TaskType
        /\ [pub EXCEPT !.error = TRUE] \in PubType
    BY DEF TypeOK, ControlOK, TaskType, PubType
  <1>2. /\ [mode EXCEPT !.shown = mode.reported] \in ModeType
        /\ [mode EXCEPT !.want = m, !.shown = m] \in ModeType
    BY DEF TypeOK, ControlOK, ModeType
  <1> QED BY <1>1, <1>2
          DEF SetWorkMode, params, TypeOK, ControlOK, SettingsOK, WireOK

LEMMA RequestType ==
  ASSUME TypeOK,
         \/ RequestRefresh \/ RequestRestart \/ RequestFactoryReset
         \/ \E on \in BOOLEAN : RequestRunning(on)
  PROVE  TypeOK'
  <1>1. req' \in ReqType
    BY DEF RequestRefresh, RequestRestart, RequestFactoryReset, RequestRunning,
           Request, TypeOK, ControlOK, ReqType
  <1>2. pub' \in PubType
    BY DEF RequestRefresh, RequestRestart, RequestFactoryReset, RequestRunning,
           TypeOK, ControlOK, PubType
  <1>3. UNCHANGED <<life, op, queue, fly, muted, task, belief, mode, params, radar>>
    BY DEF RequestRefresh, RequestRestart, RequestFactoryReset, RequestRunning,
           Request
  <1> QED BY <1>1, <1>2, <1>3 DEF params, TypeOK, ControlOK, SettingsOK, WireOK

LEMMA RadarPowerCycleType == ASSUME TypeOK, RadarPowerCycle PROVE TypeOK'
  <1>1. radar' \in RadarType
    BY StartedType DEF RadarPowerCycle, TypeOK, WireOK
  <1>2. muted' \in BOOLEAN BY DEF RadarPowerCycle
  <1>3. UNCHANGED <<life, op, queue, fly, req, task, belief, mode, params, pub>>
    BY DEF RadarPowerCycle
  <1> QED BY <1>1, <1>2, <1>3 DEF params, TypeOK, ControlOK, SettingsOK, WireOK

LEMMA EspRebootType == ASSUME TypeOK, EspReboot PROVE TypeOK'
  <1>1. /\ mode' \in ModeType /\ task' \in TaskType /\ belief' \in BeliefType
        /\ req' \in ReqType /\ pub' \in PubType
    BY DEF EspReboot, BootMode, BootTask, BootBelief, BootReq, BootPub, ModeType,
           TaskType, BeliefType, ReqType, PubType, Statuses
  <1>2. SettingsOK' BY DEF EspReboot, SettingsOK, Settings, NoValue
  <1>3. /\ life' \in {"BOOT_WAIT", "PROBE", "BACKOFF", "RUNNING"}
        /\ op' \in Ops /\ queue' \in Seq(Command)
    BY DEF EspReboot, Ops
  <1>4. fly' \in WireCommand \cup {Nil} BY DEF EspReboot
  <1>5. muted' \in BOOLEAN BY DEF EspReboot
  <1>6. radar' \in RadarType BY DEF EspReboot, TypeOK, WireOK
  <1> QED BY <1>1, <1>2, <1>3, <1>4, <1>5, <1>6 DEF TypeOK, ControlOK, WireOK

LEMMA UserType == ASSUME TypeOK, UserNext PROVE TypeOK'
  BY SetDesiredType, SetWorkModeType, RequestType, RadarPowerCycleType,
     EspRebootType DEF UserNext

-----------------------------------------------------------------------------
(* Types: the wire.                                                        *)

LEMMA SendType == ASSUME TypeOK, Send PROVE TypeOK'
  <1> DEFINE h == Head(queue)
             g == CHOOSE g \in h.groups : TRUE
             rest == IF h.groups = {g} THEN <<>>
                     ELSE <<[h EXCEPT !.groups = @ \ {g}]>>
  <1>1. queue \in Seq(Command) /\ queue # <<>> BY DEF Send, TypeOK, ControlOK
  <1>2. h \in Command /\ Tail(queue) \in Seq(Command) BY <1>1
  <1>3. h.id \in WireIds
    <2>1. h.id \notin Markers BY DEF Send, Draining
    <2> QED BY <1>2, <2>1 DEF Command
  <1> HIDE DEF h
  <1>4. CASE h.groups = {}
    <2>1. fly' = h /\ queue' = Tail(queue) BY <1>4 DEF Send, h
    <2>2. fly' \in WireCommand BY <1>2, <1>3, <2>1 DEF WireCommand
    <2> QED BY <1>2, <2>1, <2>2
            DEF Send, params, TypeOK, ControlOK, SettingsOK, WireOK
  <1>5. CASE h.groups # {}
    <2>1. g \in h.groups /\ h.groups \subseteq Groups BY <1>2, <1>5 DEF Command
    <2>2. fly' = [h EXCEPT !.groups = {g}] /\ queue' = rest \o Tail(queue)
      BY <1>5 DEF Send, h
    <2> HIDE DEF g
    <2>3. [h EXCEPT !.groups = {g}] \in WireCommand
      BY <1>2, <1>3, <2>1 DEF WireCommand, Command
    <2>4. rest \in Seq(Command)
      <3>1. [h EXCEPT !.groups = @ \ {g}] \in Command
        BY <1>2, <2>1 DEF Command
      <3> QED BY <3>1
    <2> HIDE DEF rest
    <2>5. queue' \in Seq(Command) BY <1>2, <2>2, <2>4, ConcatProperties
    <2> QED BY <2>2, <2>3, <2>5
            DEF Send, params, TypeOK, ControlOK, SettingsOK, WireOK
  <1> QED BY <1>4, <1>5

LEMMA AnswerType == ASSUME TypeOK, Answer PROVE TypeOK'
  <1>1. fly \in WireCommand /\ fly # Nil BY DEF Answer, TypeOK, WireOK
  <1>2. PICK o \in Outcomes(fly) : radar' = o.radar /\ Complete(fly, o)
    BY DEF Answer
  <1> QED BY <1>1, <1>2, OutcomesType, CompleteType

LEMMA CarriedOutType == ASSUME TypeOK, CarriedOut PROVE TypeOK'
  <1>1. fly \in WireCommand BY DEF CarriedOut, TypeOK, WireOK
  <1>2. PICK o \in Outcomes(fly) : radar' = o.radar BY DEF CarriedOut
  <1>3. radar' \in RadarType BY <1>1, <1>2, OutcomesType
  <1>4. muted' \in BOOLEAN BY DEF CarriedOut
  <1> QED BY <1>3, <1>4
          DEF CarriedOut, params, TypeOK, ControlOK, SettingsOK, WireOK

LEMMA CommandLostType == ASSUME TypeOK, CommandLost PROVE TypeOK'
  <1>1. muted' \in BOOLEAN BY DEF CommandLost
  <1> QED BY <1>1
          DEF CommandLost, params, TypeOK, ControlOK, SettingsOK, WireOK

LEMMA TimeoutType == ASSUME TypeOK, Timeout PROVE TypeOK'
  <1>1. fly \in WireCommand /\ fly # Nil BY DEF Timeout, TypeOK, WireOK
  <1>2. radar' \in RadarType
    <2>1. Halves(fly) \in 0..2 BY DEF Halves
    <2> QED BY <2>1, WaitedType DEF Timeout, TypeOK, WireOK
  <1>3. CASE fly.id \in NoReply
    <2>1. Complete(fly, Out(radar, "OK")) BY <1>3 DEF Timeout
    <2>2. fly.id # "GET_GROUP" BY <1>3 DEF NoReply
    <2> QED BY <1>1, <1>2, <2>1, <2>2, CompleteType
  <1>4. CASE fly.id \notin NoReply /\ fly.retries > 0
    <2>1. [fly EXCEPT !.retries = @ - 1] \in WireCommand
      BY <1>1, <1>4, RetriesType DEF WireCommand, Command
    <2>2. muted' \in BOOLEAN BY <1>4 DEF Timeout
    <2> QED BY <1>2, <1>4, <2>1, <2>2
            DEF Timeout, params, TypeOK, ControlOK, SettingsOK, WireOK
  <1>5. CASE fly.id \notin NoReply /\ ~(fly.retries > 0)
    <2>1. Complete(fly, Out(radar, "TIMEOUT")) BY <1>5 DEF Timeout
    <2>2. Out(radar, "TIMEOUT").result # "OK" BY DEF Out
    <2> QED BY <1>1, <1>2, <2>1, <2>2, CompleteType
  <1> QED BY <1>3, <1>4, <1>5

\* Learning the work mode keeps the records well formed.
LEMMA LearntType ==
  ASSUME TypeOK, NEW m \in Modes, NEW pending
  PROVE  /\ LearntMode(m) \in ModeType
         /\ LearntShown(m) \in Settings
         /\ LearntReq(m, pending) \in ReqType
  <1>1. mode \in ModeType /\ req \in ReqType BY DEF TypeOK, ControlOK
  <1>2. LearntMode(m) \in ModeType
    <2> DEFINE rep == IF NewMode(m) THEN m ELSE mode.reported
    <2>1. rep \in Modes \cup {Nil} BY <1>1 DEF ModeType
    <2> HIDE DEF rep
    <2>2. \A sh \in Modes \cup {Nil}, b \in BOOLEAN, c \in BOOLEAN :
            [mode EXCEPT !.work = m, !.reported = rep, !.shown = sh, !.seen = b,
                         !.confirm = c] \in ModeType
      BY <1>1, <2>1 DEF ModeType
    <2> DEFINE confirmed == mode.confirm /\ op = "NONE"
               free == mode.want = Nil /\ ~mode.confirm /\ ~mode.pending
                         /\ op \notin {"TXN", "FACTORY_RESET", "MODE_SWITCH"}
               sh == IF confirmed \/ (NewMode(m) /\ free) THEN rep ELSE mode.shown
               seen == mode.seen \/ (op = "MODE_SWITCH" /\ m = mode.target)
               conf == mode.confirm /\ ~confirmed
    <2>3. sh \in Modes \cup {Nil} BY <1>1, <2>1 DEF ModeType
    <2>4. seen \in BOOLEAN OBVIOUS
    <2>5. conf \in BOOLEAN OBVIOUS
    <2>6. LearntMode(m) = [mode EXCEPT !.work = m, !.reported = rep, !.shown = sh,
                                       !.seen = seen, !.confirm = conf]
      BY DEF LearntMode, rep
    <2> HIDE DEF sh, seen, conf
    <2> QED BY <2>2, <2>3, <2>4, <2>5, <2>6
  <1>3. LearntShown(m) \in Settings
    BY DisplayType DEF LearntShown, TypeOK, SettingsOK, Settings
  <1>4. LearntReq(m, pending) \in ReqType BY <1>1 DEF LearntReq, ReqType
  <1> QED BY <1>2, <1>3, <1>4

LEMMA SentenceType == ASSUME TypeOK, Sentence PROVE TypeOK'
  <1>1. radar' \in RadarType
    <2>1. \A n \in 0..2 : [radar EXCEPT !.quiet = n] \in RadarType
      BY RadarStep DEF TypeOK, WireOK
    <2> QED BY <2>1 DEF Sentence
  <1>2. belief' \in BeliefType BY DEF Sentence, TypeOK, ControlOK, BeliefType
  <1>3. pub' \in PubType
    <2>1. RunningPub(pub, TRUE) \in PubType
      BY RunningPubType DEF TypeOK, ControlOK
    <2>2. \A p \in PubType : [p EXCEPT !.status = "RUNNING"] \in PubType
      BY DEF PubType, Statuses
    <2>3. pub' \in {RunningPub(pub, TRUE),
                    [RunningPub(pub, TRUE) EXCEPT !.status = "RUNNING"]}
      <3>1. RunningPub(pub, TRUE) =
              [RunningPub(pub, TRUE) EXCEPT !.status = RunningPub(pub, TRUE).status]
        BY <2>1 DEF PubType
      <3> QED BY <3>1 DEF Sentence
    <2> QED BY <2>1, <2>2, <2>3
  <1>4. mode' \in ModeType /\ shown' \in Settings /\ req' \in ReqType
    <2>1. radar.app \in Modes BY RadarParts DEF TypeOK, WireOK
    <2> QED BY <2>1, LearntType
            DEF Sentence, TypeOK, ControlOK, SettingsOK
  <1>5. UNCHANGED <<life, op, queue, fly, muted, task, want, snap, reported, unsup>>
    BY DEF Sentence
  <1> QED BY <1>1, <1>2, <1>3, <1>4, <1>5 DEF TypeOK, ControlOK, SettingsOK, WireOK

LEMMA WireType == ASSUME TypeOK, WireNext PROVE TypeOK'
  BY SendType, AnswerType, CarriedOutType, CommandLostType, TimeoutType,
     SentenceType DEF WireNext

-----------------------------------------------------------------------------
(* Types: markers.                                                         *)

\* What is left of the queue when its head is taken.
LEMMA TailType ==
  ASSUME TypeOK, queue # <<>> PROVE Tail(queue) \in Seq(Command)
  BY DEF TypeOK, ControlOK

LEMMA ReadableType == ASSUME NEW gs \in SUBSET Groups PROVE Readable(gs) \in SUBSET Groups
  BY DEF Readable

LEMMA ReadModeType ==
  ASSUME TypeOK PROVE ReadMode(mode.work) \in Modes \cup {"UNKNOWN"}
  BY DEF ReadMode, TypeOK, ControlOK, ModeType, Modes

LEMMA ProbeDoneType == ASSUME TypeOK, ProbeDone PROVE TypeOK'
  <1> USE DEF TypeOK, ControlOK
  <1>1. queue' \in Seq(Command)
    <2>1. Gets({RangeGroup}) \in Seq(Command) BY GetsType, GroupAssumption
    <2>2. Marker("FIRST_READ") \in Seq(Command)
      BY MarkerType DEF Markers, EndMarkers
    <2>3. Tail(queue) \in Seq(Command) BY TailType DEF ProbeDone, AtMarker
    <2>4. Tail(queue) \o Gets({RangeGroup}) \in Seq(Command)
      BY <2>1, <2>3, ConcatProperties
    <2> QED BY <2>2, <2>4, ConcatProperties DEF ProbeDone
  <1>2. task' \in TaskType BY DEF ProbeDone, TaskType, ModeType
  <1>3. mode' \in ModeType BY ReadModeType DEF ProbeDone, ModeType
  <1>4. req' \in ReqType BY DEF ProbeDone, ReqType
  <1>5. pub' \in PubType BY DEF ProbeDone, PubType, Statuses
  <1>6. op' \in Ops /\ unsup' \in SUBSET Probe BY DEF ProbeDone, Ops
  <1> QED BY <1>1, <1>2, <1>3, <1>4, <1>5, <1>6 DEF ProbeDone, SettingsOK, WireOK

LEMMA FirstReadType == ASSUME TypeOK, FirstRead PROVE TypeOK'
  <1> USE DEF TypeOK, ControlOK
  <1> DEFINE some == Gets(Readable(Groups \ {RangeGroup}))
             all == Gets(Readable(Groups))
             recovery == IF RecoveryStart THEN Start({"RECOVERY"}) ELSE <<>>
             start == IF belief.userStopped THEN <<>> ELSE Start({})
             end == Marker("READ_END")
  <1>1. some \in Seq(Command) /\ all \in Seq(Command) BY GetsType, ReadableType
  <1>2. recovery \in Seq(Command) /\ start \in Seq(Command) BY StartType DEF Flags
  <1>3. end \in Seq(Command) BY MarkerType DEF Markers, EndMarkers
  <1>4. Tail(queue) \in Seq(Command) BY TailType DEF FirstRead, AtMarker
  <1>5. \/ queue' = Tail(queue) \o some \o recovery \o end
        \/ queue' = Tail(queue) \o Stop \o all \o start \o end
    BY DEF FirstRead
  <1> HIDE DEF some, all, recovery, start, end
  <1>6. queue' \in Seq(Command)
    <2>1. Tail(queue) \o some \in Seq(Command) BY <1>1, <1>4, ConcatType
    <2>2. Tail(queue) \o some \o recovery \in Seq(Command)
      BY <1>2, <2>1, ConcatType
    <2>3. Tail(queue) \o Stop \in Seq(Command) BY <1>4, StopType, ConcatType
    <2>4. Tail(queue) \o Stop \o all \in Seq(Command) BY <1>1, <2>3, ConcatType
    <2>5. Tail(queue) \o Stop \o all \o start \in Seq(Command)
      BY <1>2, <2>4, ConcatType
    <2> QED BY <1>3, <1>5, <2>2, <2>5, ConcatType
  <1>7. task' \in TaskType /\ belief' \in BeliefType
    <2>1. /\ [belief EXCEPT !.requiresStop = @ /\ KnownStopped, !.recover = FALSE]
               \in BeliefType
          /\ [belief EXCEPT !.requiresStop = TRUE, !.recover = FALSE] \in BeliefType
      BY DEF BeliefType
    <2>2. /\ [task EXCEPT !.firstRead = FALSE] \in TaskType
          /\ [task EXCEPT !.firstRead = FALSE, !.stopped = TRUE,
                          !.restart = ~belief.userStopped] \in TaskType
      BY DEF TaskType, BeliefType
    <2> QED BY <2>1, <2>2 DEF FirstRead
  <1>8. mode' \in ModeType BY ReadModeType DEF FirstRead, ModeType
  <1>9. req' \in ReqType BY DEF FirstRead, ReqType
  <1> QED BY <1>6, <1>7, <1>8, <1>9 DEF FirstRead, params, SettingsOK, WireOK

LEMMA ReadEndType == ASSUME TypeOK, ReadEnd PROVE TypeOK'
  <1> USE DEF TypeOK, ControlOK
  <1>1. queue' \in Seq(Command) BY TailType DEF ReadEnd, AtMarker
  <1>2. shown' \in Settings
    BY DisplayType DEF ReadEnd, SettingsOK, Settings
  <1>3. task' \in TaskType BY DEF ReadEnd, TaskType
  <1>4. pub' \in PubType BY DEF ReadEnd, PubType, TaskType, Statuses
  <1>5. op' \in Ops BY DEF ReadEnd, Ops
  <1> QED BY <1>1, <1>2, <1>3, <1>4, <1>5 DEF ReadEnd, SettingsOK, WireOK

LEMMA BootReadEndType == ASSUME TypeOK, BootReadEnd PROVE TypeOK'
  <1> USE DEF TypeOK, ControlOK
  <1>1. queue' \in Seq(Command) BY TailType DEF BootReadEnd, AtMarker
  <1>2. PICK silent \in BOOLEAN, reports \in BOOLEAN : FinishBootRead(silent, reports)
    BY DEF BootReadEnd
  <1> DEFINE answers == RangeGroup \in task.readOk
             infer == /\ HasModes /\ silent /\ mode.work # "PRESENCE"
                      /\ ~KnownStopped /\ ~belief.userStopped
             learnt == IF infer THEN LearntMode("PRESENCE") ELSE mode
             bad == task.error \/ ~answers \/ SwitchMissed
  <1>3. "PRESENCE" \in Modes BY DEF Modes
  <1>4. learnt \in ModeType BY <1>3, LearntType
  <1>5. bad \in BOOLEAN BY DEF TaskType
  <1>6. mode' \in ModeType
    <2> DEFINE sh == IF HasModes THEN learnt.reported ELSE learnt.shown
               rej == learnt.rejected /\ ~mode.pending
    <2>1. mode' = [learnt EXCEPT !.shown = sh, !.pending = FALSE, !.rejected = rej]
      BY <1>2 DEF FinishBootRead
    <2>2. sh \in Modes \cup {Nil} /\ rej \in BOOLEAN
      <3> HIDE DEF learnt
      <3> QED BY <1>4 DEF ModeType
    <2> HIDE DEF learnt, sh, rej
    <2> QED BY <1>4, <2>1, <2>2 DEF ModeType
  <1>7. shown' \in Settings
    <2>1. \A g \in Groups : Display(g, learnt.work) \in Vals \cup {Nil}
      BY DisplayType
    <2>2. \E S \in SUBSET Groups : shown' = [g \in Groups |->
             IF g \in S THEN Display(g, learnt.work) ELSE shown[g]]
      <3> DEFINE S == {g \in Groups : /\ want[g] = Nil
                      /\ \/ g \in task.readOk
                         \/ infer /\ GroupModes[g] # Modes /\ reported[g] # Nil}
      <3> WITNESS S \in SUBSET Groups
      <3> QED BY <1>2 DEF FinishBootRead
    <2> HIDE DEF learnt
    <2> QED BY <2>1, <2>2 DEF SettingsOK, Settings
  <1>8. req' \in ReqType
    <2>1. LearntReq("PRESENCE", FALSE) \in ReqType BY <1>3, LearntType
    <2> QED BY <1>2, <2>1 DEF FinishBootRead
  <1>9. task' \in TaskType
    <2>1. task' = [task EXCEPT !.stopped = FALSE, !.error = bad]
      BY <1>2 DEF FinishBootRead
    <2> HIDE DEF bad
    <2> QED BY <1>5, <2>1 DEF TaskType
  <1>10. belief' \in BeliefType BY <1>2 DEF FinishBootRead, BeliefType
  <1>11. pub' \in PubType
    <2> DEFINE status == IF ~answers THEN "UNSUPPORTED_FIRMWARE"
                         ELSE IF KnownStopped THEN "STOPPED" ELSE "RUNNING"
    <2>1. pub' = [pub EXCEPT !.linkOk = TRUE, !.error = bad, !.status = status]
      BY <1>2 DEF FinishBootRead
    <2>2. status \in Statuses BY DEF Statuses
    <2> HIDE DEF bad, status
    <2> QED BY <1>5, <2>1, <2>2 DEF PubType
  <1>12. /\ life' \in {"BOOT_WAIT", "PROBE", "BACKOFF", "RUNNING"} /\ op' \in Ops
         /\ UNCHANGED <<fly, muted, want, snap, reported, unsup, radar>>
    BY DEF BootReadEnd, Ops
  <1> QED BY <1>1, <1>6, <1>7, <1>8, <1>9, <1>10, <1>11, <1>12
          DEF SettingsOK, WireOK

\* finish_txn_() and finish_failure_() show what was read or revert what was sent.
LEMMA TxnEndType == ASSUME TypeOK, TxnEnd PROVE TypeOK'
  <1> USE DEF TypeOK, ControlOK
  <1>1. queue' \in Seq(Command) BY TailType DEF TxnEnd, AtMarker
  <1> DEFINE bad == task.error \/ Mismatched # {} \/ SaveFailed
  <1>2. bad \in BOOLEAN BY DEF TaskType
  <1>3. task' = [task EXCEPT !.stopped = FALSE, !.error = bad] BY DEF TxnEnd
  <1>4. pub' = [pub EXCEPT !.error = bad,
                  !.status = IF KnownStopped THEN "STOPPED" ELSE "RUNNING"]
    BY DEF TxnEnd
  <1>5. task' \in TaskType /\ pub' \in PubType
    <2> HIDE DEF bad
    <2> QED BY <1>2, <1>3, <1>4 DEF TaskType, PubType, Statuses
  <1>6. shown' \in Settings
    BY DisplayType DEF TxnEnd, SettingsOK, Settings
  <1>7. snap' \in Settings BY DEF TxnEnd, NoValue, Settings
  <1>8. mode' \in ModeType BY DEF TxnEnd, ModeType
  <1>9. op' \in Ops BY DEF TxnEnd, Ops
  <1> QED BY <1>1, <1>5, <1>6, <1>7, <1>8, <1>9 DEF TxnEnd, SettingsOK, WireOK

LEMMA RunDoneType == ASSUME TypeOK, RunDone PROVE TypeOK'
  <1>1. queue' \in Seq(Command) BY TailType DEF RunDone, AtMarker
  <1>2. pub' \in PubType
    BY DEF RunDone, TypeOK, ControlOK, PubType, Statuses
  <1>3. op' \in Ops BY DEF RunDone, Ops
  <1> QED BY <1>1, <1>2, <1>3
          DEF RunDone, params, TypeOK, ControlOK, SettingsOK, WireOK

LEMMA FailEndType == ASSUME TypeOK, FailEnd PROVE TypeOK'
  <1>1. /\ [mode EXCEPT !.confirm = FALSE] \in ModeType
        /\ [pub EXCEPT !.error = TRUE] \in PubType
    BY DEF TypeOK, ControlOK, ModeType, PubType
  <1>2. EnterBackoff([mode EXCEPT !.confirm = FALSE], [pub EXCEPT !.error = TRUE])
    BY DEF FailEnd
  <1>3. task' \in TaskType BY DEF FailEnd, TypeOK, ControlOK, TaskType
  <1>4. shown' \in Settings /\ snap' \in Settings
    BY DisplayType DEF FailEnd, NoValue, TypeOK, SettingsOK, Settings
  <1> QED BY <1>1, <1>2, <1>3, <1>4, EnterBackoffType
          DEF FailEnd, TypeOK, ControlOK, SettingsOK, WireOK

\* The steps that only take the head of the queue or end a wait.
LEMMA QueueStepType ==
  ASSUME TypeOK, SkipSave \/ PingEnd \/ ModeWait \/ ModeWaitSeen PROVE TypeOK'
  <1>1. SkipSave \/ PingEnd \/ ModeWait => queue # <<>>
    BY DEF SkipSave, PingEnd, ModeWait, AtMarker
  <1>2. CASE SkipSave
    BY <1>1, <1>2, TailType
    DEF SkipSave, params, TypeOK, ControlOK, SettingsOK, WireOK
  <1>3. CASE PingEnd
    <2>1. op' \in Ops BY <1>3 DEF PingEnd, Ops
    <2> QED BY <1>1, <1>3, <2>1, TailType
            DEF PingEnd, params, TypeOK, ControlOK, SettingsOK, WireOK
  <1>4. CASE ModeWait
    <2>1. mode' \in ModeType BY <1>4 DEF ModeWait, TypeOK, ControlOK, ModeType
    <2> QED BY <1>1, <1>4, <2>1, TailType
            DEF ModeWait, params, TypeOK, ControlOK, SettingsOK, WireOK
  <1>5. CASE ModeWaitSeen
    <2>1. mode' \in ModeType BY <1>5 DEF ModeWaitSeen, TypeOK, ControlOK, ModeType
    <2> QED BY <1>5, <2>1
            DEF ModeWaitSeen, params, TypeOK, ControlOK, SettingsOK, WireOK
  <1> QED BY <1>2, <1>3, <1>4, <1>5

LEMMA ModeWaitExpiredType == ASSUME TypeOK, ModeWaitExpired PROVE TypeOK'
  <1> DEFINE start == Cmd("START", 1, {"RECOVERY"})
  <1>1. start \in Command BY CmdType, RetriesType DEF WireIds, Flags
  <1>2. queue' \in Seq(Command)
    <2>1. queue' = <<start>> \o queue BY DEF ModeWaitExpired
    <2> HIDE DEF start
    <2>2. <<start>> \in Seq(Command) BY <1>1
    <2> QED BY <2>1, <2>2, ConcatType DEF TypeOK, ControlOK
  <1>3. radar' \in RadarType
    BY WaitedType DEF ModeWaitExpired, TypeOK, WireOK
  <1>4. mode' \in ModeType /\ shown' \in Settings
    <2>1. "PRESENCE" \in Modes BY DEF Modes
    <2>2. \A m \in ModeType : [m EXCEPT !.waiting = FALSE] \in ModeType
      BY DEF ModeType
    <2>3. LearntMode("PRESENCE") \in ModeType /\ LearntShown("PRESENCE") \in Settings
      BY <2>1, LearntType
    <2> QED BY <2>2, <2>3 DEF ModeWaitExpired, TypeOK, ControlOK, SettingsOK
  <1> QED BY <1>2, <1>3, <1>4
          DEF ModeWaitExpired, TypeOK, ControlOK, SettingsOK, WireOK

LEMMA DriveType == ASSUME TypeOK, DriveNext PROVE TypeOK'
  BY ProbeDoneType, FirstReadType, ReadEndType, BootReadEndType, TxnEndType,
     RunDoneType, FailEndType, QueueStepType, ModeWaitExpiredType DEF DriveNext

-----------------------------------------------------------------------------
(* Types: schedule_() and the checks at the end of loop().                 *)

LEMMA StartProbeType == ASSUME TypeOK, StartProbe PROVE TypeOK'
  <1> USE DEF TypeOK, ControlOK
  <1>1. radar' \in RadarType BY WaitedType DEF StartProbe, WireOK
  <1>2. queue' \in Seq(Command)
    <2>1. <<Cmd("GET_SWV", Retries, {})>> \in Seq(Command)
      BY CmdType, RetriesType DEF WireIds
    <2>2. Marker("PROBE_DONE") \in Seq(Command)
      BY MarkerType DEF Markers, EndMarkers
    <2> QED BY <2>1, <2>2, ConcatType DEF StartProbe
  <1>3. task' \in TaskType BY DEF StartProbe, TaskType
  <1>4. pub' \in PubType BY DEF StartProbe, PubType, Statuses
  <1>5. op' \in Ops BY DEF StartProbe, Ops
  <1> QED BY <1>1, <1>2, <1>3, <1>4, <1>5
          DEF StartProbe, params, SettingsOK, WireOK

\* Requests that start a short operation, or are refused.
LEMMA ShortOpType ==
  ASSUME TypeOK,
         \/ StartRestart \/ FactoryRefused \/ StartRun \/ ReadsDropped
         \/ SwitchNothing \/ CheckReport \/ CheckLink \/ ConfirmExpired
  PROVE  TypeOK'
  <1>1. req \in ReqType /\ belief \in BeliefType /\ mode \in ModeType
          /\ task \in TaskType
    BY DEF TypeOK, ControlOK
  <1>2. CASE StartRestart
    <2>1. queue' \in Seq(Command)
      BY <1>2, CmdType, RetriesType DEF StartRestart, WireIds
    <2>2. req' \in ReqType BY <1>1, <1>2 DEF StartRestart, ReqType
    <2> QED BY <1>2, <2>1, <2>2
            DEF StartRestart, Ops, params, TypeOK, ControlOK, SettingsOK, WireOK
  <1>3. CASE FactoryRefused
    <2>1. req' \in ReqType BY <1>1, <1>3 DEF FactoryRefused, ReqType
    <2> QED BY <1>3, <2>1, SetErrorType
            DEF FactoryRefused, params, TypeOK, ControlOK, SettingsOK, WireOK
  <1>4. CASE StartRun
    <2>1. queue' \in Seq(Command)
      <3>1. Marker("RUN_DONE") \in Seq(Command)
        BY MarkerType DEF Markers, EndMarkers
      <3>2. Start({}) \in Seq(Command) BY StartType
      <3> QED BY <1>4, <3>1, <3>2, StopType, ConcatType DEF StartRun
    <2>2. req' \in ReqType BY <1>1, <1>4 DEF StartRun, ReqType
    <2>3. belief' \in BeliefType BY <1>1, <1>4 DEF StartRun, BeliefType
    <2> QED BY <1>4, <2>1, <2>2, <2>3
            DEF StartRun, Ops, params, TypeOK, ControlOK, SettingsOK, WireOK
  <1>5. CASE ReadsDropped
    <2>1. req' \in ReqType BY <1>1, <1>5 DEF ReadsDropped, ReqType
    <2> QED BY <1>5, <2>1
            DEF ReadsDropped, params, TypeOK, ControlOK, SettingsOK, WireOK
  <1>6. CASE SwitchNothing
    <2>1. mode' \in ModeType /\ task' \in TaskType
      BY <1>1, <1>6 DEF SwitchNothing, ModeType, TaskType
    <2> QED BY <1>6, <2>1
            DEF SwitchNothing, params, TypeOK, ControlOK, SettingsOK, WireOK
  <1>7. CASE CheckReport
    <2>1. Start({"RECOVERY"}) \o Marker("RUN_DONE") \in Seq(Command)
      <3>1. Marker("RUN_DONE") \in Seq(Command)
        BY MarkerType DEF Markers, EndMarkers
      <3>2. Start({"RECOVERY"}) \in Seq(Command) BY StartType DEF Flags
      <3> QED BY <3>1, <3>2, ConcatType
    <2>2. belief' \in BeliefType BY <1>1, <1>7 DEF CheckReport, BeliefType
    <2>3. queue' \in Seq(Command) /\ op' \in Ops
      BY <1>7, <2>1 DEF CheckReport, Ops, TypeOK, ControlOK
    <2> QED BY <1>7, <2>2, <2>3
            DEF CheckReport, params, TypeOK, ControlOK, SettingsOK, WireOK
  <1>8. CASE CheckLink
    <2>1. queue' \in Seq(Command)
      <3>1. Marker("PING_END") \in Seq(Command)
        BY MarkerType DEF Markers, EndMarkers
      <3>2. <<Cmd("GET_SWV", 1, {})>> \in Seq(Command)
        BY CmdType, RetriesType DEF WireIds
      <3> QED BY <1>8, <3>1, <3>2, ConcatType DEF CheckLink
    <2> QED BY <1>8, <2>1
            DEF CheckLink, Ops, params, TypeOK, ControlOK, SettingsOK, WireOK
  <1>9. CASE ConfirmExpired
    <2>1. mode' \in ModeType BY <1>1, <1>9 DEF ConfirmExpired, ModeType
    <2> QED BY <1>9, <2>1
            DEF ConfirmExpired, params, TypeOK, ControlOK, SettingsOK, WireOK
  <1> QED BY <1>2, <1>3, <1>4, <1>5, <1>6, <1>7, <1>8, <1>9

\* The first command of start_factory_reset_() and its read-back.
LEMMA StartFactoryResetType == ASSUME TypeOK, StartFactoryReset PROVE TypeOK'
  <1>1. req \in ReqType /\ belief \in BeliefType /\ mode \in ModeType
          /\ task \in TaskType /\ pub \in PubType
    BY DEF TypeOK, ControlOK
  <1>2. queue' \in Seq(Command)
    <2> DEFINE body == <<Cmd("RESET_CFG", Retries, {}), Cmd("SAVE", 1, {})>>
               back == ReadBack(Groups)
               end == Marker("TXN_END")
    <2>1. body \in Seq(Command) BY CmdType, RetriesType DEF WireIds
    <2>2. back \in Seq(Command) BY ReadBackType
    <2>3. end \in Seq(Command) BY MarkerType DEF Markers, EndMarkers
    <2>4. queue' = Stop \o body \o back \o end BY DEF StartFactoryReset
    <2> HIDE DEF body, back, end
    <2>5. Stop \o body \in Seq(Command) BY <2>1, StopType, ConcatType
    <2>6. Stop \o body \o back \in Seq(Command) BY <2>2, <2>5, ConcatType
    <2> QED BY <2>3, <2>4, <2>6, ConcatType
  <1>3. task' \in TaskType
    BY <1>1 DEF StartFactoryReset, BeginTxn, TaskType, BeliefType
  <1>4. req' \in ReqType BY <1>1 DEF StartFactoryReset, ReqType
  <1>5. mode' \in ModeType BY <1>1 DEF StartFactoryReset, ModeType
  <1>6. pub' \in PubType BY <1>1 DEF StartFactoryReset, PubType, Statuses
  <1>7. want' \in Settings /\ snap' \in Settings
    BY DEF StartFactoryReset, NoValue, Settings
  <1> QED BY <1>2, <1>3, <1>4, <1>5, <1>6, <1>7
          DEF StartFactoryReset, Ops, TypeOK, ControlOK, SettingsOK, WireOK

LEMMA StartTxnType == ASSUME TypeOK, StartTxn PROVE TypeOK'
  <1> DEFINE dirty == {g \in Groups : want[g] # Nil}
             kept == {g \in dirty : Applicable(g)}
             sent == {g \in kept : Usable(g)}
             error == kept # dirty
             body == Batch("SET_GROUP", sent, Retries)
             save == <<Cmd("SAVE", 1, {"OPTIONAL_SAVE"})>>
             back == ReadBack(sent)
             end == Marker("TXN_END")
  <1>1. belief \in BeliefType /\ task \in TaskType /\ pub \in PubType
    BY DEF TypeOK, ControlOK
  <1>2. /\ kept \in SUBSET Groups /\ sent \in SUBSET Groups
        /\ error \in BOOLEAN
    OBVIOUS
  <1>3. BeginTxn(task) \in TaskType BY <1>1 DEF BeginTxn, TaskType
  <1>4. want' \in Settings /\ snap' \in Settings /\ shown' \in Settings
    <2>1. /\ want \in Settings /\ shown \in Settings /\ NoValue \in Settings
          /\ \A g \in Groups : Display(g, mode.work) \in Vals \cup {Nil}
      BY DisplayType DEF NoValue, TypeOK, SettingsOK, Settings
    <2>2. PICK back_to \in SUBSET Groups :
            shown' = [g \in Groups |->
                        IF g \in back_to THEN Display(g, mode.work) ELSE shown[g]]
      <3>1. dirty \in SUBSET Groups /\ dirty \ kept \in SUBSET Groups OBVIOUS
      <3>2. CASE sent = {} BY <3>1, <3>2 DEF StartTxn
      <3>3. CASE sent # {} BY <3>1, <3>3 DEF StartTxn
      <3> QED BY <3>2, <3>3
    <2>3. shown' \in Settings BY <2>1, <2>2 DEF Settings
    <2>4. snap' \in Settings
      <3>1. CASE sent = {} BY <2>1, <3>1 DEF StartTxn
      <3>2. CASE sent # {} BY <2>1, <3>2 DEF StartTxn, Settings
      <3> QED BY <3>1, <3>2
    <2> QED BY <2>1, <2>3, <2>4 DEF StartTxn
  <1>5. /\ queue' \in Seq(Command) /\ op' \in Ops
        /\ task' \in TaskType /\ pub' \in PubType
    <2>1. CASE sent = {}
      <3>1. /\ task' = [BeginTxn(task) EXCEPT !.error = error, !.setFail = kept]
            /\ pub' = [pub EXCEPT !.error = @ \/ error]
            /\ UNCHANGED <<op, queue>>
        BY <2>1 DEF StartTxn
      <3> HIDE DEF error, kept
      <3>2. task' \in TaskType BY <1>2, <1>3, <3>1 DEF TaskType
      <3>3. pub' \in PubType BY <1>1, <1>2, <3>1 DEF PubType
      <3> QED BY <3>1, <3>2, <3>3 DEF TypeOK, ControlOK
    <2>2. CASE sent # {}
      <3>1. /\ op' = "TXN"
            /\ task' = [BeginTxn(task) EXCEPT
                          !.error = error, !.setFail = kept \ sent,
                          !.stopped = TRUE, !.restart = ~belief.userStopped]
            /\ pub' = [pub EXCEPT !.status = "APPLYING", !.error = @ \/ error]
            /\ queue' = Stop \o body \o save \o back \o end
        BY <2>2 DEF StartTxn
      <3>2. body \in Seq(Command) BY <1>2, BatchType, RetriesType DEF WireIds
      <3>3. save \in Seq(Command) BY CmdType, RetriesType DEF WireIds, Flags
      <3>4. back \in Seq(Command) BY <1>2, ReadBackType
      <3>5. end \in Seq(Command) BY MarkerType DEF Markers, EndMarkers
      <3> HIDE DEF error, body, save, back, end, kept, sent
      <3>6. Stop \o body \in Seq(Command) BY <3>2, StopType, ConcatType
      <3>7. Stop \o body \o save \in Seq(Command) BY <3>3, <3>6, ConcatType
      <3>8. Stop \o body \o save \o back \in Seq(Command) BY <3>4, <3>7, ConcatType
      <3>9. queue' \in Seq(Command) BY <3>1, <3>5, <3>8, ConcatType
      <3>10. task' \in TaskType
        <4>1. kept \ sent \in SUBSET Groups BY <1>2
        <4>2. (~belief.userStopped) \in BOOLEAN BY <1>1 DEF BeliefType
        <4> DEFINE t == BeginTxn(task)
                   missed == kept \ sent
                   restart == ~belief.userStopped
        <4>3. task' = [t EXCEPT !.error = error, !.setFail = missed,
                                !.stopped = TRUE, !.restart = restart]
          BY <3>1
        <4>4. t \in TaskType /\ missed \in SUBSET Groups /\ restart \in BOOLEAN
          BY <1>3, <4>1, <4>2
        <4> HIDE DEF t, missed, restart
        <4> QED BY <1>2, <4>3, <4>4 DEF TaskType
      <3>11. pub' \in PubType BY <1>1, <1>2, <3>1 DEF PubType, Statuses
      <3> QED BY <3>1, <3>9, <3>10, <3>11 DEF Ops
    <2> QED BY <2>1, <2>2
  <1>6. UNCHANGED <<life, fly, muted, req, belief, mode, reported, unsup, radar>>
    BY DEF StartTxn
  <1> QED BY <1>4, <1>5, <1>6 DEF TypeOK, ControlOK, SettingsOK, WireOK

LEMMA StartModeSwitchType == ASSUME TypeOK, StartModeSwitch PROVE TypeOK'
  <1>1. mode \in ModeType /\ belief \in BeliefType /\ task \in TaskType
          /\ pub \in PubType
    BY DEF TypeOK, ControlOK
  <1>2. queue' \in Seq(Command)
    <2> DEFINE set == <<Cmd("SET_RUN_APP", Retries, {})>>
               wait == Marker("MODE_WAIT")
               ask == <<Cmd("GET_SWV", Retries, {})>>
               end == Marker("PROBE_DONE")
    <2>1. set \in Seq(Command) /\ ask \in Seq(Command)
      BY CmdType, RetriesType DEF WireIds
    <2>2. wait \in Seq(Command) /\ end \in Seq(Command)
      BY MarkerType DEF Markers, EndMarkers
    <2>3. queue' = Stop \o set \o wait \o ask \o end BY DEF StartModeSwitch
    <2> HIDE DEF set, wait, ask, end
    <2>4. Stop \o set \in Seq(Command) BY <2>1, StopType, ConcatType
    <2>5. Stop \o set \o wait \in Seq(Command) BY <2>2, <2>4, ConcatType
    <2>6. Stop \o set \o wait \o ask \in Seq(Command) BY <2>1, <2>5, ConcatType
    <2> QED BY <2>2, <2>3, <2>6, ConcatType
  <1>3. mode' \in ModeType
    <2>1. mode.want \in Modes BY <1>1 DEF StartModeSwitch, ModeType
    <2> QED BY <1>1, <2>1 DEF StartModeSwitch, ModeType
  <1>4. belief' \in BeliefType BY <1>1 DEF StartModeSwitch, BeliefType
  <1>5. task' \in TaskType BY <1>1 DEF StartModeSwitch, TaskType
  <1>6. pub' \in PubType BY <1>1 DEF StartModeSwitch, PubType, Statuses
  <1> QED BY <1>2, <1>3, <1>4, <1>5, <1>6
          DEF StartModeSwitch, Ops, params, TypeOK, ControlOK, SettingsOK, WireOK

LEMMA StartReadType ==
  ASSUME TypeOK, NEW st \in Statuses, StartRead(st)
  PROVE  /\ op' \in Ops /\ queue' \in Seq(Command)
         /\ task' \in TaskType /\ pub' \in PubType
  <1>1. belief \in BeliefType /\ task \in TaskType /\ pub \in PubType
    BY DEF TypeOK, ControlOK
  <1>2. queue' \in Seq(Command)
    <2> DEFINE body == IF belief.requiresStop THEN Stop \o ReadBack(Groups)
                       ELSE Gets(Readable(Groups))
    <2>1. body \in Seq(Command)
      BY ReadBackType, GetsType, ReadableType, StopType, ConcatType
    <2>2. Marker("READ_END") \in Seq(Command)
      BY MarkerType DEF Markers, EndMarkers
    <2>3. queue' = body \o Marker("READ_END") BY DEF StartRead
    <2> HIDE DEF body
    <2> QED BY <2>1, <2>2, <2>3, ConcatType
  <1>3. task' \in TaskType
    <2> DEFINE restart == IF belief.requiresStop THEN ~belief.userStopped
                          ELSE task.restart
    <2>1. restart \in BOOLEAN BY <1>1 DEF TaskType
    <2>2. task' = [task EXCEPT
                !.error = FALSE, !.saveError = FALSE, !.readOk = {},
                !.failing = FALSE, !.firstRead = FALSE,
                !.stopped = belief.requiresStop, !.restart = restart]
      BY DEF StartRead
    <2> HIDE DEF restart
    <2> QED BY <1>1, <2>1, <2>2 DEF TaskType, BeliefType
  <1>4. pub' \in PubType BY <1>1 DEF StartRead, PubType
  <1> QED BY <1>2, <1>3, <1>4 DEF StartRead, Ops

LEMMA ReadsType ==
  ASSUME TypeOK, StartRefresh \/ StartModeRead PROVE TypeOK'
  <1>1. PICK st \in Statuses : StartRead(st)
    <2>1. "READING" \in Statuses BY DEF Statuses
    <2>2. pub.status \in Statuses BY DEF TypeOK, ControlOK, PubType
    <2> QED BY <2>1, <2>2 DEF StartRefresh, StartModeRead
  <1>2. req' \in ReqType
    BY DEF StartRefresh, StartModeRead, TypeOK, ControlOK, ReqType
  <1>3. mode' \in ModeType
    <2>1. mode \in ModeType BY DEF TypeOK, ControlOK
    <2>2. mode' \in {[mode EXCEPT !.want = Nil, !.lastRead = ReadMode(mode.work)],
                     [mode EXCEPT !.lastRead = ReadMode(mode.work)]}
      BY DEF StartRefresh, StartModeRead
    <2> QED BY <2>1, <2>2, ReadModeType DEF ModeType
  <1>4. want' \in Settings
    BY DEF StartRefresh, StartModeRead, NoValue, TypeOK, SettingsOK, Settings
  <1>5. UNCHANGED <<life, fly, muted, belief, snap, reported, shown, unsup, radar>>
    BY <1>1 DEF StartRead
  <1> QED BY <1>1, <1>2, <1>3, <1>4, <1>5, StartReadType
          DEF TypeOK, ControlOK, SettingsOK, WireOK

-----------------------------------------------------------------------------
LEMMA NextType == ASSUME TypeOK, [Next]_vars PROVE TypeOK'
  <1>1. ASSUME ScheduleNext PROVE TypeOK'
    BY <1>1, StartProbeType, ShortOpType, StartFactoryResetType, StartTxnType,
       StartModeSwitchType, ReadsType DEF ScheduleNext
  <1>2. ASSUME CheckNext PROVE TypeOK' BY <1>2, ShortOpType DEF CheckNext
  <1>3. ASSUME UNCHANGED vars PROVE TypeOK'
    BY <1>3 DEF vars, params, TypeOK, ControlOK, SettingsOK, WireOK
  <1> QED BY <1>1, <1>2, <1>3, UserType, WireType, DriveType DEF Next

\* The engine's state, the queue and the radar stay well formed; the timeout
\* never counts a retry below zero and no marker is ever sent.
THEOREM TypeCorrect == Spec => []TypeOK
  <1>1. Init => TypeOK BY InitType
  <1>2. TypeOK /\ [Next]_vars => TypeOK' BY NextType
  <1> QED BY <1>1, <1>2, PTL DEF Spec
=============================================================================
