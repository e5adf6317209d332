-------------------------- MODULE EngineShownProofs -------------------------
(***************************************************************************)
(* What the engine shows between operations, for every set of groups,      *)
(* values, firmwares and faults: without an error the radar has saved what *)
(* it runs with, the work_mode select shows the mode learnt from the       *)
(* radar, and the status tells whether the radar is stopped.               *)
(*                                                                         *)
(* Then what becomes of the settings: KeptInv follows the values of a      *)
(* transaction into the radar until it ends, SeenInv says of each setting  *)
(* of a SEN0395 that its entity shows what the radar has or that it is     *)
(* still to be read, and FirmwareInv what is shown of a radar whose        *)
(* firmware is not supported.                                              *)
(***************************************************************************)
EXTENDS EngineRadarProofs

-----------------------------------------------------------------------------
(* What the radar runs with is what it keeps.                              *)

\* The SEN0395 has no work modes: nothing asks for one, nothing shows one.
NoModes ==
  ~HasModes => /\ mode.want = Nil /\ mode.target = "UNKNOWN"
               /\ mode.reported = Nil /\ mode.shown = Nil

LEMMA NoModesInit == ASSUME Init PROVE NoModes
  BY DEF Init, BootMode, NoModes

LEMMA NoModesDone ==
  ASSUME TypeOK, NoModes, NEW c \in WireCommand, NEW o, OnDone(c, o) PROVE NoModes'
  <1>1. c.id \in WireIds /\ mode \in ModeType
    BY DEF WireCommand, TypeOK, ControlOK
  <1>2. CASE c.id = "GET_SWV"
    <2>1. mode' = mode \/ mode' = [mode EXCEPT !.waiting = FALSE, !.pending = FALSE,
                                               !.rejected = FALSE]
      BY <1>2 DEF OnDone, GetSwvDone, EnterBackoff
    <2> QED BY <1>1, <2>1 DEF NoModes, ModeType
  <1>3. CASE c.id = "SET_RUN_APP"
    <2>1. mode' \in {[mode EXCEPT !.seen = FALSE], [mode EXCEPT !.rejected = TRUE]}
      BY <1>3 DEF OnDone, SetRunAppDone
    <2> QED BY <1>1, <2>1 DEF NoModes, ModeType
  <1>4. CASE c.id = "RESET_SYSTEM"
    <2>1. mode' = [mode EXCEPT !.work = "UNKNOWN", !.confirm = FALSE, !.waiting = FALSE,
                               !.pending = FALSE, !.rejected = FALSE]
      BY <1>4 DEF OnDone, ResetSystemDone
    <2> QED BY <1>1, <2>1 DEF NoModes, ModeType
  <1>5. CASE c.id \in WireIds \ {"GET_SWV", "SET_RUN_APP", "RESET_SYSTEM"}
    <2>1. mode' = mode
      BY <1>5 DEF OnDone, WireIds, GetGroupDone, SetGroupDone, StopDone, StartDone,
                  SaveDone, ResetCfgDone
    <2> QED BY <2>1 DEF NoModes
  <1> QED BY <1>1, <1>2, <1>3, <1>4, <1>5

LEMMA NoModesComplete ==
  ASSUME TypeOK, NoModes, fly # Nil, NEW o, Complete(fly, o) PROVE NoModes'
  <1>1. fly \in WireCommand BY DEF TypeOK, WireOK
  <1>2. mode' = mode \/ OnDone(fly, o) BY DEF Complete
  <1> QED BY <1>1, <1>2, NoModesDone DEF NoModes

LEMMA NoModesNext == ASSUME TypeOK, NoModes, [Next]_vars PROVE NoModes'
  <1>1. mode \in ModeType BY DEF TypeOK, ControlOK
  <1>2. ASSUME UNCHANGED mode PROVE NoModes' BY <1>2 DEF NoModes
  <1>3. CASE UserNext
    <2>1. \/ HasModes \/ mode' \in {mode, BootMode}
      BY <1>3 DEF UserNext, SetDesired, SetWorkMode, RequestRefresh, RequestRestart,
                  RequestFactoryReset, RequestRunning, Request, RadarPowerCycle, EspReboot
    <2> QED BY <1>2, <2>1 DEF NoModes, BootMode
  <1>4. CASE WireNext
    <2>1. CASE Send \/ CarriedOut \/ CommandLost
      BY <1>2, <2>1 DEF Send, CarriedOut, CommandLost
    <2>2. CASE Answer BY <2>2, NoModesComplete DEF Answer
    <2>3. CASE Timeout BY <1>2, <2>3, NoModesComplete DEF Timeout
    <2>4. CASE Sentence BY <2>4 DEF Sentence, NoModes
    <2> QED BY <1>4, <2>1, <2>2, <2>3, <2>4 DEF WireNext
  <1>5. CASE DriveNext
    <2>1. CASE SkipSave \/ ReadEnd \/ RunDone \/ PingEnd
      BY <1>2, <2>1 DEF SkipSave, ReadEnd, RunDone, PingEnd
    <2>2. CASE ProbeDone \/ FirstRead
      BY <1>1, <2>2 DEF ProbeDone, FirstRead, NoModes, ModeType
    <2>3. CASE BootReadEnd
      <3>1. ~HasModes => mode' = [mode EXCEPT !.shown = @, !.pending = FALSE,
                                              !.rejected = @ /\ ~mode.pending]
        BY <2>3 DEF BootReadEnd, FinishBootRead
      <3> QED BY <1>1, <3>1 DEF NoModes, ModeType
    <2>4. CASE TxnEnd BY <1>1, <2>4 DEF TxnEnd, NoModes, ModeType
    <2>5. CASE FailEnd
      <3>1. mode' = [[mode EXCEPT !.confirm = FALSE]
                       EXCEPT !.waiting = FALSE, !.pending = FALSE, !.rejected = FALSE]
        BY <2>5 DEF FailEnd, EnterBackoff
      <3> QED BY <1>1, <3>1 DEF NoModes, ModeType
    <2>6. CASE ModeWait \/ ModeWaitSeen
      BY <1>1, <2>6 DEF ModeWait, ModeWaitSeen, NoModes, ModeType
    <2>7. CASE ModeWaitExpired
      <3>1. ~HasModes => mode' = [mode EXCEPT !.waiting = FALSE]
        BY <2>7 DEF ModeWaitExpired, NoModes
      <3> QED BY <1>1, <3>1 DEF NoModes, ModeType
    <2> QED BY <1>5, <2>1, <2>2, <2>3, <2>4, <2>5, <2>6, <2>7 DEF DriveNext
  <1>6. CASE ScheduleNext
    <2>1. CASE StartProbe \/ StartRestart \/ FactoryRefused \/ StartRun \/ StartTxn
                 \/ ReadsDropped
      BY <1>2, <2>1 DEF StartProbe, StartRestart, FactoryRefused, StartRun, StartTxn,
                        ReadsDropped
    <2>2. CASE StartFactoryReset
      BY <1>1, <2>2 DEF StartFactoryReset, NoModes, ModeType
    <2>3. CASE SwitchNothing \/ StartModeSwitch
      BY <2>3 DEF SwitchNothing, StartModeSwitch, NoModes
    <2>4. CASE StartRefresh \/ StartModeRead
      BY <1>1, <2>4 DEF StartRefresh, StartModeRead, NoModes, ModeType
    <2> QED BY <1>6, <2>1, <2>2, <2>3, <2>4 DEF ScheduleNext
  <1>7. CASE CheckNext
    <2>1. CASE CheckReport \/ CheckLink BY <1>2, <2>1 DEF CheckReport, CheckLink
    <2>2. CASE ConfirmExpired BY <1>1, <2>2 DEF ConfirmExpired, NoModes, ModeType
    <2> QED BY <1>7, <2>1, <2>2 DEF CheckNext
  <1>8. CASE UNCHANGED vars BY <1>2, <1>8 DEF vars
  <1> QED BY <1>3, <1>4, <1>5, <1>6, <1>7, <1>8 DEF Next

\* A radar that has nothing to save has saved what it runs with.  A SEN0395 that
\* runs has nothing to save: settings are sent only while it is stopped, and it
\* does not start with unsaved changes.
SavedInv ==
  /\ ~radar.unsaved => radar.val = radar.saved
  /\ ~HasModes /\ radar.running => ~radar.unsaved

LEMMA OutcomesKeepSaved ==
  ASSUME TypeOK, NoModes, SavedInv, NEW c \in WireCommand, NEW o \in Outcomes(c)
  PROVE  /\ ~o.radar.unsaved => o.radar.val = o.radar.saved
         /\ ~HasModes /\ o.radar.running => ~o.radar.unsaved
  <1>1. c.id \in WireIds /\ c.groups \subseteq Groups /\ radar \in RadarType
    BY DEF WireCommand, Command, TypeOK, WireOK
  <1>2. ASSUME o.radar = radar
        PROVE  /\ ~o.radar.unsaved => o.radar.val = o.radar.saved
               /\ ~HasModes /\ o.radar.running => ~o.radar.unsaved
    BY <1>2 DEF SavedInv
  <1>3. CASE c.id = "GET_GROUP"
    <2>1. PICK g \in Groups : o \in GetOutcomes(g) BY <1>1, <1>3 DEF Outcomes
    <2> QED BY <1>1, <1>2, <2>1, GetOutcomesType
  <1>4. CASE c.id = "GET_SWV" BY <1>2, <1>4 DEF Outcomes, Out
  <1>5. CASE c.id = "SET_GROUP"
    <2>1. PICK g \in Groups : o \in SetOutcomes(g) BY <1>1, <1>5 DEF Outcomes
    <2>2. SameRun(o.radar) /\ o.radar.saved = radar.saved BY <1>1, <2>1, SetFields
    <2>3. radar.running => o.radar = radar BY <1>1, <2>1, SetFields
    <2>4. ~o.radar.unsaved => ~radar.unsaved /\ o.radar.val = radar.val
      BY <1>1, <2>1, SetFields
    <2> QED BY <1>2, <2>2, <2>3, <2>4 DEF SavedInv, SameRun
  <1>6. CASE c.id = "STOP"
    <2>1. o.radar = [radar EXCEPT !.running = FALSE] BY <1>6 DEF Outcomes, Out
    <2> QED BY <1>1, <2>1 DEF SavedInv, RadarType
  <1>7. CASE c.id = "START"
    <2>1. \/ o.radar = radar
          \/ o.radar = Started(radar) /\ (HasModes \/ ~radar.unsaved)
      BY <1>7 DEF Outcomes, StartOutcomes, Out
    <2> QED BY <1>1, <1>2, <2>1 DEF SavedInv, Started, RadarType
  <1>8. CASE c.id = "SAVE"
    <2>1. o \in SaveOutcomes BY <1>8 DEF Outcomes
    <2> QED BY <1>1, <1>2, <2>1, SaveFields
  <1>9. CASE c.id = "RESET_CFG"
    <2>1. o \in ResetCfgOutcomes BY <1>9 DEF Outcomes
    <2> QED BY <1>1, <1>2, <2>1, ResetCfgFields DEF SavedInv, SameRun
  <1>10. CASE c.id = "SET_RUN_APP"
    <2>1. o \in SetRunAppOutcomes BY <1>10 DEF Outcomes
    <2>2. ~HasModes => Modes \cap {mode.target} = {} BY DEF NoModes, Modes
    <2>3. CASE o.radar = radar BY <1>2, <2>3
    <2>4. CASE o.radar # radar
      <3>1. PICK m \in Modes \cap {mode.target} :
              /\ o.radar.val = radar.val /\ o.radar.saved = radar.saved
              /\ o.radar.unsaved = (radar.unsaved \/ m # radar.app)
        BY <1>1, <2>1, <2>4, SetRunAppFields
      <3>2. HasModes BY <2>2, <3>1
      <3> QED BY <3>1, <3>2 DEF SavedInv
    <2> QED BY <2>3, <2>4
  <1>11. CASE c.id = "RESET_SYSTEM"
    <2>1. o.radar = Rebooted BY <1>11 DEF Outcomes, Out
    <2> QED BY <1>1, <2>1, RebootedFields
  <1> QED BY <1>1, <1>3, <1>4, <1>5, <1>6, <1>7, <1>8, <1>9, <1>10, <1>11 DEF WireIds

LEMMA SavedInit == ASSUME Init PROVE SavedInv
  <1>1. radar.val = radar.saved /\ ~radar.unsaved BY DEF Init
  <1> QED BY <1>1 DEF SavedInv

LEMMA SavedNext == ASSUME TypeOK, NoModes, SavedInv, [Next]_vars PROVE SavedInv'
  <1>1. radar \in RadarType BY DEF TypeOK, WireOK
  <1>2. ASSUME UNCHANGED radar PROVE SavedInv' BY <1>2 DEF SavedInv
  <1>3. ASSUME NEW n, Waited(n) PROVE SavedInv'
    <2>1. radar' = radar \/ \E q : radar' = [radar EXCEPT !.quiet = q]
      BY <1>3 DEF Waited
    <2> QED BY <1>1, <2>1 DEF SavedInv, RadarType
  <1>4. CASE UserNext
    <2>1. radar' = radar \/ radar' = Rebooted
      BY <1>4 DEF UserNext, SetDesired, SetWorkMode, RequestRefresh, RequestRestart,
                  RequestFactoryReset, RequestRunning, Request, RadarPowerCycle, EspReboot
    <2> QED BY <1>1, <1>2, <2>1, RebootedFields DEF SavedInv
  <1>5. CASE WireNext
    <2>1. fly # Nil => fly \in WireCommand BY DEF TypeOK, WireOK
    <2>2. CASE Answer \/ CarriedOut
      <3>1. PICK o \in Outcomes(fly) : radar' = o.radar BY <2>2 DEF Answer, CarriedOut
      <3>2. fly # Nil BY <2>2 DEF Answer, CarriedOut
      <3> QED BY <2>1, <3>1, <3>2, OutcomesKeepSaved DEF SavedInv
    <2>3. CASE Timeout BY <1>3, <2>3 DEF Timeout
    <2>4. CASE Send \/ CommandLost BY <1>2, <2>4 DEF Send, CommandLost
    <2>5. CASE Sentence
      <3>1. radar.running /\ radar' = [radar EXCEPT !.quiet = 0] BY <2>5 DEF Sentence
      <3> QED BY <1>1, <3>1 DEF SavedInv, RadarType
    <2> QED BY <1>5, <2>2, <2>3, <2>4, <2>5 DEF WireNext
  <1>6. CASE DriveNext
    <2>1. CASE ModeWaitExpired BY <1>3, <2>1 DEF ModeWaitExpired
    <2>2. CASE ~ModeWaitExpired
      BY <1>2, <1>6, <2>2 DEF DriveNext, SkipSave, ProbeDone, FirstRead, ReadEnd,
         BootReadEnd, TxnEnd, RunDone, FailEnd, PingEnd, ModeWait, ModeWaitSeen
    <2> QED BY <2>1, <2>2
  <1>7. CASE ScheduleNext
    <2>1. CASE StartProbe BY <1>3, <2>1 DEF StartProbe
    <2>2. CASE ~StartProbe
      BY <1>2, <1>7, <2>2 DEF ScheduleNext, StartRestart, FactoryRefused,
         StartFactoryReset, StartRun, StartTxn, SwitchNothing, StartModeSwitch,
         ReadsDropped, StartRefresh, StartModeRead, StartRead
    <2> QED BY <2>1, <2>2
  <1>8. CASE CheckNext
    BY <1>2, <1>8 DEF CheckNext, CheckReport, CheckLink, ConfirmExpired
  <1>9. CASE UNCHANGED vars BY <1>2, <1>9 DEF vars
  <1> QED BY <1>4, <1>5, <1>6, <1>7, <1>8, <1>9 DEF Next

\* Between operations a SEN0395 that nobody stopped has saved all it runs with,
\* also where a transaction failed after its settings were sent: whoever starts
\* the radar again has to save them first (finish_failure_(), on_done_()).
THEOREM ChangesAreSaved ==
  ASSUME {"run", "reboot"} \cap UserOps = {}, ~HasModes
  PROVE  Spec => []CleanIsSaved
  <1>1. Init => RunsInv /\ NoModes /\ SavedInv BY RunsInit, NoModesInit, SavedInit
  <1>2. TypeOK /\ RunsInv /\ NoModes /\ SavedInv /\ [Next]_vars
        => RunsInv' /\ NoModes' /\ SavedInv'
    BY RunsNext, NoModesNext, SavedNext
  <1>3. RunsInv /\ SavedInv => CleanIsSaved
    BY DEF RunsInv, RunInv, RunIdle, Settled, SavedInv, CleanIsSaved, Idle
  <1> QED BY <1>1, <1>2, <1>3, TypeCorrect, PTL DEF Spec

-----------------------------------------------------------------------------
(* The work_mode select shows the mode last learnt.                        *)

\* Operations outside which a learnt mode is shown at once (set_work_mode_()).
Showing == {"NONE", "PING", "READ", "RUN_CTRL", "RESTART"}

\* Mode record m of an engine in life l with operation o is shown, or a request is.
ModeShown(l, o, m) ==
  /\ m.pending => o \in {"MODE_SWITCH", "BOOT_READ"}
  /\ l = "RUNNING" /\ o \in Showing /\ m.want = Nil /\ ~m.confirm
     => m.shown = m.reported

\* No setting is changed and no refresh asked for.
NoChanges == op # "TXN" /\ ~req.refresh /\ \A g \in Groups : want[g] = Nil

SelectInv == NoChanges /\ ModeShown(life, op, mode)

LEMMA SelectInit == ASSUME Init PROVE SelectInv
  BY DEF Init, SelectInv, NoChanges, ModeShown, NoValue, BootReq, BootMode

\* A step that leaves changes, requests and the mode alone.
LEMMA SelectFrame ==
  ASSUME SelectInv, UNCHANGED <<want, mode>>, ~req'.refresh,
         life' # "RUNNING" \/ life' = life, op' # "TXN", op' \in Showing => op \in Showing,
         mode.pending => op' = op
  PROVE  SelectInv'
  BY DEF SelectInv, NoChanges, ModeShown

\* The link is given up: nothing is pending, nothing need be shown.
LEMMA SelectGone ==
  ASSUME SelectInv, ~req'.refresh, UNCHANGED want, op' = "NONE", life' # "RUNNING",
         ~mode'.pending
  PROVE  SelectInv'
  BY DEF SelectInv, NoChanges, ModeShown

\* A mode learnt from the radar.
LEMMA SelectLearnt ==
  ASSUME TypeOK, SelectInv, NEW m
  PROVE  /\ ModeShown(life, op, LearntMode(m))
         /\ LearntMode(m).pending = mode.pending
  <1>1. mode \in ModeType /\ op \in Ops BY DEF TypeOK, ControlOK
  <1>2. /\ LearntMode(m).pending = mode.pending /\ LearntMode(m).want = mode.want
        /\ LearntMode(m).confirm = (mode.confirm /\ ~(mode.confirm /\ op = "NONE"))
        /\ LearntMode(m).reported = IF NewMode(m) THEN m ELSE mode.reported
    BY <1>1 DEF LearntMode, ModeType
  <1>3. ASSUME life = "RUNNING", op \in Showing, mode.want = Nil,
               ~(mode.confirm /\ ~(mode.confirm /\ op = "NONE"))
        PROVE  LearntMode(m).shown = LearntMode(m).reported
    <2>1. ~mode.pending BY <1>3 DEF SelectInv, ModeShown, Showing
    <2>2. CASE mode.confirm /\ op = "NONE"
      BY <1>1, <2>2 DEF LearntMode, ModeType
    <2>3. CASE ~mode.confirm /\ NewMode(m)
      BY <1>1, <1>3, <2>1, <2>3 DEF LearntMode, ModeType, Showing
    <2>4. CASE ~mode.confirm /\ ~NewMode(m)
      <3>1. mode.shown = mode.reported BY <1>3, <2>4 DEF SelectInv, ModeShown
      <3> QED BY <1>1, <2>4, <3>1 DEF LearntMode, ModeType
    <2> QED BY <1>3, <2>2, <2>3, <2>4
  <1> QED BY <1>2, <1>3 DEF SelectInv, ModeShown

LEMMA SelectDone ==
  ASSUME TypeOK, OrderInv, SelectInv, fly # Nil, NEW o, Complete(fly, o)
  PROVE  SelectInv'
  <1>1. fly \in WireCommand /\ fly.id \in WireIds /\ mode \in ModeType
    BY DEF WireCommand, TypeOK, WireOK, ControlOK
  <1>2. op # "TXN" /\ ~req.refresh BY DEF SelectInv, NoChanges
  <1>3. CASE ~OnDone(fly, o)
    <2>1. UNCHANGED <<life, op, req, mode, want>> BY <1>3 DEF Complete, params
    <2> QED BY <1>2, <2>1, SelectFrame
  <1>4. CASE OnDone(fly, o) /\ fly.id = "GET_SWV"
    <2>1. UNCHANGED <<req, want>> BY <1>4 DEF OnDone, GetSwvDone, params
    <2>2. CASE o.result = "TIMEOUT"
      <3>1. /\ op' = "NONE" /\ life' = "BACKOFF"
            /\ mode' = [mode EXCEPT !.waiting = FALSE, !.pending = FALSE,
                                    !.rejected = FALSE]
        BY <1>4, <2>2 DEF OnDone, GetSwvDone, EnterBackoff
      <3> QED BY <1>1, <1>2, <2>1, <3>1, SelectGone DEF ModeType
    <2>3. CASE o.result # "TIMEOUT"
      <3>1. UNCHANGED <<life, op, mode>> BY <1>4, <2>3 DEF OnDone, GetSwvDone
      <3> QED BY <1>2, <2>1, <3>1, SelectFrame
    <2> QED BY <2>2, <2>3
  <1>5. CASE OnDone(fly, o) /\ fly.id = "SET_RUN_APP"
    <2>1. /\ UNCHANGED <<life, op, req, want>>
          /\ mode' \in {[mode EXCEPT !.seen = FALSE], [mode EXCEPT !.rejected = TRUE]}
      BY <1>5 DEF OnDone, SetRunAppDone, params
    <2>2. op \notin Showing BY <1>5 DEF OrderInv, Orderly, Left, Allowed, Showing
    <2>3. mode'.pending = mode.pending BY <1>1, <2>1 DEF ModeType
    <2> QED BY <1>2, <2>1, <2>2, <2>3 DEF SelectInv, NoChanges, ModeShown
  <1>6. CASE OnDone(fly, o) /\ fly.id = "RESET_SYSTEM"
    <2>1. /\ op' = "NONE" /\ life' = "BOOT_WAIT" /\ UNCHANGED <<req, want>>
          /\ mode' = [mode EXCEPT !.work = "UNKNOWN", !.confirm = FALSE,
                                  !.waiting = FALSE, !.pending = FALSE,
                                  !.rejected = FALSE]
      BY <1>6 DEF OnDone, ResetSystemDone
    <2> QED BY <1>1, <1>2, <2>1, SelectGone DEF ModeType
  <1>7. CASE OnDone(fly, o) /\ fly.id \notin {"GET_SWV", "SET_RUN_APP", "RESET_SYSTEM"}
    <2>1. UNCHANGED <<life, op, req, mode, want>>
      BY <1>1, <1>7 DEF OnDone, WireIds, params, GetGroupDone, SetGroupDone, StopDone,
                        StartDone, SaveDone, ResetCfgDone
    <2> QED BY <1>2, <2>1, SelectFrame
  <1> QED BY <1>3, <1>4, <1>5, <1>6, <1>7

LEMMA SelectWire ==
  ASSUME TypeOK, OrderInv, SelectInv, WireNext PROVE SelectInv'
  <1>1. op # "TXN" /\ ~req.refresh BY DEF SelectInv, NoChanges
  <1>2. ASSUME UNCHANGED <<life, op, req, mode, want>> PROVE SelectInv'
    BY <1>1, <1>2, SelectFrame
  <1>3. CASE Send \/ CarriedOut \/ CommandLost
    BY <1>2, <1>3 DEF Send, CarriedOut, CommandLost, params
  <1>4. CASE Answer BY <1>4, SelectDone DEF Answer
  <1>5. CASE Timeout BY <1>2, <1>5, SelectDone DEF Timeout, params
  <1>6. CASE Sentence
    <2>1. UNCHANGED <<life, op, want>> BY <1>6 DEF Sentence
    <2>2. CASE HasModes
      <3>1. mode' = LearntMode(radar.app) /\ req' = LearntReq(radar.app, mode.pending)
        BY <1>6, <2>2 DEF Sentence
      <3>2. ~req'.refresh BY <1>1, <3>1 DEF LearntReq, TypeOK, ControlOK, ReqType
      <3> QED BY <2>1, <3>1, <3>2, SelectLearnt DEF SelectInv, NoChanges
    <2>3. CASE ~HasModes BY <1>2, <1>6, <2>1, <2>3 DEF Sentence
    <2> QED BY <2>2, <2>3
  <1> QED BY <1>3, <1>4, <1>5, <1>6 DEF WireNext

LEMMA SelectUser ==
  ASSUME TypeOK, SelectInv, {"set", "refresh"} \cap UserOps = {}, UserNext
  PROVE  SelectInv'
  <1>1. op # "TXN" /\ ~req.refresh /\ req \in ReqType /\ mode \in ModeType
    BY DEF SelectInv, NoChanges, TypeOK, ControlOK
  <1>2. CASE \E m \in Modes : SetWorkMode(m)
    <2>1. PICK m \in Modes : SetWorkMode(m) BY <1>2
    <2>2. /\ UNCHANGED <<life, op, req, want>>
          /\ mode' \in {[mode EXCEPT !.shown = mode.reported],
                        [mode EXCEPT !.want = m, !.shown = m]}
      BY <2>1 DEF SetWorkMode, params
    <2>3. m # Nil BY NilAssumption
    <2> QED BY <1>1, <2>2, <2>3 DEF SelectInv, NoChanges, ModeShown, ModeType
  <1>3. CASE RequestRestart \/ RequestFactoryReset \/ \E on \in BOOLEAN : RequestRunning(on)
    <2>1. UNCHANGED <<life, op, mode, want>> /\ req'.refresh = req.refresh
      BY <1>1, <1>3 DEF RequestRestart, RequestFactoryReset, RequestRunning, Request,
                        params, ReqType
    <2> QED BY <1>1, <2>1, SelectFrame
  <1>4. CASE RadarPowerCycle BY <1>1, <1>4, SelectFrame DEF RadarPowerCycle, params
  <1>5. CASE EspReboot
    BY <1>5 DEF EspReboot, SelectInv, NoChanges, ModeShown, NoValue, BootReq, BootMode
  <1> QED BY <1>2, <1>3, <1>4, <1>5 DEF UserNext, SetDesired, RequestRefresh

LEMMA SelectDrive ==
  ASSUME TypeOK, EndInv, OrderInv, NoModes, SelectInv, DriveNext PROVE SelectInv'
  <1>1. /\ op # "TXN" /\ ~req.refresh /\ \A g \in Groups : want[g] = Nil
        /\ ModeShown(life, op, mode)
        /\ req \in ReqType /\ mode \in ModeType
    BY DEF SelectInv, NoChanges, TypeOK, ControlOK
  <1>2. ASSUME NEW id \in {"READ_END", "RUN_DONE", "PING_END"}, AtMarker(id),
               op # "BOOT_READ", op' = "NONE", UNCHANGED <<life, req, want, mode>>
        PROVE  SelectInv'
    <2>1. op \in {"READ", "RUN_CTRL", "PING"} BY <1>2, OrderMarker DEF EndsOf, EndMarkers
    <2> QED BY <1>1, <1>2, <2>1, SelectFrame DEF ModeShown, Showing
  <1>3. CASE SkipSave BY <1>1, <1>3, SelectFrame DEF SkipSave, params
  <1>4. CASE ReadEnd BY <1>2, <1>4 DEF ReadEnd
  <1>5. CASE RunDone \/ PingEnd
    <2>1. PICK id \in {"RUN_DONE", "PING_END"} : AtMarker(id)
      BY <1>5 DEF RunDone, PingEnd
    <2>2. op # "BOOT_READ" BY <2>1, OrderMarker DEF EndsOf, EndMarkers
    <2> QED BY <1>2, <1>5, <2>1, <2>2 DEF RunDone, PingEnd, params
  <1>6. CASE ProbeDone
    <2>1. /\ op' = "BOOT_READ" /\ UNCHANGED want
          /\ mode' = [mode EXCEPT !.lastRead = ReadMode(mode.work)]
          /\ req' = [req EXCEPT !.modeRead = FALSE]
      BY <1>6 DEF ProbeDone
    <2> QED BY <1>1, <2>1 DEF SelectInv, NoChanges, ModeShown, Showing, ModeType, ReqType
  <1>7. CASE FirstRead
    <2>1. /\ UNCHANGED <<life, op, want>>
          /\ mode' = [mode EXCEPT !.lastRead = ReadMode(mode.work)]
          /\ req' = [req EXCEPT !.modeRead = FALSE]
      BY <1>7 DEF FirstRead, params
    <2> QED BY <1>1, <2>1 DEF SelectInv, NoChanges, ModeShown, ModeType, ReqType
  <1>8. CASE BootReadEnd
    <2>1. PICK silent \in BOOLEAN, reports \in BOOLEAN : FinishBootRead(silent, reports)
      BY <1>8 DEF BootReadEnd
    <2>2. PICK learnt \in {mode, LearntMode("PRESENCE")} :
            /\ mode' = [learnt EXCEPT !.shown = IF HasModes THEN learnt.reported ELSE @,
                                      !.pending = FALSE,
                                      !.rejected = @ /\ ~mode.pending]
            /\ HasModes \/ learnt = mode
      BY <2>1 DEF FinishBootRead
    <2>3. mode'.pending = FALSE /\ mode'.shown = mode'.reported
      <3>1. learnt \in ModeType BY <1>1, <2>2, LearntType DEF Modes
      <3>2. CASE HasModes BY <2>2, <3>1, <3>2 DEF ModeType
      <3>3. CASE ~HasModes
        <4>1. learnt.shown = learnt.reported BY <2>2, <3>3 DEF NoModes
        <4> QED BY <2>2, <3>1, <3>3, <4>1 DEF ModeType
      <3> QED BY <3>2, <3>3
    <2>4. req' \in {req, LearntReq("PRESENCE", FALSE)} BY <2>1 DEF FinishBootRead
    <2>5. ~req'.refresh BY <1>1, <2>4 DEF LearntReq, ReqType
    <2>6. op' = "NONE" /\ UNCHANGED want BY <1>8 DEF BootReadEnd
    <2> QED BY <1>1, <2>3, <2>5, <2>6 DEF SelectInv, NoChanges, ModeShown
  <1>9. CASE TxnEnd
    <2>1. /\ op' = "NONE" /\ UNCHANGED <<req, want>>
          /\ mode' = [mode EXCEPT !.confirm = @ \/ (op = "FACTORY_RESET" /\ HasModes)]
      BY <1>9 DEF TxnEnd
    <2>2. op = "FACTORY_RESET"
      <3>1. "TXN_END" \in EndsOf(op) BY <1>9, OrderMarker DEF TxnEnd, EndMarkers
      <3> QED BY <1>1, <3>1 DEF EndsOf
    <2>3. ~mode.pending BY <1>1, <2>2 DEF ModeShown
    <2>4. mode'.pending = mode.pending /\ (mode'.confirm \/ mode'.shown = mode'.reported)
      <3>1. CASE HasModes BY <1>1, <2>1, <2>2, <3>1 DEF ModeType
      <3>2. CASE ~HasModes BY <1>1, <2>1, <3>2 DEF ModeType, NoModes
      <3> QED BY <3>1, <3>2
    <2> QED BY <1>1, <2>1, <2>3, <2>4 DEF SelectInv, NoChanges, ModeShown
  <1>10. CASE FailEnd
    <2>1. /\ op' = "NONE" /\ life' = "BACKOFF" /\ UNCHANGED <<req, want>>
          /\ mode' = [[mode EXCEPT !.confirm = FALSE]
                        EXCEPT !.waiting = FALSE, !.pending = FALSE, !.rejected = FALSE]
      BY <1>10 DEF FailEnd, EnterBackoff
    <2>2. ~mode'.pending BY <1>1, <2>1 DEF ModeType
    <2> QED BY <1>1, <2>1, <2>2, SelectGone
  <1>11. CASE ModeWait \/ ModeWaitSeen \/ ModeWaitExpired
    <2>1. UNCHANGED <<life, op, req, want>>
      BY <1>11 DEF ModeWait, ModeWaitSeen, ModeWaitExpired, params
    <2>2. PICK m \in {mode, LearntMode("PRESENCE")}, b \in BOOLEAN :
            mode' = [m EXCEPT !.waiting = b]
      BY <1>11 DEF ModeWait, ModeWaitSeen, ModeWaitExpired
    <2>3. ModeShown(life, op, m) BY <1>1, <2>2, SelectLearnt
    <2>4. m \in ModeType BY <1>1, <2>2, LearntType DEF Modes
    <2>5. ModeShown(life, op, mode') BY <2>2, <2>3, <2>4 DEF ModeShown, ModeType
    <2> QED BY <1>1, <2>1, <2>5 DEF SelectInv, NoChanges, ModeShown
  <1> QED BY <1>3, <1>4, <1>5, <1>6, <1>7, <1>8, <1>9, <1>10, <1>11 DEF DriveNext

LEMMA SelectSchedule ==
  ASSUME TypeOK, EndInv, SelectInv, ScheduleNext \/ CheckNext PROVE SelectInv'
  <1>1. /\ op # "TXN" /\ ~req.refresh /\ \A g \in Groups : want[g] = Nil
        /\ ModeShown(life, op, mode)
        /\ req \in ReqType /\ mode \in ModeType
    BY DEF SelectInv, NoChanges, TypeOK, ControlOK
  <1>2. ASSUME Idle PROVE op = "NONE" /\ ~mode.pending
    BY <1>1, <1>2 DEF Idle, ModeShown
  <1>3. CASE StartProbe
    <2>1. op = "NONE" BY <1>3 DEF StartProbe, Dry, EndInv, WellEnded
    <2>2. op' = "PROBE" /\ life' = "PROBE" /\ UNCHANGED <<req, mode, want>>
      BY <1>3 DEF StartProbe, params
    <2> QED BY <1>1, <2>1, <2>2, SelectFrame DEF ModeShown, Showing
  <1>4. CASE StartRestart \/ StartRun
    <2>1. /\ op' \in {"RESTART", "RUN_CTRL"} /\ UNCHANGED <<life, mode, want>> /\ Idle
          /\ req'.refresh = req.refresh
      BY <1>1, <1>4 DEF StartRestart, StartRun, params, ReqType
    <2> QED BY <1>1, <1>2, <2>1, SelectFrame DEF Showing
  <1>5. CASE FactoryRefused \/ ReadsDropped
    <2>1. UNCHANGED <<life, op, mode, want>> /\ (req'.refresh => req.refresh)
      BY <1>1, <1>5 DEF FactoryRefused, ReadsDropped, params, ReqType
    <2> QED BY <1>1, <2>1, SelectFrame
  <1>6. CASE StartFactoryReset
    <2>1. /\ op' = "FACTORY_RESET" /\ want' = NoValue /\ req'.refresh = req.refresh
          /\ mode' = [mode EXCEPT !.want = Nil] /\ Idle
      BY <1>1, <1>6 DEF StartFactoryReset, ReqType
    <2> QED BY <1>1, <1>2, <2>1
            DEF SelectInv, NoChanges, ModeShown, Showing, NoValue, ModeType
  <1>7. CASE StartTxn BY <1>1, <1>7 DEF StartTxn, AnyDirty
  <1>8. CASE SwitchNothing
    <2>1. /\ UNCHANGED <<life, op, req, want>> /\ Idle
          /\ mode' = [mode EXCEPT !.want = Nil, !.shown = mode.reported]
      BY <1>8 DEF SwitchNothing, MayApply, params
    <2> QED BY <1>1, <1>2, <2>1 DEF SelectInv, NoChanges, ModeShown, ModeType
  <1>9. CASE StartModeSwitch
    BY <1>1, <1>9 DEF StartModeSwitch, params, SelectInv, NoChanges, ModeShown, Showing
  <1>10. CASE StartRefresh BY <1>1, <1>10 DEF StartRefresh
  <1>11. CASE StartModeRead
    <2>1. /\ op' = "READ" /\ Idle /\ UNCHANGED <<life, want>>
          /\ mode' = [mode EXCEPT !.lastRead = ReadMode(mode.work)]
          /\ req' = [req EXCEPT !.modeRead = FALSE]
      BY <1>11 DEF StartModeRead, StartRead
    <2> QED BY <1>1, <1>2, <2>1
            DEF SelectInv, NoChanges, ModeShown, Showing, ModeType, ReqType
  <1>12. CASE CheckReport \/ CheckLink
    <2>1. /\ op' \in {op, "RUN_CTRL", "PING"} /\ Idle
          /\ UNCHANGED <<life, req, mode, want>>
      BY <1>12 DEF CheckReport, CheckLink, Quiet, params
    <2> QED BY <1>1, <1>2, <2>1, SelectFrame DEF Showing
  <1>13. CASE ConfirmExpired
    <2>1. /\ UNCHANGED <<life, op, req, want>>
          /\ mode' = [mode EXCEPT !.confirm = FALSE, !.shown = mode.reported]
      BY <1>13 DEF ConfirmExpired, params
    <2> QED BY <1>1, <2>1 DEF SelectInv, NoChanges, ModeShown, ModeType
  <1> QED BY <1>3, <1>4, <1>5, <1>6, <1>7, <1>8, <1>9, <1>10, <1>11, <1>12, <1>13
          DEF ScheduleNext, CheckNext

LEMMA SelectNext ==
  ASSUME TypeOK, EndInv, OrderInv, NoModes, SelectInv,
         {"set", "refresh"} \cap UserOps = {}, [Next]_vars
  PROVE  SelectInv'
  <1>1. ASSUME UNCHANGED vars PROVE SelectInv'
    BY <1>1, SelectFrame DEF vars, params, SelectInv, NoChanges
  <1> QED BY <1>1, SelectUser, SelectWire, SelectDrive, SelectSchedule DEF Next

\* While neither settings are changed nor a refresh is asked for, the work_mode
\* select shows between operations what the engine learnt last, whatever switch
\* failed, was missed or was taken back by a factory reset (finish_read_(),
\* confirm_mode_(), set_work_mode_()).
THEOREM SelectShows ==
  ASSUME {"set", "refresh"} \cap UserOps = {} PROVE Spec => []SelectShowsMode
  <1>1. Init => EndInv /\ OrderInv /\ NoModes /\ SelectInv
    BY EndInit, OrderInit, NoModesInit, SelectInit
  <1>2. /\ TypeOK /\ EndInv /\ OrderInv /\ NoModes /\ SelectInv /\ [Next]_vars
        => EndInv' /\ OrderInv' /\ NoModes' /\ SelectInv'
    BY EndNext, OrderNext, NoModesNext, SelectNext
  <1>3. SelectInv => SelectShowsMode
    BY DEF SelectInv, ModeShown, Showing, SelectShowsMode, Idle
  <1> QED BY <1>1, <1>2, <1>3, TypeCorrect, PTL DEF Spec

-----------------------------------------------------------------------------
(* The status tells whether the radar is stopped.                          *)

\* A start that also counts as done when the radar says it runs already.
Recovering == {c \in Command : c.id = "START" => "RECOVERY" \in c.flags}

\* On a C4001 without the running switch only check_report_after_recovery_()
\* starts a radar by an operation of its own.
RecoverInv ==
  /\ HasModes => req.run = "none"
  /\ HasModes /\ op = "RUN_CTRL" =>
       task.failing \/ (queue \in Seq(Recovering) /\ fly \in Recovering \cup {Nil})

StatusInv ==
  /\ life = "RUNNING" /\ op \in {"NONE", "PING"} /\ ~belief.unsupported =>
       (pub.status = "STOPPED" <=> KnownStopped)
  /\ op = "RUN_CTRL" =>
       task.failing \/ belief.known \/ {"START", "STOP"} \cap Todo # {}

LEMMA RecoverInit == ASSUME Init PROVE RecoverInv
  BY DEF Init, RecoverInv, BootReq

LEMMA StatusInit == ASSUME Init PROVE StatusInv
  BY DEF Init, StatusInv

\* A step that leaves the queue, the belief and the status.
LEMMA RecoverFrame ==
  ASSUME RecoverInv, HasModes => req'.run = "none",
         op' = "RUN_CTRL" => UNCHANGED <<op, queue, fly>> /\ task'.failing = task.failing
  PROVE  RecoverInv'
  BY DEF RecoverInv

LEMMA StatusFrame ==
  ASSUME StatusInv, life' = "RUNNING" /\ op' \in {"NONE", "PING"} =>
           /\ life = "RUNNING" /\ op \in {"NONE", "PING"}
           /\ belief'.unsupported = belief.unsupported
           /\ pub'.status = pub.status /\ KnownStopped' = KnownStopped,
         op' = "RUN_CTRL" =>
           /\ op = "RUN_CTRL" /\ task'.failing = task.failing
           /\ belief'.known = belief.known
           /\ Todo \cap {"START", "STOP"} \subseteq Todo'
  PROVE  StatusInv'
  BY DEF StatusInv

\* What the rest of the proof needs of a finished command.
LEMMA StartAnswers ==
  ASSUME TypeOK, NEW c \in WireCommand, NEW o \in Outcomes(c), c.id = "START"
  PROVE  /\ o.result \in {"OK", "UNSAVED", "ERROR"}
         /\ o.result = "ERROR" => HasModes
         /\ o.result = "UNSAVED" => radar.unsaved
  <1>1. o \in StartOutcomes BY DEF Outcomes
  <1> QED BY <1>1 DEF StartOutcomes, Out

StartResult(r) ==
  /\ r \in {"OK", "UNSAVED", "ERROR", "TIMEOUT"}
  /\ r = "ERROR" => HasModes
  /\ r = "UNSAVED" => radar.unsaved /\ ~HasModes

LEMMA StatusDone ==
  ASSUME TypeOK, EndInv, OrderInv, RetryInv, RecoverInv, StatusInv,
         fly # Nil, NEW o, Complete(fly, o), o.result = "MALFORMED" => fly.id = "GET_GROUP",
         fly.id = "START" => StartResult(o.result)
  PROVE  StatusInv'
  <1>1. /\ fly \in WireCommand /\ fly \in Command /\ fly.id \in WireIds
        /\ queue \in Seq(Command) /\ belief \in BeliefType /\ task \in TaskType
    BY DEF TypeOK, WireOK, ControlOK, WireCommand
  <1>2. op # "NONE" /\ fly.id \in Allowed(op)
    BY DEF EndInv, Dry, OrderInv, Orderly, Left
  <1>3. /\ Todo' = Ids(queue')
        /\ Todo = Ids(queue) \cup {fly.id}
    BY DoneLeft DEF Todo, Left
  <1>4. CASE ~OnDone(fly, o)
    <2>1. fly.id = "GET_GROUP" /\ UNCHANGED <<life, op, task, belief, pub>>
      BY <1>4 DEF Complete
    <2>2. op \notin {"NONE", "PING", "RUN_CTRL"} BY <1>2, <2>1 DEF Allowed
    <2> QED BY <2>1, <2>2, StatusFrame
  <1>5. CASE OnDone(fly, o) /\ op = "PING"
    <2>1. fly.id = "GET_SWV" BY <1>1, <1>2, <1>5 DEF Allowed, WireIds
    <2>2. \/ life' = "BACKOFF" /\ op' = "NONE"
          \/ UNCHANGED <<life, op, belief, pub>>
      BY <1>5, <2>1 DEF OnDone, GetSwvDone, EnterBackoff
    <2> QED BY <1>5, <2>2, StatusFrame DEF KnownStopped
  <1>6. CASE OnDone(fly, o) /\ op \notin {"PING", "RUN_CTRL"}
    <2>1. op' = op \/ (op' = "NONE" /\ fly.id \in {"GET_SWV", "RESET_SYSTEM"})
      BY <1>1, <1>6, DoneQueue DEF DoneStep, GoesOn, Fails, Dropped
    <2>2. op' = "NONE" => life' # "RUNNING"
      <3>1. CASE fly.id = "GET_SWV"
        BY <1>2, <1>6, <3>1 DEF OnDone, GetSwvDone, EnterBackoff
      <3>2. CASE fly.id = "RESET_SYSTEM" BY <1>6, <3>2 DEF OnDone, ResetSystemDone
      <3> QED BY <1>2, <2>1, <3>1, <3>2
    <2> QED BY <1>2, <1>6, <2>1, <2>2, StatusFrame
  <1>7. CASE OnDone(fly, o) /\ op = "RUN_CTRL"
    <2>1. fly.id \in {"START", "STOP", "SAVE"} BY <1>1, <1>2, <1>7 DEF Allowed, WireIds
    <2>2. op' = op BY <1>1, <1>7, <2>1, DoneQueue DEF DoneStep, GoesOn, Fails, Dropped
    <2>3. task.failing => task'.failing
      BY <1>1, <1>7, <2>1, DoneQueue DEF DoneStep, GoesOn, Fails, Dropped
    <2>4. CASE OpFailed(fly)
      <3>1. task'.failing BY <1>1, <2>4 DEF OpFailed, TaskType
      <3> QED BY <1>7, <2>2, <3>1 DEF StatusInv
    <2>5. CASE ~task.failing /\ ~OpFailed(fly) /\ fly.id = "STOP"
      <3>1. belief' = [belief EXCEPT !.running = FALSE, !.known = TRUE]
        BY <1>7, <2>5 DEF OnDone, StopDone
      <3>2. belief'.known BY <1>1, <3>1 DEF BeliefType
      <3> QED BY <1>7, <2>2, <3>2 DEF StatusInv
    <2>6. CASE ~task.failing /\ ~OpFailed(fly) /\ fly.id = "SAVE"
      <3>1. belief' \in {belief, [belief EXCEPT !.running = TRUE, !.known = TRUE]}
            /\ queue' = queue
        BY <1>7, <2>6 DEF OnDone, SaveDone, SetError
      <3>2. belief.known => belief'.known BY <1>1, <3>1 DEF BeliefType
      <3>3. {"START", "STOP"} \cap Todo \subseteq Todo' BY <1>3, <2>6, <3>1
      <3> QED BY <1>7, <2>2, <2>6, <3>2, <3>3 DEF StatusInv
    <2>7. CASE ~task.failing /\ ~OpFailed(fly) /\ fly.id = "START"
      <3>1. "FAILURE_PATH" \notin fly.flags /\ o.result # "TIMEOUT"
        <4>1. fly \in Proper BY <2>7 DEF OrderInv, Orderly
        <4> QED BY <1>7, <2>7, <4>1 DEF OnDone, StartDone, Proper
      <3>2. CASE o.result = "OK" \/ (o.result = "ERROR" /\ "RECOVERY" \in fly.flags)
        <4>1. belief' = [belief EXCEPT !.running = TRUE, !.known = TRUE,
                                       !.unconfirmed = FALSE]
          BY <1>7, <2>7, <3>2 DEF OnDone, StartDone
        <4>2. belief'.known BY <1>1, <4>1 DEF BeliefType
        <4> QED BY <1>7, <2>2, <4>2 DEF StatusInv
      <3>3. CASE o.result = "UNSAVED" /\ "START_RETRY" \notin fly.flags
        <4>1. queue' = Again(fly) \o queue BY <1>7, <2>7, <3>3 DEF OnDone, StartDone, Again
        <4>2. "START" \in Ids(queue') BY <1>1, <4>1, AgainType, IdsConcat
        <4> QED BY <1>3, <1>7, <2>2, <4>2 DEF StatusInv
      <3>4. CASE o.result = "UNSAVED" /\ "START_RETRY" \in fly.flags
        <4>1. ~AllOnce BY <3>4 DEF AllOnce, Once
        <4> QED BY <2>7, <3>4, <4>1 DEF RetryInv, StartResult
      <3>5. CASE o.result = "ERROR" /\ "RECOVERY" \notin fly.flags
        <4>1. HasModes BY <2>7, <3>5 DEF StartResult
        <4>2. fly \in Recovering BY <1>7, <2>7, <4>1 DEF RecoverInv
        <4> QED BY <2>7, <3>5, <4>2 DEF Recovering
      <3> QED BY <2>7, <3>1, <3>2, <3>3, <3>4, <3>5 DEF StartResult
    <2>8. CASE task.failing BY <1>7, <2>2, <2>3, <2>8 DEF StatusInv
    <2> QED BY <2>1, <2>4, <2>5, <2>6, <2>7, <2>8
  <1> QED BY <1>4, <1>5, <1>6, <1>7

LEMMA RecoverSend ==
  ASSUME TypeOK, OrderInv, RecoverInv, Send PROVE RecoverInv'
  <1>1. UNCHANGED <<op, req, task>> BY DEF Send
  <1>2. CASE HasModes /\ op = "RUN_CTRL" /\ ~task.failing
    <2> DEFINE h == Head(queue)
    <2>1. queue \in Seq(Command) /\ queue # <<>> BY DEF Send, TypeOK, ControlOK
    <2>2. /\ queue \in Seq(Proper) /\ Ids(queue) \subseteq Allowed(op)
      BY <1>2 DEF OrderInv, Orderly, Left
    <2>3. h \in Proper /\ h.id \in Ids(queue) BY <2>1, <2>2, IdsHead
    <2>4. h.groups = {} BY <1>2, <2>2, <2>3 DEF Proper, Allowed
    <2>5. fly' = h /\ queue' = Tail(queue) BY <2>4 DEF Send
    <2>6. queue \in Seq(Recovering) BY <1>2 DEF RecoverInv
    <2>7. h \in Recovering /\ Tail(queue) \in Seq(Recovering) BY <2>1, <2>6
    <2> QED BY <1>1, <2>5, <2>7 DEF RecoverInv
  <1> QED BY <1>1, <1>2 DEF RecoverInv

LEMMA RecoverDone ==
  ASSUME TypeOK, OrderInv, RecoverInv, fly # Nil, NEW o, Complete(fly, o),
         o.result = "MALFORMED" => fly.id = "GET_GROUP",
         o.result = "UNSAVED" => ~HasModes
  PROVE  RecoverInv'
  <1>1. /\ fly \in WireCommand /\ fly.id \in WireIds /\ req' = req /\ fly' = Nil
        /\ queue \in Seq(Command) /\ fly.id \in Allowed(op)
    BY DEF TypeOK, WireOK, ControlOK, WireCommand, Complete, OnDone, GetSwvDone, GetGroupDone,
           SetGroupDone, SetRunAppDone, StopDone, StartDone, SaveDone, ResetCfgDone,
           ResetSystemDone, WireIds, OrderInv, Orderly, Left
  <1>2. CASE ~OnDone(fly, o)
    <2>1. fly.id = "GET_GROUP" /\ op' = op BY <1>2 DEF Complete
    <2>2. op # "RUN_CTRL" BY <1>1, <2>1 DEF Allowed
    <2> QED BY <1>1, <2>1, <2>2 DEF RecoverInv
  <1>3. CASE OnDone(fly, o)
    <2>1. DoneStep(fly, o) BY <1>1, <1>3, DoneQueue
    <2>2. CASE GoesOn(queue)
      BY <1>1, <2>2 DEF RecoverInv, GoesOn
    <2>3. CASE Fails(fly) BY <1>1, <2>3 DEF RecoverInv, Fails
    <2>4. CASE op' = op /\ (o.result = "UNSAVED" \/ fly.id = "SET_RUN_APP")
      <3>1. ~HasModes \/ op # "RUN_CTRL" BY <1>1, <2>4 DEF Allowed
      <3> QED BY <1>1, <2>4, <3>1 DEF RecoverInv
    <2>5. CASE Dropped BY <1>1, <2>5 DEF RecoverInv, Dropped
    <2> QED BY <2>1, <2>2, <2>3, <2>4, <2>5 DEF DoneStep, GoesOn
  <1> QED BY <1>2, <1>3

\* What the answer to a command tells.
LEMMA StatusAnswered ==
  ASSUME TypeOK, EndInv, OrderInv, RetryInv, RecoverInv, StatusInv,
         fly # Nil, NEW o, Complete(fly, o), o \in Outcomes(fly)
  PROVE  RecoverInv' /\ StatusInv'
  <1>1. fly \in WireCommand BY DEF TypeOK, WireOK
  <1>2. o.result = "MALFORMED" => fly.id = "GET_GROUP" BY <1>1, MalformedGet
  <1>3. o.result = "UNSAVED" => ~HasModes BY <1>1, OutcomesSaved
  <1>4. fly.id = "START" => StartResult(o.result)
    BY <1>1, <1>3, StartAnswers DEF StartResult
  <1> QED BY <1>2, <1>3, <1>4, RecoverDone, StatusDone

LEMMA StatusTimeout ==
  ASSUME TypeOK, EndInv, OrderInv, RetryInv, RecoverInv, StatusInv, Timeout
  PROVE  RecoverInv' /\ StatusInv'
  <1>1. fly # Nil /\ fly \in WireCommand /\ fly \in Command
    BY DEF Timeout, TypeOK, WireOK, WireCommand
  <1>2. CASE fly.id \notin NoReply /\ fly.retries > 0
    <2>1. /\ fly' = [fly EXCEPT !.retries = @ - 1]
          /\ UNCHANGED <<life, op, queue, req, task, belief, pub>>
      BY <1>2 DEF Timeout
    <2>2. fly' \in Command /\ fly'.id = fly.id /\ (fly \in Recovering => fly' \in Recovering)
      BY <1>1, <1>2, <2>1, RetriesType DEF Command, Recovering
    <2>3. fly' # Nil BY <2>2, NilAssumption
    <2>4. Todo' = Todo BY <1>1, <2>1, <2>2, <2>3 DEF Todo, Left, Ids
    <2>5. RecoverInv' BY <1>1, <2>1, <2>2 DEF RecoverInv
    <2> QED BY <2>1, <2>4, <2>5, StatusFrame DEF KnownStopped
  <1>3. CASE ~(fly.id \notin NoReply /\ fly.retries > 0)
    <2>1. PICK r \in {"OK", "TIMEOUT"} : Complete(fly, Out(radar, r))
      BY <1>3 DEF Timeout
    <2> DEFINE o == Out(radar, r)
    <2>2. o.result = r BY DEF Out
    <2> HIDE DEF o
    <2>3. StartResult(r) BY <2>1 DEF StartResult
    <2> QED BY <1>1, <2>1, <2>2, <2>3, RecoverDone, StatusDone DEF o
  <1> QED BY <1>2, <1>3

LEMMA StatusWire ==
  ASSUME TypeOK, EndInv, OrderInv, RetryInv, RecoverInv, StatusInv, WireNext
  PROVE  RecoverInv' /\ StatusInv'
  <1>1. CASE Send
    <2>1. UNCHANGED <<life, op, task, belief, pub>> BY <1>1 DEF Send
    <2>2. Todo' = Todo BY <1>1, SendLeft DEF Todo
    <2> QED BY <1>1, <2>1, <2>2, RecoverSend, StatusFrame DEF KnownStopped
  <1>2. CASE Answer
    <2>1. PICK o \in Outcomes(fly) : Complete(fly, o) BY <1>2 DEF Answer
    <2> QED BY <1>2, <2>1, StatusAnswered DEF Answer
  <1>3. CASE CarriedOut \/ CommandLost
    <2>1. UNCHANGED <<life, op, queue, fly, req, task, belief, pub>>
      BY <1>3 DEF CarriedOut, CommandLost
    <2>2. Todo' = Todo BY <2>1 DEF Todo, Left, Ids
    <2> QED BY <2>1, <2>2, RecoverFrame, StatusFrame DEF KnownStopped, RecoverInv
  <1>4. CASE Timeout BY <1>4, StatusTimeout
  <1>5. CASE Sentence
    <2>1. /\ UNCHANGED <<life, op, queue, fly, task>>
          /\ req' \in {req, LearntReq(radar.app, mode.pending)}
      BY <1>5 DEF Sentence
    <2>2. req'.run = req.run BY <2>1 DEF LearntReq, TypeOK, ControlOK, ReqType
    <2>3. belief'.running = TRUE /\ belief'.known = TRUE
          /\ belief'.unsupported = belief.unsupported
      BY <1>5 DEF Sentence, TypeOK, ControlOK, BeliefType
    <2>4. pub'.status = IF pub.status = "STOPPED" /\ ~(belief.running /\ belief.known)
                        THEN "RUNNING" ELSE pub.status
      <3> DEFINE p == RunningPub(pub, TRUE)
      <3>1. p \in PubType /\ p.status = pub.status
        BY DEF RunningPub, TypeOK, ControlOK, PubType
      <3> HIDE DEF p
      <3>2. pub' = [p EXCEPT !.status = IF @ = "STOPPED" /\ ~(belief.running /\ belief.known)
                                        THEN "RUNNING" ELSE @]
        BY <1>5 DEF Sentence, p
      <3> QED BY <3>1, <3>2 DEF PubType
    <2>5. ~KnownStopped' BY <2>3 DEF KnownStopped
    <2>6. RecoverInv' BY <2>1, <2>2, RecoverFrame DEF RecoverInv
    <2>7. life = "RUNNING" /\ op \in {"NONE", "PING"} /\ ~belief.unsupported =>
            pub'.status # "STOPPED"
      BY <2>4 DEF StatusInv, KnownStopped
    <2> QED BY <2>1, <2>3, <2>5, <2>6, <2>7 DEF StatusInv
  <1> QED BY <1>1, <1>2, <1>3, <1>4, <1>5 DEF WireNext

LEMMA StatusUser ==
  ASSUME TypeOK, RecoverInv, StatusInv, HasModes => "run" \notin UserOps, UserNext
  PROVE  RecoverInv' /\ StatusInv'
  <1>1. CASE EspReboot
    BY <1>1 DEF EspReboot, RecoverInv, StatusInv, BootReq
  <1>2. CASE ~EspReboot
    <2>1. UNCHANGED <<life, op, queue, fly, belief>>
      BY <1>2 DEF UserNext, SetDesired, SetWorkMode, RequestRefresh, RequestRestart,
                  RequestFactoryReset, RequestRunning, Request, RadarPowerCycle
    <2>2. task' \in {task, [task EXCEPT !.error = TRUE]}
      BY <1>2 DEF UserNext, SetDesired, SetWorkMode, RequestRefresh, RequestRestart,
                  RequestFactoryReset, RequestRunning, Request, RadarPowerCycle
    <2>3. task'.failing = task.failing BY <2>2, SameFailing
    <2>4. \/ pub' \in {pub, [pub EXCEPT !.error = TRUE]}
          \/ \E on \in BOOLEAN : pub' = [pub EXCEPT !.running = on]
      BY <1>2 DEF UserNext, SetDesired, SetWorkMode, RequestRefresh, RequestRestart,
                  RequestFactoryReset, RequestRunning, Request, RadarPowerCycle
    <2>5. pub'.status = pub.status BY <2>4 DEF TypeOK, ControlOK, PubType
    <2>6. HasModes => req'.run = req.run
      <3>1. CASE \E on \in BOOLEAN : RequestRunning(on) BY <3>1 DEF RequestRunning
      <3>2. CASE RequestRefresh \/ RequestRestart \/ RequestFactoryReset
        BY <3>2 DEF RequestRefresh, RequestRestart, RequestFactoryReset, Request, TypeOK,
                    ControlOK, ReqType
      <3>3. CASE UNCHANGED req BY <3>3
      <3> QED BY <1>2, <3>1, <3>2, <3>3
              DEF UserNext, SetDesired, SetWorkMode, RadarPowerCycle
    <2>7. Todo' = Todo BY <2>1 DEF Todo, Left, Ids
    <2> QED BY <2>1, <2>3, <2>5, <2>6, <2>7, RecoverFrame, StatusFrame
            DEF KnownStopped, RecoverInv
  <1> QED BY <1>1, <1>2

LEMMA StatusDrive ==
  ASSUME TypeOK, EndInv, OrderInv, RecoverInv, StatusInv, DriveNext
  PROVE  RecoverInv' /\ StatusInv'
  <1>1. /\ queue \in Seq(Command) /\ req \in ReqType /\ pub \in PubType
        /\ belief \in BeliefType
    BY DEF TypeOK, ControlOK
  <1>2. req'.run = req.run
    <2>1. req' \in {req, [req EXCEPT !.modeRead = FALSE], LearntReq("PRESENCE", FALSE)}
      BY DEF DriveNext, SkipSave, ProbeDone, FirstRead, ReadEnd, BootReadEnd,
             FinishBootRead, TxnEnd, RunDone, FailEnd, PingEnd, ModeWait, ModeWaitSeen,
             ModeWaitExpired
    <2> QED BY <1>1, <2>1 DEF LearntReq, ReqType
  <1>3. CASE SkipSave
    <2>1. /\ UNCHANGED <<life, op, fly, task, belief, pub>> /\ queue' = Tail(queue)
          /\ queue # <<>> /\ Head(queue).id = "SAVE" /\ fly = Nil
      BY <1>3 DEF SkipSave, Skippable
    <2>2. {"START", "STOP"} \cap Todo \subseteq Todo'
      <3>1. Ids(queue) = {"SAVE"} \cup Ids(Tail(queue)) BY <1>1, <2>1, IdsHead
      <3> QED BY <2>1, <3>1 DEF Todo, Left, Ids
    <2>3. queue \in Seq(Recovering) => Tail(queue) \in Seq(Recovering) BY <2>1
    <2>4. RecoverInv' BY <1>2, <2>1, <2>3 DEF RecoverInv
    <2> QED BY <2>1, <2>2, <2>4, StatusFrame DEF KnownStopped
  <1>4. RecoverInv' \/ op' = "RUN_CTRL" BY <1>2 DEF RecoverInv
  <1>5. CASE ProbeDone \/ FirstRead
    <2>1. op' = "BOOT_READ"
      <3>1. CASE ProbeDone BY <3>1 DEF ProbeDone
      <3>2. CASE FirstRead
        <4>1. "FIRST_READ" \in EndsOf(op) BY <3>2, OrderMarker DEF FirstRead, EndMarkers
        <4>2. op = "BOOT_READ" BY <4>1 DEF EndsOf
        <4> QED BY <3>2, <4>2 DEF FirstRead
      <3> QED BY <1>5, <3>1, <3>2
    <2> QED BY <1>4, <2>1 DEF StatusInv
  <1>6. CASE ReadEnd
    <2>1. /\ op' = "NONE" /\ UNCHANGED belief
          /\ pub' = [pub EXCEPT
               !.error = task.error,
               !.status = IF belief.unsupported THEN "UNSUPPORTED_FIRMWARE"
                          ELSE IF KnownStopped THEN "STOPPED" ELSE "RUNNING"]
      BY <1>6 DEF ReadEnd
    <2>2. ~belief.unsupported => (pub'.status = "STOPPED" <=> KnownStopped)
      BY <1>1, <2>1 DEF PubType
    <2> QED BY <1>4, <2>1, <2>2 DEF StatusInv, KnownStopped
  <1>7. CASE BootReadEnd
    <2>1. op' = "NONE" BY <1>7 DEF BootReadEnd
    <2>2. PICK silent \in BOOLEAN, reports \in BOOLEAN : FinishBootRead(silent, reports)
      BY <1>7 DEF BootReadEnd
    <2>3. /\ belief'.running = belief.running /\ belief'.known = belief.known
          /\ belief'.unsupported = (RangeGroup \notin task.readOk)
      BY <1>1, <2>2 DEF FinishBootRead, BeliefType
    <2>4. pub'.status = IF RangeGroup \notin task.readOk THEN "UNSUPPORTED_FIRMWARE"
                        ELSE IF KnownStopped THEN "STOPPED" ELSE "RUNNING"
      BY <1>1, <2>2 DEF FinishBootRead, PubType
    <2>5. ~belief'.unsupported => (pub'.status = "STOPPED" <=> KnownStopped)
      BY <2>3, <2>4
    <2> QED BY <1>4, <2>1, <2>3, <2>5 DEF StatusInv, KnownStopped
  <1>8. CASE TxnEnd
    <2>1. op' = "NONE" /\ UNCHANGED belief BY <1>8 DEF TxnEnd
    <2>2. pub'.status = IF KnownStopped THEN "STOPPED" ELSE "RUNNING"
      BY <1>1, <1>8 DEF TxnEnd, PubType
    <2> QED BY <1>4, <2>1, <2>2 DEF StatusInv, KnownStopped
  <1>9. CASE RunDone
    <2>1. op' = "NONE" /\ UNCHANGED belief BY <1>9 DEF RunDone
    <2>2. pub'.status = IF belief.running THEN "RUNNING" ELSE "STOPPED"
      BY <1>1, <1>9 DEF RunDone, PubType
    <2>3. /\ "RUN_DONE" \in EndsOf(op) /\ task.failing = FALSE /\ fly = Nil
          /\ Ids(queue) = {"RUN_DONE"}
      BY <1>9, OrderMarker DEF RunDone, EndMarkers
    <2>4. op = "RUN_CTRL" BY <2>3 DEF EndsOf
    <2>5. belief.known BY <2>3, <2>4 DEF StatusInv, Todo, Left
    <2> QED BY <1>4, <2>1, <2>2, <2>5 DEF StatusInv, KnownStopped
  <1>10. CASE FailEnd
    <2>1. op' = "NONE" /\ life' = "BACKOFF" BY <1>10 DEF FailEnd, EnterBackoff
    <2> QED BY <1>4, <2>1 DEF StatusInv
  <1>11. CASE PingEnd
    <2>1. op' = "NONE" /\ UNCHANGED <<life, belief, pub>> BY <1>11 DEF PingEnd
    <2>2. "PING_END" \in EndsOf(op) BY <1>11, OrderMarker DEF PingEnd, EndMarkers
    <2>3. op = "PING" BY <2>2 DEF EndsOf
    <2> QED BY <1>4, <2>1, <2>3, StatusFrame DEF KnownStopped
  <1>12. CASE ModeWait \/ ModeWaitSeen \/ ModeWaitExpired
    <2>1. op' = op BY <1>12 DEF ModeWait, ModeWaitSeen, ModeWaitExpired
    <2>2. op = "MODE_SWITCH"
      <3>1. CASE ModeWait
        <4>1. "MODE_WAIT" \in Ids(queue) BY <1>1, <3>1, IdsHead DEF ModeWait, AtMarker
        <4>2. "MODE_WAIT" \in Allowed(op) BY <4>1 DEF OrderInv, Orderly, Left
        <4> QED BY <4>2 DEF Allowed
      <3>2. CASE ModeWaitSeen \/ ModeWaitExpired
        BY <3>2 DEF ModeWaitSeen, ModeWaitExpired, OrderInv, Orderly
      <3> QED BY <1>12, <3>1, <3>2
    <2> QED BY <1>4, <2>1, <2>2 DEF StatusInv
  <1> QED BY <1>3, <1>5, <1>6, <1>7, <1>8, <1>9, <1>10, <1>11, <1>12 DEF DriveNext

LEMMA StatusSchedule ==
  ASSUME TypeOK, EndInv, OrderInv, RecoverInv, StatusInv, ScheduleNext \/ CheckNext
  PROVE  RecoverInv' /\ StatusInv'
  <1>1. req \in ReqType /\ pub \in PubType /\ belief \in BeliefType
    BY DEF TypeOK, ControlOK
  <1>2. CASE StartRun
    <2>1. /\ ~HasModes /\ op' = "RUN_CTRL" /\ fly' = fly /\ fly = Nil
          /\ queue' = (IF req.run = "on" THEN Start({}) ELSE Stop) \o Marker("RUN_DONE")
      BY <1>2 DEF StartRun, Idle, Dry, RecoverInv
    <2>2. Ids(queue') \cap {"START", "STOP"} # {}
      <3>1. Ids(Start({}) \o Marker("RUN_DONE")) = {"START"} \cup Ids(Marker("RUN_DONE"))
        BY StartType, MarkerType, IdsConcat, IdsStart DEF Markers, EndMarkers, Flags
      <3>2. Ids(Stop \o Marker("RUN_DONE")) = {"STOP"} \cup Ids(Marker("RUN_DONE"))
        BY StopType, MarkerType, IdsConcat, IdsStop DEF Markers, EndMarkers
      <3> QED BY <2>1, <3>1, <3>2
    <2>3. Todo' = Ids(queue') BY <2>1 DEF Todo, Left, Ids
    <2> QED BY <2>1, <2>2, <2>3 DEF StatusInv, RecoverInv
  <1>3. CASE CheckReport /\ ~belief.userStopped
    <2> DEFINE s == Start({"RECOVERY"})
               e == Marker("RUN_DONE")
    <2>1. op' = "RUN_CTRL" /\ fly' = fly /\ fly = Nil /\ req' = req /\ queue' = s \o e
      BY <1>3 DEF CheckReport, Quiet, Idle, Dry
    <2>2. s \in Seq(Command) /\ e \in Seq(Command) /\ Ids(s) = {"START"}
      BY StartType, MarkerType, IdsStart DEF Markers, EndMarkers, Flags
    <2>3. s \in Seq(Recovering) /\ e \in Seq(Recovering)
      <3>1. /\ Cmd("START", Retries, {"RECOVERY"}) \in Recovering
            /\ Cmd("RUN_DONE", 0, {}) \in Recovering
        BY CmdType, RetriesType DEF Recovering, Cmd, WireIds, Markers, EndMarkers, Flags
      <3> QED BY <3>1 DEF Start, Marker
    <2> HIDE DEF s, e
    <2>4. queue' \in Seq(Recovering) BY <2>1, <2>3, ConcatProperties
    <2>5. "START" \in Ids(queue') BY <2>1, <2>2, IdsConcat
    <2>6. Todo' = Ids(queue') BY <2>1 DEF Todo, Left, Ids
    <2> QED BY <2>1, <2>4, <2>5, <2>6 DEF StatusInv, RecoverInv
  <1>4. CASE ~StartRun /\ ~(CheckReport /\ ~belief.userStopped)
    <2>1. req'.run = req.run
      <3>1. CASE StartRestart
        <4>1. req' = [req EXCEPT !.restart = FALSE] BY <3>1 DEF StartRestart
        <4> QED BY <1>1, <4>1 DEF ReqType
      <3>2. CASE FactoryRefused \/ StartFactoryReset
        <4>1. req' = [req EXCEPT !.factory = FALSE]
          BY <3>2 DEF FactoryRefused, StartFactoryReset
        <4> QED BY <1>1, <4>1 DEF ReqType
      <3>3. CASE ReadsDropped \/ StartRefresh
        <4>1. req' = [req EXCEPT !.refresh = FALSE, !.modeRead = FALSE]
          BY <3>3 DEF ReadsDropped, StartRefresh
        <4> QED BY <1>1, <4>1 DEF ReqType
      <3>4. CASE StartModeRead
        <4>1. req' = [req EXCEPT !.modeRead = FALSE] BY <3>4 DEF StartModeRead
        <4> QED BY <1>1, <4>1 DEF ReqType
      <3>5. CASE UNCHANGED req BY <3>5
      <3> QED BY <1>4, <3>1, <3>2, <3>3, <3>4, <3>5
              DEF ScheduleNext, StartProbe, StartTxn, SwitchNothing, StartModeSwitch,
                  CheckNext, CheckReport, CheckLink, ConfirmExpired
    <2>2. CASE op' \notin {"NONE", "PING", "RUN_CTRL"}
      BY <2>1, <2>2 DEF RecoverInv, StatusInv
    <2>3. CASE /\ \/ UNCHANGED <<life, op>>
                  \/ life = "RUNNING" /\ op = "NONE" /\ op' = "PING"
               /\ op' # "RUN_CTRL" /\ pub'.status = pub.status
               /\ \/ belief' = belief
                  \/ belief' = [belief EXCEPT !.armed = FALSE]
      <3>1. /\ belief'.unsupported = belief.unsupported /\ belief'.known = belief.known
            /\ belief'.running = belief.running
        BY <1>1, <2>3 DEF BeliefType
      <3>2. RecoverInv' BY <2>1, <2>3 DEF RecoverInv
      <3> QED BY <2>3, <3>1, <3>2, StatusFrame DEF KnownStopped
    <2>4. CASE UNCHANGED <<life, op, queue, fly, task, belief, pub>>
      <3>1. Todo' = Todo BY <2>4 DEF Todo, Left, Ids
      <3> QED BY <2>1, <2>4, <3>1, RecoverFrame, StatusFrame DEF KnownStopped, RecoverInv
    <2>5. CASE StartProbe \/ StartRestart \/ StartFactoryReset \/ StartModeSwitch
      BY <2>2, <2>5 DEF StartProbe, StartRestart, StartFactoryReset, StartModeSwitch
    <2>6. CASE StartRefresh \/ StartModeRead
      BY <2>2, <2>6 DEF StartRefresh, StartModeRead, StartRead
    <2>7. CASE FactoryRefused
      <3>1. op = "NONE" /\ UNCHANGED <<life, op, belief>> /\ pub' = [pub EXCEPT !.error = TRUE]
        BY <2>7 DEF FactoryRefused, Idle, SetError
      <3> QED BY <1>1, <2>3, <3>1 DEF PubType
    <2>8. CASE StartTxn
      <3>1. op = "NONE" /\ UNCHANGED <<life, belief>>
        BY <2>8 DEF StartTxn, MayApply, Idle
      <3>2. \/ op' = "TXN"
            \/ op' = op /\ \E b \in BOOLEAN : pub' = [pub EXCEPT !.error = b]
        BY <1>1, <2>8 DEF StartTxn, PubType
      <3> QED BY <1>1, <2>2, <2>3, <3>1, <3>2 DEF PubType
    <2>9. CASE SwitchNothing \/ ReadsDropped
      <3>1. op = "NONE" /\ UNCHANGED <<life, op, belief, pub>>
        BY <2>9 DEF SwitchNothing, ReadsDropped, MayApply, Idle
      <3> QED BY <2>3, <3>1
    <2>10. CASE CheckReport \/ CheckLink
      <3>1. /\ op = "NONE" /\ life = "RUNNING" /\ UNCHANGED <<life, pub>>
            /\ op' \in {op, "PING"}
            /\ belief' \in {belief, [belief EXCEPT !.armed = FALSE]}
        BY <1>4, <2>10 DEF CheckReport, CheckLink, Quiet, Idle
      <3> QED BY <2>3, <3>1
    <2>11. CASE ConfirmExpired BY <2>4, <2>11 DEF ConfirmExpired
    <2> QED BY <1>4, <2>5, <2>6, <2>7, <2>8, <2>9, <2>10, <2>11 DEF ScheduleNext, CheckNext
  <1> QED BY <1>2, <1>3, <1>4

LEMMA StatusNext ==
  ASSUME TypeOK, EndInv, OrderInv, RetryInv, RecoverInv, StatusInv, [Next]_vars,
         HasModes => "run" \notin UserOps
  PROVE  RecoverInv' /\ StatusInv'
  <1>1. CASE UNCHANGED vars
    <2>1. UNCHANGED <<life, op, queue, fly, req, task, belief, pub>> BY <1>1 DEF vars
    <2>2. Todo' = Todo BY <2>1 DEF Todo, Left, Ids
    <2> QED BY <2>1, <2>2, RecoverFrame, StatusFrame DEF KnownStopped, RecoverInv
  <1> QED BY <1>1, StatusUser, StatusWire, StatusDrive, StatusSchedule DEF Next

\* Between operations the status of a supported radar says STOPPED exactly when
\* the engine knows the radar to be stopped, whatever fails.  On a C4001 the running
\* switch is left out: a start that the running radar answers with Error ends the
\* operation with the state unknown and the status STOPPED.
THEOREM StatusTells ==
  ASSUME HasModes => "run" \notin UserOps
  PROVE  Spec => []StatusTellsStopped
  <1> DEFINE I == EndInv /\ OrderInv /\ RetryInv /\ RecoverInv /\ StatusInv
  <1>1. Init => I BY EndInit, OrderInit, RetryInit, RecoverInit, StatusInit
  <1>2. TypeOK /\ I /\ [Next]_vars => I'
    BY EndNext, OrderNext, RetryNext, StatusNext
  <1>3. I => StatusTellsStopped BY DEF StatusInv, StatusTellsStopped, Idle
  <1> QED BY <1>1, <1>2, <1>3, TypeCorrect, PTL DEF Spec

-----------------------------------------------------------------------------
(* A transaction that ends without an error is kept by the radar.          *)

\* Operations that read settings back, and the commands that change them.
ReadOps == {"BOOT_READ", "READ", "TXN", "FACTORY_RESET"}
Changing == {"SET_GROUP", "RESET_CFG"}

\* A command in flight asks for one group at most.
OneGroup == fly # Nil /\ fly.groups # {} => \E g \in Groups : fly.groups = {g}

\* Outside a transaction nothing is being sent.
SnapInv == op # "TXN" => snap = NoValue

\* What the running operation has read is what the radar has: no command that
\* changes a setting is left once the first setting is read.
ReadTrue ==
  op \in ReadOps =>
    /\ \A g \in task.readOk :
         reported[g] = Now[g] /\ g \in radar.fw.knows /\ radar.app \in GroupModes[g]
    /\ Changing \cap Todo # {} => task.readOk = {}

\* A transaction without an error so far still has a setting to send, a save to
\* come, or all it sent is saved; and its settings belong to the mode shown.
TxnInv ==
  op = "TXN" =>
    /\ "SET_GROUP" \in Todo => "SAVE" \in Todo \/ task.failing
    /\ ~task.error /\ ~task.failing =>
         /\ task.setOk = {} => "SET_GROUP" \in Todo
         /\ {"SET_GROUP", "SAVE"} \cap Todo = {} => ~radar.unsaved
    /\ \A g \in Groups : snap[g] # Nil => InMode(g, mode.work) \/ mode.work = radar.app

KeptInv == OneGroup /\ SnapInv /\ ReadTrue /\ TxnInv

\* The settings of the radar and the app it runs.
SameSettings ==
  /\ radar'.val = radar.val /\ radar'.saved = radar.saved
  /\ radar'.app = radar.app /\ radar'.fw = radar.fw
  /\ radar'.unsaved = radar.unsaved

LEMMA KeptInit == ASSUME Init PROVE KeptInv
  BY DEF Init, KeptInv, OneGroup, SnapInv, ReadTrue, TxnInv, ReadOps

\* Outside the reading operations only what is in flight matters.
LEMMA KeptElse ==
  ASSUME op' \notin ReadOps, snap' = NoValue, OneGroup' PROVE KeptInv'
  BY DEF KeptInv, SnapInv, ReadTrue, TxnInv, ReadOps

\* A read begins with nothing read.
LEMMA KeptNew ==
  ASSUME op' # "TXN", snap' = NoValue, task'.readOk = {}, OneGroup' PROVE KeptInv'
  BY DEF KeptInv, SnapInv, ReadTrue, TxnInv

LEMMA NowSame ==
  ASSUME SameSettings
  PROVE  Now' = Now /\ radar'.fw.knows = radar.fw.knows /\ radar'.unsaved = radar.unsaved
  BY DEF SameSettings, Now

\* A transaction whose settings, saves and errors a step leaves alone.
LEMMA TxnFrame ==
  ASSUME TxnInv, UNCHANGED <<op, snap>>, SameSettings,
         op = "TXN" =>
           /\ mode'.work \in {mode.work, radar.app}
           /\ "SET_GROUP" \in Todo' => "SET_GROUP" \in Todo
           /\ \A k \in {"SET_GROUP", "SAVE"} :
                k \in Todo => k \in Todo' \/ task'.failing
           /\ task'.setOk = task.setOk
           /\ task.error => task'.error
           /\ task.failing => task'.failing
  PROVE  TxnInv'
  <1> SUFFICES ASSUME op = "TXN"
               PROVE  /\ "SET_GROUP" \in Todo' => "SAVE" \in Todo' \/ task'.failing
                      /\ ~task'.error /\ ~task'.failing =>
                           /\ task'.setOk = {} => "SET_GROUP" \in Todo'
                           /\ {"SET_GROUP", "SAVE"} \cap Todo' = {} => ~radar'.unsaved
                      /\ \A g \in Groups : snap'[g] # Nil =>
                           InMode(g, mode'.work) \/ mode'.work = radar'.app
    BY DEF TxnInv, InMode
  <1>1. "SET_GROUP" \in Todo' => "SAVE" \in Todo' \/ task'.failing BY DEF TxnInv
  <1>2. ~task'.error /\ ~task'.failing =>
          /\ task'.setOk = {} => "SET_GROUP" \in Todo'
          /\ {"SET_GROUP", "SAVE"} \cap Todo' = {} => ~radar'.unsaved
    BY NowSame DEF TxnInv
  <1>3. \A g \in Groups : snap'[g] # Nil =>
          InMode(g, mode'.work) \/ mode'.work = radar'.app
    BY DEF TxnInv, SameSettings
  <1> QED BY <1>1, <1>2, <1>3

\* A step that leaves what is read of the settings alone.
LEMMA ReadFrame ==
  ASSUME ReadTrue, UNCHANGED <<op, reported>>, task'.readOk = task.readOk,
         radar'.fw = radar.fw, radar'.app = radar.app,
         task.readOk = {} \/ radar'.val = radar.val,
         op \in ReadOps => Changing \cap Todo' \subseteq Todo
  PROVE  ReadTrue'
  <1> SUFFICES ASSUME op \in ReadOps
               PROVE  /\ \A g \in task'.readOk :
                           /\ reported'[g] = Now'[g] /\ g \in radar'.fw.knows
                           /\ radar'.app \in GroupModes[g]
                      /\ Changing \cap Todo' # {} => task'.readOk = {}
    BY DEF ReadTrue
  <1> QED BY DEF ReadTrue, Now

LEMMA KeptFrame ==
  ASSUME KeptInv, OneGroup', UNCHANGED <<op, snap, reported>>, SameSettings,
         task'.readOk = task.readOk,
         op \in ReadOps => Changing \cap Todo' \subseteq Todo,
         op = "TXN" =>
           /\ mode'.work \in {mode.work, radar.app}
           /\ \A k \in {"SET_GROUP", "SAVE"} :
                k \in Todo => k \in Todo' \/ task'.failing
           /\ task'.setOk = task.setOk
           /\ task.error => task'.error
           /\ task.failing => task'.failing
  PROVE  KeptInv'
  <1>1. SnapInv' BY DEF KeptInv, SnapInv
  <1>2. ReadTrue' BY ReadFrame DEF KeptInv, SameSettings
  <1>3. TxnInv' BY TxnFrame DEF KeptInv, Changing, ReadOps
  <1> QED BY <1>1, <1>2, <1>3 DEF KeptInv

LEMMA OneGroupFrame ==
  ASSUME KeptInv, fly' \in {fly, Nil} PROVE OneGroup'
  BY DEF KeptInv, OneGroup

\* Of the commands only these change what the radar has stored.
LEMMA OutcomesSettings ==
  ASSUME TypeOK, NEW c \in WireCommand, NEW o \in Outcomes(c)
  PROVE  /\ o.radar.fw = radar.fw
         /\ c.id # "SET_RUN_APP" => o.radar.app = radar.app
         /\ c.id \notin {"SET_GROUP", "RESET_CFG", "RESET_SYSTEM"} =>
              o.radar.val = radar.val
         /\ c.id \notin {"SAVE", "RESET_CFG"} => o.radar.saved = radar.saved
         /\ c.id \in {"GET_SWV", "GET_GROUP", "STOP", "START"} =>
              o.radar.unsaved = radar.unsaved
  <1>1. /\ radar \in RadarType /\ c.id \in WireIds /\ c.groups \subseteq Groups
    BY DEF TypeOK, WireOK, WireCommand, Command
  <1>2. CASE c.id = "GET_GROUP"
    <2>1. PICK g \in c.groups : o \in GetOutcomes(g) BY <1>2 DEF Outcomes
    <2>2. o.radar = radar BY <1>1, <2>1, GetOutcomesType
    <2> QED BY <2>2
  <1>3. CASE c.id = "SET_GROUP"
    <2>1. PICK g \in Groups : o \in SetOutcomes(g) BY <1>1, <1>3 DEF Outcomes
    <2> QED BY <1>1, <1>3, <2>1, SetFields DEF SameRun
  <1>4. CASE c.id = "GET_SWV" BY <1>4 DEF Outcomes, Out
  <1>5. CASE c.id = "STOP"
    <2>1. o = Out([radar EXCEPT !.running = FALSE], "OK") BY <1>5 DEF Outcomes
    <2> QED BY <1>1, <2>1 DEF Out, RadarType
  <1>6. CASE c.id = "START"
    <2>1. \E s : o = Out(radar, s) \/ o = Out(Started(radar), s)
      BY <1>6 DEF Outcomes, StartOutcomes
    <2> QED BY <1>1, <2>1 DEF Out, Started, RadarType
  <1>7. CASE c.id = "SAVE" BY <1>1, <1>7, SaveFields DEF Outcomes, SameRun
  <1>8. CASE c.id = "RESET_CFG" BY <1>1, <1>8, ResetCfgFields DEF Outcomes, SameRun
  <1>9. CASE c.id = "SET_RUN_APP" BY <1>1, <1>9, SetRunAppFields DEF Outcomes
  <1>10. CASE c.id = "RESET_SYSTEM"
    <2>1. o.radar = Rebooted BY <1>10 DEF Outcomes, Out
    <2> QED BY <1>1, <1>10, <2>1, RebootedFields
  <1> QED BY <1>1, <1>2, <1>3, <1>4, <1>5, <1>6, <1>7, <1>8, <1>9, <1>10 DEF WireIds

LEMMA WaitedSettings ==
  ASSUME TypeOK, NEW n, Waited(n) PROVE SameSettings
  BY DEF Waited, TypeOK, WireOK, RadarType, SameSettings

\* What the radar says of a setting it is asked for.
LEMMA GetAnswers ==
  ASSUME TypeOK, NEW c \in WireCommand, NEW o \in Outcomes(c), c.id = "GET_GROUP",
         NEW g, c.groups = {g}
  PROVE  /\ o \in GetOutcomes(g) /\ g \in Groups /\ o.radar = radar
         /\ o.result = "OK" =>
              o.val = Now[g] /\ g \in radar.fw.knows /\ radar.app \in GroupModes[g]
         /\ o.result \in {"OK", "MALFORMED", "SHORT", "UNRECOGNIZED", "ERROR"}
         /\ o.result = "SHORT" => "short" \in Faults
         /\ o.result = "UNRECOGNIZED" => g \notin radar.fw.knows
         /\ o.result = "ERROR" =>
              (radar.running /\ ~radar.fw.getRun) \/ radar.app \notin GroupModes[g]
  <1>1. o \in GetOutcomes(g) BY DEF Outcomes
  <1>2. g \in Groups /\ radar \in RadarType BY DEF WireCommand, Command, TypeOK, WireOK
  <1>3. o.radar = radar BY <1>1, <1>2, GetOutcomesType
  <1>4. CASE g \notin radar.fw.knows BY <1>1, <1>2, <1>3, <1>4 DEF GetOutcomes, Out
  <1>5. CASE g \in radar.fw.knows
             /\ ((radar.running /\ ~radar.fw.getRun) \/ radar.app \notin GroupModes[g])
    BY <1>1, <1>2, <1>3, <1>5 DEF GetOutcomes, Out
  <1>6. CASE g \in radar.fw.knows
             /\ ~((radar.running /\ ~radar.fw.getRun) \/ radar.app \notin GroupModes[g])
    <2>1. \/ o = [Out(radar, "OK") EXCEPT !.val = Now[g]]
          \/ o = Out(radar, "MALFORMED")
          \/ o = Out(radar, "SHORT") /\ "short" \in Faults
      BY <1>1, <1>6 DEF GetOutcomes
    <2> QED BY <1>1, <1>2, <1>3, <1>6, <2>1 DEF Out
  <1> QED BY <1>4, <1>5, <1>6

\* What is left of the queue after a command, by what it was.
LEMMA KindsLeft ==
  ASSUME TypeOK, OrderInv, NEW o, Complete(fly, o), fly # Nil
  PROVE  /\ Changing \cap Todo' \subseteq Todo
         /\ \A k \in {"SET_GROUP", "SAVE"} \ {fly.id} :
              k \in Todo => k \in Todo' \/ task'.failing \/ op' = "NONE"
         /\ \A k \in Ids(queue) \ {"MODE_WAIT"} :
              k \in Todo' \/ task'.failing \/ op' = "NONE"
  <1>1. fly \in WireCommand /\ fly \in Command /\ queue \in Seq(Command)
    BY DEF TypeOK, WireOK, ControlOK, WireCommand
  <1>2. /\ Todo' = Ids(queue') /\ Todo = Ids(queue) \cup {fly.id}
        /\ Ids(queue') \subseteq Ids(queue) \cup {"START", "SAVE", "FAIL_END", fly.id}
    BY DoneLeft DEF Todo, Left
  <1>3. ASSUME NEW k \in Ids(queue) \ {"MODE_WAIT"}
        PROVE  k \in Todo' \/ task'.failing \/ op' = "NONE"
    <2>1. k \in Ids(queue) OBVIOUS
    <2>2. CASE o.result = "MALFORMED" /\ "REPARSE" \notin fly.flags
      <3> DEFINE again == [fly EXCEPT !.flags = @ \cup {"REPARSE"}]
      <3>1. again \in Command BY <1>1 DEF Command, Flags
      <3>2. queue' = <<again>> \o queue BY <2>2 DEF Complete
      <3> HIDE DEF again
      <3>3. <<again>> \in Seq(Command) BY <3>1
      <3> QED BY <1>1, <1>2, <2>1, <3>2, <3>3, IdsConcat
    <2>3. CASE ~(o.result = "MALFORMED" /\ "REPARSE" \notin fly.flags)
      <3>1. DoneStep(fly, o) BY <1>1, <2>3, DoneQueue DEF Complete
      <3>2. CASE GoesOn(queue) BY <1>2, <2>1, <3>2 DEF GoesOn
      <3>3. CASE Fails(fly) BY <3>3 DEF Fails
      <3>4. CASE GoesOn(Again(fly) \o queue)
        <4>1. Again(fly) \in Seq(Command) BY <1>1, AgainType
        <4>2. Ids(queue') = Ids(Again(fly)) \cup Ids(queue)
          BY <1>1, <3>4, <4>1, IdsConcat DEF GoesOn
        <4> QED BY <1>2, <2>1, <4>2
      <3>5. CASE GoesOn(Tail(queue)) /\ queue # <<>> /\ Head(queue).id = "MODE_WAIT"
        <4>1. Ids(queue) = {"MODE_WAIT"} \cup Ids(Tail(queue)) BY <1>1, <3>5, IdsHead
        <4> QED BY <1>2, <2>1, <3>5, <4>1 DEF GoesOn
      <3>6. CASE Dropped BY <3>6 DEF Dropped
      <3> QED BY <3>1, <3>2, <3>3, <3>4, <3>5, <3>6 DEF DoneStep
    <2> QED BY <2>2, <2>3
  <1>4. \A k \in {"SET_GROUP", "SAVE"} \ {fly.id} :
          k \in Todo => k \in Todo' \/ task'.failing \/ op' = "NONE"
    BY <1>2, <1>3
  <1> QED BY <1>2, <1>3, <1>4 DEF Changing

\* A get in flight has the commands that change settings behind it.
LEMMA ChangesFirst ==
  ASSUME OrderInv, fly # Nil, fly.id \notin {"STOP", "SET_GROUP", "RESET_CFG"}
  PROVE  Changing \cap Todo = {}
  BY DEF OrderInv, Orderly, Left, Work, Changing, Todo

\* A command that brings no value and changes no setting.
LEMMA KeptCalm ==
  ASSUME TypeOK, OrderInv, KeptInv, fly # Nil, NEW o, Complete(fly, o),
         op' = op, fly.id \notin {"GET_GROUP", "SET_GROUP", "SAVE"},
         UNCHANGED <<snap, reported>>, mode'.work = mode.work,
         task'.readOk = task.readOk, task'.setOk = task.setOk,
         task.error => task'.error, task.failing => task'.failing, SameSettings
  PROVE  KeptInv'
  <1>1. fly' = Nil BY DEF Complete
  <1>2. OneGroup' BY <1>1, OneGroupFrame
  <1>3. op = "TXN" => op' # "NONE" OBVIOUS
  <1> QED BY <1>2, <1>3, KindsLeft, KeptFrame

\* A value read, or a get that brought none.
LEMMA KeptGet ==
  ASSUME TypeOK, OrderInv, KeptInv, fly # Nil, fly.id = "GET_GROUP", NEW o,
         Complete(fly, o), SameSettings,
         o.result = "OK" => \A g \in fly.groups :
           o.val = Now[g] /\ g \in radar.fw.knows /\ radar.app \in GroupModes[g]
  PROVE  KeptInv'
  <1>1. fly' = Nil /\ fly.groups \subseteq Groups /\ task \in TaskType
        /\ reported \in Settings
    BY DEF Complete, TypeOK, WireOK, WireCommand, Command, ControlOK, SettingsOK
  <1>2. OneGroup' BY <1>1, OneGroupFrame
  <1>3. Changing \cap Todo = {} /\ Changing \cap Todo' \subseteq Todo
    BY ChangesFirst, KindsLeft
  <1>4. CASE o.result = "MALFORMED" /\ "REPARSE" \notin fly.flags
    <2>1. UNCHANGED <<op, task, mode, snap, reported>> BY <1>4 DEF Complete, params
    <2> QED BY <1>2, <1>3, <2>1, KindsLeft, KeptFrame
  <1>5. CASE ~(o.result = "MALFORMED" /\ "REPARSE" \notin fly.flags)
    <2>1. GetGroupDone(fly, o) BY <1>5 DEF Complete, OnDone
    <2>2. UNCHANGED <<op, snap, mode>> /\ SnapInv'
      BY <2>1 DEF GetGroupDone, KeptInv, SnapInv
    <2>3. CASE o.result = "OK"
      <3>1. PICK g \in fly.groups : GetApplied(g, o.val) BY <2>1, <2>3 DEF GetGroupDone
      <3>2. /\ reported' = [reported EXCEPT ![g] = o.val]
            /\ task' = [task EXCEPT !.readOk = @ \cup {g}] /\ queue' = queue
        BY <3>1 DEF GetApplied
      <3>3. /\ task'.readOk = task.readOk \cup {g} /\ task'.setOk = task.setOk
            /\ task'.error = task.error /\ task'.failing = task.failing
        BY <1>1, <3>2 DEF TaskType
      <3>4. TxnInv'
        <4>1. op = "TXN" => \A k \in {"SET_GROUP", "SAVE"} :
                k \in Todo => k \in Todo' \/ task'.failing
          BY <1>1, <2>2, KindsLeft
        <4> QED BY <1>3, <2>2, <3>3, <4>1, TxnFrame DEF KeptInv, Changing
      <3>5. ReadTrue'
        <4>1. \A x \in task'.readOk : op \in ReadOps =>
                /\ reported'[x] = Now'[x] /\ x \in radar'.fw.knows
                /\ radar'.app \in GroupModes[x]
          BY <1>1, <2>3, <3>2, <3>3, NowSame DEF KeptInv, ReadTrue, SameSettings, Settings
        <4> QED BY <1>3, <2>2, <4>1 DEF ReadTrue
      <3> QED BY <1>2, <2>2, <3>4, <3>5 DEF KeptInv
    <2>4. CASE o.result # "OK"
      <3>1. PICK g \in fly.groups : GetFailed(fly, g, o.result)
        BY <2>1, <2>4 DEF GetGroupDone
      <3>2. reported' = reported /\ (task' = task \/ task' = [task EXCEPT !.failing = TRUE])
        BY <3>1 DEF GetFailed, OpFailed
      <3>3. /\ task'.readOk = task.readOk /\ task'.setOk = task.setOk
            /\ task'.error = task.error /\ (task.failing => task'.failing)
        BY <1>1, <3>2 DEF TaskType
      <3> QED BY <1>1, <1>2, <1>3, <2>2, <3>2, <3>3, KindsLeft, KeptFrame
    <2> QED BY <2>3, <2>4
  <1> QED BY <1>4, <1>5

\* A setting taken, refused or lost: the save is still to come.
LEMMA KeptSet ==
  ASSUME TypeOK, OrderInv, KeptInv, fly # Nil, fly.id = "SET_GROUP", NEW o,
         Complete(fly, o), o.result # "MALFORMED", o.result = "OK" => fly.groups # {},
         radar'.fw = radar.fw, radar'.app = radar.app
  PROVE  KeptInv'
  <1>1. fly' = Nil /\ task \in TaskType /\ SetGroupDone(fly, o)
    BY DEF Complete, OnDone, TypeOK, ControlOK
  <1>2. OneGroup' BY <1>1, OneGroupFrame
  <1>3. op = "TXN" /\ "SET_GROUP" \in Todo
    BY DEF OrderInv, Orderly, Allowed, Left, Todo
  <1>4. UNCHANGED <<op, snap, reported, mode>> BY <1>1 DEF SetGroupDone, params
  <1>5. /\ task'.readOk = task.readOk
        /\ (task.error => task'.error) /\ (task.failing => task'.failing)
        /\ \/ task'.error \/ task'.failing
           \/ o.result = "OK" /\ task'.setOk = task.setOk \cup fly.groups
    BY <1>1 DEF SetGroupDone, OpFailed, TaskType
  <1>6. Changing \cap Todo' \subseteq Todo /\ ("SAVE" \in Todo => "SAVE" \in Todo' \/ task'.failing)
    BY <1>3, <1>4, KindsLeft
  <1>7. task.readOk = {} BY <1>3 DEF KeptInv, ReadTrue, ReadOps, Changing
  <1>8. ReadTrue' BY <1>4, <1>5, <1>6, <1>7, ReadFrame DEF KeptInv
  <1>9. TxnInv'
    <2>1. "SAVE" \in Todo' \/ task'.failing
      BY <1>3, <1>5, <1>6 DEF KeptInv, TxnInv
    <2>2. ~task'.error /\ ~task'.failing => task'.setOk # {} BY <1>5
    <2>3. \A g \in Groups : snap'[g] # Nil =>
            InMode(g, mode'.work) \/ mode'.work = radar'.app
      BY <1>3, <1>4 DEF KeptInv, TxnInv
    <2> QED BY <2>1, <2>2, <2>3 DEF TxnInv, InMode
  <1> QED BY <1>2, <1>3, <1>4, <1>8, <1>9 DEF KeptInv, SnapInv

\* A save answered "nothing changed" is as good as a save done.
LEMMA KeptSave ==
  ASSUME TypeOK, OrderInv, KeptInv, fly # Nil, fly.id = "SAVE", NEW o,
         Complete(fly, o), o.result \in {"OK", "ERROR", "NOT_STOPPED", "TIMEOUT"},
         radar'.fw = radar.fw, radar'.app = radar.app, radar'.val = radar.val,
         o.result \in {"OK", "ERROR"} => ~radar'.unsaved
  PROVE  KeptInv'
  <1>1. fly' = Nil /\ task \in TaskType /\ SaveDone(fly, o)
    BY DEF Complete, OnDone, TypeOK, ControlOK
  <1>2. OneGroup' BY <1>1, OneGroupFrame
  <1>3. UNCHANGED <<op, snap, reported, mode>> BY <1>1 DEF SaveDone, params
  <1>4. /\ task'.readOk = task.readOk /\ task'.setOk = task.setOk
        /\ (task.error => task'.error) /\ (task.failing => task'.failing)
        /\ task'.error \/ task'.failing \/ o.result \in {"OK", "ERROR"}
    BY <1>1 DEF SaveDone, SetError, OpFailed, TaskType
  <1>5. Changing \cap Todo = {} /\ Changing \cap Todo' \subseteq Todo
    BY ChangesFirst, KindsLeft
  <1>6. ReadTrue' BY <1>3, <1>4, <1>5, ReadFrame DEF KeptInv
  <1>7. TxnInv'
    <2> SUFFICES ASSUME op = "TXN"
                 PROVE  /\ "SET_GROUP" \in Todo' => "SAVE" \in Todo' \/ task'.failing
                        /\ ~task'.error /\ ~task'.failing =>
                             /\ task'.setOk = {} => "SET_GROUP" \in Todo'
                             /\ {"SET_GROUP", "SAVE"} \cap Todo' = {} => ~radar'.unsaved
                        /\ \A g \in Groups : snap'[g] # Nil =>
                             InMode(g, mode'.work) \/ mode'.work = radar'.app
      BY <1>3 DEF TxnInv, InMode
    <2>1. "SET_GROUP" \notin Todo' BY <1>5 DEF Changing
    <2>2. ~task'.error /\ ~task'.failing => task'.setOk # {} /\ ~radar'.unsaved
      BY <1>4, <1>5 DEF KeptInv, TxnInv, Changing
    <2>3. \A g \in Groups : snap'[g] # Nil =>
            InMode(g, mode'.work) \/ mode'.work = radar'.app
      BY <1>3 DEF KeptInv, TxnInv
    <2> QED BY <2>1, <2>2, <2>3
  <1> QED BY <1>2, <1>3, <1>6, <1>7 DEF KeptInv, SnapInv

\* An operation outside which nothing is read goes on or ends.
LEMMA KeptOutside ==
  ASSUME TypeOK, KeptInv, fly # Nil, fly' \in {fly, Nil}, op \notin ReadOps,
         op' \in {op, "NONE"}, snap' = snap
  PROVE  KeptInv'
  <1>1. snap' = NoValue /\ op' \notin ReadOps BY DEF KeptInv, SnapInv, ReadOps
  <1> QED BY <1>1, OneGroupFrame, KeptElse

LEMMA KeptReset ==
  ASSUME TypeOK, OrderInv, KeptInv, fly # Nil, fly.id = "RESET_CFG", NEW o,
         Complete(fly, o), o.result # "MALFORMED",
         radar'.fw = radar.fw, radar'.app = radar.app
  PROVE  KeptInv'
  <1>1. fly' = Nil /\ task \in TaskType /\ ResetCfgDone(fly, o)
    BY DEF Complete, OnDone, TypeOK, ControlOK
  <1>2. OneGroup' BY <1>1, OneGroupFrame
  <1>3. op = "FACTORY_RESET" /\ "RESET_CFG" \in Todo
    BY DEF OrderInv, Orderly, Allowed, Left, Todo
  <1>4. UNCHANGED <<op, snap, reported, mode>> BY <1>1 DEF ResetCfgDone, params
  <1>5. task.readOk = {} BY <1>3 DEF KeptInv, ReadTrue, ReadOps, Changing
  <1>6. task'.readOk = task.readOk
    <2>1. task' \in {task, [task EXCEPT !.failing = TRUE], [task EXCEPT !.error = TRUE]}
      BY <1>1 DEF ResetCfgDone, OpFailed, SetError
    <2> QED BY <1>1, <2>1 DEF TaskType
  <1>7. ReadTrue' BY <1>4, <1>5, <1>6, KindsLeft, ReadFrame DEF KeptInv
  <1> QED BY <1>2, <1>3, <1>4, <1>7 DEF KeptInv, SnapInv, TxnInv

\* A stop, a start or a command that answers nothing.
LEMMA KeptMove ==
  ASSUME TypeOK, OrderInv, KeptInv, fly # Nil, NEW o, Complete(fly, o),
         fly.id \in {"STOP", "START", "GET_SWV", "SET_RUN_APP", "RESET_SYSTEM"},
         o.result # "MALFORMED", fly.id \in {"STOP", "START"} => SameSettings
  PROVE  KeptInv'
  <1>1. fly' = Nil /\ task \in TaskType /\ OnDone(fly, o)
    BY DEF Complete, TypeOK, ControlOK
  <1>2. fly.id \in Allowed(op) BY DEF OrderInv, Orderly, Left
  <1>3. CASE fly.id \in {"GET_SWV", "SET_RUN_APP", "RESET_SYSTEM"}
    <2>1. op \notin ReadOps BY <1>2, <1>3 DEF Allowed, ReadOps
    <2>2. op' \in {op, "NONE"} /\ snap' = snap
      BY <1>1, <1>3 DEF OnDone, GetSwvDone, SetRunAppDone, ResetSystemDone, EnterBackoff,
                        params
    <2> QED BY <1>1, <2>1, <2>2, KeptOutside
  <1>4. CASE fly.id \in {"STOP", "START"}
    <2>1. UNCHANGED <<op, snap, reported, mode>>
      BY <1>1, <1>4 DEF OnDone, StopDone, StartDone, params
    <2>2. task' \in {task, [task EXCEPT !.failing = TRUE], [task EXCEPT !.error = TRUE]}
      BY <1>1, <1>4 DEF OnDone, StopDone, StartDone, OpFailed, SetError
    <2>3. /\ task'.readOk = task.readOk /\ task'.setOk = task.setOk
          /\ (task.error => task'.error) /\ (task.failing => task'.failing)
      BY <1>1, <2>2 DEF TaskType
    <2> QED BY <1>4, <2>1, <2>3, KeptCalm
  <1> QED BY <1>3, <1>4

\* A command is finished with outcome o, and the radar is as o leaves it.
LEMMA KeptDone ==
  ASSUME TypeOK, OrderInv, KeptInv, fly # Nil, NEW o, Complete(fly, o),
         \/ o \in Outcomes(fly) /\ o.result # "NONE" /\ radar' = o.radar
         \/ o.result = "TIMEOUT" /\ SameSettings
         \/ fly.id \in NoReply /\ o.result = "OK" /\ SameSettings
  PROVE  KeptInv'
  <1>1. fly \in WireCommand /\ fly.id \in WireIds /\ fly.groups \subseteq Groups
    BY DEF TypeOK, WireOK, WireCommand, Command
  <1>2. CASE o \in Outcomes(fly) /\ radar' = o.radar
    <2>1. /\ radar'.fw = radar.fw
          /\ fly.id # "SET_RUN_APP" => radar'.app = radar.app
          /\ fly.id \notin {"SET_GROUP", "RESET_CFG", "RESET_SYSTEM"} =>
               radar'.val = radar.val
          /\ fly.id \notin {"SAVE", "RESET_CFG"} => radar'.saved = radar.saved
          /\ fly.id \in {"GET_SWV", "GET_GROUP", "STOP", "START"} =>
               radar'.unsaved = radar.unsaved
      BY <1>1, <1>2, OutcomesSettings
    <2>2. o.result = "MALFORMED" => fly.id = "GET_GROUP" BY <1>1, <1>2, MalformedGet
    <2>3. CASE fly.id = "GET_GROUP"
      <3>1. PICK g \in fly.groups : o \in GetOutcomes(g) BY <1>2, <2>3 DEF Outcomes
      <3>2. \E x \in Groups : fly.groups = {x} BY <3>1 DEF KeptInv, OneGroup
      <3>3. PICK x \in Groups : fly.groups = {x} BY <3>2
      <3>4. o.result = "OK" =>
              o.val = Now[x] /\ x \in radar.fw.knows /\ radar.app \in GroupModes[x]
        BY <1>1, <1>2, <2>3, <3>3, GetAnswers
      <3> QED BY <2>1, <2>3, <3>3, <3>4, KeptGet DEF SameSettings
    <2>4. CASE fly.id = "SET_GROUP"
      <3>1. fly.groups # {} BY <1>2, <2>4 DEF Outcomes
      <3> QED BY <2>1, <2>2, <2>4, <3>1, KeptSet
    <2>5. CASE fly.id = "SAVE"
      <3>1. o \in SaveOutcomes /\ radar \in RadarType
        BY <1>2, <2>5 DEF Outcomes, TypeOK, WireOK
      <3>3. /\ o.result \in {"OK", "ERROR", "NOT_STOPPED"}
            /\ o.result \in {"OK", "ERROR"} => ~radar'.unsaved
        BY <1>2, <3>1, SaveFields
      <3> QED BY <2>1, <2>5, <3>3, KeptSave
    <2>6. CASE fly.id = "RESET_CFG" BY <2>1, <2>2, <2>6, KeptReset
    <2>7. CASE fly.id \notin {"GET_GROUP", "SET_GROUP", "SAVE", "RESET_CFG"}
      BY <1>1, <2>1, <2>2, <2>7, KeptMove DEF WireIds, SameSettings
    <2> QED BY <2>3, <2>4, <2>5, <2>6, <2>7
  <1>3. CASE o.result \in {"OK", "TIMEOUT"} /\ SameSettings
             /\ (o.result = "OK" => fly.id \in NoReply)
    <2>1. o.result # "MALFORMED" BY <1>3
    <2>2. radar'.fw = radar.fw /\ radar'.app = radar.app /\ radar'.val = radar.val
      BY <1>3 DEF SameSettings
    <2>3. fly.id \in {"GET_GROUP", "SET_GROUP", "SAVE", "RESET_CFG"} => o.result = "TIMEOUT"
      BY <1>3 DEF NoReply
    <2>4. CASE fly.id = "GET_GROUP" BY <1>3, <2>3, <2>4, KeptGet
    <2>5. CASE fly.id = "SET_GROUP" BY <2>1, <2>2, <2>3, <2>5, KeptSet
    <2>6. CASE fly.id = "SAVE" BY <2>2, <2>3, <2>6, KeptSave
    <2>7. CASE fly.id = "RESET_CFG" BY <2>1, <2>2, <2>7, KeptReset
    <2>8. CASE fly.id \notin {"GET_GROUP", "SET_GROUP", "SAVE", "RESET_CFG"}
      BY <1>1, <1>3, <2>1, <2>8, KeptMove DEF WireIds
    <2> QED BY <2>4, <2>5, <2>6, <2>7, <2>8
  <1> QED BY <1>2, <1>3

LEMMA KeptSend == ASSUME TypeOK, KeptInv, Send PROVE KeptInv'
  <1>1. Todo' = Todo /\ UNCHANGED <<op, snap, reported, task, mode, radar>>
    BY SendLeft DEF Send, Todo, params
  <1>2. OneGroup'
    <2> DEFINE h == Head(queue)
               g == CHOOSE g \in h.groups : TRUE
    <2>1. queue \in Seq(Command) /\ queue # <<>> BY DEF Send, TypeOK, ControlOK
    <2>2. h \in Command /\ h.groups \subseteq Groups
      <3>1. h \in Command BY <2>1
      <3> QED BY <3>1 DEF Command
    <2>3. \/ h.groups = {} /\ fly' = h
          \/ h.groups # {} /\ fly' = [h EXCEPT !.groups = {g}]
      BY DEF Send
    <2>4. h.groups # {} => g \in h.groups OBVIOUS
    <2> HIDE DEF g, h
    <2>5. fly'.groups # {} => fly'.groups = {g} /\ g \in Groups
      BY <2>2, <2>3, <2>4 DEF Command
    <2> QED BY <2>5 DEF OneGroup
  <1> QED BY <1>1, <1>2, KeptFrame DEF SameSettings

\* A command carried out without an answer: the settings it changes are not
\* read yet.
LEMMA KeptCarried == ASSUME TypeOK, OrderInv, KeptInv, CarriedOut PROVE KeptInv'
  <1>1. PICK o \in Outcomes(fly) : radar' = o.radar BY DEF CarriedOut
  <1>2. fly # Nil /\ UNCHANGED <<op, queue, fly, snap, reported, task, mode>>
    BY DEF CarriedOut, params
  <1>3. fly \in WireCommand /\ fly.id \in WireIds /\ fly.id \in Todo /\ fly.id \in Allowed(op)
    BY <1>2 DEF TypeOK, WireOK, WireCommand, Todo, Left, OrderInv, Orderly
  <1>4. /\ radar'.fw = radar.fw
        /\ fly.id # "SET_RUN_APP" => radar'.app = radar.app
        /\ fly.id \notin {"SET_GROUP", "RESET_CFG", "RESET_SYSTEM"} => radar'.val = radar.val
        /\ fly.id \notin {"SAVE", "RESET_CFG"} => radar'.saved = radar.saved
        /\ fly.id \in {"GET_SWV", "GET_GROUP", "STOP", "START"} =>
             radar'.unsaved = radar.unsaved
    BY <1>1, <1>3, OutcomesSettings
  <1>5. OneGroup' /\ Todo' = Todo BY <1>2, OneGroupFrame DEF Todo, Left, Ids
  <1>6. CASE fly.id \in {"SET_RUN_APP", "RESET_SYSTEM"}
    <2>1. op \notin ReadOps BY <1>3, <1>6 DEF Allowed, ReadOps
    <2> QED BY <1>2, <2>1, KeptOutside
  <1>7. CASE fly.id \in {"SET_GROUP", "RESET_CFG", "SAVE"}
    <2>1. fly.id # "SAVE" /\ op \in ReadOps => task.readOk = {}
      BY <1>3, <1>7 DEF KeptInv, ReadTrue, Changing
    <2>2. ReadTrue'
      <3>1. CASE op \in ReadOps
        BY <1>2, <1>4, <1>5, <1>7, <2>1, <3>1, ReadFrame DEF KeptInv
      <3>2. CASE op \notin ReadOps BY <1>2, <3>2 DEF ReadTrue
      <3> QED BY <3>1, <3>2
    <2>3. TxnInv'
      <3> SUFFICES ASSUME op = "TXN"
                   PROVE  /\ "SET_GROUP" \in Todo' => "SAVE" \in Todo' \/ task'.failing
                          /\ ~task'.error /\ ~task'.failing =>
                               /\ task'.setOk = {} => "SET_GROUP" \in Todo'
                               /\ {"SET_GROUP", "SAVE"} \cap Todo' = {} => ~radar'.unsaved
                          /\ \A g \in Groups : snap'[g] # Nil =>
                               InMode(g, mode'.work) \/ mode'.work = radar'.app
        BY <1>2 DEF TxnInv, InMode
      <3>1. {"SET_GROUP", "SAVE"} \cap Todo' # {} BY <1>3, <1>5, <1>7 DEF Allowed
      <3> QED BY <1>2, <1>4, <1>5, <1>7, <3>1 DEF KeptInv, TxnInv
    <2> QED BY <1>2, <1>5, <2>2, <2>3 DEF KeptInv, SnapInv
  <1>8. CASE fly.id \notin {"SET_RUN_APP", "RESET_SYSTEM", "SET_GROUP", "RESET_CFG", "SAVE"}
    BY <1>2, <1>3, <1>4, <1>5, <1>8, KeptFrame DEF SameSettings, WireIds
  <1> QED BY <1>6, <1>7, <1>8

LEMMA KeptWire == ASSUME TypeOK, OrderInv, KeptInv, WireNext PROVE KeptInv'
  <1>1. radar \in RadarType /\ mode \in ModeType BY DEF TypeOK, WireOK, ControlOK
  <1>2. CASE Answer BY <1>2, KeptDone DEF Answer
  <1>3. CASE CommandLost
    <2>1. UNCHANGED <<op, queue, fly, snap, reported, task, mode, radar>>
      BY <1>3 DEF CommandLost, params
    <2>2. Todo' = Todo BY <2>1 DEF Todo, Left, Ids
    <2> QED BY <2>1, <2>2, OneGroupFrame, KeptFrame DEF SameSettings
  <1>4. CASE Timeout
    <2>1. fly # Nil /\ SameSettings BY <1>4, WaitedSettings DEF Timeout
    <2>2. CASE fly.id \in NoReply
      <3>1. Complete(fly, Out(radar, "OK")) BY <1>4, <2>2 DEF Timeout
      <3>2. Out(radar, "OK").result = "OK" BY DEF Out
      <3> QED BY <2>1, <2>2, <3>1, <3>2, KeptDone
    <2>3. CASE fly.id \notin NoReply /\ fly.retries > 0
      <3>1. /\ fly' = [fly EXCEPT !.retries = @ - 1] /\ queue' = queue
            /\ UNCHANGED <<op, snap, reported, task, mode>>
        BY <1>4, <2>3 DEF Timeout, params
      <3>2. fly \in Command BY <2>1 DEF TypeOK, WireOK, WireCommand
      <3>3. fly' \in Command /\ fly'.id = fly.id /\ fly'.groups = fly.groups
        BY <2>3, <3>1, <3>2, RetriesType DEF Command
      <3>4. Todo' = Todo BY <2>1, <3>1, <3>3, NilAssumption DEF Todo, Left, Ids
      <3>5. OneGroup' BY <2>1, <3>3 DEF KeptInv, OneGroup
      <3> QED BY <2>1, <3>1, <3>4, <3>5, KeptFrame
    <2>4. CASE fly.id \notin NoReply /\ ~(fly.retries > 0)
      <3>1. Complete(fly, Out(radar, "TIMEOUT")) BY <1>4, <2>4 DEF Timeout
      <3>2. Out(radar, "TIMEOUT").result = "TIMEOUT" BY DEF Out
      <3> QED BY <2>1, <3>1, <3>2, KeptDone
    <2> QED BY <2>2, <2>3, <2>4
  <1>5. CASE Sentence
    <2>1. /\ UNCHANGED <<op, queue, fly, snap, reported, task>>
          /\ radar' = [radar EXCEPT !.quiet = 0]
      BY <1>5 DEF Sentence
    <2>2. SameSettings BY <1>1, <2>1 DEF RadarType, SameSettings
    <2>3. mode'.work \in {mode.work, radar.app}
      <3>1. mode' = mode \/ mode' = LearntMode(radar.app) BY <1>5 DEF Sentence
      <3>2. LearntMode(radar.app).work = radar.app BY <1>1 DEF LearntMode, ModeType
      <3> QED BY <3>1, <3>2
    <2>4. Todo' = Todo BY <2>1 DEF Todo, Left, Ids
    <2> QED BY <2>1, <2>2, <2>3, <2>4, OneGroupFrame, KeptFrame
  <1> QED BY <1>2, <1>3, <1>4, <1>5, KeptSend, KeptCarried DEF WireNext

LEMMA KeptUser ==
  ASSUME TypeOK, KeptInv, "power" \notin UserOps, UserNext PROVE KeptInv'
  <1>1. CASE EspReboot
    <2>1. op' = "NONE" /\ snap' = NoValue /\ fly' = Nil BY <1>1 DEF EspReboot
    <2> QED BY <2>1, OneGroupFrame, KeptElse DEF ReadOps
  <1>2. CASE ~EspReboot
    <2>1. /\ UNCHANGED <<op, queue, fly, snap, reported, radar>>
          /\ mode' \in {mode, [mode EXCEPT !.shown = mode.reported]}
               \cup {[mode EXCEPT !.want = m, !.shown = m] : m \in Modes}
          /\ task' \in {task, [task EXCEPT !.error = TRUE]}
      BY <1>2 DEF UserNext, SetDesired, SetWorkMode, RequestRefresh, RequestRestart,
                  RequestFactoryReset, RequestRunning, Request, RadarPowerCycle, params
    <2>2. /\ mode'.work = mode.work /\ task'.readOk = task.readOk
          /\ task'.setOk = task.setOk /\ task'.failing = task.failing
          /\ (task.error => task'.error)
      <3>1. mode \in ModeType /\ task \in TaskType BY DEF TypeOK, ControlOK
      <3> HIDE DEF TypeOK, KeptInv, OrderInv
      <3>2. \A m \in Modes : [mode EXCEPT !.want = m, !.shown = m].work = mode.work
        BY <3>1 DEF ModeType
      <3>3. [mode EXCEPT !.shown = mode.reported].work = mode.work BY <3>1 DEF ModeType
      <3>4. mode'.work = mode.work BY <2>1, <3>2, <3>3
      <3>5. CASE task' = task BY <3>4, <3>5
      <3>6. CASE task' = [task EXCEPT !.error = TRUE] BY <3>1, <3>4, <3>6 DEF TaskType
      <3> QED BY <2>1, <3>5, <3>6
    <2>3. Todo' = Todo BY <2>1 DEF Todo, Left, Ids
    <2> QED BY <2>1, <2>2, <2>3, OneGroupFrame, KeptFrame DEF SameSettings
  <1> QED BY <1>1, <1>2

LEMMA KeptSkip == ASSUME TypeOK, OrderInv, KeptInv, SkipSave PROVE KeptInv'
  <1>1. /\ queue \in Seq(Command) /\ queue # <<>> /\ Head(queue).id = "SAVE"
        /\ queue' = Tail(queue) /\ task.setOk = {} /\ fly = Nil
        /\ UNCHANGED <<op, fly, snap, reported, task, mode, radar>>
    BY DEF SkipSave, Skippable, TypeOK, ControlOK, params
  <1>2. Ids(queue) = {"SAVE"} \cup Ids(Tail(queue)) BY <1>1, IdsHead
  <1>3. Todo = {"SAVE"} \cup Todo' BY <1>1, <1>2 DEF Todo, Left, Ids
  <1>4. "SET_GROUP" \notin Todo'
    <2>1. "SET_GROUP" \notin Ids(Tail(queue))
      BY <1>1 DEF OrderInv, Orderly, StopFirst, Work
    <2> QED BY <1>1, <2>1 DEF Todo, Left, Ids
  <1>5. OneGroup' BY <1>1, OneGroupFrame
  <1>6. ReadTrue' BY <1>1, <1>3, ReadFrame DEF KeptInv, Changing
  <1>7. TxnInv'
    <2>1. op = "TXN" => task.error \/ task.failing
      BY <1>1, <1>3, <1>4 DEF KeptInv, TxnInv
    <2>2. op = "TXN" => \A g \in Groups : snap'[g] # Nil =>
            InMode(g, mode'.work) \/ mode'.work = radar'.app
      BY <1>1 DEF KeptInv, TxnInv
    <2> QED BY <1>1, <1>4, <2>1, <2>2 DEF TxnInv, InMode
  <1> QED BY <1>1, <1>5, <1>6, <1>7 DEF KeptInv, SnapInv

LEMMA KeptDrive == ASSUME TypeOK, EndInv, OrderInv, KeptInv, DriveNext PROVE KeptInv'
  <1>1. mode \in ModeType /\ task \in TaskType BY DEF TypeOK, ControlOK
  <1>2. ASSUME op' \notin ReadOps, fly' = fly, snap' \in {NoValue, snap},
               snap' = snap => op # "TXN"
        PROVE  KeptInv'
    <2>1. snap' = NoValue BY <1>2 DEF KeptInv, SnapInv
    <2> QED BY <1>2, <2>1, OneGroupFrame, KeptElse
  <1>3. ASSUME NEW id \in EndMarkers, AtMarker(id)
        PROVE  id \in EndsOf(op) /\ op \notin {"NONE", "RESTART"}
    BY <1>3, AheadMarker
  <1>4. CASE ProbeDone
    <2>1. op \in {"PROBE", "MODE_SWITCH"}
      BY <1>3, <1>4 DEF ProbeDone, EndMarkers, EndsOf
    <2>2. op' = "BOOT_READ" /\ task'.readOk = {} /\ snap' = snap /\ fly' = fly
      BY <1>1, <1>4 DEF ProbeDone, TaskType
    <2>3. snap' = NoValue BY <2>1, <2>2 DEF KeptInv, SnapInv
    <2> QED BY <2>2, <2>3, OneGroupFrame, KeptNew
  <1>5. CASE FirstRead
    <2>1. op = "BOOT_READ" BY <1>3, <1>5 DEF FirstRead, EndMarkers, EndsOf
    <2>2. /\ UNCHANGED <<op, fly, snap, reported, radar>> /\ task'.readOk = task.readOk
      BY <1>1, <1>5 DEF FirstRead, TaskType, params
    <2>3. Changing \cap Todo' = {}
      <3>1. OrderInv' BY <1>5, OrderFirstRead
      <3> QED BY <2>1, <2>2, <3>1 DEF OrderInv, Orderly, Allowed, Todo, Changing
    <2> QED BY <2>1, <2>2, <2>3, OneGroupFrame, KeptFrame DEF SameSettings
  <1>6. CASE ReadEnd
    <2>1. op \in {"BOOT_READ", "READ"} BY <1>3, <1>6 DEF ReadEnd, EndMarkers, EndsOf
    <2> QED BY <1>2, <1>6, <2>1 DEF ReadEnd, ReadOps
  <1>7. CASE BootReadEnd BY <1>2, <1>7 DEF BootReadEnd, ReadOps
  <1>8. CASE TxnEnd
    <2>1. snap' = NoValue /\ op' = "NONE" /\ fly' = fly BY <1>8 DEF TxnEnd
    <2> QED BY <2>1, OneGroupFrame, KeptElse DEF ReadOps
  <1>9. CASE FailEnd
    <2>1. snap' = NoValue /\ op' = "NONE" /\ fly' = fly BY <1>9 DEF FailEnd, EnterBackoff
    <2> QED BY <2>1, OneGroupFrame, KeptElse DEF ReadOps
  <1>10. CASE RunDone
    <2>1. op = "RUN_CTRL" BY <1>3, <1>10 DEF RunDone, EndMarkers, EndsOf
    <2> QED BY <1>2, <1>10, <2>1 DEF RunDone, ReadOps, params
  <1>11. CASE PingEnd
    <2>1. op = "PING" BY <1>3, <1>11 DEF PingEnd, EndMarkers, EndsOf
    <2> QED BY <1>2, <1>11, <2>1 DEF PingEnd, ReadOps, params
  <1>12. CASE ModeWait
    <2>1. "MODE_WAIT" \in Ids(queue) /\ UNCHANGED <<op, fly, snap>>
      BY <1>12, IdsTail DEF ModeWait, AtMarker, TypeOK, ControlOK, params
    <2>2. op = "MODE_SWITCH" BY <2>1 DEF OrderInv, Orderly, Left, Allowed
    <2> QED BY <1>2, <2>1, <2>2 DEF ReadOps
  <1>13. CASE ModeWaitSeen \/ ModeWaitExpired
    <2>1. op = "MODE_SWITCH" BY <1>13 DEF ModeWaitSeen, ModeWaitExpired, OrderInv, Orderly
    <2>2. UNCHANGED <<op, fly, snap>> BY <1>13 DEF ModeWaitSeen, ModeWaitExpired, params
    <2> QED BY <1>2, <2>1, <2>2 DEF ReadOps
  <1> QED BY <1>4, <1>5, <1>6, <1>7, <1>8, <1>9, <1>10, <1>11, <1>12, <1>13, KeptSkip
          DEF DriveNext

\* A transaction begins with its settings and its save still to come.
LEMMA KeptTxn == ASSUME TypeOK, EndInv, OrderInv, KeptInv, StartTxn PROVE KeptInv'
  <1> DEFINE dirty == {g \in Groups : want[g] # Nil}
             kept == {g \in dirty : Applicable(g)}
             sent == {g \in kept : Usable(g)}
             sets == Batch("SET_GROUP", sent, Retries)
             save == <<Cmd("SAVE", 1, {"OPTIONAL_SAVE"})>>
             back == ReadBack(sent)
             end == Marker("TXN_END")
  <1>1. op = "NONE" /\ snap = NoValue /\ fly' = fly
    BY DEF StartTxn, MayApply, Idle, KeptInv, SnapInv
  <1>2. OneGroup' BY <1>1, OneGroupFrame
  <1>3. CASE sent = {}
    <2>1. op' = op /\ snap' = NoValue BY <1>3 DEF StartTxn
    <2> QED BY <1>1, <1>2, <2>1, KeptElse DEF ReadOps
  <1>4. CASE sent # {}
    <2>1. /\ op' = "TXN" /\ UNCHANGED <<mode, radar>>
          /\ snap' = [g \in Groups |-> IF g \in kept THEN want[g] ELSE Nil]
          /\ queue' = Stop \o sets \o save \o back \o end
      BY <1>4 DEF StartTxn
    <2>2. task'.readOk = {} BY <1>4 DEF StartTxn, BeginTxn, TypeOK, ControlOK, TaskType
    <2>3. \A g \in Groups : snap'[g] # Nil => InMode(g, mode.work)
      BY <2>1 DEF Applicable
    <2>4. sent \in SUBSET Groups OBVIOUS
    <2> HIDE DEF sent
    <2>5. sets \in Seq(Command) /\ "SET_GROUP" \in Ids(sets)
      <3>1. sets \in Seq(Command) BY <2>4, BatchType, RetriesType DEF WireIds
      <3>2. sets = <<[Cmd("SET_GROUP", Retries, {}) EXCEPT !.groups = sent]>>
        BY <1>4 DEF Batch
      <3>3. [Cmd("SET_GROUP", Retries, {}) EXCEPT !.groups = sent].id = "SET_GROUP"
        BY DEF Cmd
      <3> QED BY <3>1, <3>2, <3>3, IdsOne
    <2>6. save \in Seq(Command) /\ Ids(save) = {"SAVE"}
      BY CmdType, IdsCmd, RetriesType DEF WireIds, Flags
    <2>7. back \in Seq(Command) /\ end \in Seq(Command)
      BY <2>4, ReadBackType, MarkerType DEF Markers, EndMarkers
    <2> HIDE DEF sets, save, back, end
    <2>8. {"SET_GROUP", "SAVE"} \subseteq Ids(queue')
      <3>1. Stop \in Seq(Command) BY StopType
      <3> DEFINE first == Stop \o sets \o save
      <3>2. first \in Seq(Command) /\ {"SET_GROUP", "SAVE"} \subseteq Ids(first)
        BY <3>1, <2>5, <2>6, Ids3
      <3>3. queue' = first \o back \o end BY <2>1
      <3> HIDE DEF first
      <3>4. Ids(first \o back \o end) = Ids(first) \cup Ids(back) \cup Ids(end)
        BY <3>2, <2>7, Ids3
      <3> QED BY <3>2, <3>3, <3>4
    <2>9. {"SET_GROUP", "SAVE"} \subseteq Todo' BY <2>8 DEF Todo, Left, Ids
    <2>10. TxnInv' BY <2>1, <2>3, <2>9 DEF TxnInv, InMode
    <2> QED BY <1>2, <2>1, <2>2, <2>10 DEF KeptInv, SnapInv, ReadTrue
  <1> QED BY <1>3, <1>4

LEMMA KeptSchedule ==
  ASSUME TypeOK, EndInv, OrderInv, KeptInv, ScheduleNext \/ CheckNext PROVE KeptInv'
  <1>1. task \in TaskType /\ op \in Ops BY DEF TypeOK, ControlOK
  <1>2. CASE StartTxn BY <1>2, KeptTxn
  <1>3. CASE ConfirmExpired
    <2>1. /\ UNCHANGED <<op, queue, fly, snap, reported, task, radar>>
          /\ mode' = [mode EXCEPT !.confirm = FALSE, !.shown = mode.reported]
      BY <1>3 DEF ConfirmExpired, params
    <2>2. mode'.work = mode.work BY <2>1 DEF TypeOK, ControlOK, ModeType
    <2>3. Todo' = Todo BY <2>1 DEF Todo, Left, Ids
    <2> QED BY <2>1, <2>2, <2>3, OneGroupFrame, KeptFrame DEF SameSettings
  <1>4. CASE (ScheduleNext \/ CheckReport \/ CheckLink) /\ ~StartTxn
    <2>1. Dry /\ fly' = fly
      BY <1>4 DEF ScheduleNext, StartProbe, StartRestart, FactoryRefused,
        StartFactoryReset, StartRun, SwitchNothing, StartModeSwitch, ReadsDropped,
        StartRefresh, StartModeRead, StartRead, CheckReport, CheckLink, Quiet, Idle,
        MayApply, Dry
    <2>2. op = "NONE"
      BY <1>1, <2>1 DEF EndInv, WellEnded, Dry, Ops
    <2>3. snap' = NoValue
      <3>1. snap = NoValue BY <2>2 DEF KeptInv, SnapInv
      <3> QED BY <1>4, <3>1 DEF ScheduleNext, StartProbe, StartRestart, FactoryRefused,
            StartFactoryReset, StartRun, SwitchNothing, StartModeSwitch, ReadsDropped,
            StartRefresh, StartModeRead, StartRead, CheckReport, CheckLink, params
    <2>4. CASE StartFactoryReset \/ StartRefresh \/ StartModeRead
      <3>1. op' # "TXN" /\ task'.readOk = {}
        BY <1>1, <2>4 DEF StartFactoryReset, BeginTxn, StartRefresh, StartModeRead,
                          StartRead, TaskType
      <3> QED BY <2>1, <2>3, <3>1, OneGroupFrame, KeptNew
    <2>5. CASE ~(StartFactoryReset \/ StartRefresh \/ StartModeRead)
      <3>1. op' \notin ReadOps
        BY <1>4, <2>2, <2>5 DEF ScheduleNext, StartProbe, StartRestart, FactoryRefused,
          StartRun, SwitchNothing, StartModeSwitch, ReadsDropped, CheckReport, CheckLink,
          ReadOps
      <3> QED BY <2>1, <2>3, <3>1, OneGroupFrame, KeptElse
    <2> QED BY <2>4, <2>5
  <1> QED BY <1>2, <1>3, <1>4 DEF CheckNext

LEMMA KeptNext ==
  ASSUME TypeOK, EndInv, OrderInv, KeptInv, "power" \notin UserOps, [Next]_vars
  PROVE  KeptInv'
  <1>1. CASE UNCHANGED vars
    <2>1. UNCHANGED <<op, queue, fly, snap, reported, task, mode, radar>>
      BY <1>1 DEF vars, params
    <2>2. Todo' = Todo BY <2>1 DEF Todo, Left, Ids
    <2> QED BY <2>1, <2>2, OneGroupFrame, KeptFrame DEF SameSettings
  <1> QED BY <1>1, KeptUser, KeptWire, KeptDrive, KeptSchedule DEF Next

Taken(g) ==
  snap[g] # Nil /\ snap'[g] = Nil /\ pub'.linkOk /\ ~pub'.error =>
    /\ radar.val[radar.app][g] = snap[g]
    /\ radar.saved[radar.app][g] = snap[g]
    /\ shown'[g] = snap[g]

LEMMA TakenStep ==
  ASSUME TypeOK, EndInv, OrderInv, KeptInv, SavedInv, [Next]_vars, NEW g \in Groups
  PROVE  Taken(g)
  <1>1. pub \in PubType /\ task \in TaskType /\ snap \in Settings
    BY DEF TypeOK, ControlOK, SettingsOK
  <1>2. ASSUME snap' = snap \/ snap = NoValue PROVE Taken(g)
    BY <1>2 DEF Taken, NoValue
  <1>3. CASE UserNext
    <2>1. snap' = snap \/ pub' = BootPub
      BY <1>3 DEF UserNext, SetDesired, SetWorkMode, RequestRefresh, RequestRestart,
                  RequestFactoryReset, RequestRunning, Request, RadarPowerCycle,
                  EspReboot, params
    <2> QED BY <1>2, <2>1 DEF Taken, BootPub
  <1>4. CASE WireNext
    <2>1. ASSUME NEW o, Complete(fly, o), fly # Nil PROVE snap' = snap
      <3>1. fly.id \in WireIds BY <2>1 DEF TypeOK, WireOK, WireCommand
      <3> QED BY <2>1, <3>1 DEF Complete, OnDone, WireIds, params, GetSwvDone,
            GetGroupDone, SetGroupDone, SetRunAppDone, StopDone, StartDone, SaveDone,
            ResetCfgDone, ResetSystemDone
    <2>2. snap' = snap
      BY <1>4, <2>1 DEF WireNext, Send, Answer, CarriedOut, CommandLost, Timeout,
                        Sentence, params
    <2> QED BY <1>2, <2>2
  <1>5. CASE DriveNext
    <2>1. CASE TxnEnd
      <3> SUFFICES ASSUME snap[g] # Nil, ~pub'.error
                   PROVE  /\ radar.val[radar.app][g] = snap[g]
                          /\ radar.saved[radar.app][g] = snap[g]
                          /\ shown'[g] = snap[g]
        BY DEF Taken
      <3>1. op = "TXN" BY DEF KeptInv, SnapInv, NoValue
      <3>2. ~task.failing /\ Ids(queue) = {"TXN_END"} /\ fly = Nil
        BY <2>1, OrderMarker DEF TxnEnd, EndMarkers
      <3>3. Todo = {"TXN_END"} BY <3>2 DEF Todo, Left
      <3>4. ~task.error /\ Mismatched = {} BY <1>1, <2>1 DEF TxnEnd, PubType
      <3>5. g \in task.readOk /\ reported[g] = snap[g] BY <3>4 DEF Mismatched
      <3>6. radar.val = radar.saved
        BY <3>1, <3>2, <3>3, <3>4 DEF KeptInv, TxnInv, SavedInv
      <3>7. snap[g] = Now[g] /\ radar.app \in GroupModes[g]
        BY <3>1, <3>5 DEF KeptInv, ReadTrue, ReadOps
      <3>8. InMode(g, mode.work)
        BY <3>1, <3>7 DEF KeptInv, TxnInv, InMode
      <3>9. shown'[g] = Display(g, mode.work) BY <2>1, <3>5 DEF TxnEnd
      <3> QED BY <3>5, <3>6, <3>7, <3>8, <3>9 DEF Now, Display
    <2>2. CASE FailEnd
      <3>1. pub' = [[pub EXCEPT !.error = TRUE] EXCEPT !.linkOk = FALSE,
                                                      !.status = "LINK_LOST"]
        BY <2>2 DEF FailEnd, EnterBackoff
      <3>2. pub'.linkOk = FALSE BY <1>1, <3>1 DEF PubType
      <3> QED BY <3>2 DEF Taken
    <2>3. CASE ~TxnEnd /\ ~FailEnd
      BY <1>2, <1>5, <2>3 DEF DriveNext, SkipSave, ProbeDone, FirstRead, ReadEnd,
         BootReadEnd, RunDone, PingEnd, ModeWait, ModeWaitSeen, ModeWaitExpired, params
    <2> QED BY <2>1, <2>2, <2>3
  <1>6. CASE ScheduleNext
    <2>1. snap' = snap \/ op = "NONE"
      BY <1>6 DEF ScheduleNext, StartProbe, StartRestart, FactoryRefused,
        StartFactoryReset, StartRun, StartTxn, MayApply, SwitchNothing, StartModeSwitch,
        ReadsDropped, StartRefresh, StartModeRead, StartRead, Idle, params
    <2> QED BY <1>2, <2>1 DEF KeptInv, SnapInv
  <1>7. CASE CheckNext
    BY <1>2, <1>7 DEF CheckNext, CheckReport, CheckLink, ConfirmExpired, params
  <1>8. CASE UNCHANGED vars BY <1>2, <1>8 DEF vars, params
  <1> QED BY <1>3, <1>4, <1>5, <1>6, <1>7, <1>8 DEF Next

\* Whatever is lost, mangled, clamped or refused: a transaction that ends
\* without an error leaves each value it sent in the radar, saved and shown
\* (finish_txn_()), on both dialects, unless the radar loses its power meanwhile.
THEOREM AppliedHolds ==
  ASSUME "power" \notin UserOps PROVE Spec => AppliedIsKept
  <1> DEFINE I == EndInv /\ OrderInv /\ KeptInv /\ NoModes /\ SavedInv
  <1>1. Init => I BY EndInit, OrderInit, KeptInit, NoModesInit, SavedInit
  <1>2. TypeOK /\ I /\ [Next]_vars => I'
    BY EndNext, OrderNext, KeptNext, NoModesNext, SavedNext
  <1>3. TypeOK /\ I /\ [Next]_vars
        => [\A g \in Groups :
              snap[g] # Nil /\ snap'[g] = Nil /\ pub'.linkOk /\ ~pub'.error =>
                /\ radar.val[radar.app][g] = snap[g]
                /\ radar.saved[radar.app][g] = snap[g]
                /\ shown'[g] = snap[g]]_vars
    BY TakenStep DEF Taken
  <1> QED BY <1>1, <1>2, <1>3, TypeCorrect, PTL DEF Spec, AppliedIsKept

-----------------------------------------------------------------------------
(* Between operations the SEN0395 entities show what the radar has.        *)

\* The groups a queue still has commands of kind id for.
For(id, q) == {g \in Groups : \E i \in 1..Len(q) : q[i].id = id /\ g \in q[i].groups}

\* The groups that are still to be read or sent, the one in flight included.
Rest(id) == For(id, queue) \cup (IF fly # Nil /\ fly.id = id THEN fly.groups ELSE {})
Unread == Rest("GET_GROUP")
Unset == Rest("SET_GROUP")

LEMMA ForNone == ASSUME NEW id, NEW q, id \notin Ids(q) PROVE For(id, q) = {}
  BY DEF Ids, For

LEMMA ForOne ==
  ASSUME NEW id, NEW c \in Command
  PROVE  For(id, <<c>>) = IF c.id = id THEN c.groups ELSE {}
  <1>1. c.groups \subseteq Groups BY DEF Command
  <1>2. Len(<<c>>) = 1 /\ <<c>>[1] = c OBVIOUS
  <1> HIDE DEF Command
  <1>3. \A i \in 1..Len(<<c>>) : <<c>>[i] = c BY <1>2
  <1>4. 1 \in 1..Len(<<c>>) BY <1>2
  <1> QED BY <1>1, <1>3, <1>4 DEF For

LEMMA ForConcat ==
  ASSUME NEW id, NEW p \in Seq(Command), NEW q \in Seq(Command)
  PROVE  For(id, p \o q) = For(id, p) \cup For(id, q)
  <1>1. \A i \in 1..Len(p) : i \in 1..Len(p \o q) /\ (p \o q)[i] = p[i]
    BY ConcatProperties
  <1>2. \A i \in 1..Len(q) :
          Len(p) + i \in 1..Len(p \o q) /\ (p \o q)[Len(p) + i] = q[i]
    BY ConcatProperties
  <1>3. \A i \in 1..Len(p \o q) :
          \/ i \in 1..Len(p) /\ (p \o q)[i] = p[i]
          \/ i - Len(p) \in 1..Len(q) /\ (p \o q)[i] = q[i - Len(p)]
    BY ConcatProperties
  <1>4. For(id, p) \subseteq For(id, p \o q) BY <1>1 DEF For
  <1>5. For(id, q) \subseteq For(id, p \o q) BY <1>2 DEF For
  <1>6. For(id, p \o q) \subseteq For(id, p) \cup For(id, q) BY <1>3 DEF For
  <1> QED BY <1>4, <1>5, <1>6

LEMMA For3 ==
  ASSUME NEW id, NEW a \in Seq(Command), NEW b \in Seq(Command), NEW c \in Seq(Command)
  PROVE  For(id, a \o b \o c) = For(id, a) \cup For(id, b) \cup For(id, c)
  <1> DEFINE ab == a \o b
  <1>1. ab \in Seq(Command) /\ For(id, ab) = For(id, a) \cup For(id, b)
    BY ConcatType, ForConcat
  <1> HIDE DEF ab
  <1>2. For(id, ab \o c) = For(id, ab) \cup For(id, c) BY <1>1, ForConcat
  <1> QED BY <1>1, <1>2 DEF ab

LEMMA ForHead ==
  ASSUME NEW id, NEW q \in Seq(Command), q # <<>>
  PROVE  For(id, q) = (IF Head(q).id = id THEN Head(q).groups ELSE {}) \cup For(id, Tail(q))
  <1>1. q = <<Head(q)>> \o Tail(q) /\ Head(q) \in Command /\ Tail(q) \in Seq(Command)
    BY HeadCons
  <1> DEFINE h == Head(q)
             t == Tail(q)
  <1> HIDE DEF h, t
  <1>2. h \in Command /\ t \in Seq(Command) /\ q = <<h>> \o t BY <1>1 DEF h, t
  <1>3. <<h>> \in Seq(Command) BY <1>2
  <1>4. For(id, q) = For(id, <<h>>) \cup For(id, t) BY <1>2, <1>3, ForConcat
  <1> QED BY <1>2, <1>4, ForOne DEF h, t

LEMMA ForBatch ==
  ASSUME NEW id \in {"GET_GROUP", "SET_GROUP"}, NEW gs \in SUBSET Groups,
         NEW n \in 0..Retries
  PROVE  For(id, Batch(id, gs, n)) = gs
  <1>1. CASE gs = {}
    <2>1. Batch(id, gs, n) = <<>> BY <1>1 DEF Batch
    <2> QED BY <1>1, <2>1, ForNone, IdsEmpty
  <1>2. CASE gs # {}
    <2> DEFINE c == [Cmd(id, n, {}) EXCEPT !.groups = gs]
    <2>1. c \in Command /\ c.id = id /\ c.groups = gs BY DEF Cmd, Command, WireIds
    <2>2. Batch(id, gs, n) = <<c>> BY <1>2 DEF Batch
    <2> HIDE DEF c
    <2> QED BY <2>1, <2>2, ForOne
  <1> QED BY <1>1, <1>2

LEMMA ForGets ==
  ASSUME NEW gs \in SUBSET Groups
  PROVE  /\ Gets(gs) \in Seq(Command) /\ For("GET_GROUP", Gets(gs)) = gs
         /\ For("SET_GROUP", Gets(gs)) = {}
  <1> DEFINE a == Batch("GET_GROUP", gs \ Probe, Retries)
             b == Batch("GET_GROUP", gs \cap Probe, 0)
  <1>1. a \in Seq(Command) /\ b \in Seq(Command) BY BatchType, RetriesType DEF WireIds
  <1>2. For("GET_GROUP", a) = gs \ Probe /\ For("GET_GROUP", b) = gs \cap Probe
    BY ForBatch, RetriesType
  <1>3. Gets(gs) = a \o b BY DEF Gets
  <1> HIDE DEF a, b
  <1>4. For("GET_GROUP", a \o b) = For("GET_GROUP", a) \cup For("GET_GROUP", b)
    BY <1>1, ForConcat
  <1>5. Gets(gs) \in Seq(Command) /\ "SET_GROUP" \notin Ids(Gets(gs)) BY GetsType, IdsGets
  <1> QED BY <1>2, <1>3, <1>4, <1>5, ForNone

\* Without work modes all usable settings are read back.
LEMMA AllReadable ==
  ASSUME ~HasModes, NEW gs \in SUBSET Groups PROVE Readable(gs) = {g \in gs : Usable(g)}
  BY DEF Readable, InMode

LEMMA ForReadBack ==
  ASSUME ~HasModes, NEW gs \in SUBSET Groups
  PROVE  /\ ReadBack(gs) \in Seq(Command)
         /\ For("GET_GROUP", ReadBack(gs)) = {g \in gs : Usable(g)}
         /\ For("SET_GROUP", ReadBack(gs)) = {}
  <1> DEFINE start == IF belief.userStopped THEN <<>> ELSE Start({})
             gets == Gets(Readable(gs))
  <1>1. start \in Seq(Command) /\ Ids(start) \subseteq {"START"}
    BY StartType, IdsStart, IdsEmpty
  <1>2. Readable(gs) \in SUBSET Groups /\ Readable(gs) = {g \in gs : Usable(g)}
    BY AllReadable
  <1>3. /\ gets \in Seq(Command) /\ For("GET_GROUP", gets) = {g \in gs : Usable(g)}
        /\ For("SET_GROUP", gets) = {}
    BY <1>2, ForGets
  <1>4. For("GET_GROUP", start) = {} /\ For("SET_GROUP", start) = {} BY <1>1, ForNone
  <1>5. ReadBack(gs) = gets \o start \/ ReadBack(gs) = start \o gets BY DEF ReadBack
  <1> HIDE DEF start, gets
  <1>6. /\ \A id : For(id, gets \o start) = For(id, gets) \cup For(id, start)
        /\ \A id : For(id, start \o gets) = For(id, start) \cup For(id, gets)
    BY <1>1, <1>3, ForConcat
  <1>7. ReadBack(gs) \in Seq(Command) BY ReadBackType
  <1> QED BY <1>3, <1>4, <1>5, <1>6, <1>7

LEMMA RestSend == ASSUME TypeOK, Send, NEW k PROVE Rest(k)' = Rest(k)
  <1> DEFINE h == Head(queue)
             t == Tail(queue)
             g == CHOOSE g \in h.groups : TRUE
             one == [h EXCEPT !.groups = {g}]
             more == [h EXCEPT !.groups = @ \ {g}]
  <1>1. fly = Nil /\ queue \in Seq(Command) /\ queue # <<>>
    BY DEF Send, TypeOK, ControlOK
  <1>2. h \in Command /\ t \in Seq(Command) BY <1>1, HeadCons
  <1>3. Rest(k) = (IF h.id = k THEN h.groups ELSE {}) \cup For(k, t)
    BY <1>1, ForHead DEF Rest
  <1>4. CASE h.groups = {}
    <2>1. fly' = h /\ queue' = t BY <1>4 DEF Send
    <2> HIDE DEF h, t
    <2> QED BY <1>3, <1>4, <2>1 DEF Rest
  <1>5. CASE h.groups # {}
    <2>1. /\ fly' = one
          /\ \/ queue' = <<more>> \o t
             \/ queue' = <<>> \o t /\ h.groups = {g}
      BY <1>5 DEF Send
    <2>2. g \in h.groups BY <1>5
    <2> HIDE DEF g, h, t
    <2>3. /\ one \in Command /\ one.id = h.id /\ one.groups = {g}
          /\ more \in Command /\ more.id = h.id /\ more.groups = h.groups \ {g}
      BY <1>2, <2>2 DEF Command
    <2> HIDE DEF one, more
    <2>4. fly' # Nil /\ Rest(k)' = For(k, queue') \cup (IF h.id = k THEN {g} ELSE {})
      BY <2>1, <2>3, NilAssumption DEF Rest
    <2>5. CASE queue' = <<more>> \o t
      <3>1. <<more>> \in Seq(Command) BY <2>3
      <3>2. For(k, queue') = For(k, <<more>>) \cup For(k, t) BY <1>2, <2>5, <3>1, ForConcat
      <3>3. For(k, <<more>>) = IF h.id = k THEN h.groups \ {g} ELSE {} BY <2>3, ForOne
      <3> QED BY <1>3, <2>2, <2>4, <3>2, <3>3
    <2>6. CASE queue' = <<>> \o t /\ h.groups = {g}
      <3>1. queue' = t BY <1>2, <2>6, ConcatEmptySeq
      <3> QED BY <1>3, <2>4, <2>6, <3>1
    <2> QED BY <2>1, <2>5, <2>6
  <1> QED BY <1>4, <1>5

\* What is left to be read or sent once a command is done: an answer that could
\* not be parsed is asked for again.
LEMMA RestDone ==
  ASSUME TypeOK, NEW o, Complete(fly, o), fly # Nil, NEW k \in {"GET_GROUP", "SET_GROUP"}
  PROVE  \/ task'.failing \/ op' = "NONE"
         \/ Rest(k)' = IF o.result = "MALFORMED" /\ "REPARSE" \notin fly.flags
                       THEN Rest(k) ELSE For(k, queue)
  <1>1. fly \in WireCommand /\ fly \in Command /\ queue \in Seq(Command)
    BY DEF TypeOK, WireOK, ControlOK, WireCommand
  <1>2. fly' = Nil /\ Rest(k)' = For(k, queue') BY DEF Complete, Rest
  <1>3. CASE o.result = "MALFORMED" /\ "REPARSE" \notin fly.flags
    <2> DEFINE again == [fly EXCEPT !.flags = @ \cup {"REPARSE"}]
    <2>1. again \in Command /\ again.id = fly.id /\ again.groups = fly.groups
      BY <1>1 DEF Command, Flags
    <2>2. queue' = <<again>> \o queue BY <1>3 DEF Complete
    <2> HIDE DEF again
    <2>3. <<again>> \in Seq(Command) BY <2>1
    <2>4. For(k, queue') = For(k, <<again>>) \cup For(k, queue)
      BY <1>1, <2>2, <2>3, ForConcat
    <2>5. For(k, <<again>>) = IF fly.id = k THEN fly.groups ELSE {} BY <2>1, ForOne
    <2> QED BY <1>2, <1>3, <2>4, <2>5 DEF Rest
  <1>4. CASE ~(o.result = "MALFORMED" /\ "REPARSE" \notin fly.flags)
    <2>1. DoneStep(fly, o) BY <1>1, <1>4, DoneQueue DEF Complete
    <2>2. CASE GoesOn(queue) BY <1>2, <1>4, <2>2 DEF GoesOn
    <2>3. CASE Fails(fly) BY <2>3 DEF Fails
    <2>4. CASE GoesOn(Again(fly) \o queue)
      <3>1. Again(fly) \in Seq(Command) /\ Ids(Again(fly)) = {"SAVE", "START"}
        BY <1>1, AgainType
      <3>2. For(k, Again(fly)) = {} BY <3>1, ForNone
      <3>3. For(k, Again(fly) \o queue) = For(k, Again(fly)) \cup For(k, queue)
        BY <1>1, <3>1, ForConcat
      <3> QED BY <1>2, <1>4, <2>4, <3>2, <3>3 DEF GoesOn
    <2>5. CASE GoesOn(Tail(queue)) /\ queue # <<>> /\ Head(queue).id = "MODE_WAIT"
      <3>1. For(k, queue) =
              (IF Head(queue).id = k THEN Head(queue).groups ELSE {}) \cup For(k, Tail(queue))
        BY <1>1, <2>5, ForHead
      <3>2. Head(queue).id # k BY <2>5
      <3>3. For(k, queue) = For(k, Tail(queue)) BY <3>1, <3>2
      <3> QED BY <1>2, <1>4, <2>5, <3>3 DEF GoesOn
    <2>6. CASE Dropped BY <2>6 DEF Dropped
    <2> QED BY <2>1, <2>2, <2>3, <2>4, <2>5, <2>6 DEF DoneStep
  <1> QED BY <1>3, <1>4

\* Firmwares that answer gets while they run and, if they answer getRange, know
\* every setting that is not probed for; and answers of their full length.
Answering ==
  /\ \A fw \in Firmwares :
       fw.getRun /\ (RangeGroup \in fw.knows => Groups \ Probe \subseteq fw.knows)
  /\ "short" \notin Faults

\* Only the identify-and-read begins with a get that may fail.
FirstReadInv == task.firstRead => op = "BOOT_READ" /\ "FIRST_READ" \in Todo

\* The SEN0395 is identified once, after the boot or a backoff.
LifeInv == (op \in {"PROBE", "BOOT_READ"} => life = "PROBE") /\ op # "MODE_SWITCH"

\* The identify-and-read asks for every setting: it is still to be read, has been
\* read, is marked unsupported, or the radar has none.
BootInv ==
  op = "BOOT_READ" /\ ~task.failing /\ "FIRST_READ" \notin Todo =>
    \A g \in Groups : g \in Unread \cup unsup \cup task.readOk
                      \/ g \notin radar.fw.knows \cup Probe

\* The last value read is the radar's, unless the setting is to be read again.
Right(g) ==
  /\ g \in radar.fw.knows
  /\ g \in Unread \/ (reported[g] = Now[g] /\ "RESET_CFG" \notin Todo)

\* The entity shows the last value read, or the running operation will tell it.
Told(g) ==
  want[g] = Nil => \/ shown[g] = reported[g] \/ g \in Unread \/ snap[g] # Nil
                   \/ op \in ReadOps /\ g \in task.readOk

\* The link is up, and neither the radar nor the operation is about to go.
Steady == life = "RUNNING" /\ ~belief.unsupported /\ ~task.failing /\ op # "RESTART"

\* Whatever is sent is read back.
ShownInv ==
  Steady => /\ Unset \subseteq Unread
            /\ \A g \in Groups : Usable(g) => Right(g) /\ Told(g)

SeenInv == FirstReadInv /\ LifeInv /\ BootInv /\ ShownInv

LEMMA SeenInit == ASSUME Init PROVE SeenInv
  BY DEF Init, BootTask, SeenInv, FirstReadInv, LifeInv, BootInv, ShownInv, Steady

\* The engine is not in RUNNING, and has not read the settings yet.
LEMMA SeenElse ==
  ASSUME op' \notin {"BOOT_READ", "MODE_SWITCH"}, op' = "PROBE" => life' = "PROBE",
         life' # "RUNNING" \/ op' = "RESTART" \/ task'.failing, ~task'.firstRead
  PROVE  SeenInv'
  BY DEF SeenInv, FirstReadInv, LifeInv, BootInv, ShownInv, Steady

LEMMA SeenFail ==
  ASSUME SeenInv, UNCHANGED <<life, op>>, task'.failing, ~task'.firstRead
  PROVE  SeenInv'
  BY DEF SeenInv, FirstReadInv, LifeInv, BootInv, ShownInv, Steady

\* The setting of group g as it was, or still to be read.
Kept(g) == Now'[g] = Now[g] \/ g \in Unread \/ ~Usable(g) \/ ~Steady

\* Operations that leave the settings alone.
Apart == {"NONE", "PING", "RUN_CTRL"}

LEMMA SeenFrame ==
  ASSUME SeenInv, UNCHANGED <<life, unsup, reported, want, shown, snap>>,
         op' = op \/ {op, op'} \subseteq Apart,
         task'.readOk = task.readOk, task'.firstRead => task.firstRead,
         task.failing => task'.failing, belief'.unsupported = belief.unsupported,
         radar'.fw = radar.fw, \A g \in Groups : Kept(g),
         Unset' \subseteq Unset, Unread \subseteq Unread',
         "RESET_CFG" \in Todo' => "RESET_CFG" \in Todo,
         "FIRST_READ" \in Todo' <=> "FIRST_READ" \in Todo
  PROVE  SeenInv'
  <1>1. FirstReadInv' BY DEF SeenInv, FirstReadInv, Apart
  <1>2. LifeInv' BY DEF SeenInv, LifeInv, Apart
  <1>3. BootInv'
    BY DEF SeenInv, BootInv, Apart
  <1>4. ShownInv'
    <2> SUFFICES ASSUME Steady'
                 PROVE  /\ Unset' \subseteq Unread'
                        /\ \A g \in Groups : Usable(g)' => Right(g)' /\ Told(g)'
      BY DEF ShownInv
    <2>1. Steady BY DEF Steady, Apart
    <2>2. Unset' \subseteq Unread' BY <2>1 DEF SeenInv, ShownInv
    <2>3. ASSUME NEW g \in Groups, Usable(g)' PROVE Right(g)' /\ Told(g)'
      <3>1. Usable(g) BY <2>3 DEF Usable
      <3>2. Right(g) /\ Told(g) BY <2>1, <3>1 DEF SeenInv, ShownInv
      <3>3. Right(g)' BY <2>1, <3>1, <3>2 DEF Right, Kept
      <3>4. Told(g)' BY <3>2 DEF Told, ReadOps, Apart
      <3> QED BY <3>3, <3>4
    <2> QED BY <2>2, <2>3
  <1> QED BY <1>1, <1>2, <1>3, <1>4 DEF SeenInv

LEMMA SeenSend == ASSUME TypeOK, SeenInv, Send PROVE SeenInv'
  <1>1. Todo' = Todo BY SendLeft DEF Todo
  <1>2. Unread' = Unread /\ Unset' = Unset BY RestSend DEF Unread, Unset
  <1>3. UNCHANGED <<life, op, task, belief, radar, unsup, reported, want, shown, snap>>
    BY DEF Send, params
  <1>4. \A g \in Groups : Kept(g) BY <1>3 DEF Kept, Now
  <1> QED BY <1>1, <1>2, <1>3, <1>4, SeenFrame

\* A set command changes no setting but its own.
LEMMA SetElsewhere ==
  ASSUME radar \in RadarType, NEW x \in Groups, NEW o \in SetOutcomes(x)
  PROVE  \/ o.radar.val = radar.val
         \/ \E v \in Vals : o.radar.val = [radar.val EXCEPT ![radar.app][x] = v]
  <1>1. CASE o.result # "OK" BY <1>1, SetFields
  <1>2. CASE o.result = "OK"
    <2>1. \A r \in {"UNRECOGNIZED", "ERROR", "NOT_STOPPED"} : o # Out(radar, r)
      BY <1>2 DEF Out
    <2>2. o \notin Refusals(~HasModes) BY <1>2 DEF Refusals, Out
    <2>3. PICK v \in Vals :
            o = Out([radar EXCEPT !.val[radar.app][x] = v,
                                  !.unsaved = @ \/ v # Now[x]], "OK")
      BY <2>1, <2>2 DEF SetOutcomes
    <2>4. o.radar.val = [radar.val EXCEPT ![radar.app][x] = v]
      BY <2>3 DEF Out, RadarType
    <2> QED BY <2>4
  <1> QED BY <1>1, <1>2

\* What a command may do to the settings: those it changes are read again.
LEMMA OutcomesKept ==
  ASSUME TypeOK, OrderInv, KeptInv, SeenInv, ~HasModes, fly # Nil,
         NEW o \in Outcomes(fly), radar' = o.radar
  PROVE  radar'.fw = radar.fw /\ \A g \in Groups : Kept(g)
  <1>1. fly \in WireCommand /\ fly.id \in WireIds /\ radar \in RadarType
    BY DEF TypeOK, WireOK, WireCommand, Command
  <1>2. fly.id \in Allowed(op) /\ fly.id \in Todo BY DEF OrderInv, Orderly, Left, Todo
  <1>3. /\ radar'.fw = radar.fw
        /\ fly.id # "SET_RUN_APP" => radar'.app = radar.app
        /\ fly.id \notin {"SET_GROUP", "RESET_CFG", "RESET_SYSTEM"} =>
             radar'.val = radar.val
    BY <1>1, OutcomesSettings
  <1>4. ASSUME NEW g \in Groups PROVE Kept(g)
    <2>1. CASE fly.id = "SET_GROUP"
      <3>1. PICK x \in fly.groups : o \in SetOutcomes(x) BY <2>1 DEF Outcomes
      <3>2. x \in Groups BY <1>1, <3>1 DEF WireCommand, Command
      <3>3. CASE radar'.val = radar.val
        BY <1>1, <1>3, <2>1, <3>3 DEF Kept, Now
      <3>4. CASE \E v \in Vals : radar'.val = [radar.val EXCEPT ![radar.app][x] = v]
        <4>1. PICK v \in Vals : radar'.val = [radar.val EXCEPT ![radar.app][x] = v]
          BY <3>4
        <4>2. radar.val \in [Modes -> [Groups -> Vals]] /\ radar.app \in Modes
          BY <1>1 DEF RadarType
        <4>3. radar'.app = radar.app BY <1>3, <2>1
        <4>4. g # x => Now'[g] = Now[g] BY <3>2, <4>1, <4>2, <4>3 DEF Now
        <4>5. x \in Unset BY <2>1, <3>1 DEF Unset, Rest
        <4>6. Steady => x \in Unread BY <4>5 DEF SeenInv, ShownInv
        <4> QED BY <4>4, <4>6 DEF Kept
      <3>5. \/ o.radar.val = radar.val
            \/ \E v \in Vals : o.radar.val = [radar.val EXCEPT ![radar.app][x] = v]
        BY <1>1, <3>1, <3>2, SetElsewhere
      <3> QED BY <3>3, <3>4, <3>5
    <2>2. CASE fly.id = "RESET_CFG"
      <3>1. Steady /\ Usable(g) => g \in Unread
        BY <1>2, <2>2 DEF SeenInv, ShownInv, Right
      <3> QED BY <3>1 DEF Kept
    <2>3. CASE fly.id = "RESET_SYSTEM"
      <3>1. op = "RESTART" BY <1>2, <2>3 DEF Allowed
      <3> QED BY <3>1 DEF Kept, Steady
    <2>4. CASE fly.id = "SET_RUN_APP"
      <3>1. op = "MODE_SWITCH" BY <1>2, <2>4 DEF Allowed
      <3> QED BY <3>1 DEF SeenInv, LifeInv
    <2>5. CASE fly.id \notin {"SET_GROUP", "RESET_CFG", "RESET_SYSTEM", "SET_RUN_APP"}
      BY <1>3, <2>5 DEF Kept, Now
    <2> QED BY <2>1, <2>2, <2>3, <2>4, <2>5
  <1> QED BY <1>3, <1>4

\* A get is done: its setting is read, or the radar has none.
LEMMA SeenGet ==
  ASSUME TypeOK, OrderInv, KeptInv, SeenInv, fly # Nil, fly.id = "GET_GROUP", NEW o,
         Complete(fly, o), radar'.fw = radar.fw, Now' = Now,
         NEW x \in Groups, fly.groups = {x},
         o.result = "OK" => o.val = Now[x] /\ x \in radar.fw.knows,
         o.result \notin {"OK", "MALFORMED", "TIMEOUT"} => x \notin radar.fw.knows
  PROVE  SeenInv'
  <1>1. /\ fly' = Nil /\ task \in TaskType /\ belief \in BeliefType
        /\ reported \in Settings /\ fly.id # "FIRST_READ" /\ fly.id # "SET_GROUP"
    BY DEF Complete, TypeOK, ControlOK, SettingsOK
  <1>2. op \in ReadOps /\ ~task.failing
    BY DEF OrderInv, Orderly, Left, Allowed, ReadOps
  <1>3. /\ Todo' = Ids(queue') /\ Todo = Ids(queue) \cup {"GET_GROUP"}
        /\ Ids(queue') \subseteq Ids(queue) \cup {"START", "SAVE", "FAIL_END", "GET_GROUP"}
    BY <1>1, DoneLeft DEF Todo, Left
  <1>4. Changing \cap Todo = {} /\ Changing \cap Todo' = {} BY ChangesFirst, KindsLeft
  <1>5. Unset = {} /\ Unset' = {} /\ "RESET_CFG" \notin Todo /\ "RESET_CFG" \notin Todo'
    <2>1. "SET_GROUP" \notin Ids(queue) /\ "SET_GROUP" \notin Ids(queue')
      BY <1>3, <1>4 DEF Changing
    <2>2. For("SET_GROUP", queue) = {} /\ For("SET_GROUP", queue') = {} BY <2>1, ForNone
    <2> QED BY <1>1, <1>4, <2>2 DEF Unset, Rest, Changing
  <1>6. \A g \in Groups : Kept(g) BY DEF Kept
  <1>7. "FIRST_READ" \in Todo' => "FIRST_READ" \in Todo BY <1>3
  <1>8. CASE o.result = "MALFORMED" /\ "REPARSE" \notin fly.flags
    <2>1. UNCHANGED <<life, op, task, belief, unsup, reported, want, shown, snap>>
      BY <1>8 DEF Complete, params
    <2>2. Unread' = Unread
      BY <1>2, <1>8, <2>1, RestDone DEF Unread, ReadOps
    <2>3. "FIRST_READ" \in Todo => "FIRST_READ" \in Todo'
      BY <1>1, <1>2, <1>3, <2>1, KindsLeft DEF ReadOps
    <2> QED BY <1>5, <1>6, <1>7, <2>1, <2>2, <2>3, SeenFrame
  <1>9. CASE ~(o.result = "MALFORMED" /\ "REPARSE" \notin fly.flags)
    <2>1. /\ UNCHANGED <<life, op, want, snap, shown>>
          /\ IF o.result = "OK" THEN GetApplied(x, o.val) ELSE GetFailed(fly, x, o.result)
      BY <1>9 DEF Complete, OnDone, GetGroupDone
    <2>2. CASE task'.failing
      <3>1. o.result # "OK"
        BY <1>1, <1>2, <2>1, <2>2 DEF GetApplied, TaskType
      <3>2. ~task.firstRead /\ task' = [task EXCEPT !.failing = TRUE]
        BY <1>2, <2>1, <2>2, <3>1 DEF GetFailed, OpFailed
      <3>3. ~task'.firstRead BY <1>1, <3>2 DEF TaskType
      <3> QED BY <2>1, <2>2, <3>3, SeenFail
    <2>3. CASE ~task'.failing
      <3>1. Unread' = For("GET_GROUP", queue) /\ Unread = Unread' \cup {x}
        BY <1>2, <1>9, <2>1, <2>3, RestDone DEF Unread, Rest, ReadOps
      <3>2. "FIRST_READ" \in Todo => "FIRST_READ" \in Todo'
        BY <1>1, <1>2, <1>3, <2>1, <2>3, KindsLeft DEF ReadOps
      <3>3. \/ /\ o.result = "OK" /\ belief' = belief
               /\ reported' = [reported EXCEPT ![x] = o.val]
               /\ unsup' = unsup \ {x} /\ task' = [task EXCEPT !.readOk = @ \cup {x}]
            \/ /\ op = "BOOT_READ" /\ unsup' = unsup \cup {x}
               /\ UNCHANGED <<task, belief, reported>>
            \/ /\ task.firstRead /\ UNCHANGED <<unsup, task, belief, reported>>
            \/ /\ x \notin radar.fw.knows /\ (op = "BOOT_READ" => x \notin Probe)
               /\ belief' \in {belief, [belief EXCEPT !.requiresStop = TRUE]}
               /\ UNCHANGED <<unsup, task, reported>>
        <4>1. CASE o.result = "OK" BY <2>1, <4>1 DEF GetApplied
        <4>2. CASE o.result # "OK" /\ o.result # "MALFORMED" /\ x \in Probe /\ op = "BOOT_READ"
          BY <2>1, <4>2 DEF GetFailed
        <4>3. CASE /\ o.result \in {"MALFORMED", "TIMEOUT"}
                   /\ ~(o.result # "MALFORMED" /\ x \in Probe /\ op = "BOOT_READ")
          <5>1. /\ IF task.firstRead THEN UNCHANGED <<queue, task>> ELSE OpFailed(fly)
                /\ UNCHANGED <<unsup, belief, reported>>
            BY <2>1, <4>3 DEF GetFailed
          <5>2. task.firstRead
            BY <1>1, <1>2, <2>3, <5>1 DEF OpFailed, TaskType
          <5> QED BY <5>1, <5>2
        <4>4. CASE /\ o.result \notin {"OK", "MALFORMED", "TIMEOUT"}
                   /\ ~(x \in Probe /\ op = "BOOT_READ")
          BY <2>1, <4>4 DEF GetFailed
        <4> QED BY <4>1, <4>2, <4>3, <4>4
      <3>4. task'.firstRead = task.firstRead /\ belief'.unsupported = belief.unsupported
        BY <1>1, <3>3 DEF TaskType, BeliefType
      <3>5. task.readOk \subseteq task'.readOk
        BY <1>1, <3>3 DEF TaskType
      <3>6. FirstReadInv' BY <2>1, <3>2, <3>4 DEF SeenInv, FirstReadInv
      <3>7. LifeInv' BY <2>1 DEF SeenInv, LifeInv
      <3>8. BootInv'
        <4> SUFFICES ASSUME op = "BOOT_READ", "FIRST_READ" \notin Todo', NEW g \in Groups
                     PROVE  g \in Unread' \cup unsup' \cup task'.readOk
                              \/ g \notin radar.fw.knows \cup Probe
          BY <2>1 DEF BootInv
        <4>1. "FIRST_READ" \notin Todo /\ ~task.firstRead
          BY <3>2 DEF SeenInv, FirstReadInv
        <4>2. g \in Unread \cup unsup \cup task.readOk \/ g \notin radar.fw.knows \cup Probe
          BY <1>2, <4>1 DEF SeenInv, BootInv
        <4>3. CASE g # x BY <3>1, <3>3, <3>5, <4>2, <4>3
        <4>4. CASE g = x
          BY <1>1, <3>3, <4>1, <4>4 DEF TaskType
        <4> QED BY <4>3, <4>4
      <3>9. ShownInv'
        <4> SUFFICES ASSUME Steady'
                     PROVE  \A g \in Groups : Usable(g)' => Right(g)' /\ Told(g)'
          BY <1>5 DEF ShownInv
        <4>1. Steady /\ op # "BOOT_READ"
          BY <1>2, <2>1, <3>4 DEF Steady, SeenInv, LifeInv
        <4>2. ~task.firstRead BY <4>1 DEF SeenInv, FirstReadInv
        <4>3. ASSUME NEW g \in Groups, Usable(g)', g # x PROVE Right(g)' /\ Told(g)'
          <5>1. Usable(g) /\ reported'[g] = reported[g]
            BY <1>1, <3>3, <4>1, <4>3 DEF Usable, Settings
          <5>2. Right(g) /\ Told(g) BY <4>1, <5>1 DEF SeenInv, ShownInv
          <5>3. Right(g)' BY <1>5, <3>1, <4>3, <5>1, <5>2 DEF Right
          <5>4. Told(g)' BY <2>1, <3>1, <3>5, <4>3, <5>1, <5>2 DEF Told
          <5> QED BY <5>3, <5>4
        <4>4. CASE o.result = "OK" /\ reported' = [reported EXCEPT ![x] = o.val]
                   /\ task' = [task EXCEPT !.readOk = @ \cup {x}]
          <5>1. reported'[x] = Now[x] /\ x \in task'.readOk
            BY <1>1, <4>4 DEF Settings, TaskType
          <5>2. Right(x)' /\ Told(x)'
            BY <1>2, <1>5, <2>1, <4>4, <5>1 DEF Right, Told
          <5> QED BY <4>3, <5>2
        <4>5. CASE x \notin radar.fw.knows /\ unsup' = unsup
          <5>1. ~Usable(x)' BY <4>1, <4>5 DEF SeenInv, ShownInv, Right, Usable
          <5> QED BY <4>3, <5>1
        <4> QED BY <3>3, <4>1, <4>2, <4>4, <4>5
      <3> QED BY <3>6, <3>7, <3>8, <3>9 DEF SeenInv
    <2> QED BY <2>2, <2>3
  <1> QED BY <1>8, <1>9

\* Such a command concerns only the radar, the queue and what is believed of it.
LEMMA PlainLeaves ==
  ASSUME TypeOK, fly # Nil, NEW o, OnDone(fly, o),
         fly.id \in {"SET_GROUP", "RESET_CFG", "STOP", "START", "SAVE"}
  PROVE  /\ UNCHANGED <<life, op, unsup, reported, want, shown, snap>>
         /\ belief'.unsupported = belief.unsupported
  <1>1. belief \in BeliefType BY DEF TypeOK, ControlOK
  <1>2. UNCHANGED <<life, op, unsup, reported, want, shown, snap>>
    BY DEF OnDone, SetGroupDone, ResetCfgDone, StopDone, StartDone, SaveDone, params
  <1>3. belief' \in {belief, [belief EXCEPT !.running = TRUE, !.known = TRUE],
                     [belief EXCEPT !.unconfirmed = TRUE],
                     [belief EXCEPT !.running = FALSE, !.known = TRUE],
                     [belief EXCEPT !.running = TRUE, !.known = TRUE,
                                    !.unconfirmed = FALSE]}
    BY DEF OnDone, SetGroupDone, ResetCfgDone, StopDone, StartDone, SaveDone
  <1> QED BY <1>1, <1>2, <1>3 DEF BeliefType

\* A command other than a get leaves alone what is still to be read.
LEMMA SeenPlain ==
  ASSUME TypeOK, OrderInv, SeenInv, fly # Nil, NEW o, Complete(fly, o),
         fly.id \in {"SET_GROUP", "RESET_CFG", "STOP", "START", "SAVE"},
         o.result # "MALFORMED", radar'.fw = radar.fw, \A g \in Groups : Kept(g)
  PROVE  SeenInv'
  <1>1. fly' = Nil /\ task \in TaskType /\ belief \in BeliefType /\ OnDone(fly, o)
    BY DEF Complete, TypeOK, ControlOK
  <1>2. /\ UNCHANGED <<life, op, unsup, reported, want, shown, snap>>
        /\ belief'.unsupported = belief.unsupported
    BY <1>1, PlainLeaves
  <1>3. /\ task'.readOk = task.readOk /\ task'.firstRead = task.firstRead
        /\ task.failing => task'.failing
    <2>1. \/ task' \in {task, [task EXCEPT !.failing = TRUE], [task EXCEPT !.error = TRUE],
                        [task EXCEPT !.saveError = TRUE]}
          \/ task' = [task EXCEPT !.setOk = @ \cup fly.groups]
          \/ task' = [task EXCEPT !.setFail = @ \cup fly.groups, !.error = TRUE]
      BY <1>1 DEF OnDone, SetGroupDone, ResetCfgDone, StopDone, StartDone, SaveDone,
                  OpFailed, SetError
    <2> QED BY <1>1, <2>1 DEF TaskType
  <1>4. "FIRST_READ" \notin Todo /\ "FIRST_READ" \notin Todo' /\ ~task'.firstRead
    <2>1. "FIRST_READ" \notin Todo BY <1>1, TodoDone
    <2>2. "FIRST_READ" \notin Todo' BY <1>1, <2>1, DoneLeft, TodoDone DEF Todo
    <2> QED BY <1>3, <2>1, <2>2 DEF SeenInv, FirstReadInv
  <1>5. CASE task'.failing BY <1>2, <1>4, <1>5, SeenFail
  <1>6. CASE ~task'.failing
    <2>1. op # "NONE" BY <1>1, TodoDone DEF Allowed
    <2>2. /\ Rest("GET_GROUP")' = For("GET_GROUP", queue)
          /\ Rest("SET_GROUP")' = For("SET_GROUP", queue)
      BY <1>2, <1>6, <2>1, RestDone
    <2>3. Unread' = Unread /\ Unset' \subseteq Unset BY <2>2 DEF Unread, Unset, Rest
    <2>4. "RESET_CFG" \in Todo' => "RESET_CFG" \in Todo BY KindsLeft DEF Changing
    <2> QED BY <1>2, <1>3, <1>4, <2>3, <2>4, SeenFrame
  <1> QED BY <1>5, <1>6

\* The radar is asked for its version, or restarts.
LEMMA SeenLink ==
  ASSUME TypeOK, OrderInv, SeenInv, fly # Nil, NEW o, Complete(fly, o),
         fly.id \in {"GET_SWV", "RESET_SYSTEM"},
         o.result # "MALFORMED", radar'.fw = radar.fw, \A g \in Groups : Kept(g)
  PROVE  SeenInv'
  <1>1. fly' = Nil /\ OnDone(fly, o) /\ fly.id \in Allowed(op)
    BY TodoDone DEF Complete
  <1>2. ~task.firstRead BY <1>1 DEF SeenInv, FirstReadInv, Allowed
  <1>3. CASE fly.id = "RESET_SYSTEM"
    <2>1. life' = "BOOT_WAIT" /\ op' = "NONE" /\ task' = task
      BY <1>1, <1>3 DEF OnDone, ResetSystemDone
    <2> QED BY <1>2, <2>1, SeenElse
  <1>4. CASE fly.id = "GET_SWV" /\ o.result = "TIMEOUT"
    <2>1. life' = "BACKOFF" /\ op' = "NONE" /\ task' = task
      BY <1>1, <1>4 DEF OnDone, GetSwvDone, EnterBackoff
    <2> QED BY <1>2, <2>1, SeenElse
  <1>5. CASE fly.id = "GET_SWV" /\ o.result # "TIMEOUT"
    <2>1. UNCHANGED <<life, op, queue, task, belief, unsup, reported, want, shown, snap>>
      BY <1>1, <1>5 DEF OnDone, GetSwvDone, params
    <2>2. "FIRST_READ" \notin Todo BY <1>1, <1>5, TodoDone
    <2>3. Todo = Todo' \cup {"GET_SWV"}
      <3>1. Todo' = Ids(queue') /\ Ids(queue') = Ids(queue)
        BY <1>1, <2>1, TodoDone DEF Ids
      <3> QED BY <1>1, <1>5, <3>1, TodoDone
    <2>4. Unread' = Unread /\ Unset' = Unset
      BY <1>1, <1>5, <2>1 DEF Unread, Unset, Rest, For
    <2> QED BY <2>1, <2>2, <2>3, <2>4, SeenFrame
  <1> QED BY <1>3, <1>4, <1>5

LEMMA SeenDone ==
  ASSUME TypeOK, OrderInv, KeptInv, SeenInv, ~HasModes, Answering, fly # Nil, NEW o,
         Complete(fly, o),
         \/ o \in Outcomes(fly) /\ o.result # "NONE" /\ radar' = o.radar
         \/ o.result = "TIMEOUT" /\ SameSettings
         \/ fly.id \in NoReply /\ o.result = "OK" /\ SameSettings
  PROVE  SeenInv'
  <1>1. /\ fly \in WireCommand /\ fly.id \in WireIds /\ fly.groups \subseteq Groups
        /\ radar \in RadarType
    BY DEF TypeOK, WireOK, WireCommand, Command
  <1>2. fly.id # "SET_RUN_APP"
    <2>1. fly.id \in Allowed(op) BY DEF OrderInv, Orderly, Left
    <2> QED BY <2>1 DEF SeenInv, LifeInv, Allowed
  <1>3. radar'.fw = radar.fw /\ \A g \in Groups : Kept(g)
    <2>1. CASE o \in Outcomes(fly) /\ radar' = o.radar BY <2>1, OutcomesKept
    <2>2. CASE SameSettings BY <2>2, NowSame DEF Kept, SameSettings
    <2> QED BY <2>1, <2>2
  <1>4. o.result = "MALFORMED" => fly.id = "GET_GROUP" BY <1>1, MalformedGet
  <1>5. CASE fly.id = "GET_GROUP"
    <2>1. fly.groups # {} => \E x \in Groups : fly.groups = {x} BY DEF KeptInv, OneGroup
    <2>2. CASE o.result = "TIMEOUT" /\ SameSettings
      <3>1. OnDone(fly, o) BY <2>2 DEF Complete
      <3>2. \E x \in fly.groups : TRUE BY <1>5, <3>1 DEF OnDone, GetGroupDone
      <3>3. PICK x \in Groups : fly.groups = {x} BY <2>1, <3>2
      <3> QED BY <1>5, <2>2, <3>3, NowSame, SeenGet DEF SameSettings
    <2>3. CASE o \in Outcomes(fly) /\ radar' = o.radar
      <3>1. \E x \in fly.groups : TRUE BY <1>5, <2>3 DEF Outcomes
      <3>2. PICK x \in Groups : fly.groups = {x} BY <2>1, <3>1
      <3>3. /\ o.radar = radar
            /\ o.result = "OK" => o.val = Now[x] /\ x \in radar.fw.knows
            /\ o.result \in {"OK", "MALFORMED", "SHORT", "UNRECOGNIZED", "ERROR"}
            /\ o.result = "SHORT" => "short" \in Faults
            /\ o.result = "UNRECOGNIZED" => x \notin radar.fw.knows
            /\ o.result = "ERROR" =>
                 (radar.running /\ ~radar.fw.getRun) \/ radar.app \notin GroupModes[x]
        BY <1>1, <1>5, <2>3, <3>2, GetAnswers
      <3>4. o.result # "ERROR"
        <4>1. radar.fw \in Firmwares /\ radar.app \in Modes BY <1>1 DEF RadarType
        <4>2. GroupModes[x] = Modes BY GroupAssumption
        <4> QED BY <3>3, <4>1, <4>2 DEF Answering
      <3>5. o.result # "SHORT" BY <3>3 DEF Answering
      <3>6. radar' = radar BY <2>3, <3>3
      <3>7. Now' = Now /\ radar'.fw = radar.fw BY <3>6 DEF Now
      <3> QED BY <1>5, <3>2, <3>3, <3>4, <3>5, <3>7, SeenGet
    <2> QED BY <1>5, <2>2, <2>3 DEF NoReply
  <1>6. CASE fly.id \in {"SET_GROUP", "RESET_CFG", "STOP", "START", "SAVE"}
    BY <1>3, <1>4, <1>6, SeenPlain
  <1>7. CASE fly.id \in {"GET_SWV", "RESET_SYSTEM"} BY <1>3, <1>4, <1>7, SeenLink
  <1> QED BY <1>1, <1>2, <1>5, <1>6, <1>7 DEF WireIds

LEMMA SeenWire ==
  ASSUME TypeOK, OrderInv, KeptInv, SeenInv, ~HasModes, Answering, WireNext
  PROVE  SeenInv'
  <1>1. radar \in RadarType /\ belief \in BeliefType BY DEF TypeOK, WireOK, ControlOK
  <1>2. CASE Answer BY <1>2, SeenDone DEF Answer
  <1>3. ASSUME UNCHANGED <<life, op, queue, fly, task, unsup, reported, want, shown, snap>>,
               belief'.unsupported = belief.unsupported, radar'.fw = radar.fw,
               \A g \in Groups : Kept(g)
        PROVE  SeenInv'
    <2>1. Todo' = Todo /\ Unread' = Unread /\ Unset' = Unset
      BY <1>3 DEF Todo, Left, Ids, Unread, Unset, Rest, For
    <2> QED BY <1>3, <2>1, SeenFrame
  <1>4. CASE CarriedOut
    <2>1. PICK o \in Outcomes(fly) : radar' = o.radar BY <1>4 DEF CarriedOut
    <2>2. fly # Nil /\ UNCHANGED <<life, op, queue, fly, task, belief, unsup, reported,
                                   want, shown, snap>>
      BY <1>4 DEF CarriedOut, params
    <2>3. radar'.fw = radar.fw /\ \A g \in Groups : Kept(g) BY <2>1, <2>2, OutcomesKept
    <2> QED BY <1>3, <2>2, <2>3
  <1>5. CASE CommandLost
    <2>1. UNCHANGED <<life, op, queue, fly, task, belief, unsup, reported, want, shown,
                      snap, radar>>
      BY <1>5 DEF CommandLost, params
    <2> QED BY <1>3, <2>1 DEF Kept, Now
  <1>6. CASE Timeout
    <2>1. fly # Nil /\ SameSettings BY <1>6, WaitedSettings DEF Timeout
    <2>2. CASE fly.id \in NoReply
      <3>1. Complete(fly, Out(radar, "OK")) BY <1>6, <2>2 DEF Timeout
      <3>2. Out(radar, "OK").result = "OK" BY DEF Out
      <3> QED BY <2>1, <2>2, <3>1, <3>2, SeenDone
    <2>3. CASE fly.id \notin NoReply /\ fly.retries > 0
      <3>1. /\ fly' = [fly EXCEPT !.retries = @ - 1] /\ queue' = queue
            /\ UNCHANGED <<life, op, task, belief, unsup, reported, want, shown, snap>>
        BY <1>6, <2>3 DEF Timeout, params
      <3>2. fly \in Command BY <2>1 DEF TypeOK, WireOK, WireCommand
      <3>3. fly' \in Command /\ fly'.id = fly.id /\ fly'.groups = fly.groups
        BY <2>3, <3>1, <3>2, RetriesType DEF Command
      <3>4. fly' # Nil /\ queue' = queue BY <3>1, <3>3, NilAssumption
      <3>5. Todo' = Todo BY <2>1, <3>3, <3>4 DEF Todo, Left, Ids
      <3>6. Unread' = Unread /\ Unset' = Unset
        BY <2>1, <3>3, <3>4 DEF Unread, Unset, Rest, For
      <3>7. radar'.fw = radar.fw /\ \A g \in Groups : Kept(g)
        BY <2>1, NowSame DEF Kept, SameSettings
      <3> QED BY <3>1, <3>5, <3>6, <3>7, SeenFrame
    <2>4. CASE fly.id \notin NoReply /\ ~(fly.retries > 0)
      <3>1. Complete(fly, Out(radar, "TIMEOUT")) BY <1>6, <2>4 DEF Timeout
      <3>2. Out(radar, "TIMEOUT").result = "TIMEOUT" BY DEF Out
      <3> QED BY <2>1, <3>1, <3>2, SeenDone
    <2> QED BY <2>2, <2>3, <2>4
  <1>7. CASE Sentence
    <2>1. /\ UNCHANGED <<life, op, queue, fly, task, unsup, reported, want, shown, snap>>
          /\ radar' = [radar EXCEPT !.quiet = 0]
          /\ belief' = [belief EXCEPT !.running = TRUE, !.known = TRUE, !.armed = FALSE,
                              !.userStopped = @ /\ belief.running /\ belief.known]
      BY <1>7 DEF Sentence
    <2>2. SameSettings BY <1>1, <2>1 DEF RadarType, SameSettings
    <2>3. belief'.unsupported = belief.unsupported BY <1>1, <2>1 DEF BeliefType
    <2>4. radar'.fw = radar.fw /\ \A g \in Groups : Kept(g)
      BY <2>2, NowSame DEF Kept, SameSettings
    <2> QED BY <1>3, <2>1, <2>3, <2>4
  <1> QED BY <1>2, <1>4, <1>5, <1>6, <1>7, SeenSend DEF WireNext

LEMMA SeenUser ==
  ASSUME TypeOK, SeenInv, ~HasModes, "power" \notin UserOps, UserNext PROVE SeenInv'
  <1>1. CASE EspReboot
    <2>1. life' = "BOOT_WAIT" /\ op' = "NONE" /\ task' = BootTask BY <1>1 DEF EspReboot
    <2> QED BY <2>1, SeenElse DEF BootTask
  <1>2. CASE RequestRefresh \/ RequestRestart \/ RequestFactoryReset
             \/ \E on \in BOOLEAN : RequestRunning(on)
    <2>1. UNCHANGED <<life, op, queue, fly, task, belief, unsup, reported, want, shown,
                      snap, radar>>
      BY <1>2 DEF RequestRefresh, RequestRestart, RequestFactoryReset, RequestRunning,
                  Request, params
    <2>2. Todo' = Todo /\ Unread' = Unread /\ Unset' = Unset
      BY <2>1 DEF Todo, Left, Ids, Unread, Unset, Rest, For
    <2> QED BY <2>1, <2>2, SeenFrame DEF Kept, Now
  <1>3. ASSUME NEW x \in Groups, NEW v \in Vals, SetDesired(x, v) PROVE SeenInv'
    <2>1. UNCHANGED <<life, op, queue, fly, belief, unsup, reported, snap, radar>>
      BY <1>3 DEF SetDesired
    <2>2. Todo' = Todo /\ Unread' = Unread /\ Unset' = Unset /\ Now' = Now
      BY <2>1 DEF Todo, Left, Ids, Unread, Unset, Rest, For, Now
    <2>3. /\ task'.readOk = task.readOk /\ task'.firstRead = task.firstRead
          /\ task'.failing = task.failing
      <3>1. task \in TaskType /\ task' \in {task, [task EXCEPT !.error = TRUE]}
        BY <1>3 DEF TypeOK, ControlOK, SetDesired
      <3> QED BY <3>1 DEF TaskType
    <2>4. FirstReadInv' /\ LifeInv' /\ BootInv'
      BY <2>1, <2>2, <2>3 DEF SeenInv, FirstReadInv, LifeInv, BootInv
    <2>5. \A g \in Groups : Told(g) => Told(g)'
      <3>1. want \in Settings /\ shown \in Settings /\ v # Nil
        BY NilAssumption DEF TypeOK, SettingsOK
      <3>2. \/ shown' = [shown EXCEPT ![x] = reported[x]] /\ want' = want
            \/ shown' = [shown EXCEPT ![x] = v] /\ want' = [want EXCEPT ![x] = v]
        BY <1>3 DEF SetDesired, Display, InMode
      <3> QED BY <2>1, <2>2, <2>3, <3>1, <3>2 DEF Told, Settings
    <2>6. ShownInv'
      BY <2>1, <2>2, <2>3, <2>5 DEF SeenInv, ShownInv, Steady, Right, Usable
    <2> QED BY <2>4, <2>6 DEF SeenInv
  <1> QED BY <1>1, <1>2, <1>3 DEF UserNext, SetWorkMode, RadarPowerCycle

\* At a marker nothing is left to be read or sent.
LEMMA SeenMarker ==
  ASSUME TypeOK, EndInv, OrderInv, SeenInv, NEW id \in EndMarkers \ {"FAIL_END"},
         AtMarker(id)
  PROVE  /\ Unread = {} /\ Unset = {} /\ ~task.failing /\ fly = Nil
         /\ Tail(queue) = <<>> /\ Todo = {id} /\ id \in EndsOf(op)
         /\ id # "FIRST_READ" => ~task.firstRead
  <1>1. /\ task.failing = FALSE /\ fly = Nil /\ Tail(queue) = <<>> /\ Ids(queue) = {id}
        /\ id \in EndsOf(op)
    BY OrderMarker
  <1>2. Todo = {id} BY <1>1 DEF Todo, Left
  <1>3. For("GET_GROUP", queue) = {} /\ For("SET_GROUP", queue) = {}
    BY <1>1, ForNone DEF EndMarkers
  <1>4. Unread = {} /\ Unset = {} BY <1>1, <1>3 DEF Unread, Unset, Rest
  <1>5. id # "FIRST_READ" => ~task.firstRead BY <1>2 DEF SeenInv, FirstReadInv
  <1> QED BY <1>1, <1>2, <1>4, <1>5

\* Nothing is left to do, in flight or of the operation.
LEMMA NothingLeft ==
  ASSUME queue' = <<>>, fly' = Nil PROVE Todo' = {} /\ Unread' = {} /\ Unset' = {}
  <1>1. Ids(<<>>) = {} BY IdsEmpty
  <1>2. For("GET_GROUP", <<>>) = {} /\ For("SET_GROUP", <<>>) = {} BY <1>1, ForNone
  <1> QED BY <1>1, <1>2 DEF Todo, Left, Unread, Unset, Rest

\* An operation ends and every entity shows what was read.
LEMMA SeenOver ==
  ASSUME op' = "NONE", queue' = <<>>, fly' = Nil, ~task'.firstRead,
         Steady' => \A g \in Groups : Usable(g)' =>
           /\ g \in radar'.fw.knows /\ reported'[g] = Now'[g]
           /\ want'[g] = Nil => shown'[g] = reported'[g]
  PROVE  SeenInv'
  <1>1. Todo' = {} /\ Unread' = {} /\ Unset' = {} BY NothingLeft
  <1>2. FirstReadInv' /\ LifeInv' /\ BootInv' BY DEF FirstReadInv, LifeInv, BootInv
  <1>3. ShownInv' BY <1>1 DEF ShownInv, Right, Told
  <1> QED BY <1>2, <1>3 DEF SeenInv

LEMMA SeenReadEnd ==
  ASSUME TypeOK, EndInv, OrderInv, KeptInv, SeenInv, ~HasModes, ReadEnd PROVE SeenInv'
  <1>1. /\ Unread = {} /\ ~task.failing /\ fly = Nil /\ Tail(queue) = <<>>
        /\ ~task.firstRead /\ "READ_END" \in EndsOf(op)
    BY SeenMarker DEF ReadEnd, EndMarkers
  <1>2. op = "READ" /\ snap = NoValue
    BY <1>1 DEF ReadEnd, EndsOf, KeptInv, SnapInv
  <1>3. /\ op' = "NONE" /\ queue' = <<>> /\ fly' = Nil
        /\ UNCHANGED <<life, belief, want, reported, unsup, radar>>
    BY <1>1 DEF ReadEnd
  <1>4. ~task'.firstRead
    <2>1. task \in TaskType /\ task' = [task EXCEPT !.stopped = FALSE]
      BY DEF ReadEnd, TypeOK, ControlOK
    <2> QED BY <1>1, <2>1 DEF TaskType
  <1>5. ASSUME Steady', NEW g \in Groups, Usable(g)'
        PROVE  /\ g \in radar'.fw.knows /\ reported'[g] = Now'[g]
               /\ want'[g] = Nil => shown'[g] = reported'[g]
    <2>1. Steady /\ Usable(g) BY <1>1, <1>2, <1>3, <1>5 DEF Steady, Usable
    <2>2. Right(g) /\ Told(g) BY <2>1 DEF SeenInv, ShownInv
    <2>3. shown'[g] = IF g \in task.readOk /\ want[g] = Nil THEN reported[g] ELSE shown[g]
      BY DEF ReadEnd, Display, InMode
    <2> QED BY <1>1, <1>2, <1>3, <2>2, <2>3 DEF Right, Told, NoValue, Now
  <1> QED BY <1>3, <1>4, <1>5, SeenOver

LEMMA SeenTxnEnd ==
  ASSUME TypeOK, EndInv, OrderInv, SeenInv, ~HasModes, TxnEnd PROVE SeenInv'
  <1>1. /\ Unread = {} /\ ~task.failing /\ fly = Nil /\ Tail(queue) = <<>>
        /\ ~task.firstRead /\ "TXN_END" \in EndsOf(op)
    BY SeenMarker DEF TxnEnd, EndMarkers
  <1>2. op \in {"TXN", "FACTORY_RESET"} BY <1>1 DEF EndsOf
  <1>3. /\ op' = "NONE" /\ queue' = <<>> /\ fly' = Nil
        /\ UNCHANGED <<life, belief, want, reported, unsup, radar>>
    BY <1>1 DEF TxnEnd
  <1>4. ~task'.firstRead
    <2>1. task \in TaskType /\ \E bad : task' = [task EXCEPT !.stopped = FALSE, !.error = bad]
      BY DEF TxnEnd, TypeOK, ControlOK
    <2> QED BY <1>1, <2>1 DEF TaskType
  <1>5. ASSUME Steady', NEW g \in Groups, Usable(g)'
        PROVE  /\ g \in radar'.fw.knows /\ reported'[g] = Now'[g]
               /\ want'[g] = Nil => shown'[g] = reported'[g]
    <2>1. Steady /\ Usable(g) BY <1>1, <1>2, <1>3, <1>5 DEF Steady, Usable
    <2>2. Right(g) /\ Told(g) BY <2>1 DEF SeenInv, ShownInv
    <2>3. shown'[g] = IF g \in task.readOk \/ snap[g] # Nil THEN reported[g] ELSE shown[g]
      BY DEF TxnEnd, Display, InMode
    <2> QED BY <1>1, <1>3, <2>2, <2>3 DEF Right, Told, Now
  <1> QED BY <1>3, <1>4, <1>5, SeenOver

\* The identify-and-read has read whatever the radar has.
LEMMA BootHasRead ==
  ASSUME TypeOK, EndInv, OrderInv, KeptInv, SeenInv, ~HasModes, Answering,
         AtMarker("READ_END"), op = "BOOT_READ", NEW g \in Groups, Usable(g),
         g \in radar.fw.knows \cup Probe \/ RangeGroup \in task.readOk
  PROVE  g \in task.readOk /\ g \in radar.fw.knows /\ reported[g] = Now[g]
  <1>1. radar.fw \in Firmwares BY DEF TypeOK, WireOK, RadarType
  <1>2. Unread = {} /\ ~task.failing /\ Todo = {"READ_END"} BY SeenMarker DEF EndMarkers
  <1>3. \A x \in task.readOk : reported[x] = Now[x] /\ x \in radar.fw.knows
    BY DEF KeptInv, ReadTrue, ReadOps
  <1>4. g \in radar.fw.knows \cup Probe BY <1>1, <1>3 DEF Answering
  <1>5. g \in unsup \cup task.readOk BY <1>2, <1>4 DEF SeenInv, BootInv
  <1> QED BY <1>3, <1>5 DEF Usable

LEMMA SeenBootReadEnd ==
  ASSUME TypeOK, EndInv, OrderInv, KeptInv, SeenInv, ~HasModes, Answering, BootReadEnd
  PROVE  SeenInv'
  <1>1. /\ Unread = {} /\ ~task.failing /\ fly = Nil /\ Tail(queue) = <<>>
        /\ ~task.firstRead /\ AtMarker("READ_END") /\ op = "BOOT_READ"
    BY SeenMarker DEF BootReadEnd, EndMarkers
  <1>2. /\ op' = "NONE" /\ queue' = <<>> /\ fly' = Nil
        /\ UNCHANGED <<want, snap, reported, unsup, radar>>
    BY <1>1 DEF BootReadEnd
  <1>3. PICK silent, reports : FinishBootRead(silent, reports) BY DEF BootReadEnd
  <1>4. belief'.unsupported = (RangeGroup \notin task.readOk)
    <2>1. belief \in BeliefType BY DEF TypeOK, ControlOK
    <2>2. \E a : belief' = [belief EXCEPT !.unsupported = RangeGroup \notin task.readOk,
                              !.everRunning = TRUE, !.unconfirmed = FALSE, !.armed = a]
      BY <1>3 DEF FinishBootRead
    <2> QED BY <2>1, <2>2 DEF BeliefType
  <1>5. ~task'.firstRead
    <2>1. /\ task \in TaskType
          /\ \E bad : task' = [task EXCEPT !.stopped = FALSE, !.error = bad]
      BY <1>3 DEF FinishBootRead, TypeOK, ControlOK
    <2> QED BY <1>1, <2>1 DEF TaskType
  <1>6. \A g \in Groups :
          shown'[g] = IF want[g] = Nil /\ g \in task.readOk THEN reported[g] ELSE shown[g]
    BY <1>3 DEF FinishBootRead, Display, InMode
  <1>7. ASSUME Steady', NEW g \in Groups, Usable(g)'
        PROVE  /\ g \in radar'.fw.knows /\ reported'[g] = Now'[g]
               /\ want'[g] = Nil => shown'[g] = reported'[g]
    <2>1. RangeGroup \in task.readOk /\ Usable(g)
      BY <1>2, <1>4, <1>7 DEF Steady, Usable
    <2>2. g \in task.readOk /\ g \in radar.fw.knows /\ reported[g] = Now[g]
      BY <1>1, <2>1, BootHasRead
    <2> QED BY <1>2, <1>6, <2>2 DEF Now
  <1> QED BY <1>2, <1>5, <1>7, SeenOver

\* The first get is answered: everything else is asked for.
LEMMA SeenFirstRead ==
  ASSUME TypeOK, EndInv, OrderInv, KeptInv, SeenInv, ~HasModes, FirstRead PROVE SeenInv'
  <1> DEFINE some == Gets(Readable(Groups \ {RangeGroup}))
             all == Gets(Readable(Groups))
             recovery == IF RecoveryStart THEN Start({"RECOVERY"}) ELSE <<>>
             start == IF belief.userStopped THEN <<>> ELSE Start({})
             end == Marker("READ_END")
  <1>1. ~task.failing /\ Tail(queue) = <<>> /\ "FIRST_READ" \in EndsOf(op)
    BY SeenMarker DEF FirstRead, EndMarkers
  <1>2. op = "BOOT_READ" /\ life = "PROBE" BY <1>1 DEF EndsOf, SeenInv, LifeInv
  <1>3. UNCHANGED <<life, op, fly, unsup, radar>> /\ fly = Nil
    BY DEF FirstRead, AtMarker, params
  <1>4. ~task'.firstRead /\ task'.readOk = task.readOk
    <2>1. task \in TaskType BY DEF TypeOK, ControlOK
    <2> QED BY <2>1 DEF FirstRead, TaskType
  <1>5. /\ some \in Seq(Command)
        /\ For("GET_GROUP", some) = {g \in Groups \ {RangeGroup} : Usable(g)}
        /\ all \in Seq(Command) /\ For("GET_GROUP", all) = {g \in Groups : Usable(g)}
    <2>1. /\ Readable(Groups) = {g \in Groups : Usable(g)}
          /\ Readable(Groups \ {RangeGroup}) = {g \in Groups \ {RangeGroup} : Usable(g)}
      BY AllReadable
    <2>2. Readable(Groups) \in SUBSET Groups /\ Readable(Groups \ {RangeGroup}) \in SUBSET Groups
      BY <2>1
    <2> QED BY <2>1, <2>2, ForGets
  <1>6. recovery \in Seq(Command) /\ start \in Seq(Command) /\ end \in Seq(Command)
    BY StartType, MarkerType DEF Flags, Markers, EndMarkers
  <1>7. \/ queue' = <<>> \o some \o recovery \o end /\ RangeGroup \in task.readOk
        \/ queue' = <<>> \o Stop \o all \o start \o end
    BY <1>1 DEF FirstRead
  <1>8. <<>> \o some = some /\ <<>> \o Stop = Stop /\ Stop \in Seq(Command)
    BY <1>5, StopType, ConcatEmptySeq
  <1> HIDE DEF some, all, recovery, start, end
  <1>9. \A g \in Groups : Usable(g) => g \in Unread' \cup task.readOk
    <2>1. CASE queue' = some \o recovery \o end /\ RangeGroup \in task.readOk
      <3>1. For("GET_GROUP", some) \subseteq For("GET_GROUP", queue')
        BY <1>5, <1>6, <2>1, For3
      <3> QED BY <1>5, <2>1, <3>1 DEF Unread, Rest
    <2>2. CASE queue' = Stop \o all \o start \o end
      <3> DEFINE r == Stop \o all \o start
      <3>1. r \in Seq(Command) /\ For("GET_GROUP", all) \subseteq For("GET_GROUP", r)
        BY <1>5, <1>6, <1>8, For3, Ids3
      <3>2. queue' = r \o end BY <2>2
      <3> HIDE DEF r
      <3>3. For("GET_GROUP", r) \subseteq For("GET_GROUP", queue')
        BY <1>6, <3>1, <3>2, ForConcat
      <3> QED BY <1>5, <3>1, <3>3 DEF Unread, Rest
    <2> QED BY <1>7, <1>8, <2>1, <2>2
  <1>10. BootInv'
    BY <1>3, <1>4, <1>9 DEF BootInv, Usable
  <1> QED BY <1>2, <1>3, <1>4, <1>10 DEF SeenInv, FirstReadInv, LifeInv, ShownInv, Steady

LEMMA SeenProbeDone ==
  ASSUME TypeOK, EndInv, OrderInv, SeenInv, ~HasModes, ProbeDone PROVE SeenInv'
  <1> DEFINE gets == Gets({RangeGroup})
             end == Marker("FIRST_READ")
  <1>1. Tail(queue) = <<>> /\ "PROBE_DONE" \in EndsOf(op)
    BY SeenMarker DEF ProbeDone, EndMarkers
  <1>2. op' = "BOOT_READ" /\ life' = "PROBE"
    BY <1>1 DEF ProbeDone, EndsOf, SeenInv, LifeInv
  <1>3. gets \in Seq(Command) /\ end \in Seq(Command) /\ Ids(end) = {"FIRST_READ"}
    BY GetsType, MarkerType, IdsMarker, GroupAssumption DEF Markers, EndMarkers
  <1>4. queue' = <<>> \o gets \o end BY <1>1 DEF ProbeDone
  <1> HIDE DEF gets, end
  <1>5. "FIRST_READ" \in Todo'
    <2>1. queue' = gets \o end BY <1>3, <1>4, ConcatEmptySeq
    <2>2. Ids(gets \o end) = Ids(gets) \cup Ids(end) BY <1>3, IdsConcat
    <2> QED BY <1>3, <2>1, <2>2 DEF Todo, Left
  <1> QED BY <1>2, <1>5 DEF SeenInv, FirstReadInv, LifeInv, BootInv, ShownInv, Steady

LEMMA SeenFailEnd == ASSUME TypeOK, OrderInv, SeenInv, FailEnd PROVE SeenInv'
  <1>1. /\ fly = Nil /\ queue \in Seq(Command) /\ queue # <<>>
        /\ Head(queue).id = "FAIL_END"
    BY DEF FailEnd, AtMarker, TypeOK, ControlOK
  <1>2. "FAIL_END" \in Ids(queue) /\ Todo = Ids(queue)
    BY <1>1, IdsTail DEF Todo, Left
  <1>3. "FIRST_READ" \notin Todo BY <1>1, <1>2 DEF OrderInv, Orderly, Left
  <1>4. ~task'.firstRead
    <2>1. /\ task \in TaskType
          /\ task' = [task EXCEPT !.error = TRUE, !.failing = FALSE, !.stopped = FALSE]
      BY DEF FailEnd, TypeOK, ControlOK
    <2> QED BY <1>3, <2>1 DEF TaskType, SeenInv, FirstReadInv
  <1>5. life' = "BACKOFF" /\ op' = "NONE" BY DEF FailEnd, EnterBackoff
  <1> QED BY <1>4, <1>5, SeenElse

LEMMA SeenSkip == ASSUME TypeOK, SeenInv, SkipSave PROVE SeenInv'
  <1>1. /\ queue \in Seq(Command) /\ queue # <<>> /\ Head(queue).id = "SAVE"
        /\ queue' = Tail(queue) /\ fly = Nil
        /\ UNCHANGED <<life, op, fly, task, belief, unsup, reported, want, shown, snap, radar>>
    BY DEF SkipSave, Skippable, TypeOK, ControlOK, params
  <1>2. Todo = {"SAVE"} \cup Todo'
    <2>1. Ids(queue) = {"SAVE"} \cup Ids(Tail(queue)) BY <1>1, IdsHead
    <2> QED BY <1>1, <2>1 DEF Todo, Left, Ids
  <1>3. Unread' = Unread /\ Unset' = Unset
    <2>1. \A k : For(k, queue) =
            (IF Head(queue).id = k THEN Head(queue).groups ELSE {}) \cup For(k, Tail(queue))
      BY <1>1, ForHead
    <2>2. \A k \in {"GET_GROUP", "SET_GROUP"} : For(k, queue) = For(k, queue')
      BY <1>1, <2>1
    <2> QED BY <1>1, <2>2 DEF Unread, Unset, Rest
  <1> QED BY <1>1, <1>2, <1>3, SeenFrame DEF Kept, Now

\* The radar is started or stopped, or has answered.
LEMMA SeenRunEnd ==
  ASSUME TypeOK, EndInv, OrderInv, SeenInv, RunDone \/ PingEnd PROVE SeenInv'
  <1>1. PICK id \in {"RUN_DONE", "PING_END"} : AtMarker(id) BY DEF RunDone, PingEnd
  <1>2. /\ Unread = {} /\ Unset = {} /\ fly = Nil /\ Tail(queue) = <<>>
        /\ Todo = {id} /\ id \in EndsOf(op)
    BY <1>1, SeenMarker DEF EndMarkers
  <1>3. op \in {"RUN_CTRL", "PING"} BY <1>1, <1>2 DEF EndsOf
  <1>4. /\ op' = "NONE" /\ queue' = <<>> /\ fly' = Nil
        /\ UNCHANGED <<life, task, belief, unsup, reported, want, shown, snap, radar>>
    BY <1>2 DEF RunDone, PingEnd, params
  <1>5. Todo' = {} /\ Unread' = {} /\ Unset' = {} BY <1>4, NothingLeft
  <1> QED BY <1>1, <1>2, <1>3, <1>4, <1>5, SeenFrame DEF Apart, Kept, Now

\* Without work modes there is no switch to wait for.
LEMMA NoModeWait ==
  ASSUME TypeOK, OrderInv, SeenInv PROVE ~ModeWait /\ ~ModeWaitSeen /\ ~ModeWaitExpired
  <1>1. ASSUME ModeWait PROVE op = "MODE_SWITCH"
    <2>1. "MODE_WAIT" \in Ids(queue)
      BY <1>1, IdsTail DEF ModeWait, AtMarker, TypeOK, ControlOK
    <2> QED BY <2>1 DEF OrderInv, Orderly, Left, Allowed
  <1>2. ASSUME ModeWaitSeen \/ ModeWaitExpired PROVE op = "MODE_SWITCH"
    BY <1>2 DEF ModeWaitSeen, ModeWaitExpired, OrderInv, Orderly
  <1> QED BY <1>1, <1>2 DEF SeenInv, LifeInv

LEMMA SeenDrive ==
  ASSUME TypeOK, EndInv, OrderInv, KeptInv, SeenInv, ~HasModes, Answering, DriveNext
  PROVE  SeenInv'
  BY NoModeWait, SeenSkip, SeenProbeDone, SeenFirstRead, SeenReadEnd, SeenBootReadEnd,
     SeenTxnEnd, SeenRunEnd, SeenFailEnd DEF DriveNext

\* Between operations every entity without an unapplied change shows what the
\* radar has.
LEMMA SeenIdle ==
  ASSUME TypeOK, EndInv, OrderInv, KeptInv, SeenInv, Dry, op = "NONE"
  PROVE  /\ Unread = {} /\ Unset = {} /\ Todo = {} /\ fly = Nil
         /\ ~task.failing /\ ~task.firstRead /\ snap = NoValue
         /\ life = "RUNNING" /\ ~belief.unsupported =>
              \A g \in Groups : Usable(g) =>
                /\ g \in radar.fw.knows /\ reported[g] = Now[g]
                /\ want[g] = Nil => shown[g] = reported[g]
  <1>1. fly = Nil /\ queue = <<>> /\ ~task.failing BY OrderIdle DEF Dry
  <1>2. Unread = {} /\ Unset = {} /\ Todo = {}
    <2>1. Ids(<<>>) = {} BY IdsEmpty
    <2>2. For("GET_GROUP", <<>>) = {} /\ For("SET_GROUP", <<>>) = {} BY <2>1, ForNone
    <2> QED BY <1>1, <2>1, <2>2 DEF Unread, Unset, Rest, Todo, Left
  <1>3. ~task.firstRead BY DEF SeenInv, FirstReadInv
  <1>4. snap = NoValue BY DEF KeptInv, SnapInv
  <1>5. ASSUME life = "RUNNING", ~belief.unsupported, NEW g \in Groups, Usable(g)
        PROVE  /\ g \in radar.fw.knows /\ reported[g] = Now[g]
               /\ want[g] = Nil => shown[g] = reported[g]
    <2>1. Right(g) /\ Told(g) BY <1>1, <1>5 DEF SeenInv, ShownInv, Steady
    <2> QED BY <1>2, <1>4, <2>1 DEF Right, Told, NoValue, ReadOps
  <1> QED BY <1>1, <1>2, <1>3, <1>4, <1>5

\* Nothing in the queue reads or changes a setting.
LEMMA NothingAsked ==
  ASSUME fly' = Nil,
         {"GET_GROUP", "SET_GROUP", "RESET_CFG", "FIRST_READ"} \cap Ids(queue') = {}
  PROVE  /\ Unread' = {} /\ Unset' = {}
         /\ "RESET_CFG" \notin Todo' /\ "FIRST_READ" \notin Todo'
  <1>1. For("GET_GROUP", queue') = {} /\ For("SET_GROUP", queue') = {} BY ForNone
  <1> QED BY <1>1 DEF Todo, Left, Unread, Unset, Rest

\* Every usable setting is asked for.
LEMMA SeenReadAll ==
  ASSUME SeenInv, ~task'.firstRead, op' \notin {"PROBE", "BOOT_READ", "MODE_SWITCH"},
         UNCHANGED <<unsup, radar>>, \A g \in Groups : Usable(g) => g \in radar.fw.knows,
         Unset' = {}, \A g \in Groups : Usable(g) => g \in Unread'
  PROVE  SeenInv'
  <1>1. FirstReadInv' /\ LifeInv' /\ BootInv' BY DEF FirstReadInv, LifeInv, BootInv
  <1>2. ShownInv' BY DEF ShownInv, Right, Told, Usable
  <1> QED BY <1>1, <1>2 DEF SeenInv

LEMMA SeenStartRead ==
  ASSUME TypeOK, EndInv, OrderInv, KeptInv, SeenInv, ~HasModes,
         StartFactoryReset \/ StartRefresh \/ StartModeRead
  PROVE  SeenInv'
  <1> DEFINE back == ReadBack(Groups)
             gets == Gets(Readable(Groups))
             reset == <<Cmd("RESET_CFG", Retries, {}), Cmd("SAVE", 1, {})>>
             begin == Stop \o reset
  <1>1. /\ Dry /\ life = "RUNNING" /\ op = "NONE" /\ ~belief.unsupported
        /\ UNCHANGED <<fly, unsup, radar>> /\ op' \in {"FACTORY_RESET", "READ"}
    BY DEF StartFactoryReset, StartRefresh, StartModeRead, StartRead, Idle, params
  <1>2. ~task.firstRead /\ fly' = Nil
        /\ \A g \in Groups : Usable(g) => g \in radar.fw.knows
    BY <1>1, SeenIdle
  <1>3. ~task'.firstRead
    <2>1. task \in TaskType BY DEF TypeOK, ControlOK
    <2> QED BY <1>2, <2>1 DEF StartFactoryReset, BeginTxn, StartRefresh, StartModeRead,
                              StartRead, TaskType
  <1>4. /\ back \in Seq(Command) /\ For("SET_GROUP", back) = {}
        /\ For("GET_GROUP", back) = {g \in Groups : Usable(g)}
    BY ForReadBack
  <1>5. /\ gets \in Seq(Command) /\ For("SET_GROUP", gets) = {}
        /\ For("GET_GROUP", gets) = {g \in Groups : Usable(g)}
    BY AllReadable, ForGets
  <1>6. begin \in Seq(Command) /\ For("SET_GROUP", begin) = {}
    <2>1. reset \in Seq(Command)
      BY CmdType, RetriesType DEF WireIds
    <2>2. reset = <<Cmd("RESET_CFG", Retries, {})>> \o <<Cmd("SAVE", 1, {})>> OBVIOUS
    <2>3. /\ <<Cmd("RESET_CFG", Retries, {})>> \in Seq(Command)
          /\ <<Cmd("SAVE", 1, {})>> \in Seq(Command)
      BY CmdType, RetriesType DEF WireIds
    <2>4. Ids(reset) = {"RESET_CFG", "SAVE"}
      <3>1. /\ Ids(<<Cmd("RESET_CFG", Retries, {})>>) = {"RESET_CFG"}
            /\ Ids(<<Cmd("SAVE", 1, {})>>) = {"SAVE"}
        BY IdsCmd
      <3>2. Ids(<<Cmd("RESET_CFG", Retries, {})>> \o <<Cmd("SAVE", 1, {})>>)
              = Ids(<<Cmd("RESET_CFG", Retries, {})>>) \cup Ids(<<Cmd("SAVE", 1, {})>>)
        BY <2>3, IdsConcat
      <3>3. Ids(reset) = {"RESET_CFG"} \cup {"SAVE"} BY <2>2, <3>1, <3>2
      <3> QED BY <3>3
    <2> HIDE DEF reset
    <2>5. begin \in Seq(Command) /\ Ids(begin) = {"STOP", "RESET_CFG", "SAVE"}
      BY <2>1, <2>4, StopType, IdsStop, IdsConcat, ConcatType
    <2> HIDE DEF begin
    <2> QED BY <2>5, ForNone
  <1>7. /\ Stop \in Seq(Command) /\ For("SET_GROUP", Stop) = {}
        /\ \A id \in Markers : /\ Marker(id) \in Seq(Command)
                               /\ For("SET_GROUP", Marker(id)) = {}
    <2>1. Stop \in Seq(Command) /\ For("SET_GROUP", Stop) = {}
      BY StopType, IdsStop, ForNone
    <2>2. ASSUME NEW id \in Markers
          PROVE  Marker(id) \in Seq(Command) /\ For("SET_GROUP", Marker(id)) = {}
      <3>1. Marker(id) \in Seq(Command) /\ Ids(Marker(id)) = {id}
        BY <2>2, MarkerType, IdsMarker
      <3>2. id # "SET_GROUP" BY <2>2 DEF Markers, EndMarkers
      <3> QED BY <3>1, <3>2, ForNone
    <2> QED BY <2>1, <2>2
  <1>8. \E id \in Markers :
          \/ queue' = begin \o back \o Marker(id)
          \/ queue' = Stop \o back \o Marker(id)
          \/ queue' = gets \o Marker(id)
    BY DEF StartFactoryReset, StartRefresh, StartModeRead, StartRead, Markers, EndMarkers
  <1> HIDE DEF back, gets, begin
  <1>9. For("SET_GROUP", queue') = {} /\ {g \in Groups : Usable(g)} \subseteq For("GET_GROUP", queue')
    <2>1. PICK id \in Markers :
            \/ queue' = begin \o back \o Marker(id)
            \/ queue' = Stop \o back \o Marker(id)
            \/ queue' = gets \o Marker(id)
      BY <1>8
    <2> DEFINE end == Marker(id)
    <2>2. end \in Seq(Command) /\ For("SET_GROUP", end) = {} BY <1>7
    <2> HIDE DEF end
    <2>3. \A k : For(k, begin \o back \o end) = For(k, begin) \cup For(k, back) \cup For(k, end)
      BY <1>4, <1>6, <2>2, For3
    <2>4. \A k : For(k, Stop \o back \o end) = For(k, Stop) \cup For(k, back) \cup For(k, end)
      BY <1>4, <1>7, <2>2, For3
    <2>5. \A k : For(k, gets \o end) = For(k, gets) \cup For(k, end)
      BY <1>5, <2>2, ForConcat
    <2> QED BY <1>4, <1>5, <1>6, <1>7, <2>1, <2>2, <2>3, <2>4, <2>5 DEF end
  <1>10. Unset' = {} /\ \A g \in Groups : Usable(g) => g \in Unread'
    BY <1>2, <1>9 DEF Unset, Unread, Rest
  <1> QED BY <1>1, <1>2, <1>3, <1>10, SeenReadAll

\* Every setting sent is read back.
LEMMA SeenTxn ==
  ASSUME TypeOK, EndInv, OrderInv, KeptInv, SeenInv, ~HasModes, StartTxn PROVE SeenInv'
  <1> DEFINE dirty == {g \in Groups : want[g] # Nil}
             kept == {g \in dirty : Applicable(g)}
             sent == {g \in kept : Usable(g)}
             sets == Batch("SET_GROUP", sent, Retries)
             save == <<Cmd("SAVE", 1, {"OPTIONAL_SAVE"})>>
             back == ReadBack(sent)
             end == Marker("TXN_END")
  <1>1. Dry /\ life = "RUNNING" /\ op = "NONE" /\ ~belief.unsupported
    BY DEF StartTxn, MayApply, Idle
  <1>2. /\ UNCHANGED <<life, fly, belief, reported, unsup, radar>> /\ want' = NoValue
        /\ fly' = Nil
    BY <1>1, SeenIdle DEF StartTxn
  <1>3. kept = dirty BY DEF Applicable, InMode
  <1>4. ~task.firstRead /\ snap = NoValue
        /\ \A g \in Groups : Usable(g) =>
             /\ g \in radar.fw.knows /\ reported[g] = Now[g]
             /\ want[g] = Nil => shown[g] = reported[g]
    BY <1>1, SeenIdle
  <1>5. ~task'.firstRead
    <2>1. task \in TaskType BY DEF TypeOK, ControlOK
    <2>2. BeginTxn(task) \in TaskType /\ BeginTxn(task).firstRead = task.firstRead
      BY <2>1 DEF BeginTxn, TaskType
    <2> HIDE DEF BeginTxn
    <2>3. \/ task' = [BeginTxn(task) EXCEPT !.error = kept # dirty, !.setFail = kept]
          \/ task' = [BeginTxn(task) EXCEPT
                        !.error = kept # dirty, !.setFail = kept \ sent,
                        !.stopped = TRUE, !.restart = ~belief.userStopped]
      BY DEF StartTxn
    <2> HIDE DEF kept, dirty, sent
    <2> QED BY <1>4, <2>2, <2>3 DEF TaskType
  <1>6. CASE sent = {}
    <2>1. op' = "NONE" /\ queue' = <<>> BY <1>1, <1>6 DEF StartTxn, Dry
    <2>2. shown' = [g \in Groups |-> IF g \in dirty THEN Display(g, mode.work) ELSE shown[g]]
      BY <1>6 DEF StartTxn
    <2>3. \A g \in Groups : Usable(g) => shown'[g] = reported[g]
      BY <1>4, <2>2 DEF Display, InMode
    <2> QED BY <1>2, <1>4, <1>5, <2>1, <2>3, SeenOver DEF Usable, Now
  <1>7. CASE sent # {}
    <2>1. /\ op' = "TXN"
          /\ snap' = [g \in Groups |-> IF g \in kept THEN want[g] ELSE Nil]
          /\ shown' = [g \in Groups |->
                        IF g \in dirty \ kept THEN Display(g, mode.work) ELSE shown[g]]
          /\ queue' = Stop \o sets \o save \o back \o end
      BY <1>7 DEF StartTxn
    <2>2. \A g \in Groups : Usable(g) => snap'[g] # Nil \/ shown'[g] = reported[g]
      BY <1>3, <1>4, <2>1
    <2>3. sent \in SUBSET Groups /\ {g \in sent : Usable(g)} = sent OBVIOUS
    <2> HIDE DEF sent
    <2>4. sets \in Seq(Command) /\ For("SET_GROUP", sets) = sent /\ Ids(sets) \subseteq {"SET_GROUP"}
      BY <2>3, BatchType, ForBatch, IdsBatch, RetriesType DEF WireIds
    <2>5. /\ back \in Seq(Command) /\ For("GET_GROUP", back) = sent
          /\ For("SET_GROUP", back) = {} /\ Ids(back) \subseteq {"START", "GET_GROUP"}
      <3>1. /\ ReadBack(sent) \in Seq(Command)
            /\ For("GET_GROUP", ReadBack(sent)) = {g \in sent : Usable(g)}
            /\ For("SET_GROUP", ReadBack(sent)) = {}
        BY <2>3, ForReadBack
      <3>2. Ids(back) \subseteq {"START", "GET_GROUP"} BY <2>3, IdsReadBack
      <3> QED BY <2>3, <3>1, <3>2
    <2>6. /\ Stop \in Seq(Command) /\ save \in Seq(Command) /\ end \in Seq(Command)
          /\ Ids(Stop) = {"STOP"} /\ Ids(save) = {"SAVE"} /\ Ids(end) = {"TXN_END"}
      BY StopType, IdsStop, CmdType, IdsCmd, MarkerType, IdsMarker, RetriesType
         DEF WireIds, Flags, Markers, EndMarkers
    <2>7. /\ For("SET_GROUP", Stop) = {} /\ For("SET_GROUP", save) = {}
          /\ For("SET_GROUP", end) = {}
      BY <2>6, ForNone
    <2> DEFINE first == Stop \o sets \o save
    <2>8. queue' = first \o back \o end BY <2>1
    <2> HIDE DEF sets, save, back, end
    <2>9. /\ first \in Seq(Command) /\ Ids(first) \subseteq {"STOP", "SET_GROUP", "SAVE"}
          /\ For("SET_GROUP", first) = sent
      <3>1. \A k : For(k, Stop \o sets \o save)
                    = For(k, Stop) \cup For(k, sets) \cup For(k, save)
        BY <2>4, <2>6, For3
      <3>2. Ids(first) = Ids(Stop) \cup Ids(sets) \cup Ids(save) BY <2>4, <2>6, Ids3
      <3>3. first \in Seq(Command)
        <4>1. Stop \o sets \in Seq(Command) BY <2>4, <2>6, ConcatType
        <4> QED BY <2>6, <4>1, ConcatType
      <3>4. For("SET_GROUP", first)
              = For("SET_GROUP", Stop) \cup For("SET_GROUP", sets) \cup For("SET_GROUP", save)
        BY <3>1
      <3> HIDE DEF first
      <3> QED BY <2>4, <2>6, <2>7, <3>2, <3>3, <3>4
    <2> HIDE DEF first
    <2>10. /\ For("SET_GROUP", queue') = sent /\ sent \subseteq For("GET_GROUP", queue')
           /\ "RESET_CFG" \notin Ids(queue')
      <3>1. \A k : For(k, first \o back \o end)
                    = For(k, first) \cup For(k, back) \cup For(k, end)
        BY <2>5, <2>6, <2>9, For3
      <3>2. /\ For("SET_GROUP", queue')
                 = For("SET_GROUP", first) \cup For("SET_GROUP", back) \cup For("SET_GROUP", end)
            /\ For("GET_GROUP", queue')
                 = For("GET_GROUP", first) \cup For("GET_GROUP", back) \cup For("GET_GROUP", end)
        BY <2>8, <3>1
      <3>3. Ids(queue') = Ids(first) \cup Ids(back) \cup Ids(end)
        BY <2>5, <2>6, <2>8, <2>9, Ids3
      <3> QED BY <2>5, <2>6, <2>7, <2>9, <3>2, <3>3
    <2>11. Unset' = sent /\ sent \subseteq Unread' /\ "RESET_CFG" \notin Todo'
      BY <1>2, <2>10 DEF Unset, Unread, Rest, Todo, Left
    <2>12. ShownInv'
      <3>1. \A g \in Groups : Usable(g)' => Right(g)' /\ Told(g)'
        BY <1>2, <1>4, <2>2, <2>11 DEF Right, Told, Usable, Now
      <3> QED BY <2>11, <3>1 DEF ShownInv
    <2> QED BY <1>5, <2>1, <2>12 DEF SeenInv, FirstReadInv, LifeInv, BootInv
  <1> QED BY <1>6, <1>7

\* What is asked of the radar between operations and touches no setting.
LEMMA SeenApart ==
  ASSUME TypeOK, EndInv, OrderInv, KeptInv, SeenInv,
         StartRun \/ CheckReport \/ CheckLink, queue' # queue
  PROVE  SeenInv'
  <1>1. Dry /\ op = "NONE" BY DEF StartRun, CheckReport, CheckLink, Quiet, Idle
  <1>2. Unread = {} /\ Unset = {} /\ Todo = {} /\ fly = Nil BY <1>1, SeenIdle
  <1>3. /\ op' \in {"RUN_CTRL", "PING"}
        /\ UNCHANGED <<life, task, fly, unsup, reported, want, shown, snap, radar>>
        /\ belief'.unsupported = belief.unsupported
    <2>1. belief \in BeliefType BY DEF TypeOK, ControlOK
    <2> HIDE DEF TypeOK, EndInv, OrderInv, KeptInv, SeenInv
    <2> QED BY <2>1 DEF StartRun, CheckReport, CheckLink, params, BeliefType
  <1>4. {"GET_GROUP", "SET_GROUP", "RESET_CFG", "FIRST_READ"} \cap Ids(queue') = {}
    <2>1. PICK id \in {"RUN_DONE", "PING_END"} :
            \/ \E fs \in {{}, {"RECOVERY"}} : queue' = Start(fs) \o Marker(id)
            \/ queue' = Stop \o Marker(id)
            \/ queue' = <<Cmd("GET_SWV", 1, {})>> \o Marker(id)
      BY DEF StartRun, CheckReport, CheckLink
    <2> DEFINE end == Marker(id)
               ask == <<Cmd("GET_SWV", 1, {})>>
    <2>2. end \in Seq(Command) /\ Ids(end) = {id}
      BY MarkerType, IdsMarker DEF Markers, EndMarkers
    <2>3. ask \in Seq(Command) /\ Ids(ask) = {"GET_SWV"}
      BY CmdType, IdsCmd, RetriesType DEF WireIds
    <2>4. Stop \in Seq(Command) /\ Ids(Stop) = {"STOP"} BY StopType, IdsStop
    <2>5. \A fs \in {{}, {"RECOVERY"}} :
            Start(fs) \in Seq(Command) /\ Ids(Start(fs)) = {"START"}
      BY StartType, IdsStart DEF Flags
    <2> HIDE DEF end, ask
    <2>6. /\ Ids(Stop \o end) = {"STOP", id} /\ Ids(ask \o end) = {"GET_SWV", id}
          /\ \A fs \in {{}, {"RECOVERY"}} : Ids(Start(fs) \o end) = {"START", id}
      <3>1. \A q \in Seq(Command) : Ids(q \o end) = Ids(q) \cup Ids(end)
        BY <2>2, IdsConcat
      <3> QED BY <2>2, <2>3, <2>4, <2>5, <3>1
    <2> QED BY <2>1, <2>6 DEF end, ask
  <1>5. Unread' = {} /\ Unset' = {} /\ "RESET_CFG" \notin Todo' /\ "FIRST_READ" \notin Todo'
    BY <1>2, <1>3, <1>4, NothingAsked
  <1> QED BY <1>1, <1>2, <1>3, <1>5, SeenFrame DEF Apart, Kept, Now

LEMMA SeenSchedule ==
  ASSUME TypeOK, NoModes, EndInv, OrderInv, KeptInv, SeenInv, ~HasModes,
         ScheduleNext \/ CheckNext
  PROVE  SeenInv'
  <1>1. task \in TaskType /\ op \in Ops /\ belief \in BeliefType
    BY DEF TypeOK, ControlOK
  <1>2. CASE StartTxn BY <1>2, SeenTxn
  <1>3. CASE StartFactoryReset \/ StartRefresh \/ StartModeRead BY <1>3, SeenStartRead
  <1>4. CASE StartProbe
    <2>1. op = "NONE" BY <1>1, <1>4 DEF StartProbe, EndInv, WellEnded, Dry, Ops
    <2>2. ~task'.firstRead BY <1>1, <1>4, <2>1 DEF StartProbe, TaskType, SeenInv, FirstReadInv
    <2>3. life' = "PROBE" /\ op' = "PROBE" BY <1>4 DEF StartProbe
    <2> QED BY <2>2, <2>3, SeenElse
  <1>5. CASE StartRestart
    <2>1. op' = "RESTART" /\ ~task'.firstRead
      BY <1>5 DEF StartRestart, Idle, SeenInv, FirstReadInv
    <2> QED BY <2>1, SeenElse
  <1>6. ~SwitchNothing /\ ~StartModeSwitch
    BY DEF SwitchNothing, StartModeSwitch, NoModes
  <1>7. CASE FactoryRefused \/ ReadsDropped \/ ConfirmExpired
             \/ (CheckReport /\ queue' = queue)
    <2>1. UNCHANGED <<life, queue, fly, unsup, reported, want, shown, snap, radar>>
      BY <1>7 DEF FactoryRefused, ReadsDropped, ConfirmExpired, CheckReport, params
    <2>2. /\ op' = op \/ {op, op'} \subseteq Apart
          /\ belief'.unsupported = belief.unsupported
      BY <1>1, <1>7 DEF FactoryRefused, ReadsDropped, ConfirmExpired, CheckReport, Quiet,
                        Idle, BeliefType, Apart
    <2>3. /\ task'.readOk = task.readOk /\ task'.firstRead = task.firstRead
          /\ task'.failing = task.failing
      BY <1>1, <1>7 DEF FactoryRefused, SetError, ReadsDropped, ConfirmExpired, CheckReport,
                        TaskType
    <2>4. Unread' = Unread /\ Unset' = Unset /\ Todo' = Todo
      BY <2>1 DEF Unread, Unset, Rest, For, Todo, Left, Ids
    <2> QED BY <2>1, <2>2, <2>3, <2>4, SeenFrame DEF Kept, Now
  <1>8. CASE StartRun \/ CheckLink \/ (CheckReport /\ queue' # queue)
    <2>1. ASSUME StartRun \/ CheckLink PROVE queue' # queue
      <3>1. queue = <<>> BY <2>1 DEF StartRun, CheckLink, Quiet, Idle, Dry
      <3>2. queue' # <<>>
        <4>1. \A c, d : <<c>> \o <<d>> # <<>> OBVIOUS
        <4> QED BY <2>1, <4>1 DEF StartRun, CheckLink, Start, Stop, Marker
      <3> QED BY <3>1, <3>2
    <2> QED BY <1>8, <2>1, SeenApart
  <1> QED BY <1>2, <1>3, <1>4, <1>5, <1>6, <1>7, <1>8 DEF ScheduleNext, CheckNext

LEMMA SeenNext ==
  ASSUME TypeOK, NoModes, EndInv, OrderInv, KeptInv, SeenInv, ~HasModes, Answering,
         "power" \notin UserOps, [Next]_vars
  PROVE  SeenInv'
  <1>1. CASE UNCHANGED vars
    <2>1. /\ UNCHANGED <<life, op, queue, fly, task, belief, radar>>
          /\ UNCHANGED <<unsup, reported, want, shown, snap>>
      BY <1>1 DEF vars, params
    <2>2. Unread' = Unread /\ Unset' = Unset /\ Todo' = Todo
      BY <2>1 DEF Unread, Unset, Rest, For, Todo, Left, Ids
    <2> QED BY <2>1, <2>2, SeenFrame DEF Kept, Now
  <1> QED BY <1>1, SeenUser, SeenWire, SeenDrive, SeenSchedule DEF Next

\* What the SEN0395 entities show between operations is what the radar has,
\* whatever was lost, mangled, clamped or refused: for firmwares that answer
\* gets while the radar runs and that, when supported, know the settings the
\* component does not probe for, for answers that are not cut short, and for a
\* radar that keeps its power.
THEOREM ShownHolds ==
  ASSUME ~HasModes, Answering, "power" \notin UserOps PROVE Spec => []ShownIsRadars
  <1>1. Init => NoModes /\ EndInv /\ OrderInv /\ KeptInv /\ SeenInv
    BY NoModesInit, EndInit, OrderInit, KeptInit, SeenInit
  <1>2. /\ TypeOK /\ NoModes /\ EndInv /\ OrderInv /\ KeptInv /\ SeenInv /\ [Next]_vars
        => NoModes' /\ EndInv' /\ OrderInv' /\ KeptInv' /\ SeenInv'
    BY NoModesNext, EndNext, OrderNext, KeptNext, SeenNext
  <1>3. TypeOK /\ EndInv /\ OrderInv /\ KeptInv /\ SeenInv => ShownIsRadars
    BY SeenIdle DEF ShownIsRadars, Idle
  <1> QED BY <1>1, <1>2, <1>3, TypeCorrect, PTL DEF Spec

-----------------------------------------------------------------------------
(* Also a radar whose firmware is not supported is shown as last read.     *)

\* Only a setting the radar knows is ever read from it.
KnownInv == \A g \in Groups : reported[g] # Nil => g \in radar.fw.knows

\* A firmware without the detection range is the one that is not supported.
SupportInv == life = "RUNNING" /\ belief.unsupported => RangeGroup \notin radar.fw.knows

\* Operations that only a supported radar is asked for.
Served == {"TXN", "READ", "FACTORY_RESET"}

\* A radar that is not supported shows what its identify-and-read has read.
ForeignInv ==
  RangeGroup \notin radar.fw.knows =>
    /\ op \notin Served
    /\ life = "RUNNING" => belief.unsupported
    /\ \A g \in Groups : want[g] = Nil =>
         /\ g \notin radar.fw.knows => shown[g] = Nil
         /\ life = "RUNNING" /\ Usable(g) => shown[g] = reported[g]

FirmwareInv == KnownInv /\ SupportInv /\ ForeignInv

LEMMA FirmwareInit == ASSUME Init PROVE FirmwareInv
  BY NilAssumption
     DEF Init, BootBelief, NoValue, FirmwareInv, KnownInv, SupportInv, ForeignInv, Served

LEMMA FirmwareFrame ==
  ASSUME FirmwareInv, radar'.fw = radar.fw, KnownInv',
         life' = "RUNNING" =>
           life = "RUNNING" /\ belief'.unsupported = belief.unsupported,
         RangeGroup \notin radar.fw.knows =>
           /\ op' = op \/ op' \notin Served
           /\ \A g \in Groups : want'[g] = want[g] /\ shown'[g] = shown[g]
           /\ life' = "RUNNING" => reported' = reported /\ unsup' = unsup
  PROVE  FirmwareInv'
  <1>1. SupportInv' BY DEF FirmwareInv, SupportInv
  <1>2. ForeignInv' BY DEF FirmwareInv, ForeignInv, Usable
  <1> QED BY <1>1, <1>2 DEF FirmwareInv

LEMMA FirmwareDone ==
  ASSUME TypeOK, OrderInv, KeptInv, SeenInv, FirmwareInv, ~HasModes, fly # Nil, NEW o,
         Complete(fly, o), radar'.fw = radar.fw,
         o \in Outcomes(fly) \/ o.result = "TIMEOUT" \/ fly.id \in NoReply
  PROVE  FirmwareInv'
  <1>1. fly \in WireCommand /\ fly.id \in WireIds BY DEF TypeOK, WireOK, WireCommand
  <1>2. fly.id \in Allowed(op) /\ fly.id # "SET_RUN_APP"
    <2>1. fly.id \in Allowed(op) BY DEF OrderInv, Orderly, Left
    <2> QED BY <2>1 DEF SeenInv, LifeInv, Allowed
  <1>3. ASSUME reported' = reported PROVE KnownInv'
    BY <1>3 DEF FirmwareInv, KnownInv
  <1>4. CASE o.result = "MALFORMED" /\ "REPARSE" \notin fly.flags
    <2>1. UNCHANGED <<life, op, belief, unsup, reported, want, shown>>
      BY <1>4 DEF Complete, params
    <2> QED BY <1>3, <2>1, FirmwareFrame
  <1>5. CASE ~(o.result = "MALFORMED" /\ "REPARSE" \notin fly.flags)
    <2>1. OnDone(fly, o) BY <1>5 DEF Complete
    <2>2. CASE fly.id = "GET_GROUP"
      <3>1. PICK x \in fly.groups : \/ o.result = "OK" /\ GetApplied(x, o.val)
                                    \/ GetFailed(fly, x, o.result)
        BY <2>1, <2>2 DEF OnDone, GetGroupDone
      <3>2. UNCHANGED <<life, op, want, shown>>
        BY <2>1, <2>2 DEF OnDone, GetGroupDone
      <3>3. belief'.unsupported = belief.unsupported
        <4>1. belief \in BeliefType
              /\ belief' \in {belief, [belief EXCEPT !.requiresStop = TRUE]}
          BY <3>1 DEF GetApplied, GetFailed, OpFailed, TypeOK, ControlOK
        <4> QED BY <4>1 DEF BeliefType
      <3>4. KnownInv'
        <4>1. CASE reported' = reported BY <1>3, <4>1
        <4>2. CASE o.result = "OK" /\ GetApplied(x, o.val)
          <5>1. fly.groups = {x} /\ o \in Outcomes(fly)
            BY <2>2, <3>1, <4>2 DEF KeptInv, OneGroup, NoReply
          <5>2. x \in radar.fw.knows BY <1>1, <2>2, <4>2, <5>1, GetAnswers
          <5>3. reported \in Settings /\ reported' = [reported EXCEPT ![x] = o.val]
            BY <4>2 DEF GetApplied, TypeOK, SettingsOK
          <5> QED BY <5>2, <5>3 DEF FirmwareInv, KnownInv, Settings
        <4> QED BY <3>1, <4>1, <4>2 DEF GetFailed
      <3>5. RangeGroup \notin radar.fw.knows => life # "RUNNING"
        BY <1>2, <2>2 DEF Allowed, SeenInv, LifeInv, FirmwareInv, ForeignInv, Served
      <3> QED BY <3>2, <3>3, <3>4, <3>5, FirmwareFrame
    <2>3. CASE fly.id \in {"GET_SWV", "RESET_SYSTEM"}
      <3>1. /\ UNCHANGED <<reported, want, shown>>
            /\ \/ UNCHANGED <<life, op, belief, unsup>>
               \/ life' # "RUNNING" /\ op' = "NONE"
        BY <2>1, <2>3 DEF OnDone, GetSwvDone, ResetSystemDone, EnterBackoff, params
      <3> QED BY <1>3, <3>1, FirmwareFrame DEF Served
    <2>4. CASE fly.id \in {"SET_GROUP", "RESET_CFG", "STOP", "START", "SAVE"}
      <3>1. /\ UNCHANGED <<life, op, unsup, reported, want, shown, snap>>
            /\ belief'.unsupported = belief.unsupported
        BY <2>1, <2>4, PlainLeaves
      <3> QED BY <1>3, <3>1, FirmwareFrame
    <2> QED BY <1>1, <1>2, <2>2, <2>3, <2>4 DEF WireIds
  <1> QED BY <1>4, <1>5

LEMMA FirmwareWire ==
  ASSUME TypeOK, OrderInv, KeptInv, SeenInv, FirmwareInv, ~HasModes, WireNext
  PROVE  FirmwareInv'
  <1>1. radar'.fw = radar.fw
    <2>1. radar \in RadarType BY DEF TypeOK, WireOK
    <2>2. CASE Answer \/ CarriedOut
      <3>1. fly # Nil /\ \E o \in Outcomes(fly) : radar' = o.radar
        BY <2>2 DEF Answer, CarriedOut
      <3>2. fly \in WireCommand BY <3>1 DEF TypeOK, WireOK
      <3> QED BY <2>1, <3>1, <3>2, OutcomesSettings
    <2>3. CASE Send \/ CommandLost BY <2>3 DEF Send, CommandLost
    <2>4. CASE Timeout
      <3>1. SameSettings BY <2>4, WaitedSettings DEF Timeout
      <3> QED BY <3>1 DEF SameSettings
    <2>5. CASE Sentence BY <2>1, <2>5 DEF Sentence, RadarType
    <2> QED BY <2>2, <2>3, <2>4, <2>5 DEF WireNext
  <1>2. CASE Answer
    BY <1>1, <1>2, FirmwareDone DEF Answer
  <1>3. ASSUME UNCHANGED <<life, op, unsup, reported, want, shown>>,
               belief'.unsupported = belief.unsupported
        PROVE  FirmwareInv'
    <2>1. KnownInv' BY <1>1, <1>3 DEF FirmwareInv, KnownInv
    <2> QED BY <1>1, <1>3, <2>1, FirmwareFrame
  <1>4. CASE Send \/ CarriedOut \/ CommandLost
    <2>1. UNCHANGED <<life, op, belief, unsup, reported, want, shown>>
      BY <1>4 DEF Send, CarriedOut, CommandLost, params
    <2> QED BY <1>3, <2>1
  <1>5. CASE Timeout
    <2>1. fly # Nil BY <1>5 DEF Timeout
    <2>2. CASE fly.id \in NoReply
      <3>1. Complete(fly, Out(radar, "OK")) BY <1>5, <2>2 DEF Timeout
      <3> QED BY <1>1, <2>1, <2>2, <3>1, FirmwareDone
    <2>3. CASE fly.id \notin NoReply /\ fly.retries > 0
      <3>1. UNCHANGED <<life, op, belief, unsup, reported, want, shown>>
        BY <1>5, <2>3 DEF Timeout, params
      <3> QED BY <1>3, <3>1
    <2>4. CASE fly.id \notin NoReply /\ ~(fly.retries > 0)
      <3>1. Complete(fly, Out(radar, "TIMEOUT")) BY <1>5, <2>4 DEF Timeout
      <3>2. Out(radar, "TIMEOUT").result = "TIMEOUT" BY DEF Out
      <3> QED BY <1>1, <2>1, <3>1, <3>2, FirmwareDone
    <2> QED BY <2>2, <2>3, <2>4
  <1>6. CASE Sentence
    <2>1. /\ UNCHANGED <<life, op, unsup, reported, want, shown>>
          /\ belief' = [belief EXCEPT !.running = TRUE, !.known = TRUE, !.armed = FALSE,
                              !.userStopped = @ /\ belief.running /\ belief.known]
      BY <1>6 DEF Sentence
    <2>2. belief'.unsupported = belief.unsupported
      BY <2>1 DEF TypeOK, ControlOK, BeliefType
    <2> QED BY <1>3, <2>1, <2>2
  <1> QED BY <1>2, <1>4, <1>5, <1>6 DEF WireNext

LEMMA FirmwareUser ==
  ASSUME TypeOK, FirmwareInv, ~HasModes, "power" \notin UserOps, UserNext
  PROVE  FirmwareInv'
  <1>1. CASE EspReboot
    <2>1. /\ life' = "BOOT_WAIT" /\ op' = "NONE" /\ radar' = radar
          /\ reported' = NoValue /\ shown' = NoValue
      BY <1>1 DEF EspReboot
    <2> QED BY <2>1 DEF FirmwareInv, KnownInv, SupportInv, ForeignInv, Served, NoValue
  <1>2. CASE RequestRefresh \/ RequestRestart \/ RequestFactoryReset
             \/ \E on \in BOOLEAN : RequestRunning(on)
    <2>1. UNCHANGED <<life, op, belief, unsup, reported, want, shown, radar>>
      BY <1>2 DEF RequestRefresh, RequestRestart, RequestFactoryReset, RequestRunning,
                  Request, params
    <2>2. KnownInv' BY <2>1 DEF FirmwareInv, KnownInv
    <2> QED BY <2>1, <2>2, FirmwareFrame
  <1>3. ASSUME NEW x \in Groups, NEW v \in Vals, SetDesired(x, v) PROVE FirmwareInv'
    <2>1. UNCHANGED <<life, op, belief, unsup, reported, radar>> BY <1>3 DEF SetDesired
    <2>2. want \in Settings /\ shown \in Settings /\ v # Nil
      BY NilAssumption DEF TypeOK, SettingsOK
    <2>3. \/ shown' = [shown EXCEPT ![x] = reported[x]] /\ want' = want
          \/ shown' = [shown EXCEPT ![x] = v] /\ want' = [want EXCEPT ![x] = v]
      BY <1>3 DEF SetDesired, Display, InMode
    <2>4. KnownInv' /\ SupportInv' BY <2>1 DEF FirmwareInv, KnownInv, SupportInv
    <2>5. ForeignInv'
      BY <2>1, <2>2, <2>3 DEF FirmwareInv, KnownInv, ForeignInv, Usable, Settings
    <2> QED BY <2>4, <2>5 DEF FirmwareInv
  <1> QED BY <1>1, <1>2, <1>3 DEF UserNext, SetWorkMode, RadarPowerCycle

LEMMA FirmwareBootReadEnd ==
  ASSUME TypeOK, EndInv, OrderInv, KeptInv, SeenInv, FirmwareInv, ~HasModes, Answering,
         BootReadEnd
  PROVE  FirmwareInv'
  <1>1. AtMarker("READ_END") /\ op = "BOOT_READ" BY DEF BootReadEnd
  <1>2. op' = "NONE" /\ UNCHANGED <<want, reported, unsup, radar>> BY DEF BootReadEnd
  <1>3. PICK silent, reports : FinishBootRead(silent, reports) BY DEF BootReadEnd
  <1>4. belief'.unsupported = (RangeGroup \notin task.readOk)
    <2>1. belief \in BeliefType BY DEF TypeOK, ControlOK
    <2>2. \E a : belief' = [belief EXCEPT !.unsupported = RangeGroup \notin task.readOk,
                              !.everRunning = TRUE, !.unconfirmed = FALSE, !.armed = a]
      BY <1>3 DEF FinishBootRead
    <2> QED BY <2>1, <2>2 DEF BeliefType
  <1>5. \A g \in Groups :
          shown'[g] = IF want[g] = Nil /\ g \in task.readOk THEN reported[g] ELSE shown[g]
    BY <1>3 DEF FinishBootRead, Display, InMode
  <1>6. task.readOk \subseteq radar.fw.knows
    <2>1. task.readOk \subseteq Groups BY DEF TypeOK, ControlOK, TaskType
    <2> QED BY <1>1, <2>1 DEF KeptInv, ReadTrue, ReadOps
  <1>7. KnownInv' BY <1>2 DEF FirmwareInv, KnownInv
  <1>8. SupportInv'
    <2>1. RangeGroup \in Groups /\ Usable(RangeGroup)
      BY GroupAssumption DEF Usable, TypeOK, SettingsOK
    <2>2. RangeGroup \in radar.fw.knows => RangeGroup \in task.readOk
      BY <1>1, <2>1, BootHasRead
    <2> QED BY <1>2, <1>4, <2>2 DEF SupportInv
  <1>9. ForeignInv'
    <2> SUFFICES ASSUME RangeGroup \notin radar.fw.knows
                 PROVE  ForeignInv'
      BY <1>2 DEF ForeignInv
    <2>1. op' \notin Served /\ belief'.unsupported BY <1>2, <1>4, <1>6 DEF Served
    <2>2. ASSUME NEW g \in Groups, want[g] = Nil, g \notin radar.fw.knows
          PROVE  shown'[g] = Nil /\ reported[g] = Nil
      BY <1>5, <1>6, <2>2 DEF FirmwareInv, KnownInv, ForeignInv
    <2>3. ASSUME NEW g \in Groups, want[g] = Nil, g \in radar.fw.knows, Usable(g)
          PROVE  shown'[g] = reported[g]
      <3>1. g \in task.readOk BY <1>1, <2>3, BootHasRead
      <3> QED BY <1>5, <2>3, <3>1
    <2> QED BY <1>2, <2>1, <2>2, <2>3 DEF ForeignInv, Usable
  <1> QED BY <1>7, <1>8, <1>9 DEF FirmwareInv

LEMMA FirmwareDrive ==
  ASSUME TypeOK, EndInv, OrderInv, KeptInv, SeenInv, FirmwareInv, ~HasModes, Answering,
         DriveNext
  PROVE  FirmwareInv'
  <1>1. ASSUME reported' = reported, radar' = radar PROVE KnownInv'
    BY <1>1 DEF FirmwareInv, KnownInv
  <1>2. ASSUME NEW id \in EndMarkers \ {"FAIL_END"}, AtMarker(id)
        PROVE  id \in EndsOf(op)
    BY <1>2, SeenMarker
  <1>3. CASE SkipSave \/ RunDone \/ PingEnd
    <2>1. /\ UNCHANGED <<life, belief, unsup, reported, want, shown, radar>>
          /\ op' = op \/ op' = "NONE"
      BY <1>3 DEF SkipSave, RunDone, PingEnd, params
    <2> QED BY <1>1, <2>1, FirmwareFrame DEF Served
  <1>4. CASE ProbeDone
    <2>1. "PROBE_DONE" \in EndsOf(op) BY <1>2, <1>4 DEF ProbeDone, EndMarkers
    <2>2. /\ UNCHANGED <<life, belief, reported, want, shown, radar>> /\ op' = "BOOT_READ"
          /\ life = "PROBE"
      BY <1>4, <2>1 DEF ProbeDone, EndsOf, SeenInv, LifeInv
    <2> QED BY <1>1, <2>2, FirmwareFrame DEF Served
  <1>5. CASE FirstRead
    <2>1. UNCHANGED <<life, op, unsup, reported, want, shown, radar>>
      BY <1>5 DEF FirstRead, params
    <2>2. belief'.unsupported = belief.unsupported
      BY <1>5 DEF FirstRead, TypeOK, ControlOK, BeliefType
    <2> QED BY <1>1, <2>1, <2>2, FirmwareFrame
  <1>6. CASE ReadEnd
    <2>1. "READ_END" \in EndsOf(op) BY <1>2, <1>6 DEF ReadEnd, EndMarkers
    <2>2. RangeGroup \in radar.fw.knows
      BY <1>6, <2>1 DEF ReadEnd, EndsOf, FirmwareInv, ForeignInv, Served
    <2>3. UNCHANGED <<life, belief, reported, radar>> BY <1>6 DEF ReadEnd
    <2> QED BY <1>1, <2>2, <2>3, FirmwareFrame
  <1>7. CASE TxnEnd
    <2>1. "TXN_END" \in EndsOf(op) BY <1>2, <1>7 DEF TxnEnd, EndMarkers
    <2>2. RangeGroup \in radar.fw.knows
      BY <2>1 DEF EndsOf, FirmwareInv, ForeignInv, Served
    <2>3. UNCHANGED <<life, belief, reported, radar>> BY <1>7 DEF TxnEnd
    <2> QED BY <1>1, <2>2, <2>3, FirmwareFrame
  <1>8. CASE FailEnd
    <2>1. /\ UNCHANGED <<want, reported, radar>> /\ life' = "BACKOFF" /\ op' = "NONE"
          /\ \A g \in Groups : snap[g] = Nil => shown'[g] = shown[g]
      BY <1>8 DEF FailEnd, EnterBackoff
    <2>2. RangeGroup \notin radar.fw.knows => snap = NoValue
      BY DEF FirmwareInv, ForeignInv, Served, KeptInv, SnapInv
    <2> QED BY <1>1, <2>1, <2>2, FirmwareFrame DEF Served, NoValue
  <1>9. ~ModeWait /\ ~ModeWaitSeen /\ ~ModeWaitExpired BY NoModeWait
  <1> QED BY <1>3, <1>4, <1>5, <1>6, <1>7, <1>8, <1>9, FirmwareBootReadEnd DEF DriveNext

LEMMA FirmwareSchedule ==
  ASSUME TypeOK, NoModes, FirmwareInv, ~HasModes, ScheduleNext \/ CheckNext
  PROVE  FirmwareInv'
  <1>1. ASSUME UNCHANGED <<reported, radar>> PROVE KnownInv'
    BY <1>1 DEF FirmwareInv, KnownInv
  <1>2. CASE StartTxn \/ StartFactoryReset \/ StartRefresh \/ StartModeRead
    <2>1. /\ life = "RUNNING" /\ ~belief.unsupported
          /\ UNCHANGED <<life, belief, reported, unsup, radar>>
      BY <1>2 DEF StartTxn, MayApply, StartFactoryReset, StartRefresh, StartModeRead,
                  StartRead, Idle
    <2>2. RangeGroup \in radar.fw.knows BY <2>1 DEF FirmwareInv, ForeignInv
    <2> QED BY <1>1, <2>1, <2>2, FirmwareFrame
  <1>3. CASE StartProbe
    <2>1. /\ UNCHANGED <<belief, reported, want, shown>>
          /\ life' = "PROBE" /\ op' = "PROBE" /\ Waited(2)
      BY <1>3 DEF StartProbe, params
    <2>2. radar'.fw = radar.fw
      <3>1. SameSettings BY <2>1, WaitedSettings
      <3> QED BY <3>1 DEF SameSettings
    <2>3. KnownInv' BY <2>1, <2>2 DEF FirmwareInv, KnownInv
    <2> QED BY <2>1, <2>2, <2>3, FirmwareFrame DEF Served
  <1>4. ~SwitchNothing /\ ~StartModeSwitch
    BY DEF SwitchNothing, StartModeSwitch, NoModes
  <1>5. CASE StartRestart \/ FactoryRefused \/ StartRun \/ ReadsDropped \/ CheckReport
             \/ CheckLink \/ ConfirmExpired
    <2>1. /\ UNCHANGED <<life, unsup, reported, want, shown, radar>>
          /\ op' = op \/ op' \notin Served
      BY <1>5 DEF StartRestart, FactoryRefused, StartRun, ReadsDropped, CheckReport,
                  CheckLink, ConfirmExpired, params, Served
    <2>2. belief'.unsupported = belief.unsupported
      <3>1. belief \in BeliefType BY DEF TypeOK, ControlOK
      <3> QED BY <1>5, <3>1 DEF StartRestart, FactoryRefused, StartRun, ReadsDropped,
                  CheckReport, CheckLink, ConfirmExpired, BeliefType
    <2> QED BY <1>1, <2>1, <2>2, FirmwareFrame
  <1> QED BY <1>2, <1>3, <1>4, <1>5 DEF ScheduleNext, CheckNext

LEMMA FirmwareNext ==
  ASSUME TypeOK, NoModes, EndInv, OrderInv, KeptInv, SeenInv, FirmwareInv, ~HasModes,
         Answering, "power" \notin UserOps, [Next]_vars
  PROVE  FirmwareInv'
  <1>1. CASE UNCHANGED vars
    BY <1>1 DEF vars, params, FirmwareInv, KnownInv, SupportInv, ForeignInv, Usable
  <1> QED BY <1>1, FirmwareUser, FirmwareWire, FirmwareDrive, FirmwareSchedule DEF Next

\* Between operations each entity without an unapplied change shows the last
\* value read.
LEMMA ReportedIdle ==
  ASSUME TypeOK, EndInv, OrderInv, KeptInv, SeenInv, FirmwareInv, ~HasModes
  PROVE  ShownIsReported
  <1> SUFFICES ASSUME Idle, NEW g \in Groups, want[g] = Nil, Usable(g)
               PROVE  shown[g] = reported[g]
    BY DEF ShownIsReported, Display, InMode
  <1>1. CASE belief.unsupported
    <2>1. RangeGroup \notin radar.fw.knows
      BY <1>1 DEF Idle, FirmwareInv, SupportInv
    <2> QED BY <2>1 DEF Idle, FirmwareInv, ForeignInv
  <1>2. CASE ~belief.unsupported BY <1>2, SeenIdle DEF Idle
  <1> QED BY <1>1, <1>2

\* No SEN0395 entity shows a value older than the last one read
\* (publish_param_()), also while the firmware is not supported, under the
\* assumptions of ShownHolds.
THEOREM ReportedHolds ==
  ASSUME ~HasModes, Answering, "power" \notin UserOps PROVE Spec => []ShownIsReported
  <1>1. Init => NoModes /\ EndInv /\ OrderInv /\ KeptInv /\ SeenInv /\ FirmwareInv
    BY NoModesInit, EndInit, OrderInit, KeptInit, SeenInit, FirmwareInit
  <1>2. /\ TypeOK /\ NoModes /\ EndInv /\ OrderInv /\ KeptInv /\ SeenInv /\ FirmwareInv
        /\ [Next]_vars
        => NoModes' /\ EndInv' /\ OrderInv' /\ KeptInv' /\ SeenInv' /\ FirmwareInv'
    BY NoModesNext, EndNext, OrderNext, KeptNext, SeenNext, FirmwareNext
  <1>3. TypeOK /\ EndInv /\ OrderInv /\ KeptInv /\ SeenInv /\ FirmwareInv
        => ShownIsReported
    BY ReportedIdle
  <1> QED BY <1>1, <1>2, <1>3, TypeCorrect, PTL DEF Spec
=============================================================================
