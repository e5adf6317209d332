------------------------------- MODULE Engine -------------------------------
(***************************************************************************)
(* The protocol engine of the dfrobot_mmwave ESPHome component             *)
(* (components/dfrobot_mmwave/mmwave_engine.cpp) with the radar at the     *)
(* other end of the serial line.                                           *)
(*                                                                         *)
(* The engine is single threaded: ESPHome calls the hub's loop(), which    *)
(* feeds the received bytes to feed() and then calls Engine::loop();       *)
(* entities call set_desired() and request_*() between two loops.  One     *)
(* action stands for one such call, or for one command, marker or branch   *)
(* of schedule_() inside Engine::loop().                                   *)
(*                                                                         *)
(* Time is abstracted: a timer of the code (timeout, backoff, debounce,    *)
(* mode-switch wait, link timeout) is an action that may be taken once the *)
(* code's other conditions hold.  One rule keeps the timers honest: the    *)
(* timeout of a command fires only when no answer can arrive any more      *)
(* (muted), so the answer to one command is never taken for the answer to  *)
(* the next one.                                                           *)
(*                                                                         *)
(* A command group (GroupId) carries one setting; its value is a member of *)
(* Vals.  getHWV and getRunApp change no state and are left out.           *)
(***************************************************************************)
EXTENDS Integers, Sequences, FiniteSets

CONSTANTS
  Groups,      \* command groups with a get command (GroupId without RUN_APP)
  RangeGroup,  \* GROUP_ID_RANGE, the group every firmware has to answer
  Probe,       \* groups some firmware lacks (SUPPORT_PROBE)
  GroupModes,  \* [Groups -> SUBSET Modes], group_modes()
  HasModes,    \* dialect has_modes: TRUE for the C4001, FALSE for the SEN0395
  Vals,        \* values of a setting
  Default,     \* the value resetCfg restores
  Retries,     \* retries of an ordinary command (2 in the code)
  Firmwares,   \* radar firmwares: [getRun: answers gets while running,
               \*                   knows: the groups it has commands for]
  Faults,      \* what the wire and the radar may do to a command
  UserOps,     \* what entities, automations and the environment may do
  Nil          \* no value, no command

Modes == {"PRESENCE", "SPEED"}

ASSUME GroupAssumption ==
  /\ RangeGroup \in Groups
  /\ Probe \subseteq Groups
  /\ RangeGroup \notin Probe
  /\ HasModes \in BOOLEAN
  /\ GroupModes \in [Groups -> SUBSET Modes]
  /\ GroupModes[RangeGroup] = Modes
  /\ ~HasModes => \A g \in Groups : GroupModes[g] = Modes

ASSUME ValueAssumption ==
  /\ Default \in Vals
  /\ Retries \in Nat \ {0}
  /\ Firmwares \subseteq [getRun : BOOLEAN, knows : SUBSET Groups]
  /\ Faults \subseteq {"lose", "mute", "mangle", "short", "clamp", "reject",
                        "refuse"}
  /\ UserOps \subseteq {"set", "mode", "refresh", "restart", "factory",
                        "run", "power", "reboot"}

-----------------------------------------------------------------------------
(* Commands.  A run of gets or sets is one queue entry that holds the      *)
(* groups still to be sent; Send takes them out one at a time.             *)

WireIds == {"GET_SWV", "GET_GROUP", "SET_GROUP", "SET_RUN_APP", "STOP",
            "START", "SAVE", "RESET_CFG", "RESET_SYSTEM"}

\* Markers that end an operation or start the next one in its place.
EndMarkers == {"PROBE_DONE", "FIRST_READ", "READ_END", "TXN_END", "RUN_DONE",
               "FAIL_END", "PING_END"}

Markers == EndMarkers \cup {"MODE_WAIT"}

Flags == {"OPTIONAL_SAVE", "START_RETRY", "FAILURE_PATH", "RECOVERY",
          "REPARSE"}

Command == [id : WireIds \cup Markers, groups : SUBSET Groups,
            retries : 0..Retries, flags : SUBSET Flags]

WireCommand == {c \in Command : c.id \in WireIds}

ASSUME NilAssumption == Nil \notin Command \cup Vals \cup Modes

Cmd(id, retries, flags) ==
  [id |-> id, groups |-> {}, retries |-> retries, flags |-> flags]

Marker(id) == <<Cmd(id, 0, {})>>

Stop  == <<Cmd("STOP", Retries, {})>>
Start(flags) == <<Cmd("START", Retries, flags)>>

\* enqueue_() of one command per group: nothing for an empty set.
Batch(id, gs, retries) ==
  IF gs = {} THEN <<>>
  ELSE <<[Cmd(id, retries, {}) EXCEPT !.groups = gs]>>

\* Capability probes are not retried: a firmware that ignores an unknown
\* command must not cost three timeouts.
Gets(gs) == Batch("GET_GROUP", gs \ Probe, Retries)
              \o Batch("GET_GROUP", gs \cap Probe, 0)

-----------------------------------------------------------------------------
VARIABLES
  life,      \* life_
  op,        \* op_
  queue,     \* queue_
  fly,       \* inflight_.cmd, or Nil when nothing is in flight
  muted,     \* no answer to the command in flight will arrive
  req,       \* refresh_req_, restart_req_, factory_req_, run_req_, mode_read_req_
  task,      \* the state of the running operation
  belief,    \* what the engine holds true of the radar and the link
  mode,      \* the C4001 work mode: the setting, the switch, the inference
  want,      \* desired value of a dirty setting, else Nil
  snap,      \* snapshot_: the value the running transaction sends, else Nil
  reported,  \* reported value if reported_valid, else Nil
  shown,     \* the value its entity shows, Nil when unknown
  unsup,     \* probe groups marked unsupported
  pub,       \* published status, link_ok, running switch, last_error not empty
  radar      \* the radar: running, current app, settings, saved settings; unsaved:
             \* it has a change to save; quiet: halves of the mode-switch
             \* wait without a report, at most 2

params == <<want, snap, reported, shown, unsup>>
vars == <<life, op, queue, fly, muted, req, task, belief, mode, params, pub, radar>>

Ops == {"NONE", "PROBE", "BOOT_READ", "READ", "TXN", "FACTORY_RESET",
        "RUN_CTRL", "RESTART", "PING", "MODE_SWITCH"}

Statuses == {"BOOT_WAIT", "PROBING", "READING", "APPLYING", "RUNNING",
             "STOPPED", "LINK_LOST", "UNSUPPORTED_FIRMWARE"}

ReqType == [refresh : BOOLEAN, restart : BOOLEAN, factory : BOOLEAN,
            run : {"none", "on", "off"}, modeRead : BOOLEAN]

TaskType == [failing : BOOLEAN, firstRead : BOOLEAN, stopped : BOOLEAN,
             restart : BOOLEAN, error : BOOLEAN, saveError : BOOLEAN,
             readOk : SUBSET Groups, setOk : SUBSET Groups,
             setFail : SUBSET Groups]

BeliefType == [running : BOOLEAN, known : BOOLEAN, userStopped : BOOLEAN,
               everRunning : BOOLEAN, recover : BOOLEAN,
               unconfirmed : BOOLEAN, requiresStop : BOOLEAN,
               unsupported : BOOLEAN, armed : BOOLEAN]

ModeType == [work : Modes \cup {"UNKNOWN"}, want : Modes \cup {Nil},
             reported : Modes \cup {Nil}, shown : Modes \cup {Nil},
             target : Modes \cup {"UNKNOWN"},
             lastRead : Modes \cup {"UNKNOWN"}, pending : BOOLEAN,
             rejected : BOOLEAN, waiting : BOOLEAN, seen : BOOLEAN,
             confirm : BOOLEAN]

PubType == [status : Statuses, linkOk : BOOLEAN, running : BOOLEAN,
            error : BOOLEAN]

Settings == [Groups -> Vals \cup {Nil}]

RadarType == [running : BOOLEAN, app : Modes, fw : Firmwares,
              val : [Modes -> [Groups -> Vals]],
              saved : [Modes -> [Groups -> Vals]], unsaved : BOOLEAN,
              quiet : 0..2]

ControlOK ==
  /\ life \in {"BOOT_WAIT", "PROBE", "BACKOFF", "RUNNING"}
  /\ op \in Ops
  /\ queue \in Seq(Command)
  /\ req \in ReqType
  /\ task \in TaskType
  /\ belief \in BeliefType
  /\ mode \in ModeType
  /\ pub \in PubType

SettingsOK ==
  /\ want \in Settings /\ snap \in Settings
  /\ reported \in Settings /\ shown \in Settings
  /\ unsup \in SUBSET Probe

WireOK ==
  /\ fly \in WireCommand \cup {Nil}
  /\ muted \in BOOLEAN
  /\ radar \in RadarType

\* Every variable holds a value of its kind, no marker is ever sent and no retry
\* count runs below zero (drive_queue_(), send_(), complete_()).
TypeOK == ControlOK /\ SettingsOK /\ WireOK

-----------------------------------------------------------------------------
(* Initial state.  The radar is powered before or with the ESP, in any app *)
(* and with any stored settings, which differ from app to app on a C4001;  *)
(* the engine knows nothing of it.                                         *)

BootReq == [refresh |-> FALSE, restart |-> FALSE, factory |-> FALSE,
            run |-> "none", modeRead |-> FALSE]

BootTask == [failing |-> FALSE, firstRead |-> FALSE, stopped |-> FALSE,
             restart |-> TRUE, error |-> FALSE, saveError |-> FALSE,
             readOk |-> {}, setOk |-> {}, setFail |-> {}]

BootBelief == [running |-> FALSE, known |-> FALSE, userStopped |-> FALSE,
               everRunning |-> FALSE, recover |-> FALSE,
               unconfirmed |-> FALSE, requiresStop |-> FALSE,
               unsupported |-> FALSE, armed |-> FALSE]

BootMode == [work |-> "UNKNOWN", want |-> Nil, reported |-> Nil, shown |-> Nil,
             target |-> "UNKNOWN", lastRead |-> "UNKNOWN", pending |-> FALSE,
             rejected |-> FALSE, waiting |-> FALSE, seen |-> FALSE,
             confirm |-> FALSE]

BootPub == [status |-> "BOOT_WAIT", linkOk |-> FALSE, running |-> FALSE,
            error |-> FALSE]

NoValue == [g \in Groups |-> Nil]

Stored == [Modes -> [Groups -> Vals]]

Init ==
  /\ life = "BOOT_WAIT" /\ op = "NONE" /\ queue = <<>> /\ fly = Nil
  /\ muted = FALSE /\ req = BootReq /\ task = BootTask /\ belief = BootBelief
  /\ mode = BootMode /\ pub = BootPub /\ unsup = {}
  /\ want = NoValue /\ snap = NoValue /\ reported = NoValue /\ shown = NoValue
  /\ \E app \in (IF HasModes THEN Modes ELSE {"PRESENCE"}), fw \in Firmwares,
        v \in (IF HasModes THEN [Modes -> Vals] ELSE {[m \in Modes |-> x] : x \in Vals}) :
       LET all == [m \in Modes |-> [g \in Groups |-> v[m]]]
       IN radar = [running |-> TRUE, app |-> app, fw |-> fw, val |-> all,
                   saved |-> all, unsaved |-> FALSE, quiet |-> 0]

-----------------------------------------------------------------------------
(* State functions of the code.                                            *)

AnyDirty == mode.want # Nil \/ \E g \in Groups : want[g] # Nil

Usable(g) == g \notin unsup

\* param_in_mode_(): before the mode is known every setting counts.
InMode(g, m) == ~HasModes \/ m = "UNKNOWN" \/ m \in GroupModes[g]

\* read_mode_(): the speed app streams reports, so no report means presence.
ReadMode(m) == IF HasModes /\ m = "UNKNOWN" THEN "PRESENCE" ELSE m

\* What publish_param_() shows of a group in work mode m.
Display(g, m) == IF InMode(g, m) THEN reported[g] ELSE Nil

\* The groups enqueue_gets_() asks for.
Readable(gs) == {g \in gs : Usable(g) /\ InMode(g, ReadMode(mode.work))}

KnownStopped == belief.known /\ ~belief.running

\* set_running_() publishes the running switch when the belief changes.
RunningPub(p, on) ==
  IF belief.known /\ belief.running = on THEN p ELSE [p EXCEPT !.running = on]

AtMarker(id) ==
  fly = Nil /\ ~mode.waiting /\ queue # <<>> /\ Head(queue).id = id

\* "no set command succeeded, skipping saveConfig"
Skippable(c) == c.id = "SAVE" /\ "OPTIONAL_SAVE" \in c.flags /\ task.setOk = {}

\* drive_queue_() works markers and skips off before the loop returns, so no
\* entity call ever finds one at the head of the queue.
Draining ==
  /\ fly = Nil /\ ~mode.waiting /\ queue # <<>>
  /\ Head(queue).id \in Markers \/ Skippable(Head(queue))

\* schedule_() runs when the queue has run dry, and starts work only then.
Dry == fly = Nil /\ queue = <<>>
Idle == Dry /\ life = "RUNNING" /\ op = "NONE"

Started(r) == [r EXCEPT !.running = TRUE]

\* The radar after a loss of power or resetSystem.
Rebooted == [Started(radar) EXCEPT !.val = radar.saved, !.unsaved = FALSE]

\* A timer of the engine runs out after n halves of the mode-switch wait (3 s).
\* A running speed app reports ten times a second, so it has been heard by
\* then; any other C4001 may have been silent.
Waited(n) ==
  LET streams == radar.running /\ radar.app = "SPEED"
  IN /\ HasModes /\ streams /\ n > 0 => mode.work = "SPEED"
     /\ radar' = IF ~HasModes \/ streams THEN radar
                 ELSE [radar EXCEPT !.quiet = IF @ + n > 2 THEN 2 ELSE @ + n]

\* Every timeout is TIMEOUT_MS (1.5 s), save these.
Halves(c) ==
  CASE c.id = "SET_RUN_APP" -> 0 [] c.id \in {"SAVE", "RESET_SYSTEM"} -> 2
    [] OTHER -> 1

-----------------------------------------------------------------------------
(* Entity calls and the outside world.                                     *)

\* set_desired() refuses a change of g.  A requested or running switch of the
\* work mode counts as done.
Refused(g) ==
  LET eff == IF mode.want # Nil THEN mode.want
             ELSE IF mode.pending /\ ~mode.rejected THEN mode.target
             ELSE mode.work
  IN belief.unsupported \/ ~InMode(g, eff) \/ ~Usable(g)

\* ParamNumber::control() and its siblings: show the request, then ask for it.
SetDesired(g, v) ==
  /\ "set" \in UserOps /\ ~Draining
  /\ IF Refused(g)
       THEN /\ shown' = [shown EXCEPT ![g] = Display(g, mode.work)]
            /\ pub' = [pub EXCEPT !.error = TRUE]
            /\ task' = [task EXCEPT !.error = TRUE]
            /\ UNCHANGED want
       ELSE /\ shown' = [shown EXCEPT ![g] = v]
            /\ want' = [want EXCEPT ![g] = v]
            /\ UNCHANGED <<pub, task>>
  /\ UNCHANGED <<life, op, queue, fly, muted, req, belief, mode, snap, reported, unsup, radar>>

SetWorkMode(m) ==
  /\ "mode" \in UserOps /\ HasModes /\ ~Draining
  /\ IF belief.unsupported
       THEN /\ mode' = [mode EXCEPT !.shown = mode.reported]
            /\ pub' = [pub EXCEPT !.error = TRUE]
            /\ task' = [task EXCEPT !.error = TRUE]
       ELSE /\ mode' = [mode EXCEPT !.want = m, !.shown = m]
            /\ UNCHANGED <<pub, task>>
  /\ UNCHANGED <<life, op, queue, fly, muted, req, belief, params, radar>>

Request(r) ==
  /\ ~Draining /\ req' = r
  /\ UNCHANGED <<life, op, queue, fly, muted, task, belief, mode, params, radar>>

RequestRefresh ==
  "refresh" \in UserOps /\ Request([req EXCEPT !.refresh = TRUE]) /\ UNCHANGED pub
RequestRestart ==
  "restart" \in UserOps /\ Request([req EXCEPT !.restart = TRUE]) /\ UNCHANGED pub
RequestFactoryReset ==
  "factory" \in UserOps /\ Request([req EXCEPT !.factory = TRUE]) /\ UNCHANGED pub

\* RunningSwitch::write_state(): the switch shows the request at once.
RequestRunning(on) ==
  /\ "run" \in UserOps
  /\ Request([req EXCEPT !.run = IF on THEN "on" ELSE "off"])
  /\ pub' = [pub EXCEPT !.running = on]

\* The radar loses power for a moment: it comes back running, with the stored
\* settings, and a command it was working on is lost.
RadarPowerCycle ==
  /\ "power" \in UserOps
  /\ radar' = Rebooted
  /\ muted' = (fly # Nil)
  /\ UNCHANGED <<life, op, queue, fly, req, task, belief, mode, params, pub>>

\* The ESP restarts: the component keeps nothing, the radar keeps everything.
EspReboot ==
  /\ "reboot" \in UserOps
  /\ life' = "BOOT_WAIT" /\ op' = "NONE" /\ queue' = <<>> /\ fly' = Nil
  /\ muted' = FALSE /\ req' = BootReq /\ task' = BootTask /\ belief' = BootBelief
  /\ mode' = BootMode /\ pub' = BootPub /\ unsup' = {}
  /\ want' = NoValue /\ snap' = NoValue /\ reported' = NoValue /\ shown' = NoValue
  /\ UNCHANGED radar

UserNext ==
  \/ \E g \in Groups, v \in Vals : SetDesired(g, v)
  \/ \E m \in Modes : SetWorkMode(m)
  \/ RequestRefresh \/ RequestRestart \/ RequestFactoryReset
  \/ \E on \in BOOLEAN : RequestRunning(on)
  \/ RadarPowerCycle
  \/ EspReboot

-----------------------------------------------------------------------------
(* The radar: what each command does to it and how on_reply_() classifies  *)
(* its answer.  A command that answers nothing (setRunApp, resetSystem)    *)
(* answers "NONE" here.                                                    *)

Out(r, result) == [radar |-> r, result |-> result, val |-> Nil]

Now == radar.val[radar.app]

GetOutcomes(g) ==
  IF g \notin radar.fw.knows THEN {Out(radar, "UNRECOGNIZED")}
  ELSE IF (radar.running /\ ~radar.fw.getRun) \/ radar.app \notin GroupModes[g]
    THEN {Out(radar, "ERROR")}
    ELSE {[Out(radar, "OK") EXCEPT !.val = Now[g]]}
           \cup (IF "mangle" \in Faults THEN {Out(radar, "MALFORMED")} ELSE {})
           \cup (IF "short" \in Faults THEN {Out(radar, "SHORT")} ELSE {})

\* A refusal; the radar may take it for a change to be saved all the same.
Refusals(dirty) ==
  IF "reject" \notin Faults THEN {}
  ELSE {Out([radar EXCEPT !.unsaved = @ \/ d], "ERROR") : d \in {FALSE, dirty}}

\* A set is kept as sent, clamped to another value, or refused, which a SEN0395
\* may take for a change.  A value that is set back is still to be saved.
SetOutcomes(g) ==
  IF g \notin radar.fw.knows THEN {Out(radar, "UNRECOGNIZED")}
  ELSE IF radar.running
    THEN {Out(radar, IF HasModes THEN "ERROR" ELSE "NOT_STOPPED")}
  ELSE IF radar.app \notin GroupModes[g] THEN {Out(radar, "ERROR")}
    ELSE {Out([radar EXCEPT !.val[radar.app][g] = v,
                            !.unsaved = @ \/ v # Now[g]], "OK") :
            v \in IF "clamp" \in Faults THEN Vals ELSE Vals \cap {snap[g]}}
         \cup Refusals(~HasModes)

StartOutcomes ==
  IF ~HasModes /\ radar.unsaved THEN {Out(radar, "UNSAVED")}
  ELSE {Out(Started(radar), "OK")}
         \cup (IF HasModes /\ radar.running THEN {Out(radar, "ERROR")} ELSE {})

SaveOutcomes ==
  IF HasModes /\ radar.running THEN {Out(radar, "NOT_STOPPED")}
  ELSE IF HasModes /\ ~radar.unsaved THEN {Out(radar, "ERROR")}
  ELSE {Out([radar EXCEPT !.saved = radar.val, !.unsaved = FALSE], "OK")}

\* Both apps get the defaults.  The SEN0395 stores them itself, the C4001 waits
\* for saveConfig.
ResetCfgOutcomes ==
  LET all == [m \in Modes |-> [g \in Groups |-> Default]]
  IN {Out([radar EXCEPT !.val = all,
                        !.saved = IF HasModes THEN @ ELSE all,
                        !.unsaved = HasModes /\ (@ \/ all # radar.val)], "OK")}
       \cup (IF "refuse" \in Faults THEN {Out(radar, "ERROR")} ELSE {})

\* setRunApp restarts the radar into the other app and keeps the choice, which
\* counts as a change to be saved.
SetRunAppOutcomes ==
  {Out([Started(radar) EXCEPT !.app = m, !.unsaved = @ \/ m # radar.app], "NONE") :
     m \in Modes \cap {mode.target}}
    \cup Refusals(FALSE)

Outcomes(c) ==
  CASE c.id = "GET_SWV" -> {Out(radar, "OK")}
    [] c.id = "GET_GROUP" -> UNION {GetOutcomes(g) : g \in c.groups}
    [] c.id = "SET_GROUP" -> UNION {SetOutcomes(g) : g \in c.groups}
    [] c.id = "STOP" -> {Out([radar EXCEPT !.running = FALSE], "OK")}
    [] c.id = "START" -> StartOutcomes
    [] c.id = "SAVE" -> SaveOutcomes
    [] c.id = "RESET_CFG" -> ResetCfgOutcomes
    [] c.id = "SET_RUN_APP" -> SetRunAppOutcomes
    [] c.id = "RESET_SYSTEM" -> {Out(Rebooted, "NONE")}
    [] OTHER -> {}

-----------------------------------------------------------------------------
(* on_done_(): what the engine makes of a finished command.  Each operator *)
(* leaves fly, muted and radar to the step that calls it.                  *)

\* Altered forms, for the runs' mutants: the restart hides the end marker; the
\* radar is started whoever stopped it.
FailQueueNoEnd(c) ==
  IF task.stopped /\ task.restart /\ c.id \notin {"START", "STOP"}
  THEN <<Cmd("START", 1, {"FAILURE_PATH"})>> ELSE Marker("FAIL_END")
FailQueueStarts(c) ==
  (IF task.stopped /\ c.id \notin {"START", "STOP"}
     THEN <<Cmd("START", 1, {"FAILURE_PATH"})>> ELSE <<>>)
  \o Marker("FAIL_END")

\* The error path: what is left of the queue after op_failed_().
FailQueue(c) ==
  (IF task.stopped /\ task.restart /\ c.id \notin {"START", "STOP"}
     THEN <<Cmd("START", 1, {"FAILURE_PATH"})>> ELSE <<>>)
  \o Marker("FAIL_END")

\* Altered: the rest of the failed operation stays queued.
OpFailedKeeps(c) ==
  IF task.failing THEN UNCHANGED <<queue, task>>
  ELSE /\ queue' = FailQueue(c) \o queue
       /\ task' = [task EXCEPT !.failing = TRUE]

OpFailed(c) ==
  IF task.failing THEN UNCHANGED <<queue, task>>
  ELSE /\ queue' = FailQueue(c)
       /\ task' = [task EXCEPT !.failing = TRUE]

\* set_error_(): the message stays until an operation ends cleanly.
SetError ==
  /\ task' = [task EXCEPT !.error = TRUE]
  /\ pub' = [pub EXCEPT !.error = TRUE]

\* enter_backoff_(), from work mode record m, publications p.
EnterBackoff(m, p) ==
  /\ queue' = <<>> /\ op' = "NONE" /\ life' = "BACKOFF"
  /\ belief' = [belief EXCEPT !.recover = @ \/ belief.everRunning,
                              !.armed = FALSE]
  /\ mode' = [m EXCEPT !.waiting = FALSE, !.pending = FALSE,
                       !.rejected = FALSE]
  /\ pub' = [p EXCEPT !.linkOk = FALSE, !.status = "LINK_LOST"]

GetSwvDone(c, o) ==
  /\ IF o.result = "TIMEOUT" THEN EnterBackoff(mode, pub)
     ELSE UNCHANGED <<life, op, queue, belief, mode, pub>>
  /\ UNCHANGED <<req, task, params>>

\* Altered: a setting of both modes keeps the value read in the other one.
GetAppliedFirst(g, v) ==
  /\ reported' = IF GroupModes[g] = Modes /\ reported[g] # Nil /\ op # "TXN"
                 THEN reported ELSE [reported EXCEPT ![g] = v]
  /\ unsup' = unsup \ {g}
  /\ task' = [task EXCEPT !.readOk = @ \cup {g}]
  /\ UNCHANGED <<queue, belief>>

GetApplied(g, v) ==
  /\ reported' = [reported EXCEPT ![g] = v]
  /\ unsup' = unsup \ {g}
  /\ task' = [task EXCEPT !.readOk = @ \cup {g}]
  /\ UNCHANGED <<queue, belief>>

\* A get that brought no value: an unparseable answer is never proof that the
\* firmware lacks the setting, any other failure of a probe during the
\* identify-and-read is.  An answer with too few values changes nothing else.
GetFailed(c, g, result) ==
  /\ IF result # "MALFORMED" /\ g \in Probe /\ op = "BOOT_READ"
       THEN unsup' = unsup \cup {g} /\ UNCHANGED <<queue, task, belief>>
     ELSE IF result \in {"MALFORMED", "TIMEOUT"}
       THEN /\ IF task.firstRead THEN UNCHANGED <<queue, task>> ELSE OpFailed(c)
            /\ UNCHANGED <<unsup, belief>>
       ELSE /\ belief' = IF /\ result # "SHORT"
                            /\ op = "READ" /\ g = RangeGroup /\ belief.running
                         THEN [belief EXCEPT !.requiresStop = TRUE] ELSE belief
            /\ UNCHANGED <<unsup, queue, task>>
  /\ UNCHANGED reported

GetGroupDone(c, o) ==
  /\ \E g \in c.groups :
       IF o.result = "OK" THEN GetApplied(g, o.val) ELSE GetFailed(c, g, o.result)
  /\ UNCHANGED <<life, op, req, mode, want, snap, shown, pub>>

SetGroupDone(c, o) ==
  /\ CASE o.result = "OK" ->
            /\ task' = [task EXCEPT !.setOk = @ \cup c.groups]
            /\ UNCHANGED <<queue, belief, pub>>
       [] o.result = "TIMEOUT" -> OpFailed(c) /\ UNCHANGED <<belief, pub>>
       [] o.result = "NOT_STOPPED" ->  \* set_running_(true) in on_reply_()
            /\ task' = [task EXCEPT !.setFail = @ \cup c.groups, !.error = TRUE]
            /\ pub' = RunningPub([pub EXCEPT !.error = TRUE], TRUE)
            /\ belief' = [belief EXCEPT !.running = TRUE, !.known = TRUE]
            /\ UNCHANGED queue
       [] OTHER ->
            /\ task' = [task EXCEPT !.setFail = @ \cup c.groups, !.error = TRUE]
            /\ pub' = [pub EXCEPT !.error = TRUE]
            /\ UNCHANGED <<queue, belief>>
  /\ UNCHANGED <<life, op, req, mode, params>>

\* Without an answer setRunApp counts as carried out; a refusal skips the wait
\* for the new app.
SetRunAppDone(c, o) ==
  /\ IF o.result = "OK"
       THEN /\ belief' = [belief EXCEPT !.running = TRUE, !.known = TRUE]
            /\ pub' = RunningPub(pub, TRUE)
            /\ mode' = [mode EXCEPT !.seen = FALSE]
            /\ UNCHANGED <<queue, task>>
       ELSE /\ mode' = [mode EXCEPT !.rejected = TRUE]
            /\ queue' = IF queue # <<>> /\ Head(queue).id = "MODE_WAIT"
                        THEN Tail(queue) ELSE queue
            /\ SetError
            /\ UNCHANGED belief
  /\ UNCHANGED <<life, op, req, params>>

\* Altered: a stop without an answer counts as done; a stop without an answer
\* is not remembered.
StopDoneAssumed(c, o) ==
  /\ belief' = [belief EXCEPT !.running = FALSE, !.known = TRUE]
  /\ pub' = RunningPub(pub, FALSE)
  /\ UNCHANGED <<life, op, queue, req, task, mode, params>>
StopDoneForgets(c, o) ==
  /\ IF o.result = "TIMEOUT" THEN OpFailed(c) /\ UNCHANGED <<belief, pub>>
     ELSE /\ belief' = [belief EXCEPT !.running = FALSE, !.known = TRUE]
          /\ pub' = RunningPub(pub, FALSE)
          /\ UNCHANGED <<queue, task>>
  /\ UNCHANGED <<life, op, req, mode, params>>

\* Error means not running, so only a timeout leaves the radar's state open.
StopDone(c, o) ==
  /\ IF o.result = "TIMEOUT"
       THEN /\ belief' = [belief EXCEPT !.unconfirmed = TRUE]
            /\ OpFailed(c) /\ UNCHANGED pub
       ELSE /\ belief' = [belief EXCEPT !.running = FALSE, !.known = TRUE]
            /\ pub' = RunningPub(pub, FALSE)
            /\ UNCHANGED <<queue, task>>
  /\ UNCHANGED <<life, op, req, mode, params>>

\* Altered: a refusal to start with unsaved changes is only reported.
StartDoneGivesUp(c, o) ==
  /\ CASE o.result = "OK" ->
            /\ belief' = [belief EXCEPT !.running = TRUE, !.known = TRUE,
                                        !.unconfirmed = FALSE]
            /\ pub' = RunningPub(pub, TRUE)
            /\ UNCHANGED <<queue, task>>
       [] o.result = "TIMEOUT" ->
            /\ IF "FAILURE_PATH" \in c.flags THEN UNCHANGED <<queue, task>>
               ELSE OpFailed(c)
            /\ UNCHANGED <<belief, pub>>
       [] OTHER -> SetError /\ UNCHANGED <<queue, belief>>
  /\ UNCHANGED <<life, op, req, mode, params>>

StartDone(c, o) ==
  /\ CASE o.result = "OK" \/ (o.result = "ERROR" /\ "RECOVERY" \in c.flags) ->
            /\ belief' = [belief EXCEPT !.running = TRUE, !.known = TRUE,
                                        !.unconfirmed = FALSE]
            /\ pub' = RunningPub(pub, TRUE)
            /\ UNCHANGED <<queue, task>>
       [] o.result = "UNSAVED" /\ "START_RETRY" \notin c.flags ->
            /\ queue' = <<Cmd("SAVE", 1, {}),
                          Cmd("START", 1, c.flags \cup {"START_RETRY"})>> \o queue
            /\ UNCHANGED <<belief, pub, task>>
       [] o.result = "TIMEOUT" ->
            /\ IF "FAILURE_PATH" \in c.flags THEN UNCHANGED <<queue, task>>
               ELSE OpFailed(c)
            /\ UNCHANGED <<belief, pub>>
       [] OTHER -> SetError /\ UNCHANGED <<queue, belief>>
  /\ UNCHANGED <<life, op, req, mode, params>>

\* A bare Error of the C4001 means that nothing changed; finish_txn_() decides.
SaveDone(c, o) ==
  /\ CASE o.result = "OK" -> UNCHANGED <<queue, belief, pub, task>>
       [] o.result = "TIMEOUT" -> OpFailed(c) /\ UNCHANGED <<belief, pub>>
       [] o.result = "ERROR" /\ op \in {"TXN", "FACTORY_RESET"} ->
            /\ task' = [task EXCEPT !.saveError = TRUE]
            /\ UNCHANGED <<queue, belief, pub>>
       [] o.result = "NOT_STOPPED" ->  \* set_running_(true) in on_reply_()
            /\ task' = [task EXCEPT !.error = TRUE]
            /\ pub' = RunningPub([pub EXCEPT !.error = TRUE], TRUE)
            /\ belief' = [belief EXCEPT !.running = TRUE, !.known = TRUE]
            /\ UNCHANGED queue
       [] OTHER -> SetError /\ UNCHANGED <<queue, belief>>
  /\ UNCHANGED <<life, op, req, mode, params>>

ResetCfgDone(c, o) ==
  /\ CASE o.result = "OK" -> UNCHANGED <<queue, task, pub>>
       [] o.result = "TIMEOUT" -> OpFailed(c) /\ UNCHANGED pub
       [] OTHER -> SetError /\ UNCHANGED queue
  /\ UNCHANGED <<life, op, req, belief, mode, params>>

\* resetSystem: the engine waits for the boot and forgets what it knew of the
\* radar (reset_radar_state_()); the entities keep their values.
ResetSystemDone(c, o) ==
  /\ queue' = <<>> /\ op' = "NONE" /\ life' = "BOOT_WAIT"
  /\ belief' = [BootBelief EXCEPT !.running = belief.running,
                                  !.everRunning = belief.everRunning]
  /\ mode' = [mode EXCEPT !.work = "UNKNOWN", !.confirm = FALSE,
                          !.waiting = FALSE, !.pending = FALSE,
                          !.rejected = FALSE]
  /\ unsup' = {}
  /\ pub' = [pub EXCEPT !.status = "BOOT_WAIT"]
  /\ UNCHANGED <<req, task, want, snap, reported, shown>>

OnDone(c, o) ==
  CASE c.id = "GET_SWV"      -> GetSwvDone(c, o)
    [] c.id = "GET_GROUP"    -> GetGroupDone(c, o)
    [] c.id = "SET_GROUP"    -> SetGroupDone(c, o)
    [] c.id = "SET_RUN_APP"  -> SetRunAppDone(c, o)
    [] c.id = "STOP"         -> StopDone(c, o)
    [] c.id = "START"        -> StartDone(c, o)
    [] c.id = "SAVE"         -> SaveDone(c, o)
    [] c.id = "RESET_CFG"    -> ResetCfgDone(c, o)
    [] c.id = "RESET_SYSTEM" -> ResetSystemDone(c, o)

\* complete_(): an unparseable answer is asked for once more.
Complete(c, o) ==
  /\ fly' = Nil /\ muted' = FALSE
  /\ IF o.result = "MALFORMED" /\ "REPARSE" \notin c.flags
       THEN /\ queue' = <<[c EXCEPT !.flags = @ \cup {"REPARSE"}]>> \o queue
            /\ UNCHANGED <<life, op, req, task, belief, mode, params, pub>>
       ELSE OnDone(c, o)

-----------------------------------------------------------------------------
(* The wire.                                                               *)

NoReply == {"SET_RUN_APP", "RESET_SYSTEM"}

\* drive_queue_() sends the head of the queue once the gap since the last
\* command has passed.
Send ==
  /\ fly = Nil /\ ~mode.waiting /\ queue # <<>> /\ ~Draining
  /\ muted' = FALSE
  /\ LET h == Head(queue) IN
       IF h.groups = {}
         THEN fly' = h /\ queue' = Tail(queue)
         ELSE LET g == CHOOSE g \in h.groups : TRUE IN
              /\ fly' = [h EXCEPT !.groups = {g}]
              /\ queue' = (IF h.groups = {g} THEN <<>>
                           ELSE <<[h EXCEPT !.groups = @ \ {g}]>>) \o Tail(queue)
  /\ UNCHANGED <<life, op, req, task, belief, mode, params, pub, radar>>

\* The radar carries the command out and its answer arrives.
Answer ==
  /\ fly # Nil /\ ~muted
  /\ \E o \in Outcomes(fly) :
       /\ o.result # "NONE"
       /\ radar' = o.radar
       /\ Complete(fly, o)

\* The radar carries the command out and says nothing, or its answer is lost.
CarriedOut ==
  /\ fly # Nil /\ ~muted /\ muted' = TRUE
  /\ \E o \in Outcomes(fly) :
       /\ o.result = "NONE" \/ "mute" \in Faults
       /\ radar' = o.radar
  /\ UNCHANGED <<life, op, queue, fly, req, task, belief, mode, params, pub>>

\* The command never reaches the radar.
CommandLost ==
  /\ "lose" \in Faults /\ fly # Nil /\ ~muted /\ muted' = TRUE
  /\ UNCHANGED <<life, op, queue, fly, req, task, belief, mode, params, pub, radar>>

\* Altered: one retry too many; retries are not counted.
TimeoutOffByOne ==
  /\ fly # Nil /\ muted
  /\ Waited(Halves(fly))
  /\ IF fly.id \in NoReply THEN Complete(fly, Out(radar, "OK"))
     ELSE IF fly.retries >= 0
       THEN /\ fly' = [fly EXCEPT !.retries = @ - 1]
            /\ muted' = FALSE
            /\ UNCHANGED <<life, op, queue, req, task, belief, mode, params, pub>>
       ELSE Complete(fly, Out(radar, "TIMEOUT"))
TimeoutUncounted ==
  /\ fly # Nil /\ muted
  /\ Waited(Halves(fly))
  /\ IF fly.id \in NoReply THEN Complete(fly, Out(radar, "OK"))
     ELSE /\ muted' = FALSE
          /\ UNCHANGED <<life, op, queue, fly, req, task, belief, mode, params, pub>>

\* The in-flight timer of loop(): silence is success for the commands that
\* answer nothing, else a retry, else a failure.
Timeout ==
  /\ fly # Nil /\ muted
  /\ Waited(Halves(fly))
  /\ IF fly.id \in NoReply THEN Complete(fly, Out(radar, "OK"))
     ELSE IF fly.retries > 0
       THEN /\ fly' = [fly EXCEPT !.retries = @ - 1]
            /\ muted' = FALSE
            /\ UNCHANGED <<life, op, queue, req, task, belief, mode, params, pub>>
       ELSE Complete(fly, Out(radar, "TIMEOUT"))

\* set_work_mode_(m): the radar is learnt to run the app of mode m.
NewMode(m) == m # mode.work \/ mode.reported = Nil

LearntMode(m) ==
  LET rep == IF NewMode(m) THEN m ELSE mode.reported
      confirmed == mode.confirm /\ op = "NONE"
      free == mode.want = Nil /\ ~mode.confirm /\ ~mode.pending
                /\ op \notin {"TXN", "FACTORY_RESET", "MODE_SWITCH"}
  IN [mode EXCEPT !.work = m, !.reported = rep,
                  !.shown = IF confirmed \/ (NewMode(m) /\ free) THEN rep ELSE @,
                  !.seen = @ \/ (op = "MODE_SWITCH" /\ m = mode.target),
                  !.confirm = @ /\ ~confirmed]

\* Altered: the entities are not told of the new mode.
LearntShownLate(m) == shown

\* Settings of one mode only become unknown, or known again.
LearntShown(m) ==
  [g \in Groups |->
     IF NewMode(m) /\ GroupModes[g] # Modes /\ reported[g] # Nil /\ want[g] = Nil
     THEN Display(g, m) ELSE shown[g]]

\* The settings of a newly learnt mode still have to be read, unless a pending
\* mode switch reads them anyway.
LearntReq(m, pending) ==
  [req EXCEPT !.modeRead = @ \/ (NewMode(m) /\ m # mode.lastRead /\ ~pending)]

\* on_sentence_(): a running radar reports.  In the presence app it may be
\* silent, so a report is possible, never certain.
Sentence ==
  /\ radar.running
  /\ radar' = [radar EXCEPT !.quiet = 0]
  /\ belief' = [belief EXCEPT !.running = TRUE, !.known = TRUE, !.armed = FALSE,
                              !.userStopped = @ /\ belief.running /\ belief.known]
  /\ pub' = [RunningPub(pub, TRUE) EXCEPT
               !.status = IF @ = "STOPPED" /\ ~(belief.running /\ belief.known)
                          THEN "RUNNING" ELSE @]
  /\ IF HasModes
       THEN /\ mode' = LearntMode(radar.app)
            /\ shown' = LearntShown(radar.app)
            /\ req' = LearntReq(radar.app, mode.pending)
       ELSE UNCHANGED <<mode, shown, req>>
  /\ UNCHANGED <<life, op, queue, fly, muted, task, want, snap, reported, unsup>>

WireNext == Send \/ Answer \/ CarriedOut \/ CommandLost \/ Timeout \/ Sentence

-----------------------------------------------------------------------------
(* drive_queue_(): markers and what they start or finish.                  *)

SkipSave ==
  /\ fly = Nil /\ ~mode.waiting /\ queue # <<>> /\ Skippable(Head(queue))
  /\ queue' = Tail(queue)
  /\ UNCHANGED <<life, op, fly, muted, req, task, belief, mode, params, pub, radar>>

\* start_identify_and_read_(): getRange first, it tells whether gets are
\* answered at all.
ProbeDone ==
  /\ AtMarker("PROBE_DONE")
  /\ op' = "BOOT_READ"
  /\ queue' = Tail(queue) \o Gets({RangeGroup}) \o Marker("FIRST_READ")
  /\ task' = [task EXCEPT
                !.error = @ /\ mode.pending, !.saveError = @ /\ mode.pending,
                !.readOk = {}, !.stopped = FALSE, !.restart = TRUE,
                !.failing = FALSE, !.firstRead = TRUE]
  /\ unsup' = {}
  /\ mode' = [mode EXCEPT !.lastRead = ReadMode(mode.work)]
  /\ req' = [req EXCEPT !.modeRead = FALSE]
  /\ pub' = [pub EXCEPT !.status = "READING"]
  /\ UNCHANGED <<life, fly, muted, belief, want, snap, reported, shown, radar>>

\* Altered: only a radar known to be stopped is started.
RecoveryStartKnown == KnownStopped /\ ~belief.userStopped

\* "A failed operation or a lost link may have left the radar stopped without
\* any reply saying so": is it started after the identify-and-read?
RecoveryStart ==
  (KnownStopped \/ belief.recover \/ belief.unconfirmed) /\ ~belief.userStopped

FirstRead ==
  /\ AtMarker("FIRST_READ")
  /\ mode' = [mode EXCEPT !.lastRead = ReadMode(mode.work)]
  /\ req' = [req EXCEPT !.modeRead = FALSE]
  /\ IF RangeGroup \in task.readOk
       THEN /\ belief' = [belief EXCEPT !.requiresStop = @ /\ KnownStopped,
                                        !.recover = FALSE]
            /\ task' = [task EXCEPT !.firstRead = FALSE]
            /\ queue' = Tail(queue) \o Gets(Readable(Groups \ {RangeGroup}))
                          \o (IF RecoveryStart THEN Start({"RECOVERY"}) ELSE <<>>)
                          \o Marker("READ_END")
       ELSE /\ belief' = [belief EXCEPT !.requiresStop = TRUE, !.recover = FALSE]
            /\ task' = [task EXCEPT !.firstRead = FALSE, !.stopped = TRUE,
                                    !.restart = ~belief.userStopped]
            /\ queue' = Tail(queue) \o Stop \o Gets(Readable(Groups))
                          \o (IF belief.userStopped THEN <<>> ELSE Start({}))
                          \o Marker("READ_END")
  /\ UNCHANGED <<life, op, fly, muted, params, pub, radar>>

\* finish_read_() of a refresh or of the read that follows a learnt mode.
ReadEnd ==
  /\ AtMarker("READ_END") /\ op # "BOOT_READ"
  /\ queue' = Tail(queue) /\ op' = "NONE"
  /\ shown' = [g \in Groups |->
                 IF g \in task.readOk /\ want[g] = Nil
                 THEN Display(g, mode.work) ELSE shown[g]]
  /\ task' = [task EXCEPT !.stopped = FALSE]
  /\ pub' = [pub EXCEPT
               !.error = task.error,
               !.status = IF belief.unsupported THEN "UNSUPPORTED_FIRMWARE"
                          ELSE IF KnownStopped THEN "STOPPED" ELSE "RUNNING"]
  /\ UNCHANGED <<life, fly, muted, req, belief, mode, want, snap, reported, unsup, radar>>

\* finish_mode_switch_(): the mode the radar is in is not the one asked for.
SwitchMissed == mode.pending /\ ~mode.rejected /\ mode.work # mode.target

\* finish_read_() of the identify-and-read: the answer to getRange decides
\* whether the firmware is supported, silence gives away the presence app.
FinishBootRead(silent, reports) ==
  LET answers == RangeGroup \in task.readOk
      infer == /\ HasModes /\ silent /\ mode.work # "PRESENCE"
               /\ ~KnownStopped /\ ~belief.userStopped
      learnt == IF infer THEN LearntMode("PRESENCE") ELSE mode
      bad == task.error \/ ~answers \/ SwitchMissed
  IN /\ mode' = [learnt EXCEPT
           !.shown = IF HasModes THEN learnt.reported ELSE @,
           !.pending = FALSE, !.rejected = @ /\ ~mode.pending]
     /\ shown' = [g \in Groups |->
           IF /\ want[g] = Nil
              /\ \/ g \in task.readOk
                 \/ infer /\ GroupModes[g] # Modes /\ reported[g] # Nil
           THEN Display(g, learnt.work) ELSE shown[g]]
     /\ req' = IF infer THEN LearntReq("PRESENCE", FALSE) ELSE req
     /\ task' = [task EXCEPT !.stopped = FALSE, !.error = bad]
     /\ belief' = [belief EXCEPT
           !.unsupported = ~answers, !.everRunning = TRUE,
           !.unconfirmed = FALSE,
           !.armed = /\ HasModes /\ ReadMode(learnt.work) = "PRESENCE"
                     /\ ~belief.userStopped /\ reports]
     /\ pub' = [pub EXCEPT
           !.linkOk = TRUE, !.error = bad,
           !.status = IF ~answers THEN "UNSUPPORTED_FIRMWARE"
                      ELSE IF KnownStopped THEN "STOPPED" ELSE "RUNNING"]

\* A C4001 silent for the length of the mode-switch wait is taken to be in the
\* presence app: "the speed app is never silent".  A speed app that was stopped
\* for that long and just started may not have reported yet.  A radar whose mode
\* is unknown has not reported since the boot delay began.
BootReadEnd ==
  /\ AtMarker("READ_END") /\ op = "BOOT_READ"
  /\ queue' = Tail(queue) /\ op' = "NONE" /\ life' = "RUNNING"
  /\ \E silent \in BOOLEAN, reports \in BOOLEAN :
       /\ silent => radar.quiet = 2 \/ radar.app = "PRESENCE"
       /\ silent \/ mode.work # "UNKNOWN"
       /\ FinishBootRead(silent, reports)
  /\ UNCHANGED <<fly, muted, want, snap, reported, unsup, radar>>

\* Altered: a setting that the radar accepted counts as taken.
MismatchedRefused == {g \in Groups : snap[g] # Nil /\ g \in task.setFail}

\* finish_txn_(): the settings the radar did not take as sent.
Mismatched ==
  {g \in Groups : /\ snap[g] # Nil
                  /\ g \notin task.readOk \/ reported[g] # snap[g]}

\* "saveConfig answered Error" is no error when all values were read back.
SaveFailed ==
  /\ task.saveError
  /\ \/ task.readOk = {} \/ task.setFail # {}
     \/ \E g \in Groups : snap[g] # Nil /\ g \notin task.readOk

TxnEnd ==
  /\ AtMarker("TXN_END")
  /\ queue' = Tail(queue) /\ op' = "NONE"
  /\ LET bad == task.error \/ Mismatched # {} \/ SaveFailed
     IN /\ pub' = [pub EXCEPT !.error = bad,
                     !.status = IF KnownStopped THEN "STOPPED" ELSE "RUNNING"]
        /\ task' = [task EXCEPT !.stopped = FALSE, !.error = bad]
  /\ shown' = [g \in Groups |->
                 IF g \in task.readOk \/ snap[g] # Nil
                 THEN Display(g, mode.work) ELSE shown[g]]
  /\ snap' = NoValue
  /\ mode' = [mode EXCEPT !.confirm = @ \/ (op = "FACTORY_RESET" /\ HasModes)]
  /\ UNCHANGED <<life, fly, muted, req, belief, want, reported, unsup, radar>>

\* Altered: the status tells the request, not the radar.
RunDoneRequest ==
  /\ AtMarker("RUN_DONE")
  /\ queue' = Tail(queue) /\ op' = "NONE"
  /\ pub' = [pub EXCEPT !.status = IF belief.userStopped THEN "STOPPED" ELSE "RUNNING"]
  /\ UNCHANGED <<life, fly, muted, req, task, belief, mode, params, radar>>

RunDone ==
  /\ AtMarker("RUN_DONE")
  /\ queue' = Tail(queue) /\ op' = "NONE"
  /\ pub' = [pub EXCEPT !.status = IF belief.running THEN "RUNNING" ELSE "STOPPED"]
  /\ UNCHANGED <<life, fly, muted, req, task, belief, mode, params, radar>>

\* finish_failure_(): the values sent are reverted and the link is given up.
FailEnd ==
  /\ AtMarker("FAIL_END")
  /\ shown' = [g \in Groups |->
                 IF snap[g] # Nil /\ want[g] = Nil
                 THEN Display(g, mode.work) ELSE shown[g]]
  /\ snap' = NoValue
  /\ task' = [task EXCEPT !.error = TRUE, !.failing = FALSE, !.stopped = FALSE]
  /\ EnterBackoff([mode EXCEPT !.confirm = FALSE], [pub EXCEPT !.error = TRUE])
  /\ UNCHANGED <<fly, muted, req, want, reported, unsup, radar>>

PingEnd ==
  /\ AtMarker("PING_END")
  /\ queue' = Tail(queue) /\ op' = "NONE"
  /\ UNCHANGED <<life, fly, muted, req, task, belief, mode, params, pub, radar>>

ModeWait ==
  /\ AtMarker("MODE_WAIT")
  /\ queue' = Tail(queue)
  /\ mode' = [mode EXCEPT !.waiting = TRUE]
  /\ UNCHANGED <<life, op, fly, muted, req, task, belief, params, pub, radar>>

\* The new app reports.
ModeWaitSeen ==
  /\ mode.waiting /\ mode.seen
  /\ mode' = [mode EXCEPT !.waiting = FALSE]
  /\ UNCHANGED <<life, op, queue, fly, muted, req, task, belief, params, pub, radar>>

\* Altered: silence counts as proof that the new app runs.
ModeWaitExpiredSure ==
  /\ mode.waiting /\ ~mode.seen
  /\ Waited(2)
  /\ IF mode.target = "PRESENCE"
       THEN /\ mode' = [LearntMode("PRESENCE") EXCEPT !.waiting = FALSE]
            /\ shown' = LearntShown("PRESENCE")
       ELSE mode' = [mode EXCEPT !.waiting = FALSE] /\ UNCHANGED shown
  /\ UNCHANGED <<life, op, queue, fly, muted, req, task, belief, want, snap, reported, unsup, pub>>

\* Altered: the speed app is waited for until it is heard.
ModeWaitExpiredPresence ==
  /\ mode.waiting /\ ~mode.seen /\ mode.target = "PRESENCE"
  /\ Waited(2)
  /\ queue' = <<Cmd("START", 1, {"RECOVERY"})>> \o queue
  /\ mode' = [LearntMode("PRESENCE") EXCEPT !.waiting = FALSE]
  /\ shown' = LearntShown("PRESENCE")
  /\ UNCHANGED <<life, op, fly, muted, req, task, belief, want, snap, reported, unsup, pub>>

\* The wait runs out.  Silence does not prove that setRunApp was carried out,
\* so the radar is started before it is read.
ModeWaitExpired ==
  /\ mode.waiting /\ ~mode.seen
  /\ Waited(2)
  /\ queue' = <<Cmd("START", 1, {"RECOVERY"})>> \o queue
  /\ IF mode.target = "PRESENCE"
       THEN /\ mode' = [LearntMode("PRESENCE") EXCEPT !.waiting = FALSE]
            /\ shown' = LearntShown("PRESENCE")
       ELSE mode' = [mode EXCEPT !.waiting = FALSE] /\ UNCHANGED shown
  /\ UNCHANGED <<life, op, fly, muted, req, task, belief, want, snap, reported, unsup, pub>>

DriveNext ==
  \/ SkipSave \/ ProbeDone \/ FirstRead \/ ReadEnd \/ BootReadEnd \/ TxnEnd
  \/ RunDone \/ FailEnd \/ PingEnd \/ ModeWait \/ ModeWaitSeen \/ ModeWaitExpired

-----------------------------------------------------------------------------
(* schedule_(): one branch, the first that has work.                       *)

\* Altered: the engine does not probe again after a backoff.
StartProbeOnce ==
  /\ Dry /\ life = "BOOT_WAIT"
  /\ life' = "PROBE" /\ op' = "PROBE"
  /\ Waited(2)
  /\ queue' = <<Cmd("GET_SWV", Retries, {})>> \o Marker("PROBE_DONE")
  /\ task' = [task EXCEPT !.failing = FALSE]
  /\ pub' = [pub EXCEPT !.status = IF @ = "LINK_LOST" THEN @ ELSE "PROBING"]
  /\ UNCHANGED <<fly, muted, req, belief, mode, params>>

\* The boot delay or the backoff is over.
StartProbe ==
  /\ Dry /\ life \in {"BOOT_WAIT", "BACKOFF"}
  /\ life' = "PROBE" /\ op' = "PROBE"
  /\ Waited(2)
  /\ queue' = <<Cmd("GET_SWV", Retries, {})>> \o Marker("PROBE_DONE")
  /\ task' = [task EXCEPT !.failing = FALSE]
  /\ pub' = [pub EXCEPT !.status = IF @ = "LINK_LOST" THEN @ ELSE "PROBING"]
  /\ UNCHANGED <<fly, muted, req, belief, mode, params>>

StartRestart ==
  /\ Idle /\ req.restart
  /\ req' = [req EXCEPT !.restart = FALSE]
  /\ op' = "RESTART"
  /\ queue' = <<Cmd("RESET_SYSTEM", 0, {})>>
  /\ UNCHANGED <<life, fly, muted, task, belief, mode, params, pub, radar>>

\* Altered: the values sent are taken for the radar's.
ReadBackNone(gs) == IF belief.userStopped THEN <<>> ELSE Start({})

\* sensorStop and sensorStart around a body, and the read-back of gs where
\* the radar answers it.
ReadBack(gs) ==
  LET start == IF belief.userStopped THEN <<>> ELSE Start({})
  IN IF belief.requiresStop THEN Gets(Readable(gs)) \o start
     ELSE start \o Gets(Readable(gs))

BeginTxn(t) ==
  [t EXCEPT !.error = FALSE, !.saveError = FALSE, !.failing = FALSE,
            !.setOk = {}, !.setFail = {}, !.readOk = {}]

FactoryRefused ==
  /\ Idle /\ ~req.restart /\ req.factory /\ belief.unsupported
  /\ req' = [req EXCEPT !.factory = FALSE]
  /\ SetError
  /\ UNCHANGED <<life, op, queue, fly, muted, belief, mode, params, radar>>

StartFactoryReset ==
  /\ Idle /\ ~req.restart /\ req.factory /\ ~belief.unsupported
  /\ req' = [req EXCEPT !.factory = FALSE]
  /\ op' = "FACTORY_RESET"
  /\ want' = NoValue /\ snap' = NoValue
  /\ mode' = [mode EXCEPT !.want = Nil]
  /\ task' = [BeginTxn(task) EXCEPT !.stopped = TRUE,
                                    !.restart = ~belief.userStopped]
  /\ pub' = [pub EXCEPT !.status = "APPLYING"]
  /\ queue' = Stop \o <<Cmd("RESET_CFG", Retries, {}), Cmd("SAVE", 1, {})>>
                \o ReadBack(Groups) \o Marker("TXN_END")
  /\ UNCHANGED <<life, fly, muted, belief, reported, shown, unsup, radar>>

StartRun ==
  /\ Idle /\ ~req.restart /\ ~req.factory /\ req.run # "none"
  /\ req' = [req EXCEPT !.run = "none"]
  /\ op' = "RUN_CTRL"
  /\ belief' = [belief EXCEPT !.userStopped = (req.run = "off")]
  /\ queue' = (IF req.run = "on" THEN Start({}) ELSE Stop) \o Marker("RUN_DONE")
  /\ UNCHANGED <<life, fly, muted, task, mode, params, pub, radar>>

NoRequest == ~req.restart /\ ~req.factory /\ req.run = "none"

\* Altered: changes wait until the radar is known to run.
MayApplyKnown == Idle /\ NoRequest /\ ~belief.unsupported /\ belief.known

\* The debounce time has passed since the last change.
MayApply == Idle /\ NoRequest /\ ~belief.unsupported

\* Altered: changes are sent whatever the mode.
ApplicableAlways(g) == TRUE

\* A change the current mode has no setting for is dropped with an error.
Applicable(g) == InMode(g, mode.work)

\* A change that was asked for before its group was found unsupported is kept
\* in the snapshot but not sent.
StartTxn ==
  /\ MayApply /\ mode.want = Nil /\ AnyDirty
  /\ LET dirty == {g \in Groups : want[g] # Nil}
         kept == {g \in dirty : Applicable(g)}
         sent == {g \in kept : Usable(g)}
         error == kept # dirty
     IN /\ want' = NoValue
        /\ IF sent = {}
             THEN /\ snap' = NoValue
                  /\ shown' = [g \in Groups |->
                        IF g \in dirty THEN Display(g, mode.work) ELSE shown[g]]
                  /\ task' = [BeginTxn(task) EXCEPT !.error = error, !.setFail = kept]
                  /\ pub' = [pub EXCEPT !.error = @ \/ error]
                  /\ UNCHANGED <<op, queue>>
             ELSE /\ op' = "TXN"
                  /\ snap' = [g \in Groups |-> IF g \in kept THEN want[g] ELSE Nil]
                  /\ shown' = [g \in Groups |->
                        IF g \in dirty \ kept THEN Display(g, mode.work) ELSE shown[g]]
                  /\ task' = [BeginTxn(task) EXCEPT
                                !.error = error, !.setFail = kept \ sent,
                                !.stopped = TRUE, !.restart = ~belief.userStopped]
                  /\ pub' = [pub EXCEPT !.status = "APPLYING", !.error = @ \/ error]
                  /\ queue' = Stop \o Batch("SET_GROUP", sent, Retries)
                                \o <<Cmd("SAVE", 1, {"OPTIONAL_SAVE"})>>
                                \o ReadBack(sent) \o Marker("TXN_END")
  /\ UNCHANGED <<life, fly, muted, req, belief, mode, reported, unsup, radar>>

\* Altered: the select keeps the request.
SwitchNothingQuiet ==
  /\ MayApply /\ mode.want # Nil /\ mode.want = mode.work
  /\ mode' = [mode EXCEPT !.want = Nil]
  /\ task' = [task EXCEPT !.error = FALSE, !.saveError = FALSE]
  /\ UNCHANGED <<life, op, queue, fly, muted, req, belief, params, pub, radar>>

\* "radar is already in that mode"
SwitchNothing ==
  /\ MayApply /\ mode.want # Nil /\ mode.want = mode.work
  /\ mode' = [mode EXCEPT !.want = Nil, !.shown = mode.reported]
  /\ task' = [task EXCEPT !.error = FALSE, !.saveError = FALSE]
  /\ UNCHANGED <<life, op, queue, fly, muted, req, belief, params, pub, radar>>

StartModeSwitch ==
  /\ MayApply /\ mode.want # Nil /\ mode.want # mode.work
  /\ op' = "MODE_SWITCH"
  /\ mode' = [mode EXCEPT !.want = Nil, !.target = mode.want, !.pending = TRUE,
                          !.rejected = FALSE, !.confirm = FALSE]
  /\ belief' = [belief EXCEPT !.userStopped = FALSE]
  /\ task' = [task EXCEPT !.error = FALSE, !.saveError = FALSE, !.failing = FALSE,
                          !.stopped = TRUE, !.restart = FALSE]
  /\ pub' = [pub EXCEPT !.status = "APPLYING"]
  /\ queue' = Stop \o <<Cmd("SET_RUN_APP", Retries, {})>> \o Marker("MODE_WAIT")
                \o <<Cmd("GET_SWV", Retries, {})>> \o Marker("PROBE_DONE")
  /\ UNCHANGED <<life, fly, muted, req, params, radar>>

\* A radar whose firmware is not supported is not read again.
ReadsDropped ==
  /\ Idle /\ NoRequest /\ belief.unsupported /\ (req.refresh \/ req.modeRead)
  /\ req' = [req EXCEPT !.refresh = FALSE, !.modeRead = FALSE]
  /\ UNCHANGED <<life, op, queue, fly, muted, task, belief, mode, params, pub, radar>>

\* start_read_(); `status` tells whether the user asked for it.
StartRead(status) ==
  /\ op' = "READ"
  /\ task' = [task EXCEPT
                !.error = FALSE, !.saveError = FALSE, !.readOk = {},
                !.failing = FALSE, !.firstRead = FALSE,
                !.stopped = belief.requiresStop,
                !.restart = IF belief.requiresStop THEN ~belief.userStopped ELSE @]
  /\ pub' = [pub EXCEPT !.status = status]
  /\ queue' = (IF belief.requiresStop THEN Stop \o ReadBack(Groups)
               ELSE Gets(Readable(Groups)))
              \o Marker("READ_END")
  /\ UNCHANGED <<life, fly, muted, belief, snap, reported, shown, unsup, radar>>

\* Unapplied changes revert to the radar's values.
StartRefresh ==
  /\ Idle /\ NoRequest /\ ~belief.unsupported /\ req.refresh
  /\ req' = [req EXCEPT !.refresh = FALSE, !.modeRead = FALSE]
  /\ want' = NoValue
  /\ mode' = [mode EXCEPT !.want = Nil, !.lastRead = ReadMode(mode.work)]
  /\ StartRead("READING")

\* The work mode was learnt after the last read chose its groups.
StartModeRead ==
  /\ Idle /\ NoRequest /\ ~belief.unsupported /\ ~req.refresh
  /\ req.modeRead /\ ~AnyDirty /\ ~belief.requiresStop
  /\ req' = [req EXCEPT !.modeRead = FALSE]
  /\ mode' = [mode EXCEPT !.lastRead = ReadMode(mode.work)]
  /\ StartRead(pub.status)
  /\ UNCHANGED want

ScheduleNext ==
  \/ StartProbe \/ StartRestart \/ FactoryRefused \/ StartFactoryReset
  \/ StartRun \/ StartTxn \/ SwitchNothing \/ StartModeSwitch
  \/ ReadsDropped \/ StartRefresh \/ StartModeRead

-----------------------------------------------------------------------------
(* The checks at the end of loop(), when schedule_() found nothing to do.  *)

Quiet ==
  /\ Idle /\ NoRequest /\ ~req.refresh
  /\ req.modeRead => ~belief.unsupported /\ (AnyDirty \/ belief.requiresStop)

\* check_report_after_recovery_(): no report although the radar should.
CheckReport ==
  /\ Quiet /\ belief.armed
  /\ belief' = [belief EXCEPT !.armed = FALSE]
  /\ IF belief.userStopped THEN UNCHANGED <<op, queue>>
     ELSE /\ op' = "RUN_CTRL"
          /\ queue' = Start({"RECOVERY"}) \o Marker("RUN_DONE")
  /\ UNCHANGED <<life, fly, muted, req, task, mode, params, pub, radar>>

\* check_link_(): nothing received for LINK_TIMEOUT_MS, ask once.
CheckLink ==
  /\ Quiet
  /\ op' = "PING"
  /\ queue' = <<Cmd("GET_SWV", 1, {})>> \o Marker("PING_END")
  /\ UNCHANGED <<life, fly, muted, req, task, belief, mode, params, pub, radar>>

\* No report came in time after a factory reset: show the mode known so far.
ConfirmExpired ==
  /\ mode.confirm /\ ~Draining
  /\ mode' = [mode EXCEPT !.confirm = FALSE, !.shown = mode.reported]
  /\ UNCHANGED <<life, op, queue, fly, muted, req, task, belief, params, pub, radar>>

CheckNext == CheckReport \/ CheckLink \/ ConfirmExpired

Next == UserNext \/ WireNext \/ DriveNext \/ ScheduleNext \/ CheckNext

Spec == Init /\ [][Next]_vars

-----------------------------------------------------------------------------
(* Safety.                                                                 *)

\* A running operation always has something left to do, so that schedule_()
\* never finds an operation without an end and the engine never waits for a
\* marker that is gone (loop(), drive_queue_(), op_failed_()).
OperationHasEnd == op # "NONE" \/ life = "PROBE" => ~Dry

Slots(q) ==
  UNION {{i} \X (IF q[i].groups = {} THEN {Nil} ELSE q[i].groups) : i \in DOMAIN q}

\* The command queue never holds more than two commands per group and four
\* more: with the nine groups of the code 22 of CommandQueue's 32 entries.
QueueFits == Cardinality(Slots(queue)) <= 2 * Cardinality(Groups) + 4

\* A radar that hears a set command of start_txn_() is stopped: the radar
\* refuses or ignores settings while it runs.
SetsReachStoppedRadar ==
  fly # Nil /\ ~muted /\ fly.id = "SET_GROUP" => ~radar.running

\* A set command only reaches the app its setting belongs to, also when work
\* mode and settings are changed together (set_desired(), start_txn_()).
SetsReachRightApp ==
  fly # Nil /\ ~muted /\ fly.id = "SET_GROUP" =>
    \A g \in fly.groups : radar.app \in GroupModes[g]

\* While the engine knows that the user stopped the radar (user_stopped_), no
\* transaction, read, failure or recovery starts it again.
UserStopIsKept ==
  [][fly # Nil /\ fly.id = "START" /\ ~radar.running /\ radar'.running =>
       ~belief.userStopped]_vars

\* A transaction that ends without an error leaves each value it sent in the
\* radar, saved and shown (finish_txn_()).
AppliedIsKept ==
  [][\A g \in Groups :
       snap[g] # Nil /\ snap'[g] = Nil /\ pub'.linkOk /\ ~pub'.error =>
         /\ radar.val[radar.app][g] = snap[g]
         /\ radar.saved[radar.app][g] = snap[g]
         /\ shown'[g] = snap[g]]_vars

\* "The radar is the source of truth": between operations, once the work mode is
\* learnt and its settings are read, an entity without an unapplied change shows
\* what the radar has, whatever was lost or clamped.
ShownIsRadars ==
  /\ Idle /\ ~belief.unsupported /\ ~req.modeRead
  /\ HasModes => mode.work = radar.app
  =>
    \A g \in Groups : want[g] = Nil /\ Usable(g) /\ radar.app \in GroupModes[g] =>
      shown[g] = Now[g]

\* Between operations an entity without an unapplied change shows the last value
\* read, which is of its own work mode: not one of the other mode, not an older
\* one, and not a request that was refused (publish_param_()).
ShownIsReported ==
  Idle => \A g \in Groups :
    want[g] = Nil /\ Usable(g) => shown[g] = Display(g, mode.work)

\* "Switched outside our control, or learned after the last read chose its
\* groups, the settings of this mode still have to be read": between operations
\* the settings of a learnt mode are read, or about to be (set_work_mode_()).
ModeSettingsRead ==
  Idle /\ mode.work # "UNKNOWN" => mode.lastRead = mode.work \/ req.modeRead

\* Between operations the status of a supported radar says STOPPED exactly when
\* the engine knows the radar to be stopped.
StatusTellsStopped ==
  Idle /\ ~belief.unsupported => (pub.status = "STOPPED" <=> KnownStopped)

\* Between operations the work_mode select shows the mode last learnt from the
\* radar, not a request that was dropped or failed.
SelectShowsMode ==
  Idle /\ mode.want = Nil /\ ~mode.confirm => mode.shown = mode.reported

\* Between operations a radar the user did not stop runs: whatever failed, the
\* engine has started it again.
RadarRuns == Idle /\ ~belief.userStopped => radar.running

\* Between operations the engine is right about whether the radar runs.
BeliefIsRight == Idle /\ belief.known => belief.running = radar.running

\* Between operations, without an error shown, what the radar runs with is what
\* it keeps over a power cycle.
CleanIsSaved == Idle /\ ~pub.error => radar.val = radar.saved

-----------------------------------------------------------------------------
(* Liveness.  ESPHome calls loop() for ever, so what loop() can do it does; *)
(* a command in flight meets its answer or its timer.  Nothing is assumed   *)
(* of the user, and only the speed app of a C4001, which "is never silent", *)
(* is sure to report.                                                       *)

EngineStep ==
  \/ Send \/ Answer \/ CarriedOut \/ CommandLost \/ Timeout
  \/ DriveNext \/ ScheduleNext

\* Timers that measure silence run out only after the speed app was heard.
SpeedReports == HasModes /\ radar.app = "SPEED" /\ Sentence

LoopSpec == Spec /\ WF_vars(EngineStep) /\ WF_vars(SpeedReports)

\* The user pauses longer than the debounce time now and then; a second is
\* far less than the LINK_TIMEOUT_MS between two pings.
Apply == StartTxn \/ SwitchNothing \/ StartModeSwitch

FairSpec == LoopSpec /\ SF_vars(Apply)

\* Every operation ends, whatever the wire does and whatever the user asks for
\* meanwhile: neither retries nor repeated gets (loop(), complete_()), neither the
\* save and start put in front of the queue (on_done_()) nor the wait behind
\* setRunApp (drive_queue_()) go round for ever.
OperationEnds == op # "NONE" ~> op = "NONE"

\* An answer that cannot be parsed.
Garbled ==
  /\ fly # Nil /\ ~muted /\ fly.id = "GET_GROUP"
  /\ radar' = radar
  /\ Complete(fly, Out(radar, "MALFORMED"))

Faulty == CommandLost \/ Garbled \/ (CarriedOut /\ fly.id \notin NoReply)

\* Once commands and answers get through again the engine comes back from boot
\* and from every backoff.
LinkRecovers ==
  <>[][~Faulty /\ ~RadarPowerCycle /\ ~EspReboot]_vars => []<>(life = "RUNNING")

\* Then, too, no accepted change stays unapplied on a supported radar.
ChangeIsTaken ==
  <>[][~Faulty /\ ~RadarPowerCycle /\ ~EspReboot]_vars =>
    (AnyDirty /\ ~belief.unsupported ~> ~AnyDirty \/ belief.unsupported)
=============================================================================
