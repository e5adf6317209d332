------------------------------- MODULE Reports -------------------------------
(***************************************************************************)
(* What the engine makes of the radar's report lines and of the OUT pin:   *)
(* presence with its expiry, occupancy, target frames with their decay,    *)
(* and what the hub publishes of them. Time goes in ticks; ages grow up to *)
(* the largest limit. A line that the engine drops without a trace (of the *)
(* other model, or without a number in its first field) is left out.       *)
(***************************************************************************)
EXTENDS Integers

CONSTANTS
  Configurations,   \* the device: model, has_pin, and the reports switched on
  MAX_TARGETS,
  TARGET_TIMEOUT,   \* target_timeout, in ticks
  Periods,          \* report periods the radar may have, in ticks; 0: unknown
  MAX_PERIOD        \* longer ones mean that it reports no presence

ASSUME ReportsAssumption ==
  /\ Configurations \subseteq [model : {"SEN0395", "C4001"}, hasPin : BOOLEAN,
                               prints : SUBSET {"presence", "targets"}]
  /\ MAX_TARGETS \in Nat \ {0} /\ TARGET_TIMEOUT \in Nat \ {0}
  /\ Periods \subseteq Nat /\ MAX_PERIOD \in Nat \ {0}

VARIABLES
  device,       \* one of the configurations
  app,          \* the app a C4001 runs
  burst,        \* the radar's target lines: the one to print next, lines lost
  mode,         \* work_mode_
  period,       \* reported PARAM_ID_UART_REPORT_PERIOD
  paused,       \* an operation stops the reports
  booting,      \* LIFE_BOOT_WAIT
  uart, pin,    \* the sources of occupancy, and what the host shows of them
  occupancy,
  target,       \* last_target_ms_ as an age, targets_zero_published_
  cycle,        \* lines of the burst collected so far
  frame,        \* the last frame given to on_targets()
  sensors,      \* what the target sensors show
  lastNan,      \* NanRepeatFilter::last_nan_ of each sensor
  unheard,      \* history: ticks since the radar reported its presence
  untargeted,   \* history: ticks since the radar reported all its targets
  heard         \* history: presence reported by the line read in this step

radarVars == <<device, app, burst>>
engineVars == <<mode, period, paused, booting>>
sourceVars == <<uart, pin, occupancy>>
targetVars == <<target, cycle, frame, sensors, lastNan>>
historyVars == <<unheard, untargeted, heard>>
reportsVars == <<radarVars, engineVars, sourceVars, targetVars, historyVars>>

Targets == 1 .. MAX_TARGETS
HasModes == device.model = "C4001"
NaN == <<>>
NoDistances == [i \in Targets |-> NaN]
Says(present) == IF present THEN "DETECTED" ELSE "CLEAR"
Older(age, limit) == IF age < limit THEN age + 1 ELSE age

(* uart_presence_timeout_ms(): three report periods and a second. *)
Window(m, p) == 3 * (IF m # "SPEED" /\ p \in 1 .. MAX_PERIOD THEN p ELSE 1) + 1
LongestWindow == 3 * MAX_PERIOD + 1

-----------------------------------------------------------------------------
(* Presence and occupancy.                                                 *)

(* Mutant: targets that fade count as a report. *)
AlteredSetUartPresence(source, present, fromReport) ==
  LET fresh == [source EXCEPT !.since = 0]
  IN  IF (~fromReport /\ ~source.live) \/ (source.live /\ source.present = present)
      THEN fresh
      ELSE [fresh EXCEPT !.live = TRUE, !.present = present, !.shown = Says(present)]

(* Mutant: a value that was shown before the outage is not shown again. *)
ForgetfulSetUartPresence(source, present, fromReport) ==
  LET fresh == IF fromReport THEN [source EXCEPT !.since = 0] ELSE source
  IN  IF (~fromReport /\ ~source.live) \/ source.present = present
      THEN fresh
      ELSE [fresh EXCEPT !.live = TRUE, !.present = present, !.shown = Says(present)]

(* set_uart_presence_() *)
SetUartPresence(source, present, fromReport) ==
  LET fresh == IF fromReport THEN [source EXCEPT !.since = 0] ELSE source
  IN  IF (~fromReport /\ ~source.live) \/ (source.live /\ source.present = present)
      THEN fresh
      ELSE [fresh EXCEPT !.live = TRUE, !.present = present, !.shown = Says(present)]

(* drop_uart_presence_() *)
Drop(source) ==
  IF source.live THEN [source EXCEPT !.live = FALSE, !.shown = "UNKNOWN"] ELSE source

(* check_uart_presence_stale_() *)
CheckStale(source) ==
  IF source.live /\ paused THEN [source EXCEPT !.since = 0]
  ELSE IF source.live /\ source.since > Window(mode, period) THEN Drop(source)
  ELSE source

(* update_occupancy_(), which every change of a source calls. *)
Combined(u, p) ==
  IF ~u.live /\ ~p.live THEN "UNKNOWN"
  ELSE Says((u.live /\ u.present) \/ (p.live /\ p.present))

SetSources(newUart, newPin) ==
  uart' = newUart /\ pin' = newPin /\ occupancy' = Combined(newUart, newPin)

-----------------------------------------------------------------------------
(* Targets. A distance stands for the line that carried it.                *)

(* NanRepeatFilter: a NaN is published once. *)
Published(value, old, nan) == IF value = NaN /\ nan THEN old ELSE value

(* Mutant: a sensor that was NaN once suppresses every further NaN. *)
AlteredOnTargets(f) ==
  LET number == IF f.available THEN <<f.count>> ELSE NaN IN
  /\ frame' = f
  /\ sensors' = [count    |-> Published(number, sensors.count, lastNan.count),
                 distance |-> [i \in Targets |->
                   Published(f.distance[i], sensors.distance[i], lastNan.distance[i])]]
  /\ lastNan' = [count    |-> lastNan.count \/ number = NaN,
                 distance |-> [i \in Targets |->
                   lastNan.distance[i] \/ f.distance[i] = NaN]]

(* on_targets() of the hub *)
OnTargets(f) ==
  LET number == IF f.available THEN <<f.count>> ELSE NaN IN
  /\ frame' = f
  /\ sensors' = [count    |-> Published(number, sensors.count, lastNan.count),
                 distance |-> [i \in Targets |->
                   Published(f.distance[i], sensors.distance[i], lastNan.distance[i])]]
  /\ lastNan' = [count    |-> number = NaN,
                 distance |-> [i \in Targets |-> f.distance[i] = NaN]]

NoTargets == UNCHANGED <<frame, sensors, lastNan>>

(* publish_idle_targets_() *)
IdleFrame(m) == [available |-> ~(HasModes /\ m = "PRESENCE"), count |-> 0,
                 distance |-> NoDistances]

NoCycle == [n |-> 0, filled |-> 0, distance |-> NoDistances]

(* Mutant: a line need not follow the one before it. *)
AlteredCollected(n, i, tag) ==
  LET started == IF i = 1 THEN [NoCycle EXCEPT !.n = n] ELSE cycle
  IN  IF started.n # n THEN NoCycle
      ELSE [started EXCEPT !.filled = i, !.distance[i] = <<n, i, tag>>]

(* handle_targets_(): line i of n of a $JYRPO burst. *)
Collected(n, i, tag) ==
  LET started == IF i = 1 THEN [NoCycle EXCEPT !.n = n] ELSE cycle
  IN  IF started.n # n \/ i # started.filled + 1 THEN NoCycle
      ELSE [started EXCEPT !.filled = i, !.distance[i] = <<n, i, tag>>]

Complete(collected) == collected.n > 0 /\ collected.filled = collected.n

(* check_targets_decay_() *)
Decays(age) ==
  /\ device.model = "SEN0395" \/ mode = "SPEED"
  /\ ~target.zero /\ ~booting
  /\ age >= TARGET_TIMEOUT

-----------------------------------------------------------------------------
ReportsInit ==
  /\ device \in Configurations
  /\ app \in (IF HasModes THEN {"PRESENCE", "SPEED"} ELSE {"PRESENCE"})
  /\ \E n \in Targets :
       burst = [n |-> n, next |-> 1, tag |-> 0, lost |-> 0, lostBefore |-> 0]
  /\ mode = "UNKNOWN" /\ period = 0 /\ paused = FALSE /\ booting = TRUE
  /\ uart = [live |-> FALSE, present |-> FALSE, since |-> 0, shown |-> "UNKNOWN"]
  /\ pin = [live |-> FALSE, present |-> FALSE, shown |-> "UNKNOWN"]
  /\ occupancy = "UNKNOWN"
  /\ target = [since |-> 0, zero |-> FALSE] /\ cycle = NoCycle
  /\ frame = [available |-> FALSE, count |-> 0, distance |-> NoDistances]
  /\ sensors = [count |-> NaN, distance |-> NoDistances]
  /\ lastNan = [count |-> FALSE, distance |-> [i \in Targets |-> FALSE]]
  /\ unheard = 0 /\ untargeted = 0 /\ heard = "NONE"

(* set_work_mode_(): the targets of the other app are gone. *)
LearnMode(m) ==
  /\ mode' = m
  /\ IF m = "PRESENCE" /\ mode # m THEN OnTargets(IdleFrame(m)) ELSE NoTargets

(* A presence report: $JYBSS or $DFHPD. *)
PresenceLine ==
  /\ "presence" \in device.prints /\ app = "PRESENCE"
  /\ IF HasModes THEN LearnMode("PRESENCE") ELSE NoTargets /\ UNCHANGED mode
  /\ \E present \in BOOLEAN :
       /\ SetSources(SetUartPresence(uart, present, TRUE), pin)
       /\ heard' = Says(present)
  /\ unheard' = 0
  /\ UNCHANGED <<radarVars, period, paused, booting, target, cycle, untargeted>>

(* A target report of a C4001: $DFDMD with one target or none. *)
TargetLine ==
  /\ HasModes /\ app = "SPEED"
  /\ mode' = "SPEED"
  /\ \E n \in {0, 1} :
       /\ OnTargets([available |-> TRUE, count |-> n,
                     distance |-> [NoDistances EXCEPT ![1] =
                       IF n = 1 THEN <<1, 1, 0>> ELSE NaN]])
       /\ target' = [since |-> 0, zero |-> n = 0]
       /\ SetSources(SetUartPresence(uart, n = 1, TRUE), pin)
       /\ heard' = Says(n = 1)
  /\ unheard' = 0 /\ untargeted' = 0
  /\ UNCHANGED <<radarVars, period, paused, booting, cycle>>

(* Mutant: a damaged line keeps the old target alive. *)
AlteredBadTargetLine ==
  /\ HasModes /\ app = "SPEED"
  /\ mode' = "SPEED" /\ target' = [target EXCEPT !.since = 0]
  /\ heard' = "NONE"
  /\ UNCHANGED <<radarVars, period, paused, booting, sourceVars, cycle, frame, sensors,
                 lastNan, unheard, untargeted>>

(* One that is incomplete, or whose count is neither, tells the mode only. *)
BadTargetLine ==
  /\ HasModes /\ app = "SPEED"
  /\ mode' = "SPEED"
  /\ heard' = "NONE"
  /\ UNCHANGED <<radarVars, period, paused, booting, sourceVars, targetVars, unheard,
                 untargeted>>

(* The radar goes on to its next line: at the end of a burst to a new one. *)
Advance(missed) ==
  IF burst.next < burst.n
  THEN burst' = [burst EXCEPT !.next = @ + 1, !.lost = @ + missed]
  ELSE \E n \in Targets :
         burst' = [n |-> n, next |-> 1, tag |-> (burst.tag + 1) % 3,
                   lost |-> 0, lostBefore |-> burst.lost + missed]

PrintsBursts == device.model = "SEN0395" /\ "targets" \in device.prints

(* A line of a burst: $JYRPO. *)
BurstLine ==
  /\ PrintsBursts
  /\ Advance(0)
  /\ LET collected == Collected(burst.n, burst.next, burst.tag) IN
       IF Complete(collected)
       THEN /\ OnTargets([available |-> TRUE, count |-> collected.n,
                          distance |-> collected.distance])
            /\ target' = [since |-> 0, zero |-> FALSE]
            /\ cycle' = NoCycle
            /\ untargeted' = 0
       ELSE /\ cycle' = collected
            /\ NoTargets /\ UNCHANGED <<target, untargeted>>
  /\ heard' = "NONE"
  /\ UNCHANGED <<device, app, engineVars, sourceVars, unheard>>

(* A line that cannot be parsed. *)
BadBurstLine ==
  /\ PrintsBursts
  /\ Advance(0)
  /\ cycle' = NoCycle
  /\ heard' = "NONE"
  /\ UNCHANGED <<device, app, engineVars, sourceVars, target, frame, sensors, lastNan,
                 unheard, untargeted>>

(* A line that never arrives. Bound: one of any two bursts in a row. *)
LostBurstLine ==
  /\ PrintsBursts /\ burst.lost + burst.lostBefore = 0
  /\ Advance(1)
  /\ heard' = "NONE"
  /\ UNCHANGED <<device, app, engineVars, sourceVars, targetVars, unheard, untargeted>>

(* feed_pin() *)
FeedPin ==
  /\ device.hasPin
  /\ \E present \in BOOLEAN :
       /\ ~(pin.live /\ pin.present = present)
       /\ SetSources(uart, [live |-> TRUE, present |-> present, shown |-> Says(present)])
  /\ heard' = "NONE"
  /\ UNCHANGED <<radarVars, engineVars, targetVars, unheard, untargeted>>

-----------------------------------------------------------------------------
(* What the operations of the engine do to reports.                        *)
BeginPause ==
  /\ ~paused /\ ~booting
  /\ paused' = TRUE /\ heard' = "NONE"
  /\ UNCHANGED <<radarVars, mode, period, booting, sourceVars, targetVars, unheard,
                 untargeted>>

(* It ends; a mode switch has made the radar run the other app. *)
EndPause ==
  /\ paused
  /\ paused' = FALSE
  /\ app' \in (IF HasModes THEN {"PRESENCE", "SPEED"} ELSE {app})
  /\ heard' = "NONE"
  /\ UNCHANGED <<device, burst, mode, period, booting, sourceVars, targetVars, unheard,
                 untargeted>>

(* A C4001 that has been silent for long is taken to run the presence app: *)
(* it was paused, its lines were unreadable, or it does run that app.      *)
InferPresence ==
  /\ HasModes /\ ~booting /\ mode # "PRESENCE"
  /\ LearnMode("PRESENCE")
  /\ heard' = "NONE"
  /\ UNCHANGED <<radarVars, period, paused, booting, sourceVars, target, cycle, unheard,
                 untargeted>>

ReadPeriod ==
  /\ ~booting
  /\ period' \in Periods
  /\ heard' = "NONE"
  /\ UNCHANGED <<radarVars, mode, paused, booting, sourceVars, targetVars, unheard,
                 untargeted>>

(* Mutant: occupancy is not told that its source is gone. *)
AlteredLinkLost ==
  /\ ~booting
  /\ paused' = FALSE
  /\ uart' = Drop(uart) /\ UNCHANGED <<pin, occupancy>>
  /\ heard' = "NONE"
  /\ UNCHANGED <<radarVars, mode, period, booting, targetVars, unheard, untargeted>>

(* enter_backoff_() *)
LinkLost ==
  /\ ~booting
  /\ paused' = FALSE
  /\ SetSources(Drop(uart), pin)
  /\ heard' = "NONE"
  /\ UNCHANGED <<radarVars, mode, period, booting, targetVars, unheard, untargeted>>

(* resetSystem: reset_radar_state_() and the wait for the radar to boot. *)
Restart ==
  /\ ~booting
  /\ mode' = "UNKNOWN" /\ paused' = FALSE /\ booting' = TRUE
  /\ SetSources(Drop(uart), pin)
  /\ heard' = "NONE"
  /\ UNCHANGED <<radarVars, period, targetVars, unheard, untargeted>>

StartProbe ==
  /\ booting
  /\ booting' = FALSE /\ heard' = "NONE"
  /\ UNCHANGED <<radarVars, mode, period, paused, sourceVars, targetVars, unheard,
                 untargeted>>

(* The loop, a tick later: check_targets_decay_() and then                 *)
(* check_uart_presence_stale_().                                           *)
Tick ==
  LET age   == Older(target.since, TARGET_TIMEOUT)
      aged  == [uart EXCEPT !.since = IF uart.live THEN Older(@, LongestWindow + 1) ELSE 0]
      faded == IF Decays(age) /\ mode = "SPEED"
               THEN SetUartPresence(aged, FALSE, FALSE) ELSE aged
  IN  /\ IF Decays(age)
         THEN /\ OnTargets(IdleFrame(mode))
              /\ target' = [since |-> age, zero |-> TRUE] /\ cycle' = NoCycle
         ELSE /\ target' = [target EXCEPT !.since = age]
              /\ NoTargets /\ UNCHANGED cycle
      /\ SetSources(CheckStale(faded), pin)
      /\ unheard' = IF paused THEN 0 ELSE Older(unheard, LongestWindow + 1)
      /\ untargeted' = Older(untargeted, TARGET_TIMEOUT)
      /\ heard' = "NONE"
      /\ UNCHANGED <<radarVars, engineVars>>

ReportsNext ==
  \/ PresenceLine \/ TargetLine \/ BadTargetLine
  \/ BurstLine \/ BadBurstLine \/ LostBurstLine
  \/ FeedPin
  \/ BeginPause \/ EndPause \/ InferPresence \/ ReadPeriod \/ LinkLost \/ Restart
  \/ StartProbe
  \/ Tick

ReportsSpec == ReportsInit /\ [][ReportsNext]_reportsVars

-----------------------------------------------------------------------------
(* Occupancy is on when a source the host shows says so, off when all that *)
(* are shown deny it, and unknown when none is shown, whichever of them    *)
(* just went away or came back (update_occupancy_ and its callers).        *)
OccupancyIsSources ==
  LET shown == {uart.shown, pin.shown} \ {"UNKNOWN"}
  IN  occupancy = IF shown = {} THEN "UNKNOWN"
                  ELSE IF "DETECTED" \in shown THEN "DETECTED" ELSE "CLEAR"

(* Without a pin, occupancy is not held for longer than three report       *)
(* periods and a second after the radar last reported its presence, the    *)
(* pauses of the engine's own operations aside, whatever faded or changed  *)
(* meanwhile (set_uart_presence_, check_uart_presence_stale_).             *)
OccupancyExpires ==
  [][(Tick /\ ~pin.live /\ occupancy' # "UNKNOWN")
       => unheard' <= Window(mode', period')]_reportsVars

(* A reported presence is shown at once, also after an outage that hid the *)
(* same value, and presence never comes from anything else; it ends        *)
(* without a report only when the targets are gone (set_uart_presence_).   *)
PresenceIsReported ==
  [][IF heard' # "NONE" THEN uart'.shown = heard'
     ELSE \/ uart'.shown \in {uart.shown, "UNKNOWN"}
          \/ uart'.shown = "CLEAR" /\ untargeted' = TARGET_TIMEOUT]_reportsVars

(* The distances of a frame are those of all targets of one burst, though  *)
(* bursts have no end mark and lines get lost or damaged: provided that no *)
(* two lines of two bursts in a row are lost (handle_targets_).            *)
FramesAreWhole ==
  frame.count > 0 =>
    \E tag \in 0 .. 2 : \A i \in Targets :
      frame.distance[i] = IF i <= frame.count THEN <<frame.count, i, tag>> ELSE NaN

(* The sensors show the last frame: suppressing a repeated "no target"     *)
(* never hides a change (NanRepeatFilter, on_targets of the hub).          *)
SensorsShowFrame ==
  /\ sensors.count = IF frame.available THEN <<frame.count>> ELSE NaN
  /\ sensors.distance = frame.distance

(* A target is shown for less than target_timeout after the radar last     *)
(* reported all of them: lines that are damaged or miss a part do not keep *)
(* it alive. Excepted are the time the radar boots and a C4001 whose app   *)
(* is not known (check_targets_decay_).                                    *)
TargetsDecay ==
  [][(Tick /\ ~booting /\ (HasModes => mode # "UNKNOWN")
        /\ untargeted' = TARGET_TIMEOUT)
       => sensors'.distance = NoDistances]_reportsVars
=============================================================================
