# dfrobot_mmwave in TLA+

A verification project for the ESPHome component `dfrobot_mmwave`, which drives
DFRobot mmWave radars (SEN0395 and the C4001 family: SEN0609, SEN0610) over a
serial line. Line numbers refer to files below `src/components/dfrobot_mmwave/`.

1. [The system](#1-the-system)
2. [The modules](#2-the-modules)
3. [The runs](#3-the-runs)
4. [Where code and documentation differ](#4-where-code-and-documentation-differ)
5. [Fairness](#5-fairness)
6. [What is proved](#6-what-is-proved)
7. [What is left out, and the plan](#7-what-is-left-out-and-the-plan)

## 1. The system

### Inventory

| Component | State it keeps | Operations | What makes it correct |
|---|---|---|---|
| Protocol engine (`mmwave_engine.cpp`) | life cycle, running operation, requests, beliefs about radar and link | `feed`, `loop`, `set_desired`, `request_*`; inside a loop: `send_`, `on_reply_`, `on_done_`, `on_marker_`, `schedule_` | every operation ends; what is shown is what the radar has; a radar that should run is started again whatever was lost |
| Command queue and in-flight command (`mmwave_command_queue.h`, `InFlight`) | ring of 32 commands and markers; the command that waits for an answer, its retries and deadline | `push_back`, `push_front`, `pop_front`, `clear`; send, complete, retry | never full; an operation's end marker is never lost |
| Settings store (`ParamStore`, snapshot) | per setting: desired, dirty, reported, valid, unsupported | `set_desired`, `apply_response_`, `clear_dirty` | an accepted change is applied or dropped with an error, never forgotten |
| C4001 work mode | mode, switch target, pending, inference by silence | `set_work_mode_`, `start_mode_switch_`, `finish_mode_switch_` | settings of one mode never reach or show in the other |
| Radar firmware (external; the repository's `fake_radar.h`) | running, app, settings, saved settings | one reaction per command | – |
| Line reader (`mmwave_line_reader.cpp`) | line buffer, discard flag, prompt | `feed`, one byte | a line is delivered whole or not at all; resynchronises after any garbage |
| Reply classification and exchange (`mmwave_responses.cpp`, `on_line_`, `on_prompt_`, `on_reply_`, `complete_`, `loop`) | tail window after a deciding line, timers, retries, one reparse | classify a line; send, decide, wait for the tail, give up, retry | commands end in turn; an answer counts for the command that caused it |
| Command formatter (`mmwave_formatter.cpp`) | none | format, `quantize_down` | fits its buffer; rounds down to the radar's step |
| Parameter and dialect tables | none | look-up | – |
| Range coupling and limits (`couple_ranges_`, `build_set_`, `finish_txn_`) | the ranges of the store and the snapshot | clamp, couple, round, compare with the read-back | what was asked for is sent; trigger range within the maximum; an error for every value not kept, and no other |
| Presence and occupancy | UART and pin presence, age of the UART presence | `on_sentence_`, `feed_pin`, `update_occupancy_`, `check_uart_presence_stale_` | occupancy follows a live source, unknown with none |
| Target cycle (`handle_targets_`, `check_targets_decay_`) | targets of the burst in progress, age of the last frame | one per line; decay | targets of two bursts are never mixed; a target nobody reports fades |
| Publish filter (`NanRepeatFilter`) | last value was NaN | `next` | a suppressed repetition never hides a change |
| Hub and entities (`dfrobot_mmwave.cpp`, `number/`, `select/`, `switch/`, `button/`) | what each entity shows | `control`, `press`, `write_state`, `EngineHost` callbacks | an entity ends on the radar's value |
| Code generator (`*.py`) | none at run time | YAML to C++ | – |
| Host tests | – | – | documentation of intent |

### How the parts interact

Everything runs in one thread. ESPHome calls the hub's `loop()`, which hands the
received bytes to `Engine::feed()` and then calls `Engine::loop()`. Entities
call `set_desired()` and `request_*()` between two loops, and the engine calls
back through `EngineHost` to publish. The only concurrency is between the
engine, the radar, the wire and the user, and that is where the behaviour is
hard:

* the user asks for something while an operation is half done; requests wait in
  flags, changes in the store, and `schedule_()` picks one when idle;
* the radar prints reports (sentences) of its own at any moment it runs, between
  the command and its answer too, and these change what the engine believes;
* a command or its answer is lost: the engine cannot tell which, so a stop may or
  may not have happened;
* an operation fails in the middle: the queue is replaced by what leaves the
  radar in order, and the link is given up and probed again;
* a SEN0395 refuses to start with unsaved changes; a C4001 refuses to save when
  nothing changed; some firmwares answer gets only while stopped and some lack a
  setting;
* the C4001 has two apps with settings of their own, and says which one runs only
  by reporting, which the presence app may not do.

The hazards are listed, each at its line, in `PROJECT.json`.

## 2. The modules

| Module | What it holds |
|---|---|
| `Engine` | The operations of the engine, the settings store, the work mode, and the radar and wire they talk to |
| `EngineHistory` | `Engine` with two history variables, for promises that speak of what the user did earlier |
| `Deque` | Abstract: a bounded sequence with two ends |
| `CommandQueue` | The ring buffer; implements `Deque` |
| `ByteLines` | Abstract: what a line and a prompt are, without a buffer |
| `LineReader` | The reader's automaton with its buffer; implements `ByteLines` |
| `CommandOrder` | Abstract: commands end one at a time, in the order given |
| `Exchange` | Composes `LineReader` and `CommandQueue` with the command in flight, the classifier, the timers, the serial line and a radar that prints; implements `CommandOrder` |
| `Reports` | What report lines and the OUT pin become: presence, occupancy, target frames, sensors |
| `Ranges` | Range values from the request to the read-back |
| `MCEngine`, `MCEngineHistory`, `MCExchange`, `MCReports` | Values of the constants for TLC |
| `MCModeSettings` | `MCEngine` started with apps that hold different values, one changed setting per behaviour |
| `EngineProofs` | `Engine`: type correctness, with a typing lemma per operator and per action |
| `EngineSafetyProofs` | `Engine`: every operation keeps its end; a radar that the user stopped is not started again |
| `EngineRadarProofs` | `Engine`: the order and the length of the queue, and what it does to the radar. Settings meet a stopped radar, a radar the engine stopped runs again, the belief about it is right |
| `EngineShownProofs` | `Engine`: what it has saved and shows between operations. Nothing runs unsaved, select and status tell what the engine knows, a transaction keeps what it applied, the entities of a SEN0395 show what the radar has |
| `SerialProofs` | The ring buffer refines `Deque`, the reader refines `ByteLines` |
| `ExchangeProofs` | The exchange refines `CommandOrder`; its queue and reader keep their promises inside it |
| `ReportsProofs`, `RangesProofs` | All properties of `Reports` and `Ranges` |

`Engine` sees a command as answered, carried out in silence, or lost; `Exchange` is
the layer below, which turns bytes into such results. `Reports` and `Ranges` stand
beside `Engine`: they take from an operation only that it pauses the reports, or
that a set command was carried out or rejected, and keep the values that `Engine`
abstracts.

### `Engine`: from code to model

State:

| Variable | Code |
|---|---|
| `life`, `op`, `queue` | `life_`, `op_`, `queue_` |
| `fly`, `muted` | `inflight_.cmd` (`Nil`: none active); `muted`: no answer to it can arrive any more |
| `req` | `refresh_req_`, `restart_req_`, `factory_req_`, `run_req_`, `mode_read_req_` |
| `task` | `failing_`, `first_read_phase_`, `stopped_by_op_`, `restart_after_op_`, the error flags and masks of the running operation |
| `belief` | `running_`, `running_known_`, `user_stopped_`, `ever_running_`, the recovery flags, `get_requires_stop_`, `unsupported_firmware_`, `report_check_armed_` |
| `mode` | `work_mode_`, the `work_mode` setting and the state of a switch |
| `want`, `snap`, `reported`, `shown`, `unsup` | `desired` while `dirty`; `snapshot_`; `reported` while `reported_valid`; what the entity shows; `unsupported` |
| `pub` | status, link_ok, the running switch, whether last_error is non-empty |
| `radar` | the radar: running, app, settings of each app, saved settings, whether it counts them as unsaved, firmware; and how long it has been silent |

Actions, by the code that calls them:

* `UserNext`: entity calls, a radar that loses power, an ESP that restarts;
* `WireNext`: `Send` (`drive_queue_`, `send_`), `Answer` (`on_reply_`,
  `complete_`, `on_done_`), `CarriedOut` (done, but silently), `CommandLost`,
  `Timeout` (the timer in `loop()`), `Sentence` (`on_sentence_`);
* `DriveNext`: one action per marker of `on_marker_()`, with everything the
  marker does: the reads it queues, the values it publishes, the backoff it enters;
* `ScheduleNext`: one action per branch of `schedule_()`, guarded by the negation
  of the branches before it;
* `CheckNext`: the checks after `schedule_()` in `loop()`.

`OnDone` is the switch of `on_done_()`, one operator per command, for every
result that `on_reply_()` can classify (`OK`, `ERROR`, `NOT_STOPPED`, `UNSAVED`,
`UNRECOGNIZED`, `MALFORMED`, `TIMEOUT`), and for an `OK` whose answer has too few values
(`SHORT`, 758-764). `Outcomes` is what the radar does with a command and which of these it
answers. `Faults` chooses what may go wrong: a command or an answer is lost (`lose`, `mute`),
an answer cannot be parsed or is short (`mangle`, `short`), a value is clamped (`clamp`), a set
or `setRunApp` is refused (`reject`), `resetCfg` is refused (`refuse`). As in
`fake_radar.h`, a value that is set back is still to be saved, and a SEN0395 may count a refused
set as a change (`dirty_on_failed_set`).

Abstractions, all in one direction unless said otherwise (the model allows what
the code allows, and more):

* **Time.** A timer is an action that may be taken once its other conditions hold.
  The timeout of a command is kept honest: it fires only when no answer can
  arrive. That the lines of an answer come one by one, the last ones after its result is
  known, is the subject of `Exchange`. The wait after `setRunApp` and the inference of
  the presence app by silence do depend on durations: `radar.quiet` counts halves
  of that wait, and `Waited` says how much every timer adds.
* **One setting per group.** A command group carries one value. The coupling of
  ranges and their limits are in `Ranges`; here a set may be clamped or refused.
* **One queue entry per run of gets or sets.** `Batch` holds the groups still to
  be sent and `Send` takes them out one by one, which keeps the order of the code
  up to the order within the run. `Slots` counts them as the code would.
* **A loop is atomic up to a command.** `drive_queue_()` works off markers before
  `loop()` returns, so entity calls wait for `Draining` to be false.
* `getHWV` and `getRunApp`, whose answers change no modelled state, are left out.
* A report can come at any time while the radar runs, never certainly.

### `CommandQueue`, `LineReader`, `Exchange`

| Variable | Code |
|---|---|
| `items`, `head`, `count` | `items_`, `head_`, `count_` of `CommandQueue` |
| `buf`, `pendingReset`, `discarding`, `skipSpace`, `event` | `buf_`/`len_`, `pending_reset_`, `discarding_`, `skip_space_`, what `feed()` returned |
| `inflight` | `inflight_`: the command, whether its tail is awaited, its result |
| `sinceTx`, `sinceTail`, `gap`, `lastCmd` | `sent_ms` and `last_tx_ms_` as an age, `tail_start` as an age, `gap_ms_`, `last_cmd_` |
| `uart`, `printing`, `sinceLine` | external: bytes received, lines the radar has still to print, age of its last line |
| `since`, `from`, `said` | history: bytes of the current line, the commands it was printed for, what the radar answered to the command in flight |

`FeedByte` is one byte of `Engine::feed()`: the reader's `Feed`, then `on_line_()` and
`on_reply_()` for a line, `on_prompt_()` for a prompt. `EndTail`, `GiveUp` and
`Retry` are the branches of `loop()` for a command in flight, `DoMarker` and
`SendNext` are `drive_queue_()`, `Give` is `enqueue_()`. The tables `Ends` and
`Waits` are the switch of `on_reply_()`: which reply ends which kind of command,
with which result, and which only starts the wait for the rest of the answer.

* A word of the protocol is one byte of the model. Losing it stands for any damage
  to it. Damage to one digit of a number, which nothing can notice, is left out.
* The radar answers with echo, answer lines and prompt, as `fake_radar.h` does. Its
  legacy firmware, which prints no prompt, is left out.
* What a result makes the engine queue next (`on_done_()`) is in `Engine`: here an
  operation is a fixed sequence, which `Give` queues command by command.
* Time passes (`Tick`) only when the loop has nothing to do and the radar's next
  line is not due: the loop runs far more often than the shortest timer. The
  number of bytes a loop may read is not bounded.
* Answers are told apart only while `TimingAssumption` holds: an answer comes before its
  command is given up, and the rest of it before the wait for it is over. These
  are the durations the constants of `mmwave_engine.h` are chosen by. Nothing is lost
  in a behaviour with boot noise, to keep the two causes of damage apart.

### `Reports`

Each line of the radar is an action (`PresenceLine`, `TargetLine`, `BurstLine`, and the
damaged and lost ones), as `on_sentence_()` and what it calls handle it. `FeedPin` is
`feed_pin()`. `Tick` is the pass of `loop()` one tick later, with
`check_targets_decay_()` and then `check_uart_presence_stale_()`. What operations
do to reports is an action each: `BeginPause`, `EndPause`, `InferPresence`,
`ReadPeriod`, `LinkLost`, `Restart`, `StartProbe`. `OnTargets` is the hub's fan-out
with one `NanRepeatFilter` per sensor.

A distance is a record of the line that carried it: which burst, which of how many
targets. So a frame that mixes two bursts shows. Lines of the other model,
and lines without a number in their first field, are dropped by the code without a
trace and have no action. A burst is printed to its end. `unheard`, `untargeted` and
`heard` are history.

### `Ranges`

`SetDesired` is `set_desired()` for a value within its limits; `StartTxn` is the part of
`start_txn_()` that couples, rounds, refuses and builds the set commands;
`SetGroup` is a set command carried out or rejected; `FinishTxn` is the read-back with
the comparison of `finish_txn_()`. Values are integers in a unit in which every
limit and step is whole: 0.05 m on the SEN0395, whose step of 0.15 m is three of
them, and the C4001's own step on a C4001. `requested` and `agreeing` are history. The
changes of one transaction come before it; timeouts and lost commands are in
`Engine`.

In all modules, operators marked `Altered` (or with a name of their own after the comment
"Mutant") are mutated forms of the operator that follows them:
each property of each passing run has one that violates it, and they are used by
nothing else.

## 3. The runs

| Run | Question | Instance |
|---|---|---|
| `EngineSettings` | Do radar, store and entities agree, does the radar run again? | SEN0395, one group, two values; commands and answers lost, values clamped, sets and factory resets refused; changes, refresh, restart, factory reset |
| `EngineRun` | Does a user's stop hold, does the status tell the truth? | SEN0395, one group, two values; losses, short answers, power cycles; changes, running switch |
| `EngineModes` | Does a mode switch end, in a known mode and with a running radar? | C4001, one group; losses, refusals; mode, factory reset; with the fairness of `LoopSpec` |
| `EngineModeSettings` | Do settings follow their mode? | C4001, two groups, one of the presence app; two values, each group with a different one in each app; garbled answers, refusals; mode, and changes of any one setting |
| `EngineLive` | Does everything end, does the link recover, are changes taken? | SEN0395, two groups, one of them a capability probe; losses, garbled answers, refusals that leave the radar unsaved or not, ESP restarts; changes; with the fairness of `FairSpec` |
| `Wire` | Does the exchange work byte by byte? | one operation of up to three commands out of five; a ring of 2, a line of 8 bytes; one loss or two pieces of boot noise, one report |
| `Reports` | Do the sensors tell what the radar reports? Do range settings arrive? | two separate parts of one run: SEN0395 and C4001, three targets, with and without pin; and range values 0 to 9 of three radars |

The bounds: one ordinary group is enough for a transaction (all groups are
treated alike, save the range group, which decides whether a firmware is
supported, and the probe groups, both present where they matter). Two values let a
clamped value differ from the one sent. In `EngineModeSettings` they let an old value, a
refused request and the value of the other app differ from the right one: the shared range
and the setting of the presence app start with different values in the two apps. There
only one setting is changed in each behaviour, whichever it is, and as many times as the
user likes; the two values are interchangeable (`ValueSymmetry`: no factory reset is
asked for, so `Default` restores nothing). `EngineModes` has one group, as its properties
are about the mode and not about settings. One retry instead of two: a retry repeats
the same branch, and the proofs hold for any number. No counter of these five runs is unbounded, so none cuts the state space. All runs
check for deadlock. `EngineSettings` has 1.1 million distinct states, `EngineRun` 2.8,
`EngineModes` 0.6, `EngineModeSettings` 1.5 (up to symmetry) and `EngineLive` 0.2 million.

`Wire` (0.2 million states) bounds what can go wrong: `MaxLoss` 1, `MaxReports` 1,
`MaxNoise` 2, `MaxCommands` 3. The five operations contain every kind of command,
each followed by one it might be confused with. A ring of two places wraps and fills
with three commands, and pushing back to the front happens on a wrapped ring. A
line of eight bytes holds the longest answer; the boot noise overflows it. One
retry, for the kinds in `MCRetries`.

`Reports` (0.6 million states) has two parts that share no state and run side by side.
Reports: `MAX_TARGETS` 3 of 8, enough for a burst with a first, an inner and a last
line; `TARGET_TIMEOUT` 2 ticks; periods 0 (unknown), 2 and 3, with 3 beyond
`MAX_PERIOD`, which stands for the 1500 s above which a period means that presence
is not reported. A burst's tag counts modulo 3. At most one line of two bursts in a
row is lost (see `FramesAreWhole`). The SEN0395's presence and target reports share
no state and are switched on in separate configurations. Ranges: limits small enough
that each branch of `couple_ranges_()` is taken, values on and between the
SEN0395's steps, with a radar that clamps the trigger range and one that does not.

What the properties say:

* `TypeOK`: every variable is of its kind; no marker is sent as a command and no
  retry count runs below zero.
* `OperationHasEnd`: a running operation has a command in flight or an entry queued.
  `loop()` treats the opposite as an internal error (299-305).
* `QueueFits`: at most two commands per group and four more: 22 of the 32 places.
* `SetsReachStoppedRadar`: a set command reaches only a stopped radar, also when
  the acknowledgement of the stop was lost.
* `SetsReachRightApp`: a set command reaches only the app it belongs to.
* `AppliedIsKept`: a transaction that ends without an error leaves each value
  in the radar, saved and shown.
* `ShownIsRadars`: between operations an entity without an unapplied change shows
  the value of the app the radar runs, whatever was lost, clamped or refused; on a C4001 as soon
  as the engine has learnt that app and read its settings.
* `ShownIsReported`: between operations it shows the value last read, and nothing if the setting
  is not of the current mode: no value of the other mode or from before the last read,
  and no request that was refused.
* `CleanIsSaved`: without an error shown, the radar keeps over a power cycle what
  it runs with.
* `RadarRuns`: between operations a radar the user has not stopped runs. This
  is the property behind all the recovery flags (`recover_start_`,
  `stop_unconfirmed_`, `MARK_FIRST_READ`, the start on the failure path).
* `BeliefIsRight`: between operations, what the engine holds true about running
  is true.
* `StatusTellsStopped`: between operations the status of a supported radar says
  `STOPPED` exactly when the engine knows it to be stopped.
* `SelectShowsMode`: between operations the work_mode select shows the mode last
  learnt, or a request.
* `UserStopIsKept`: nothing starts a radar while the engine knows the user
  stopped it.
* `OperationEnds`: every operation ends. `EngineLive` covers retries, gets that are asked again,
  and the save and start in front of the queue when a start is refused; `EngineModes` the wait
  behind `setRunApp`. `LinkRecovers`, `ChangeIsTaken`: see [Fairness](#5-fairness).

Of the exchange:

* `RingIsSequence`: the ring buffer refines `Deque`.
* `LinesAreWhole`: the reader refines `ByteLines`. A newline delivers all bytes since
  the last newline or prompt, or nothing when they do not fit; never a part.
* `BufferHoldsLine`: what the buffer holds is what a newline has to deliver.
* `InTurn`: the exchange refines `CommandOrder`. With `waiting` mapped to the command in
  flight and the contents of the ring, every command ends once, in the order given,
  whatever is retried, asked again, or given up.
* `OwnAnswer`: a line or prompt that changes the command in flight was printed
  for it, though the rest of an answer (a second `Done`, a prompt) comes after its result is
  known and the next command waits. This is what tails and gaps are for. It says nothing of an
  answer later than its command's own timeout, which `TimingAssumption` excludes: the code
  could not tell it from the next one's.
* `OkIsTrue`: a command counts as done only if the radar said it was.
* `RetryMeansLoss`: a whole answer in time is never misunderstood.
* `EveryCommandEnds`: see [Fairness](#5-fairness).

Of reports and ranges:

* `OccupancyIsSources`: occupancy is what the shown sources say, also when one goes.
* `OccupancyExpires`: without a pin, occupancy outlives the last presence report by no
  more than three report periods and a second, pauses aside.
* `PresenceIsReported`: a report is shown at once, also after an outage that hid the
  same value, and nothing else makes presence, save targets that fade.
* `FramesAreWhole`: a frame holds the distances of one burst, if no two lines of
  two bursts in a row are lost.
* `SensorsShowFrame`: holding back repeated NaNs hides no change.
* `TargetsDecay`: a target is shown for less than `target_timeout` after the radar last
  reported it. Damaged lines do not keep it alive.
* `TriggerReachable`: a change of the trigger range or of the maximum alone leaves a
  trigger range within the maximum.
* `RequestsAreSent`: what is sent is what was asked for; coupling moves only the
  other value.
* `ErrorsAreTrue`: an error for each value the radar did not keep, and none raised by
  the comparison for one it kept, though both sides are rounded.

Some of these hold only within the behaviours their run allows, and that is
part of what the runs show. `RadarRuns` does not hold with ESP restarts (the
restarted engine cannot know that a SEN0395 was stopped in the middle of a
transaction). `CleanIsSaved` does not hold on the C4001, whose firmware starts
with unsaved changes: a transaction that fails after its sets leaves them unsaved.
`StatusTellsStopped` does not hold on the C4001 with the running switch, since a start that
a running radar refuses with a bare `Error` leaves the belief as it was.
`BeliefIsRight` does not hold on the C4001 with lost answers to `setRunApp`.
These are listed under the hazards.

## 4. Where code and documentation differ

Five runs expect a violation; each is a sentence of the repository that the
code does not keep in some order of events.

| Run | Says | Happens |
|---|---|---|
| `RefreshMode` | `README.md:243` "Drops any unapplied change and rereads every setting" | the `work_mode` select keeps the dropped request: `finish_read_()` (1164) skips it |
| `LateChange` | `README.md:77` "A change made while the link was down is not retried" | it stays dirty and is sent after the recovery (1014-1022) |
| `UserStop` | `host_tests/test_engine.cpp:401` "a settings change while stopped keeps the radar stopped" | the engine has not learnt since its boot whether the radar runs; a report between the user's request and the stop clears `user_stopped_` (1841); the next change starts the radar |
| `WrongApp` | comment at `mmwave_engine.cpp:1200` "the speed app is never silent, so a live radar that has printed nothing for the mode-switch wait is in the presence app"; `docs/hardware-test-plan.md:139` expects a presence setting to be refused in the speed app | an identify-and-read whose `getRange` is lost stops the radar itself, and the timeouts of lost commands make a silence as long as the wait (1203); before the first report after its start the radar is taken to run the presence app, and a presence setting is sent to the speed app |
| `LateMode` | comment at `mmwave_engine.cpp:2028` "the settings of this mode still have to be read" | not when a mode switch is pending, though its read has chosen its groups (2030) |

Eight more were met on the way. No run is made of them, since each is a corner
that the modules or runs exclude in a guard, a premise or a constant that names it, or an
imprecise comment:

* A minimum and a trigger range requested together, with the trigger range above the
  maximum and the minimum at or above where the maximum is pushed to:
  `couple_ranges_()` pushes the maximum (1466) without a look at the minimum.
  `build_set_()` then refuses the window, and the trigger range is sent alone, beyond
  the maximum the radar keeps. `TriggerReachable` excludes a refused window.
* Two lines lost, the end of one burst and the start of the next, join two bursts
  with the same number of targets: a burst has no mark but its line numbers. `FramesAreWhole`
  holds for at most one line lost in two bursts.
* After a restart of a C4001 in its speed app the mode is unknown, and
  `check_targets_decay_()` (1974-1977) does not clear its targets before it is learnt
  again, though `README.md:67` says that `target_timeout` clears them. `TargetsDecay`
  excepts this.
* The comment at `mmwave_line_reader.cpp:69` says that prompt detection keeps working
  on what is left of an overlong line. It does, except for a prompt that lies
  across the place where the buffer starts over. `ByteLines` allows a prompt
  to be missed there, and nowhere else.
* A mode learnt during a transaction is not published to the `work_mode` select:
  `set_work_mode_()` (2016-2017) leaves it to the read that ends the operation, and
  `finish_txn_()` (1592) skips that setting. It shows only on a C4001 whose mode was
  inferred wrongly before, since a mode does not change in a transaction: with changes
  and losses together the select then keeps the wrong mode. `SelectShowsMode`
  is checked and proved for behaviours without changes of settings.
* "After every change the component reads the value back and shows what the radar actually
  kept" (`README.md:13`) fails on a SEN0395 that answers gets only while stopped. A stop of the
  identify-and-read is carried out and its answers are lost; the next identify-and-read
  finds `getRange` answered, and `MARK_FIRST_READ` (918) takes the radar to answer while running:
  it asks for `known_stopped`, not for `stop_unconfirmed_`, which it looks at seven lines
  below. Every later read-back meets a running radar and is refused, and the entity
  shows the old value, with an error, until a refresh. TLC finds it when `EngineSettings`
  is given `Firmwares <- StoppedFirmware`, `Faults = {"lose", "mute"}` and
  `UserOps = {"set"}`. The run has firmwares that answer while running, and `ShownHolds`
  assumes them.
* A refresh of a C4001 drops every unapplied change (`clear_dirty()`, 1032) but publishes
  only what it reads (`finish_read_()`, 1164). A setting that was changed before the mode was
  known, and does not belong to the mode then learnt, keeps showing the dropped request
  (`README.md:243`). `EngineModeSettings` has no refresh, and `ReportedHolds` is about the
  SEN0395.
* A get whose answer is cut short (758-764) does not fail the operation. After a change the
  entity goes back to the last confirmed value, and the error says so (1617). After a factory
  reset nothing is compared: the entity keeps the value from before it and no error is
  shown (`README.md:13` "The radar is the source of truth"). The runs of `ShownIsRadars`
  have no short answers and `Answering` excludes them from `ShownHolds` and `ReportedHolds`,
  which rests on the same invariant; `EngineRun` has them.

## 5. Fairness

`FairSpec` is `Spec` with

* `WF_vars(EngineStep)`: ESPHome calls `loop()` for ever, so whatever the engine
  can do it does, and a command in flight meets its answer or its timer. The
  steps are taken together: the engine is one thread and does one thing at a time,
  and which of them comes is decided by the queue. Nothing is assumed of the user or of
  pings.
* `WF_vars(SpeedReports)`: a C4001 in the speed app reports ("the speed app is never silent",
  1200). The wait behind `setRunApp` ends with a report or after a silence, and
  `radar.quiet` counts a silence only up to the next report. Nothing is assumed of the
  reports of the presence app and of the SEN0395, which may be switched off.
* `SF_vars(Apply)`: a change is sent only once the debounce time has passed since
  the last change, and only when nothing else is running. Both come round again: a
  user pauses for longer than the debounce time now and then, and pings are
  far apart (LINK_TIMEOUT_MS).

The first two are `LoopSpec`, which `EngineModes` uses. `OperationEnds` needs no assumption
about the wire. `LinkRecovers` and `ChangeIsTaken` assume that from some time on nothing is
lost, no answer is garbled and neither side loses power; sets may still be refused.

`ExchangeSpec` assumes weak fairness of each step of the loop (`FeedByte`, `EndTail`,
`GiveUp`, `Retry`, `DoMarker`, `SendNext`), of `Tick` and of `PrintLine`: ESPHome
calls `loop()` for ever, time passes, and a radar that has begun to answer goes on.
Nothing is assumed of the wire, of reports, or of the radar's will to answer at all.
`EveryCommandEnds` follows from the timers alone.

`Reports` and `Ranges` state no fairness: their properties are about steps.
That occupancy expires is said as a bound on an age (`OccupancyExpires`), which is
stronger than that it happens some time.

## 6. What is proved

### The engine

For every value of the constants that satisfies the assumptions
`GroupAssumption`, `ValueAssumption` and `NilAssumption` of `Engine` (any finite or
infinite set of groups and values, any number of retries, any set of firmwares,
faults and user operations):

* `TypeCorrect == Spec => []TypeOK` (`EngineProofs`). `TypeOK` is inductive. The
  lemmas type what each operator builds (`Gets`, `ReadBack`, `FailQueue`,
  `Outcomes`, ...), then each `...Done` operator, then each action; the record
  variables have a lemma of their own so that the leaves never open them all.
* `OperationsEnd == Spec => []OperationHasEnd` (`EngineSafetyProofs`).
  `OperationHasEnd` alone is not inductive: a step removes the head of the queue,
  and nothing says that something follows. The strengthening `EndInv` says which
  end markers an operation may have (`EndsOf`), that exactly one of them stands in
  the queue, at its end (`WellEnded`), and what a queue without an operation looks
  like (empty). The proof goes through the queue edits: what is taken from the
  front leaves the end, what is put in front leaves it too, `FailQueue` brings
  its own.

* `UserStopHolds == Spec => UserStopIsKept` (`EngineSafetyProofs`), an action
  property. The start that violates it would have been queued earlier, perhaps
  before the user's request, so `UserInv` speaks of all that is `Pending` (queue and
  command in flight): while `user_stopped_` is set there is no start and no mode-switch
  wait among it (the wait queues a start of its own when it runs out), and a
  failure of the running operation would add none (`Restarts`). Since
  `user_stopped_` is set only between operations, the second part says that the
  operations that can end without clearing their restart flags (`Plain`) have none;
  and since only some ends clear them, the last two parts say which operations
  ask for the version (its timeout ends any operation) or reset the system. It uses
  `EndInv` for what a marker finds behind it.

The next three (`EngineRadarProofs`) speak of the radar at the other end of a wire that
loses commands and answers. They hold for any groups, values, retries, firmwares and
faults, and name in their hypotheses what the user and the environment may not do:

* `SetsReachStopped == Spec => []SetsReachStoppedRadar`, for both dialects, ESP restarts
  included, if the radar keeps its power. That a set command meets a stopped radar
  is a matter of order: the stop is in the queue before the sets, and nothing that starts a
  radar is between. `OrderInv` says so of every queue: an operation has only
  commands of its own (`Allowed`), a stop is at the head, sets and the mode command are at
  the head or right behind the stop, a failing operation has none of them left, and no
  command of the failure path is mixed with ordinary ones. Only then does the second part
  say what the radar does: once the stop is behind, the radar is stopped until the
  last set is. Without the hypothesis a radar that loses its power in a transaction
  comes back running and meets the next set.
* `RadarIsStarted == Spec => []RadarRuns`, for both dialects, power cycles of the radar
  included, if the user has no running switch and the ESP does not restart. This is the
  theorem about the recovery flags: each of them is needed by one disjunct of
  `RunInv`. Outside operations the radar runs. In an operation that
  stops it, a start is still to be sent, or the operation is failing. Between a failure
  and the end of the next identify-and-read, the radar runs, or a flag (`Coming`:
  known stopped, stop unconfirmed, recovery after it ran once) makes `FirstRead` queue
  the start. A mode switch queues none, and relies on `setRunApp`, on the start behind
  an unanswered wait, or on these flags. `RetryInv` is needed for the SEN0395, which refuses to start
  with unsaved changes: a start is refused at most once, since the save goes out
  before the second and nothing is changed after it. The hypotheses are needed: an ESP that
  restarts in a transaction does not know that the radar was stopped, and a report
  that crosses a user's stop clears `user_stopped_` (run `UserStop`).
* `BeliefIsTrue == Spec => []BeliefIsRight` for the SEN0395, without the running switch,
  ESP restarts and power cycles, from the same invariant. On the C4001 a start whose
  answer was lost is answered with `Error` when it is sent again, and the belief stays
  as it was until the next report.
* `QueueIsLargeEnough == Spec => []QueueFits`, for every finite set of groups. The
  queue alone is no measure: a refused start pushes two commands, a mode-switch wait
  pushes one. `FitInv` counts what is held (`Size`, the command in flight and the queue) and what
  may still come with it (`Extra`: one more for a start not yet repeated and for a wait
  that has not begun, two while waiting). The first is at most 2N + 4 for N groups, the sum at
  most 2N + 5, and 2N + 4 once the stop in front of an operation is done. That last part
  makes room when the start at the end of a transaction is refused. `OrderInv` says that nothing
  but a stop is ever in front of a set or a mode command. The lemmas below it are about
  the cardinality of a set of pairs built over a sequence (`Spread`): one command, two
  sequences in a row.

The last six (`EngineShownProofs`) speak of what is left between operations.

* `ChangesAreSaved == Spec => []CleanIsSaved` for the SEN0395, without the running switch
  and ESP restarts, power cycles included. `SavedInv` is short: a radar that counts nothing as
  unsaved has saved all its values, and a running SEN0395 counts nothing as unsaved, since its
  firmware refuses to start otherwise and settings meet a stopped radar only. With `RadarIsStarted` that is the property, even where an error is
  shown. So what the code's rule "save, then start again" achieves is the start, and the saving
  follows from it.
* `SelectShows == Spec => []SelectShowsMode`, for both dialects and all faults, without
  changes of settings and refreshes; both exceptions are divergences of section 4.
  `SelectInv` says which operations show a learnt mode at once (`Showing`), that a mode
  switch is pending only in its own operation and the read behind it, and that nothing
  starts a transaction.
* `StatusTells == Spec => []StatusTellsStopped`, for the SEN0395 with every user operation
  and all faults, for the C4001 without the running switch. `StatusInv` carries the
  property through pings, and says that a start or stop of the running switch either is
  still to be sent or left the belief known: only then does `RUN_DONE` publish what the
  engine knows. The C4001 has a starter of its own, the check for a missing report;
  `RecoverInv` says that its operation holds that start and nothing else, which ends
  known to run or fails.
* `AppliedHolds == Spec => AppliedIsKept`, an action property, for both dialects and all
  faults, ESP restarts included, if the radar keeps its power (a power cycle between the
  read-back and the end of a transaction brings the last saved values back, which nothing
  tells the engine). `KeptInv` follows a transaction from its sets to its end. What
  an operation has read is what the radar has (`ReadTrue`): a get is not sent before the last
  command that changes a setting is done, which is what `OrderInv` says of the queue.
  While no error is shown, there is still a setting to send, or a save to come, or all is
  saved (`TxnInv`). A C4001 that answers `saveConfig` with `Error` had nothing unsaved, which is
  `SavedInv` again. And what was sent belongs to the app the radar runs.
* `ShownHolds == Spec => []ShownIsRadars` for the SEN0395, all faults, ESP restarts, restarts
  and factory resets included. The property says nothing while an operation runs, so
  `SeenInv` says of each setting, all the time: the value last read is the radar's, or the
  setting is still to be read (`Right`); and the entity shows the value last read, or the
  running operation is about to publish it (`Told`). What is still to be read or sent is in the
  groups of the gets and sets in the queue and in flight (`Unread`, `Unset`), and all that
  is still to be sent is still to be read. `BootInv` carries this through the
  identify-and-read, which starts without knowing anything. The hypotheses: the radar keeps its
  power, as above; and `Answering`, that firmwares answer gets while running and know, if they
  answer `getRange`, each setting that is not probed for, and that no answer is cut short. All
  are what the code relies on. With a firmware that answers only while stopped, a lost answer to
  a stop is enough to break it, and so is a short answer to a read-back (section 4 has both);
  a firmware without a setting that is not probed for answers each get of it with an error, and
  its entity keeps what was asked for.
* `ReportedHolds == Spec => []ShownIsReported` under the same hypotheses. While the firmware is
  supported it follows from `SeenInv`. `FirmwareInv` covers the one that is not: no
  transaction and no read starts (`Served`), so that what the identify-and-read has read is what
  is shown, and a setting the firmware does not know shows nothing.

### The queue and the reader

For every capacity (`QueueAssumption`, `ReaderAssumption`), commands and bytes:

* `QueueImplementsSequence == QueueSpec => RingIsSequence` (`SerialProofs`), a
  refinement of `Deque` by `Contents`. Lemmas about indices modulo the capacity carry
  it: two offsets below the capacity from the same head are two slots, so that a push at
  the back leaves the others, and a front that moves back by one slot shifts all offsets by one.
* `BufferIsLine == ReaderSpec => []BufferHoldsLine` and
  `ReaderDeliversLines == ReaderSpec => LinesAreWhole` (`SerialProofs`), a
  refinement of `ByteLines`. `BufferHoldsLine` is the inductive invariant: without it, nothing
  ties the buffer to the bytes received.

### The exchange

For every capacity, operation, number of retries, amount of loss and all timer values
(`ExchangeAssumption` says only that what is sent can be queued and what is printed consists of
bytes; `TimingAssumption` is not used):

* `CommandsInTurn == ExchangeSpec => InTurn` (`ExchangeProofs`), a refinement of
  `CommandOrder`. Each action is an `End`, an `Abandon`, a `Give` or a stutter of what waits. The
  steps that could break it are those that put a command in two places at once or in
  none: sending moves the front of the ring into flight, a reparse moves it back, and
  both leave what waits as it is. `ExchangeInv` adds that all that waits was given before
  (so that a number is new when it is given) and that the queue holds commands only.
* `ExchangeKeepsSequence == ExchangeSpec => RingIsSequence` and
  `ExchangeReadsLines == ExchangeSpec => LinesAreWhole`: every action changes ring and reader
  by their own methods, with commands and bytes of the right kind, so their refinements hold in
  the composition.

### Reports

For every device, number of targets, timeout and set of periods
(`ReportsAssumption`); `ReportsInv` is the inductive invariant, named part by part:

* `OccupancyFollows`: `OccupancyIsSources`. Needs that a source is shown exactly while it
  is live (`Sources`).
* `OccupancyFades`: `OccupancyExpires`. Needs that a live presence is at least as old
  as the radar's last report (`Ages`: `unheard <= uart.since`).
* `PresenceFollows`: `PresenceIsReported`.
* `FramesWhole`: `FramesAreWhole`. Needs what is collected at each line of a burst
  (`Bursts`): lines of this burst up to the one before, or, when a line was lost, a
  remainder of which nothing can become a frame.
* `SensorsShow`: `SensorsShowFrame`. Needs that the filter remembers NaN only while the
  sensor shows it.
* `TargetsFade`: `TargetsDecay`. Needs that the age the engine counts is that of the
  last full report.

### Ranges

For every set of values and dialects with `RangesAssumption` (limits in order, the
trigger range's within those of the maximum on a radar that couples them,
a unit equal to the step on a radar that does not round); `RangesInv` is the
inductive invariant:

* `TriggerFollows`: `TriggerReachable`. Needs what the commands still to be sent will
  do to what the radar has (`Aimed`).
* `RequestsReachRadar`: `RequestsAreSent`. A lemma says that coupling changes only a
  value that was not asked for.
* `ErrorsTell`: `ErrorsAreTrue`. Two multiples of the step that differ are more than
  half a step apart, so the comparison tells them apart and rounding makes no error.

Each of these properties is also checked by a run.

Model-checked only:

* `OperationEnds`, `LinkRecovers`, `ChangeIsTaken`, `EveryCommandEnds`: liveness under
  fairness is beyond the prover.
* `OwnAnswer`, `OkIsTrue`, `RetryMeansLoss` of `Exchange`: they depend on the timers
  (`TimingAssumption`) and need an invariant about what the radar has still to print and when.
* `ShownIsReported` for the C4001 (run `EngineModeSettings`): a mode learnt in the middle of an
  operation changes which settings are still to be read, which `SeenInv` takes as fixed.
* `SetsReachRightApp`, which concerns the C4001 only: it rests on how long a radar in the
  speed app is silent (`radar.quiet`), through every timer of the operations; see run `WrongApp`.

## 7. What is left out, and the plan

Next, in this order:

1. **`ShownIsReported` proved for the C4001**, without refreshes: `SeenInv` with the mode that
   the read of an operation has chosen its groups for.
2. **`OwnAnswer` proved** from `TimingAssumption`, with an invariant about what the radar has
   still to print and when; then `OkIsTrue`.
3. **`Timers`**: deadlines modulo 2^w: the compare of `check_report_after_recovery_()`
   (1990), which orders absolute times where every other timer takes a difference;
   the debounce that a source faster than it can hold off for ever (1016); the
   read for a learnt mode that a stop-to-read radar may never get (1039). The three are listed as
   hazards without a property.
4. **Several settings per group** in `Engine`, with the transaction of `Ranges` as its
   value part.

Not modelled: the formatter's text (no state; its one computation, `quantize_down()`, is
in `Ranges`), the tables (data; their rows are constants of the modules), the Python code
generator (build time), `dump_config`, logging and the console's free text, the
legacy firmware of the fake radar.
