---------------------------- MODULE ReportsProofs ----------------------------
(***************************************************************************)
(* Proofs about Reports, for all configurations, numbers of targets,       *)
(* report periods and timeouts. The inductive invariants:                  *)
(*   Sources   what the host shows of a source is what the source says;    *)
(*   Ages      a live presence was reported no earlier than its age, and   *)
(*             the targets' age is the time since they were reported;      *)
(*   Shown     what the sensors show, and why a NaN may be suppressed;     *)
(*   Bursts    the lines collected so far belong to one burst.             *)
(***************************************************************************)
EXTENDS Reports, TLAPS

Modes == {"UNKNOWN", "PRESENCE", "SPEED"}
ShownValues == {"UNKNOWN", "DETECTED", "CLEAR"}

DeviceType ==
  /\ device \in [model : {"SEN0395", "C4001"}, hasPin : BOOLEAN,
                 prints : SUBSET {"presence", "targets"}]
  /\ mode \in Modes

Sources ==
  /\ uart \in [live : BOOLEAN, present : BOOLEAN, since : Nat, shown : ShownValues]
  /\ pin \in [live : BOOLEAN, present : BOOLEAN, shown : ShownValues]
  /\ uart.shown = IF uart.live THEN Says(uart.present) ELSE "UNKNOWN"
  /\ pin.shown = IF pin.live THEN Says(pin.present) ELSE "UNKNOWN"
  /\ occupancy = Combined(uart, pin)

LEMMA DeviceInit == ReportsInit => DeviceType
  BY ReportsAssumption DEF ReportsInit, DeviceType, Modes

LEMMA DeviceStep == DeviceType /\ [ReportsNext]_reportsVars => DeviceType'
<1>. SUFFICES ASSUME DeviceType, [ReportsNext]_reportsVars PROVE DeviceType'
  OBVIOUS
<1>1. device' = device
  BY DEF ReportsNext, reportsVars, radarVars, PresenceLine, TargetLine, BadTargetLine,
         BurstLine, BadBurstLine, LostBurstLine, FeedPin, BeginPause, EndPause,
         InferPresence, ReadPeriod, LinkLost, Restart, StartProbe, Tick
<1>2. mode' \in Modes
  BY DEF DeviceType, Modes, ReportsNext, reportsVars, radarVars, engineVars, LearnMode,
         PresenceLine, TargetLine, BadTargetLine, BurstLine, BadBurstLine, LostBurstLine,
         FeedPin, BeginPause, EndPause, InferPresence, ReadPeriod, LinkLost, Restart,
         StartProbe, Tick
<1>. QED
  BY <1>1, <1>2 DEF DeviceType

-----------------------------------------------------------------------------
(* Presence and occupancy.                                                 *)

LEMMA SourcesInit == ReportsInit => Sources
  BY DEF ReportsInit, Sources, ShownValues, Combined

(* A source that agrees with what is shown of it. *)
SoundUart(u) ==
  /\ u \in [live : BOOLEAN, present : BOOLEAN, since : Nat, shown : ShownValues]
  /\ u.shown = IF u.live THEN Says(u.present) ELSE "UNKNOWN"

(* A report, or targets that fade, keep a source sound; the rest of it. *)
LEMMA Setting ==
  ASSUME NEW u, SoundUart(u), NEW present \in BOOLEAN, NEW fromReport \in BOOLEAN
  PROVE  LET v == SetUartPresence(u, present, fromReport)
         IN  /\ SoundUart(v)
             /\ v.since = IF fromReport THEN 0 ELSE u.since
             /\ fromReport => v.shown = Says(present)
             /\ ~fromReport => (v.live <=> u.live)
             /\ ~fromReport => v.shown \in {u.shown, Says(present)}
<1>. DEFINE fresh == IF fromReport THEN [u EXCEPT !.since = 0] ELSE u
            new == [fresh EXCEPT !.live = TRUE, !.present = present, !.shown = Says(present)]
<1>1. SoundUart(fresh) /\ fresh.since = (IF fromReport THEN 0 ELSE u.since)
      /\ fresh.live = u.live /\ fresh.present = u.present /\ fresh.shown = u.shown
  BY DEF SoundUart
<1>2. SoundUart(new) /\ new.since = fresh.since /\ new.live = TRUE
      /\ new.shown = Says(present)
  BY <1>1 DEF SoundUart, Says, ShownValues
<1>3. CASE (~fromReport /\ ~u.live) \/ (u.live /\ u.present = present)
  <2>1. SetUartPresence(u, present, fromReport) = fresh
    BY <1>3 DEF SetUartPresence
  <2>. QED
    BY <1>1, <1>3, <2>1 DEF SoundUart
<1>4. CASE ~((~fromReport /\ ~u.live) \/ (u.live /\ u.present = present))
  <2>1. SetUartPresence(u, present, fromReport) = new
    BY <1>4 DEF SetUartPresence
  <2>. HIDE DEF new
  <2>. QED
    BY <1>1, <1>2, <1>4, <2>1
<1>. QED
  BY <1>3, <1>4

LEMMA Dropping ==
  ASSUME NEW u, SoundUart(u)
  PROVE  SoundUart(Drop(u)) /\ ~Drop(u).live /\ Drop(u).shown = "UNKNOWN"
         /\ Drop(u).since = u.since
  BY DEF SoundUart, Drop, ShownValues

LEMMA Checking ==
  ASSUME NEW u, SoundUart(u)
  PROVE  LET v == CheckStale(u)
         IN  /\ SoundUart(v)
             /\ v.live => u.live /\ (paused \/ (v.since = u.since /\ v.since <= Window(mode, period)))
             /\ v.shown \in {u.shown, "UNKNOWN"}
<1>1. CASE u.live /\ paused
  BY <1>1 DEF CheckStale, SoundUart
<1>2. CASE ~(u.live /\ paused) /\ u.live /\ u.since > Window(mode, period)
  BY <1>2, Dropping DEF CheckStale
<1>3. CASE ~(u.live /\ paused) /\ ~(u.live /\ u.since > Window(mode, period))
  <2>1. CheckStale(u) = u
    BY <1>3 DEF CheckStale
  <2>2. Window(mode, period) \in Int /\ u.since \in Int
    BY DEF Window, SoundUart
  <2>. QED
    BY <1>3, <2>1, <2>2
<1>. QED
  BY <1>1, <1>2, <1>3

SoundPin(p) ==
  /\ p \in [live : BOOLEAN, present : BOOLEAN, shown : ShownValues]
  /\ p.shown = IF p.live THEN Says(p.present) ELSE "UNKNOWN"

LEMMA Setup ==
  ASSUME NEW u, NEW p, SoundUart(u), SoundPin(p), SetSources(u, p)
  PROVE  Sources'
<1>1. uart' = u /\ pin' = p /\ occupancy' = Combined(u, p)
  BY DEF SetSources
<1>2. occupancy' = Combined(uart', pin')
  BY <1>1
<1>. QED
  BY <1>1, <1>2 DEF Sources, SoundUart, SoundPin, Combined

LEMMA Sound == Sources => SoundUart(uart) /\ SoundPin(pin)
  BY DEF Sources, SoundUart, SoundPin

(* The presence that a tick ages, fades and checks. *)
Aged == [uart EXCEPT !.since = IF uart.live THEN Older(@, LongestWindow + 1) ELSE 0]
Faded ==
  IF Decays(Older(target.since, TARGET_TIMEOUT)) /\ mode = "SPEED"
  THEN SetUartPresence(Aged, FALSE, FALSE) ELSE Aged

LEMMA Ageing ==
  ASSUME SoundUart(uart)
  PROVE  /\ SoundUart(Aged) /\ SoundUart(Faded)
         /\ Faded.since = Aged.since /\ (Faded.live <=> uart.live)
         /\ uart.live => Aged.since = Older(uart.since, LongestWindow + 1)
         /\ Faded.shown \in {uart.shown, "CLEAR"}
         /\ Faded.shown # uart.shown => Decays(Older(target.since, TARGET_TIMEOUT))
<1>1. SoundUart(Aged) /\ (Aged.live <=> uart.live) /\ Aged.shown = uart.shown
      /\ (uart.live => Aged.since = Older(uart.since, LongestWindow + 1))
  BY DEF SoundUart, Aged, Older
<1>2. CASE Decays(Older(target.since, TARGET_TIMEOUT)) /\ mode = "SPEED"
  <2>1. Faded = SetUartPresence(Aged, FALSE, FALSE)
    BY <1>2 DEF Faded
  <2>2. Says(FALSE) = "CLEAR"
    BY DEF Says
  <2>3. /\ SoundUart(Faded) /\ Faded.since = Aged.since /\ (Faded.live <=> Aged.live)
        /\ Faded.shown \in {Aged.shown, "CLEAR"}
    BY <1>1, <2>1, <2>2, Setting
  <2>. QED
    BY <1>1, <1>2, <2>3
<1>3. CASE ~(Decays(Older(target.since, TARGET_TIMEOUT)) /\ mode = "SPEED")
  BY <1>1, <1>3 DEF Faded
<1>. QED
  BY <1>2, <1>3

LEMMA TickSources ==
  ASSUME Tick
  PROVE  SetSources(CheckStale(Faded), pin)
  BY DEF Tick, Faded, Aged

LEMMA SourcesStep == Sources /\ [ReportsNext]_reportsVars => Sources'
<1>. SUFFICES ASSUME Sources, [ReportsNext]_reportsVars PROVE Sources'
  OBVIOUS
<1>0. SoundUart(uart) /\ SoundPin(pin)
  BY Sound
<1>1. ASSUME NEW u, SoundUart(u), SetSources(u, pin) PROVE Sources'
  BY <1>0, <1>1, Setup
<1>2. CASE PresenceLine
  <2>1. PICK present \in BOOLEAN : SetSources(SetUartPresence(uart, present, TRUE), pin)
    BY <1>2 DEF PresenceLine
  <2>. QED
    BY <1>0, <1>1, <2>1, Setting
<1>3. CASE TargetLine
  <2>1. PICK n \in {0, 1} : SetSources(SetUartPresence(uart, n = 1, TRUE), pin)
    BY <1>3 DEF TargetLine
  <2>2. (n = 1) \in BOOLEAN
    OBVIOUS
  <2>. QED
    BY <1>0, <1>1, <2>1, <2>2, Setting
<1>4. CASE FeedPin
  <2>1. PICK present \in BOOLEAN :
          SetSources(uart, [live |-> TRUE, present |-> present, shown |-> Says(present)])
    BY <1>4 DEF FeedPin
  <2>2. SoundPin([live |-> TRUE, present |-> present, shown |-> Says(present)])
    BY DEF SoundPin, Says, ShownValues
  <2>. QED
    BY <1>0, <2>1, <2>2, Setup
<1>5. CASE LinkLost \/ Restart
  <2>1. SetSources(Drop(uart), pin)
    BY <1>5 DEF LinkLost, Restart
  <2>. QED
    BY <1>0, <1>1, <2>1, Dropping
<1>6. CASE Tick
  <2>1. SoundUart(CheckStale(Faded))
    BY <1>0, Ageing, Checking
  <2>. QED
    BY <1>1, <1>6, <2>1, TickSources
<1>7. CASE UNCHANGED sourceVars
  BY <1>7 DEF sourceVars, Sources, Combined
<1>8. (BadTargetLine \/ BurstLine \/ BadBurstLine \/ LostBurstLine \/ BeginPause \/ EndPause
        \/ InferPresence \/ ReadPeriod \/ StartProbe \/ UNCHANGED reportsVars)
        => UNCHANGED sourceVars
  BY DEF BadTargetLine, BurstLine, BadBurstLine, LostBurstLine, BeginPause, EndPause,
         InferPresence, ReadPeriod, StartProbe, reportsVars
<1>. QED
  BY <1>2, <1>3, <1>4, <1>5, <1>6, <1>7, <1>8 DEF ReportsNext

(* A source that goes away, comes back or fades takes occupancy with it,   *)
(* in every reachable state, for every configuration.                      *)
THEOREM OccupancyFollows == ReportsSpec => []OccupancyIsSources
<1>1. ReportsSpec => []Sources
  BY SourcesInit, SourcesStep, PTL DEF ReportsSpec
<1>2. Sources => OccupancyIsSources
  <2>. SUFFICES ASSUME Sources PROVE OccupancyIsSources
    OBVIOUS
  <2>1. /\ uart.shown = IF uart.live THEN Says(uart.present) ELSE "UNKNOWN"
        /\ pin.shown = IF pin.live THEN Says(pin.present) ELSE "UNKNOWN"
        /\ occupancy = Combined(uart, pin)
    BY DEF Sources
  <2>2. uart.live \in BOOLEAN /\ pin.live \in BOOLEAN
        /\ uart.present \in BOOLEAN /\ pin.present \in BOOLEAN
    BY DEF Sources
  <2>3. CASE uart.live /\ pin.live
    BY <2>1, <2>2, <2>3 DEF Combined, Says, OccupancyIsSources
  <2>4. CASE uart.live /\ ~pin.live
    BY <2>1, <2>2, <2>4 DEF Combined, Says, OccupancyIsSources
  <2>5. CASE ~uart.live /\ pin.live
    BY <2>1, <2>2, <2>5 DEF Combined, Says, OccupancyIsSources
  <2>6. CASE ~uart.live /\ ~pin.live
    BY <2>1, <2>2, <2>6 DEF Combined, Says, OccupancyIsSources
  <2>. QED
    BY <2>2, <2>3, <2>4, <2>5, <2>6
<1>. QED
  BY <1>1, <1>2, PTL

-----------------------------------------------------------------------------
(* Ages: how long ago the radar reported its presence and its targets.     *)

Ages ==
  /\ unheard \in Nat /\ untargeted \in 0 .. TARGET_TIMEOUT
  /\ uart.live => unheard <= uart.since
  /\ target \in [since : Nat, zero : BOOLEAN]
  /\ target.since = untargeted

LEMMA AgesInit == ReportsInit => Ages
  BY ReportsAssumption DEF ReportsInit, Ages

LEMMA TargetAge ==
  ASSUME Ages
  PROVE  Older(untargeted, TARGET_TIMEOUT) \in 0 .. TARGET_TIMEOUT
  BY ReportsAssumption DEF Ages, Older

(* A live presence after a tick is no older than its window, and was       *)
(* reported no later than its age says.                                    *)
LEMMA TickAge ==
  ASSUME Sources, Ages, Tick
  PROVE  /\ unheard' \in Nat
         /\ uart'.live => /\ unheard' <= uart'.since
                          /\ unheard' = 0 \/ unheard' <= Window(mode, period)
<1>1. SoundUart(uart)
  BY Sound
<1>2. uart' = CheckStale(Faded)
  BY TickSources DEF SetSources
<1>3. unheard' = IF paused THEN 0 ELSE Older(unheard, LongestWindow + 1)
  BY DEF Tick
<1>4. unheard' \in Nat
  BY <1>3, ReportsAssumption DEF Ages, Older, LongestWindow
<1>5. SoundUart(Faded) /\ SoundUart(uart')
  BY <1>1, <1>2, Ageing, Checking
<1>6. ASSUME uart'.live, ~paused
      PROVE  unheard' <= uart'.since /\ unheard' <= Window(mode, period)
  <2>1. Faded.live /\ uart'.since = Faded.since /\ uart'.since <= Window(mode, period)
    BY <1>2, <1>5, <1>6, Checking
  <2>2. uart.live /\ uart'.since = Older(uart.since, LongestWindow + 1)
    BY <1>1, <2>1, Ageing
  <2>3. unheard <= uart.since /\ unheard \in Nat /\ uart.since \in Nat
    BY <1>1, <2>2 DEF Ages, SoundUart
  <2>4. unheard' <= uart'.since
    BY <1>3, <1>6, <2>2, <2>3 DEF Older
  <2>5. uart'.since \in Int /\ Window(mode, period) \in Int
    BY <1>5 DEF SoundUart, Window
  <2>. QED
    BY <1>4, <2>1, <2>4, <2>5
<1>7. ASSUME uart'.live, paused
      PROVE  unheard' <= uart'.since /\ unheard' = 0
  BY <1>3, <1>5, <1>7 DEF SoundUart
<1>. QED
  BY <1>4, <1>6, <1>7

(* A frame starts both ages afresh. *)
LEMMA FreshTarget ==
  ASSUME NEW z \in BOOLEAN, target' = [since |-> 0, zero |-> z], untargeted' = 0
  PROVE  /\ untargeted' \in 0 .. TARGET_TIMEOUT
         /\ target' \in [since : Nat, zero : BOOLEAN] /\ target'.since = untargeted'
<1>1. [since |-> 0, zero |-> z] \in [since : Nat, zero : BOOLEAN]
      /\ [since |-> 0, zero |-> z].since = 0
  OBVIOUS
<1>2. 0 \in 0 .. TARGET_TIMEOUT
  BY ReportsAssumption
<1>. QED
  BY <1>1, <1>2

LEMMA AgesStep == Sources /\ Ages /\ [ReportsNext]_reportsVars => Ages'
<1>. SUFFICES ASSUME Sources, Ages, [ReportsNext]_reportsVars PROVE Ages'
  OBVIOUS
<1>0. SoundUart(uart)
  BY Sound
<1>1. CASE PresenceLine
  <2>1. PICK present \in BOOLEAN : uart' = SetUartPresence(uart, present, TRUE)
    BY <1>1 DEF PresenceLine, SetSources
  <2>2. SoundUart(uart') /\ uart'.since = 0
    BY <1>0, <2>1, Setting
  <2>. QED
    BY <1>1, <2>2 DEF Ages, PresenceLine
<1>2. CASE TargetLine
  <2>1. PICK n \in {0, 1} : /\ uart' = SetUartPresence(uart, n = 1, TRUE)
                            /\ target' = [since |-> 0, zero |-> n = 0]
    BY <1>2 DEF TargetLine, SetSources
  <2>2. (n = 1) \in BOOLEAN /\ (n = 0) \in BOOLEAN
    OBVIOUS
  <2>3. SoundUart(uart') /\ uart'.since = 0
    BY <1>0, <2>1, <2>2, Setting
  <2>4. unheard' = 0 /\ untargeted' = 0
    BY <1>2 DEF TargetLine
  <2>5. /\ untargeted' \in 0 .. TARGET_TIMEOUT
        /\ target' \in [since : Nat, zero : BOOLEAN] /\ target'.since = untargeted'
    BY <2>1, <2>2, <2>4, FreshTarget
  <2>. QED
    BY <2>3, <2>4, <2>5 DEF Ages
<1>3. CASE BurstLine
  <2>1. UNCHANGED <<unheard, uart>>
    BY <1>3 DEF BurstLine, sourceVars
  <2>2. \/ UNCHANGED <<target, untargeted>>
        \/ target' = [since |-> 0, zero |-> FALSE] /\ untargeted' = 0
    BY <1>3 DEF BurstLine
  <2>3. CASE target' = [since |-> 0, zero |-> FALSE] /\ untargeted' = 0
    BY <2>1, <2>3, FreshTarget DEF Ages
  <2>4. CASE UNCHANGED <<target, untargeted>>
    BY <2>1, <2>4 DEF Ages
  <2>. QED
    BY <2>2, <2>3, <2>4
<1>4. CASE LinkLost \/ Restart
  <2>1. uart' = Drop(uart) /\ UNCHANGED <<target, untargeted, unheard>>
    BY <1>4 DEF LinkLost, Restart, SetSources, targetVars
  <2>. QED
    BY <1>0, <2>1, Dropping DEF Ages
<1>5. CASE Tick
  <2>1. /\ unheard' \in Nat
        /\ uart'.live => unheard' <= uart'.since
    BY <1>5, TickAge
  <2>2. target'.since = Older(target.since, TARGET_TIMEOUT)
        /\ target' \in [since : Nat, zero : BOOLEAN]
    <3>. DEFINE age == Older(target.since, TARGET_TIMEOUT)
    <3>1. age \in Nat /\ target \in [since : Nat, zero : BOOLEAN]
      BY ReportsAssumption DEF Ages, Older
    <3>2. \/ target' = [since |-> age, zero |-> TRUE]
          \/ target' = [target EXCEPT !.since = age]
      BY <1>5 DEF Tick
    <3>. HIDE DEF age
    <3>3. CASE target' = [since |-> age, zero |-> TRUE]
      BY <3>1, <3>3 DEF age
    <3>4. CASE target' = [target EXCEPT !.since = age]
      <4>1. target'.since = age /\ target' \in [since : Nat, zero : BOOLEAN]
        BY <3>1, <3>4
      <4>. QED
        BY <4>1 DEF age
    <3>. QED
      BY <3>2, <3>3, <3>4
  <2>3. untargeted' = Older(untargeted, TARGET_TIMEOUT)
    BY <1>5 DEF Tick
  <2>4. untargeted' \in 0 .. TARGET_TIMEOUT
    BY <2>3, TargetAge
  <2>. QED
    BY <2>1, <2>2, <2>3, <2>4 DEF Ages
<1>6. CASE UNCHANGED <<uart, target, unheard, untargeted>>
  BY <1>6 DEF Ages
<1>7. (BadTargetLine \/ BadBurstLine \/ LostBurstLine \/ FeedPin \/ BeginPause \/ EndPause
        \/ InferPresence \/ ReadPeriod \/ StartProbe \/ UNCHANGED reportsVars)
        => UNCHANGED <<uart, target, unheard, untargeted>>
  BY DEF BadTargetLine, BadBurstLine, LostBurstLine, FeedPin, BeginPause, EndPause,
         InferPresence, ReadPeriod, StartProbe, reportsVars, sourceVars, targetVars,
         historyVars, SetSources
<1>. QED
  BY <1>1, <1>2, <1>3, <1>4, <1>5, <1>6, <1>7 DEF ReportsNext

LEMMA SourcesAndAges == ReportsSpec => [](Sources /\ Ages)
<1>1. ReportsInit => Sources /\ Ages
  BY SourcesInit, AgesInit
<1>2. Sources /\ Ages /\ [ReportsNext]_reportsVars => (Sources /\ Ages)'
  BY SourcesStep, AgesStep
<1>. QED
  BY <1>1, <1>2, PTL DEF ReportsSpec

(* Whatever fades, is paused or is read back meanwhile, occupancy without  *)
(* a pin does not outlive three report periods and a second of silence.    *)
THEOREM OccupancyFades == ReportsSpec => OccupancyExpires
<1>1. Sources /\ Ages /\ [ReportsNext]_reportsVars
        => [(Tick /\ ~pin.live /\ occupancy' # "UNKNOWN")
              => unheard' <= Window(mode', period')]_reportsVars
  <2>. SUFFICES ASSUME Sources, Ages, Tick, ~pin.live, occupancy' # "UNKNOWN"
                PROVE  unheard' <= Window(mode', period')
    OBVIOUS
  <2>1. occupancy' = Combined(uart', pin') /\ pin' = pin
    BY DEF Tick, SetSources
  <2>2. uart'.live
    BY <2>1 DEF Combined
  <2>3. mode' = mode /\ period' = period
    BY DEF Tick, engineVars
  <2>4. Window(mode, period) \in Nat
    BY DEF Window
  <2>5. unheard' = 0 \/ unheard' <= Window(mode, period)
    BY <2>2, TickAge
  <2>. QED
    BY <2>3, <2>4, <2>5
<1>. QED
  BY <1>1, SourcesAndAges, PTL DEF ReportsSpec, OccupancyExpires

(* Presence is what the radar reported, at once and whatever was shown     *)
(* before; it only ends by itself, and "clear" only with the targets.      *)
THEOREM PresenceFollows == ReportsSpec => PresenceIsReported
<1>. DEFINE Step == IF heard' # "NONE" THEN uart'.shown = heard'
                    ELSE \/ uart'.shown \in {uart.shown, "UNKNOWN"}
                         \/ uart'.shown = "CLEAR" /\ untargeted' = TARGET_TIMEOUT
<1>1. Sources /\ Ages /\ [ReportsNext]_reportsVars => [Step]_reportsVars
  <2>. SUFFICES ASSUME Sources, Ages, ReportsNext PROVE Step
    OBVIOUS
  <2>0. SoundUart(uart)
    BY Sound
  <2>1. CASE PresenceLine
    <3>1. PICK present \in BOOLEAN : /\ uart' = SetUartPresence(uart, present, TRUE)
                                     /\ heard' = Says(present)
      BY <2>1 DEF PresenceLine, SetSources
    <3>2. uart'.shown = heard' /\ heard' # "NONE"
      BY <2>0, <3>1, Setting DEF Says
    <3>. QED
      BY <3>2
  <2>2. CASE TargetLine
    <3>1. PICK n \in {0, 1} : /\ uart' = SetUartPresence(uart, n = 1, TRUE)
                              /\ heard' = Says(n = 1)
      BY <2>2 DEF TargetLine, SetSources
    <3>2. (n = 1) \in BOOLEAN
      OBVIOUS
    <3>3. uart'.shown = heard' /\ heard' # "NONE"
      BY <2>0, <3>1, <3>2, Setting DEF Says
    <3>. QED
      BY <3>3
  <2>3. CASE LinkLost \/ Restart
    <3>1. uart' = Drop(uart) /\ heard' = "NONE"
      BY <2>3 DEF LinkLost, Restart, SetSources
    <3>. QED
      BY <2>0, <3>1, Dropping
  <2>4. CASE Tick
    <3>1. uart' = CheckStale(Faded) /\ heard' = "NONE"
      BY <2>4, TickSources DEF SetSources, Tick
    <3>2. uart'.shown \in {Faded.shown, "UNKNOWN"} /\ Faded.shown \in {uart.shown, "CLEAR"}
      BY <2>0, <3>1, Ageing, Checking
    <3>3. ASSUME Faded.shown # uart.shown PROVE untargeted' = TARGET_TIMEOUT
      <4>1. Decays(Older(target.since, TARGET_TIMEOUT))
        BY <2>0, <3>3, Ageing
      <4>2. Older(untargeted, TARGET_TIMEOUT) >= TARGET_TIMEOUT
        BY <4>1 DEF Decays, Ages
      <4>3. untargeted' = Older(untargeted, TARGET_TIMEOUT)
        BY <2>4 DEF Tick
      <4>. QED
        BY <4>2, <4>3, TargetAge, ReportsAssumption
    <3>. QED
      BY <3>1, <3>2, <3>3
  <2>5. CASE UNCHANGED uart /\ heard' = "NONE"
    BY <2>5
  <2>6. (BadTargetLine \/ BurstLine \/ BadBurstLine \/ LostBurstLine \/ FeedPin \/ BeginPause
          \/ EndPause \/ InferPresence \/ ReadPeriod \/ StartProbe)
          => UNCHANGED uart /\ heard' = "NONE"
    BY DEF BadTargetLine, BurstLine, BadBurstLine, LostBurstLine, FeedPin, BeginPause,
           EndPause, InferPresence, ReadPeriod, StartProbe, sourceVars, SetSources
  <2>. QED
    BY <2>1, <2>2, <2>3, <2>4, <2>5, <2>6 DEF ReportsNext
<1>2. [][Step]_reportsVars <=> PresenceIsReported
  BY DEF PresenceIsReported
<1>. QED
  BY <1>1, <1>2, SourcesAndAges, PTL DEF ReportsSpec

-----------------------------------------------------------------------------
(* What the sensors show.                                                  *)

Distances == {NaN} \cup (Nat \X Nat \X Nat)

(* A filter that holds back the next NaN has shown the last one. *)
Latched ==
  /\ lastNan.count => sensors.count = NaN
  /\ \A i \in Targets : lastNan.distance[i] => sensors.distance[i] = NaN

Shown == Latched /\ SensorsShowFrame /\ frame.distance \in [Targets -> Distances]

LEMMA Showing ==
  ASSUME NEW f, f.distance \in [Targets -> Distances], Latched, OnTargets(f)
  PROVE  Shown' /\ frame' = f
<1>. DEFINE number == IF f.available THEN <<f.count>> ELSE NaN
<1>1. /\ frame' = f
      /\ sensors' = [count    |-> Published(number, sensors.count, lastNan.count),
                     distance |-> [i \in Targets |->
                       Published(f.distance[i], sensors.distance[i], lastNan.distance[i])]]
      /\ lastNan' = [count    |-> number = NaN,
                     distance |-> [i \in Targets |-> f.distance[i] = NaN]]
  BY DEF OnTargets
<1>. HIDE DEF number
<1>2. sensors'.count = number /\ (lastNan'.count => sensors'.count = NaN)
  BY <1>1 DEF Published, Latched
<1>3. \A i \in Targets : Published(f.distance[i], sensors.distance[i], lastNan.distance[i])
                           = f.distance[i]
  BY DEF Published, Latched
<1>4. sensors'.distance = f.distance
  BY <1>1, <1>3
<1>5. \A i \in Targets : lastNan'.distance[i] => sensors'.distance[i] = NaN
  BY <1>1, <1>4
<1>6. Latched'
  BY <1>2, <1>5 DEF Latched
<1>7. SensorsShowFrame'
  BY <1>1, <1>2, <1>4 DEF SensorsShowFrame, number
<1>. QED
  BY <1>1, <1>6, <1>7 DEF Shown

LEMMA ShownInit == ReportsInit => Shown
  BY DEF ReportsInit, Shown, Latched, SensorsShowFrame, NoDistances, Distances

LEMMA KeepShown == Shown /\ UNCHANGED <<frame, sensors, lastNan>> => Shown'
  BY DEF Shown, Latched, SensorsShowFrame

LEMMA NoDistancesType == NoDistances \in [Targets -> Distances]
  BY DEF NoDistances, Distances

LEMMA IdleType ==
  ASSUME NEW m
  PROVE  IdleFrame(m).distance = NoDistances /\ IdleFrame(m).distance \in [Targets -> Distances]
  BY NoDistancesType DEF IdleFrame

-----------------------------------------------------------------------------
(* Bursts. At its first line a burst finds nothing collected, unless its   *)
(* predecessor lost a line; after that what is collected is its own, up to *)
(* the line before the next or, when one was lost, to an earlier one.      *)

Lines(n, filled, tag) ==
  [i \in Targets |-> IF i <= filled THEN <<n, i, tag>> ELSE NaN]

BurstType ==
  /\ burst \in [n : Nat, next : Nat, tag : 0 .. 2, lost : Nat, lostBefore : Nat]
  /\ burst.next \in 1 .. burst.n /\ burst.n \in Targets
  /\ burst.lost + burst.lostBefore <= 1

Gathered(k) ==
  [n |-> burst.n, filled |-> k, distance |-> Lines(burst.n, k, burst.tag)]

OwnLines ==
  \E k \in 1 .. burst.next - 1 :
    cycle = Gathered(k) /\ (k + 1 < burst.next => burst.lost > 0)

Bursts ==
  /\ BurstType
  /\ burst.next = 1 => cycle = NoCycle \/ burst.lostBefore > 0
  /\ burst.next > 1 => cycle = NoCycle \/ OwnLines

LEMMA BurstsInit == ReportsInit => Bursts
<1>. SUFFICES ASSUME ReportsInit PROVE Bursts
  OBVIOUS
<1>1. PICK n \in Targets :
        burst = [n |-> n, next |-> 1, tag |-> 0, lost |-> 0, lostBefore |-> 0]
  BY DEF ReportsInit
<1>2. cycle = NoCycle
  BY DEF ReportsInit
<1>. QED
  BY <1>1, <1>2, ReportsAssumption DEF Bursts, BurstType, Targets

LEMMA LinesType ==
  ASSUME NEW n \in Nat, NEW filled \in Nat, NEW tag \in 0 .. 2
  PROVE  Lines(n, filled, tag) \in [Targets -> Distances]
<1>1. \A i \in Targets : (IF i <= filled THEN <<n, i, tag>> ELSE NaN) \in Distances
  BY ReportsAssumption DEF Distances, Targets
<1>. QED
  BY <1>1 DEF Lines

LEMMA Extending ==
  ASSUME NEW n, NEW tag, NEW k \in Targets
  PROVE  [Lines(n, k - 1, tag) EXCEPT ![k] = <<n, k, tag>>] = Lines(n, k, tag)
<1>. DEFINE v == <<n, k, tag>>
<1>1. \A i \in Targets : i <= k <=> (i <= k - 1 \/ i = k)
  BY DEF Targets
<1>2. \A i \in Targets : i = k => ~(i <= k - 1)
  BY DEF Targets
<1>3. ASSUME NEW i \in Targets
      PROVE  [Lines(n, k - 1, tag) EXCEPT ![k] = v][i] = Lines(n, k, tag)[i]
  <2>1. CASE i = k
    <3>1. Lines(n, k, tag)[i] = v
      BY <1>1, <2>1 DEF Lines
    <3>2. [Lines(n, k - 1, tag) EXCEPT ![k] = v][k] = v
      BY DEF Lines
    <3>. QED
      BY <2>1, <3>1, <3>2
  <2>2. CASE i # k
    <3>1. [Lines(n, k - 1, tag) EXCEPT ![k] = v][i] = Lines(n, k - 1, tag)[i]
      BY <2>2 DEF Lines
    <3>2. i <= k <=> i <= k - 1
      BY <1>1, <2>2
    <3>. QED
      BY <3>1, <3>2 DEF Lines
  <2>. QED
    BY <2>1, <2>2
<1>4. Lines(n, k, tag) = [i \in Targets |-> Lines(n, k, tag)[i]]
  BY DEF Lines
<1>5. [Lines(n, k - 1, tag) EXCEPT ![k] = v]
        = [i \in Targets |-> [Lines(n, k - 1, tag) EXCEPT ![k] = v][i]]
  BY DEF Lines
<1>. QED
  BY <1>3, <1>4, <1>5

LEMMA AddLine ==
  ASSUME NEW n, NEW filled, NEW d, NEW k, NEW v
  PROVE  [[n |-> n, filled |-> filled, distance |-> d] EXCEPT !.filled = k, !.distance[k] = v]
           = [n |-> n, filled |-> k, distance |-> [d EXCEPT ![k] = v]]
<1>. DEFINE r == [n |-> n, filled |-> k, distance |-> d]
<1>1. [[n |-> n, filled |-> filled, distance |-> d] EXCEPT !.filled = k] = r
  OBVIOUS
<1>2. [r EXCEPT !.distance[k] = v]
        = [n |-> n, filled |-> k, distance |-> [d EXCEPT ![k] = v]]
  OBVIOUS
<1>3. [[n |-> n, filled |-> filled, distance |-> d] EXCEPT !.filled = k, !.distance[k] = v]
        = [[[n |-> n, filled |-> filled, distance |-> d] EXCEPT !.filled = k]
             EXCEPT !.distance[k] = v]
  OBVIOUS
<1>. QED
  BY <1>1, <1>2, <1>3

(* What is collected after line i of a burst: its lines so far, or nothing. *)
LEMMA Collecting ==
  ASSUME Bursts
  PROVE  Collected(burst.n, burst.next, burst.tag) \in {NoCycle, Gathered(burst.next)}
<1>. DEFINE started == IF burst.next = 1 THEN [NoCycle EXCEPT !.n = burst.n] ELSE cycle
            c == [started EXCEPT !.filled = burst.next,
                                 !.distance[burst.next] = <<burst.n, burst.next, burst.tag>>]
<1>1. burst.next \in Targets /\ burst.n \in Nat \ {0} /\ burst.next \in Nat
  BY ReportsAssumption DEF Bursts, BurstType, Targets
<1>2. CASE started.n # burst.n \/ burst.next # started.filled + 1
  BY <1>2 DEF Collected
<1>3. CASE ~(started.n # burst.n \/ burst.next # started.filled + 1)
  <2>1. Collected(burst.n, burst.next, burst.tag) = c
    BY <1>3 DEF Collected
  <2>2. started = [n |-> burst.n, filled |-> burst.next - 1,
                   distance |-> Lines(burst.n, burst.next - 1, burst.tag)]
    <3>1. CASE burst.next = 1
      <4>1. started = [n |-> burst.n, filled |-> 0, distance |-> NoDistances]
        BY <3>1 DEF NoCycle
      <4>2. NoDistances = Lines(burst.n, 0, burst.tag)
        BY ReportsAssumption DEF NoDistances, Lines, Targets
      <4>. QED
        BY <3>1, <4>1, <4>2
    <3>2. CASE burst.next # 1
      <4>1. started = cycle
        BY <3>2
      <4>2. burst.next > 1
        BY <1>1, <3>2 DEF Targets
      <4>3. cycle # NoCycle
        BY <1>1, <1>3, <4>1 DEF NoCycle
      <4>4. PICK k \in 1 .. burst.next - 1 : cycle = Gathered(k)
        BY <4>2, <4>3 DEF Bursts, OwnLines
      <4>5. k = burst.next - 1
        BY <1>1, <1>3, <4>1, <4>4 DEF Gathered
      <4>. QED
        BY <4>1, <4>4, <4>5 DEF Gathered
    <3>. QED
      BY <3>1, <3>2
  <2>. HIDE DEF started
  <2>3. c = [n |-> burst.n, filled |-> burst.next,
             distance |-> [Lines(burst.n, burst.next - 1, burst.tag) EXCEPT
                             ![burst.next] = <<burst.n, burst.next, burst.tag>>]]
    <3>. DEFINE n == burst.n
                k == burst.next
                f == burst.next - 1
                d == Lines(burst.n, burst.next - 1, burst.tag)
                v == <<burst.n, burst.next, burst.tag>>
    <3>1. started = [n |-> n, filled |-> f, distance |-> d]
      BY <2>2
    <3>2. c = [started EXCEPT !.filled = k, !.distance[k] = v]
      OBVIOUS
    <3>. HIDE DEF n, k, f, d, v, c
    <3>3. c = [[n |-> n, filled |-> f, distance |-> d] EXCEPT !.filled = k, !.distance[k] = v]
      BY <3>1, <3>2
    <3>4. c = [n |-> n, filled |-> k, distance |-> [d EXCEPT ![k] = v]]
      BY <3>3, AddLine, Zenon
    <3>. QED
      BY <3>4 DEF n, k, d, v
  <2>4. [Lines(burst.n, burst.next - 1, burst.tag) EXCEPT
           ![burst.next] = <<burst.n, burst.next, burst.tag>>]
          = Lines(burst.n, burst.next, burst.tag)
    BY <1>1, Extending
  <2>. QED
    BY <2>1, <2>3, <2>4 DEF Gathered
<1>. QED
  BY <1>2, <1>3

(* The radar goes on: within the burst, or to one that finds the count of  *)
(* lines lost by this one.                                                 *)
LEMMA Advancing ==
  ASSUME BurstType, NEW missed \in {0, 1}, Advance(missed),
         missed = 1 => burst.lost + burst.lostBefore = 0
  PROVE  /\ BurstType'
         /\ IF burst.next < burst.n
            THEN /\ burst'.next = burst.next + 1 /\ burst'.lost = burst.lost + missed
                 /\ burst'.n = burst.n /\ burst'.tag = burst.tag
            ELSE burst'.next = 1 /\ burst'.lostBefore = burst.lost + missed
<1>1. CASE burst.next < burst.n
  <2>1. burst' = [burst EXCEPT !.next = @ + 1, !.lost = @ + missed]
    BY <1>1 DEF Advance
  <2>2. /\ burst.next \in Nat /\ burst.lost \in Nat /\ burst.next + 1 \in 1 .. burst.n
        /\ burst.lost + missed \in Nat
        /\ (burst.lost + missed) + burst.lostBefore <= 1
    BY <1>1 DEF BurstType, Targets
  <2>3. /\ burst'.next = burst.next + 1 /\ burst'.lost = burst.lost + missed
        /\ burst'.n = burst.n /\ burst'.tag = burst.tag
        /\ burst'.lostBefore = burst.lostBefore
    BY <2>1 DEF BurstType
  <2>4. burst' \in [n : Nat, next : Nat, tag : 0 .. 2, lost : Nat, lostBefore : Nat]
    <3>. DEFINE x == burst.next + 1
                y == burst.lost + missed
    <3>1. x \in Nat /\ y \in Nat /\ burst' = [burst EXCEPT !.next = x, !.lost = y]
      BY <2>1, <2>2
    <3>. HIDE DEF x, y
    <3>. QED
      BY <3>1 DEF BurstType
  <2>. QED
    BY <1>1, <2>2, <2>3, <2>4 DEF BurstType
<1>2. CASE ~(burst.next < burst.n)
  <2>1. PICK n \in Targets :
          burst' = [n |-> n, next |-> 1, tag |-> (burst.tag + 1) % 3,
                    lost |-> 0, lostBefore |-> burst.lost + missed]
    BY <1>2 DEF Advance
  <2>2. (burst.tag + 1) % 3 \in 0 .. 2
    BY DEF BurstType
  <2>3. n \in Nat /\ 1 \in 1 .. n
    BY DEF Targets
  <2>4. burst.lost + missed \in Nat /\ 0 + (burst.lost + missed) <= 1
    BY DEF BurstType
  <2>. QED
    BY <1>2, <2>1, <2>2, <2>3, <2>4 DEF BurstType
<1>. QED
  BY <1>1, <1>2

LEMMA BurstsStep == Bursts /\ [ReportsNext]_reportsVars => Bursts'
<1>. SUFFICES ASSUME Bursts, [ReportsNext]_reportsVars PROVE Bursts'
  OBVIOUS
<1>0. /\ BurstType /\ burst.next \in Nat /\ burst.n \in Nat /\ burst.lost \in Nat
      /\ burst.lostBefore \in Nat /\ 1 <= burst.next /\ burst.next <= burst.n
  BY DEF Bursts, BurstType
<1>1. CASE BurstLine
  <2>. DEFINE collected == Collected(burst.n, burst.next, burst.tag)
  <2>1. Advance(0)
    BY <1>1 DEF BurstLine
  <2>2. cycle' = IF Complete(collected) THEN NoCycle ELSE collected
    BY <1>1 DEF BurstLine
  <2>3. collected \in {NoCycle, Gathered(burst.next)}
    BY Collecting
  <2>. HIDE DEF collected
  <2>4. CASE cycle' = NoCycle
    BY <1>0, <2>1, <2>4, Advancing DEF Bursts
  <2>5. CASE cycle' = Gathered(burst.next) /\ cycle' # NoCycle
    <3>1. ~Complete(Gathered(burst.next))
      BY <2>2, <2>3, <2>5
    <3>2. burst.next < burst.n
      BY <1>0, <3>1 DEF Complete, Gathered
    <3>3. /\ BurstType' /\ burst'.next = burst.next + 1
          /\ burst'.n = burst.n /\ burst'.tag = burst.tag
      BY <1>0, <2>1, <3>2, Advancing
    <3>4. Lines(burst'.n, burst.next, burst'.tag) = Lines(burst.n, burst.next, burst.tag)
      BY <3>3
    <3>5. OwnLines'
      BY <1>0, <2>5, <3>3, <3>4 DEF OwnLines, Gathered
    <3>. QED
      BY <1>0, <3>3, <3>5 DEF Bursts
  <2>. QED
    BY <2>2, <2>3, <2>4, <2>5
<1>2. CASE BadBurstLine
  <2>1. Advance(0) /\ cycle' = NoCycle
    BY <1>2 DEF BadBurstLine
  <2>. QED
    BY <1>0, <2>1, Advancing DEF Bursts
<1>3. CASE LostBurstLine
  <2>1. Advance(1) /\ burst.lost + burst.lostBefore = 0 /\ cycle' = cycle
    BY <1>3 DEF LostBurstLine, targetVars
  <2>2. CASE burst.next < burst.n
    <3>1. /\ BurstType' /\ burst'.next = burst.next + 1 /\ burst'.lost = burst.lost + 1
          /\ burst'.n = burst.n /\ burst'.tag = burst.tag
      BY <1>0, <2>1, <2>2, Advancing
    <3>2. CASE cycle = NoCycle
      BY <1>0, <2>1, <3>1, <3>2 DEF Bursts
    <3>3. CASE cycle # NoCycle
      <4>1. OwnLines
        BY <1>0, <2>1, <3>3 DEF Bursts
      <4>2. PICK k \in 1 .. burst.next - 1 : cycle = Gathered(k)
        BY <4>1 DEF OwnLines
      <4>3. k \in 1 .. burst'.next - 1 /\ burst'.lost > 0
        BY <1>0, <3>1, <4>2
      <4>4. Gathered(k)' = Gathered(k)
        BY <3>1 DEF Gathered, Lines
      <4>5. OwnLines'
        BY <2>1, <4>2, <4>3, <4>4 DEF OwnLines
      <4>. QED
        BY <1>0, <3>1, <4>5 DEF Bursts
    <3>. QED
      BY <3>2, <3>3
  <2>3. CASE ~(burst.next < burst.n)
    <3>1. BurstType' /\ burst'.next = 1 /\ burst'.lostBefore = burst.lost + 1
      BY <1>0, <2>1, <2>3, Advancing
    <3>. QED
      BY <1>0, <3>1 DEF Bursts
  <2>. QED
    BY <2>2, <2>3
<1>4. CASE burst' = burst /\ cycle' \in {cycle, NoCycle}
  BY <1>4 DEF Bursts, BurstType, OwnLines, Gathered, Lines, NoCycle, NoDistances
<1>5. (PresenceLine \/ TargetLine \/ BadTargetLine \/ FeedPin \/ BeginPause \/ EndPause
        \/ InferPresence \/ ReadPeriod \/ LinkLost \/ Restart \/ StartProbe \/ Tick
        \/ UNCHANGED reportsVars)
        => burst' = burst /\ cycle' \in {cycle, NoCycle}
  BY DEF PresenceLine, TargetLine, BadTargetLine, FeedPin, BeginPause, EndPause,
         InferPresence, ReadPeriod, LinkLost, Restart, StartProbe, Tick, reportsVars,
         radarVars, targetVars
<1>. QED
  BY <1>1, <1>2, <1>3, <1>4, <1>5 DEF ReportsNext

-----------------------------------------------------------------------------
(* Frames.                                                                 *)

Whole(f) ==
  f.count > 0 =>
    \E tag \in 0 .. 2 : \A i \in Targets :
      f.distance[i] = IF i <= f.count THEN <<f.count, i, tag>> ELSE NaN

(* No distance is shown of targets that are gone. *)
Gone ==
  (target.zero \/ (HasModes /\ mode = "PRESENCE")) => frame.distance = NoDistances

Frames == Shown /\ Whole(frame) /\ Gone

(* An idle frame shows no target, whoever publishes it. *)
LEMMA IdleStep ==
  ASSUME Frames, NEW m, OnTargets(IdleFrame(m))
  PROVE  Frames' /\ frame'.distance = NoDistances
<1>1. IdleFrame(m).distance = NoDistances /\ IdleFrame(m).count = 0
      /\ IdleFrame(m).distance \in [Targets -> Distances]
  BY IdleType DEF IdleFrame
<1>2. Shown' /\ frame' = IdleFrame(m)
  BY <1>1, Showing DEF Frames, Shown
<1>3. NoDistances' = NoDistances
  BY DEF NoDistances
<1>. QED
  BY <1>1, <1>2, <1>3 DEF Frames, Whole, Gone

LEMMA KeepFrames ==
  ASSUME Frames, UNCHANGED <<frame, sensors, lastNan>>,
         target'.zero => target.zero,
         (HasModes /\ mode = "PRESENCE")' => (HasModes /\ mode = "PRESENCE")
  PROVE  Frames'
<1>1. Shown'
  BY KeepShown DEF Frames
<1>. QED
  BY <1>1 DEF Frames, Whole, Gone, NoDistances

LEMMA FramesInit == ReportsInit => Frames
<1>. SUFFICES ASSUME ReportsInit PROVE Frames
  OBVIOUS
<1>1. frame.distance = NoDistances /\ frame.count = 0
  BY DEF ReportsInit
<1>. QED
  BY <1>1, ShownInit DEF Frames, Whole, Gone

LEMMA FramesStep == Bursts /\ Frames /\ [ReportsNext]_reportsVars => Frames'
<1>. SUFFICES ASSUME Bursts, Frames, [ReportsNext]_reportsVars PROVE Frames'
  OBVIOUS
<1>1. CASE PresenceLine \/ InferPresence
  <2>1. UNCHANGED <<device, target>>
    BY <1>1 DEF PresenceLine, InferPresence, radarVars
  <2>2. CASE OnTargets(IdleFrame("PRESENCE"))
    BY <2>2, IdleStep
  <2>3. CASE /\ UNCHANGED <<frame, sensors, lastNan>>
             /\ (HasModes /\ mode = "PRESENCE")' => (HasModes /\ mode = "PRESENCE")
    BY <2>1, <2>3, KeepFrames
  <2>4. LearnMode("PRESENCE") =>
          \/ OnTargets(IdleFrame("PRESENCE"))
          \/ UNCHANGED <<frame, sensors, lastNan>> /\ mode = mode'
    BY DEF LearnMode, NoTargets
  <2>5. CASE LearnMode("PRESENCE")
    BY <2>1, <2>2, <2>3, <2>4, <2>5 DEF HasModes
  <2>6. CASE NoTargets /\ UNCHANGED mode
    BY <2>1, <2>3, <2>6 DEF NoTargets, HasModes
  <2>7. LearnMode("PRESENCE") \/ (NoTargets /\ UNCHANGED mode)
    BY <1>1 DEF PresenceLine, InferPresence
  <2>. QED
    BY <2>5, <2>6, <2>7
<1>2. CASE TargetLine
  <2>1. PICK n \in {0, 1} :
          /\ OnTargets([available |-> TRUE, count |-> n,
                        distance |-> [NoDistances EXCEPT ![1] =
                          IF n = 1 THEN <<1, 1, 0>> ELSE NaN]])
          /\ target' = [since |-> 0, zero |-> n = 0]
    BY <1>2 DEF TargetLine
  <2>. DEFINE d == [NoDistances EXCEPT ![1] = IF n = 1 THEN <<1, 1, 0>> ELSE NaN]
              f == [available |-> TRUE, count |-> n, distance |-> d]
  <2>2. (IF n = 1 THEN <<1, 1, 0>> ELSE NaN) \in Distances
    BY DEF Distances
  <2>3. d \in [Targets -> Distances]
    BY <2>2, NoDistancesType
  <2>4. f.distance = d /\ f.count = n
    OBVIOUS
  <2>5. OnTargets(f)
    BY <2>1
  <2>. HIDE DEF f
  <2>6. Shown' /\ frame' = f
    BY <2>3, <2>4, <2>5, Showing DEF Frames, Shown
  <2>7. n = 1 => \A i \in Targets : d[i] = IF i <= 1 THEN <<1, i, 0>> ELSE NaN
    BY DEF NoDistances, Targets
  <2>8. n = 0 => d = NoDistances
    BY DEF NoDistances
  <2>. HIDE DEF d
  <2>9. Whole(frame)'
    BY <2>4, <2>6, <2>7 DEF Whole, Targets
  <2>10. mode' = "SPEED" /\ (target'.zero => n = 0)
    BY <1>2, <2>1 DEF TargetLine
  <2>11. NoDistances' = NoDistances
    BY DEF NoDistances
  <2>. QED
    BY <2>4, <2>6, <2>8, <2>9, <2>10, <2>11 DEF Frames, Gone
<1>3. CASE BurstLine
  <2>. DEFINE collected == Collected(burst.n, burst.next, burst.tag)
  <2>1. ~HasModes /\ device' = device
    BY <1>3 DEF BurstLine, PrintsBursts, HasModes
  <2>2. CASE Complete(collected)
    <3>. DEFINE f == [available |-> TRUE, count |-> collected.n,
                      distance |-> collected.distance]
    <3>1. OnTargets(f) /\ target' = [since |-> 0, zero |-> FALSE]
      BY <1>3, <2>2 DEF BurstLine
    <3>2. collected = Gathered(burst.next)
      BY <2>2, Collecting DEF Complete, NoCycle
    <3>. HIDE DEF collected
    <3>3. burst.next = burst.n
      BY <2>2, <3>2 DEF Complete, Gathered
    <3>4. /\ f.count = burst.n
          /\ f.distance = Lines(burst.n, burst.n, burst.tag)
      BY <3>2, <3>3 DEF Gathered
    <3>. HIDE DEF f
    <3>5. burst.n \in Nat /\ burst.tag \in 0 .. 2
      BY DEF Bursts, BurstType
    <3>6. f.distance \in [Targets -> Distances]
      BY <3>4, <3>5, LinesType
    <3>7. Shown' /\ frame' = f
      BY <3>1, <3>6, Showing DEF Frames, Shown
    <3>8. Whole(f)
      BY <3>4, <3>5 DEF Whole, Lines
    <3>9. Whole(frame)'
      BY <3>7, <3>8 DEF Whole, Targets
    <3>10. ~target'.zero /\ ~HasModes'
      BY <2>1, <3>1 DEF HasModes
    <3>. QED
      BY <3>7, <3>9, <3>10 DEF Frames, Gone
  <2>3. CASE ~Complete(collected)
    <3>1. UNCHANGED <<frame, sensors, lastNan, target>>
      BY <1>3, <2>3 DEF BurstLine, NoTargets
    <3>2. ~HasModes'
      BY <2>1 DEF HasModes
    <3>. QED
      BY <3>1, <3>2, KeepFrames
  <2>. QED
    BY <2>2, <2>3
<1>4. CASE Tick
  <2>. DEFINE age == Older(target.since, TARGET_TIMEOUT)
  <2>1. UNCHANGED <<device, mode>>
    BY <1>4 DEF Tick, radarVars, engineVars
  <2>2. CASE Decays(age)
    BY <1>4, <2>2, IdleStep DEF Tick
  <2>3. CASE ~Decays(age)
    <3>1. UNCHANGED <<frame, sensors, lastNan>> /\ target' = [target EXCEPT !.since = age]
      BY <1>4, <2>3 DEF Tick, NoTargets
    <3>2. target'.zero = target.zero
      BY <3>1
    <3>. QED
      BY <2>1, <3>1, <3>2, KeepFrames DEF HasModes
  <2>. QED
    BY <2>2, <2>3
<1>5. CASE BadTargetLine \/ Restart
  <2>1. UNCHANGED <<frame, sensors, lastNan, target>> /\ mode' # "PRESENCE"
    BY <1>5 DEF BadTargetLine, Restart, targetVars
  <2>. QED
    BY <2>1, KeepFrames
<1>6. CASE UNCHANGED <<device, mode, frame, sensors, lastNan, target>>
  BY <1>6, KeepFrames DEF HasModes
<1>7. (BadBurstLine \/ LostBurstLine \/ FeedPin \/ BeginPause \/ EndPause \/ ReadPeriod
        \/ LinkLost \/ StartProbe \/ UNCHANGED reportsVars)
        => UNCHANGED <<device, mode, frame, sensors, lastNan, target>>
  BY DEF BadBurstLine, LostBurstLine, FeedPin, BeginPause, EndPause, ReadPeriod, LinkLost,
         StartProbe, reportsVars, radarVars, engineVars, targetVars
<1>. QED
  BY <1>1, <1>2, <1>3, <1>4, <1>5, <1>6, <1>7 DEF ReportsNext

ReportsInv == DeviceType /\ Sources /\ Ages /\ Bursts /\ Frames

LEMMA ReportsInvariant == ReportsSpec => []ReportsInv
<1>1. ReportsInit => ReportsInv
  BY DeviceInit, SourcesInit, AgesInit, BurstsInit, FramesInit DEF ReportsInv
<1>2. ReportsInv /\ [ReportsNext]_reportsVars => ReportsInv'
  BY DeviceStep, SourcesStep, AgesStep, BurstsStep, FramesStep DEF ReportsInv
<1>. QED
  BY <1>1, <1>2, PTL DEF ReportsSpec

(* A frame never mixes targets of two bursts, for every number of targets, *)
(* with one line of two bursts lost and any number of lines damaged.       *)
THEOREM FramesWhole == ReportsSpec => []FramesAreWhole
<1>1. ReportsInv => FramesAreWhole
  BY DEF ReportsInv, Frames, Whole, FramesAreWhole
<1>. QED
  BY <1>1, ReportsInvariant, PTL

(* The filter holds back nothing but a repetition: the sensors show the    *)
(* last frame in every reachable state.                                    *)
THEOREM SensorsShow == ReportsSpec => []SensorsShowFrame
<1>1. ReportsInv => SensorsShowFrame
  BY DEF ReportsInv, Frames, Shown
<1>. QED
  BY <1>1, ReportsInvariant, PTL

(* Targets that are not reported for target_timeout are not shown, unless  *)
(* the app of a C4001 is unknown or the radar boots.                       *)
THEOREM TargetsFade == ReportsSpec => TargetsDecay
<1>1. ReportsInv /\ [ReportsNext]_reportsVars
        => [(Tick /\ ~booting /\ (HasModes => mode # "UNKNOWN")
               /\ untargeted' = TARGET_TIMEOUT)
              => sensors'.distance = NoDistances]_reportsVars
  <2>. SUFFICES ASSUME ReportsInv, Tick, ~booting, HasModes => mode # "UNKNOWN",
                       untargeted' = TARGET_TIMEOUT
                PROVE  sensors'.distance = NoDistances
    OBVIOUS
  <2>. DEFINE age == Older(target.since, TARGET_TIMEOUT)
  <2>0. NoDistances' = NoDistances
    BY DEF NoDistances
  <2>1. Frames
    BY DEF ReportsInv
  <2>2. Frames'
    BY FramesStep DEF ReportsInv, ReportsNext
  <2>3. frame'.distance = NoDistances
    <3>1. CASE Decays(age)
      <4>1. OnTargets(IdleFrame(mode))
        BY <3>1 DEF Tick
      <4>. QED
        BY <2>1, <4>1, IdleStep
    <3>2. CASE ~Decays(age)
      <4>1. age >= TARGET_TIMEOUT
        <5>1. untargeted' = Older(untargeted, TARGET_TIMEOUT)
          BY DEF Tick
        <5>2. target.since = untargeted
          BY DEF ReportsInv, Ages
        <5>3. age = TARGET_TIMEOUT /\ TARGET_TIMEOUT \in Nat
          BY <5>1, <5>2, ReportsAssumption
        <5>. QED
          BY <5>3
      <4>2. device.model = "SEN0395" \/ HasModes
        BY DEF ReportsInv, DeviceType, HasModes
      <4>3. mode \in {"PRESENCE", "SPEED"} \/ ~HasModes
        BY DEF ReportsInv, DeviceType, Modes
      <4>4. target.zero \/ (HasModes /\ mode = "PRESENCE")
        BY <3>2, <4>1, <4>2, <4>3 DEF Decays
      <4>5. frame' = frame
        BY <3>2 DEF Tick, NoTargets
      <4>. QED
        BY <2>1, <4>4, <4>5 DEF Frames, Gone
    <3>. QED
      BY <3>1, <3>2
  <2>. QED
    BY <2>2, <2>3 DEF Frames, Shown, SensorsShowFrame
<1>. QED
  BY <1>1, ReportsInvariant, PTL DEF ReportsSpec, TargetsDecay
=============================================================================
