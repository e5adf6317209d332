-------------------------------- MODULE Ranges --------------------------------
(***************************************************************************)
(* The range settings in a transaction: the values asked for are checked,  *)
(* a C4001's trigger range and maximum range move together, a SEN0395's    *)
(* ranges are rounded down to its step; what the radar kept is read back   *)
(* and compared. Values are in units in which limits and steps are whole.  *)
(* A value outside its limits is refused and changes nothing: left out.    *)
(***************************************************************************)
EXTENDS Integers, Sequences

CONSTANTS
  Values,       \* the values of range settings
  Dialects      \* the radars: limits, step, rounding, trigger range or none

Params == {"min", "max", "trig"}
Nothing == -1

(* The limits of a trigger range lie within those of the maximum range     *)
(* (param_limits); the unit is the step of a radar that does not round.    *)
ASSUME RangesAssumption ==
  /\ Values \subseteq Nat
  /\ \A d \in Dialects :
       /\ d.lo \in [Params -> Nat] /\ d.hi \in [Params -> Nat]
       /\ \A p \in Params : d.lo[p] <= d.hi[p]
       /\ d.step \in Nat \ {0} /\ d.quantized \in BOOLEAN /\ d.coupled \in BOOLEAN
       /\ d.clamps \in BOOLEAN
       /\ d.quantized \/ d.step = 1
       /\ d.coupled => /\ ~d.quantized
                       /\ d.lo["trig"] <= d.lo["max"] /\ d.hi["trig"] <= d.hi["max"]

VARIABLES
  dialect,      \* the radar's entry
  kept,         \* the values that the radar has
  reported,     \* the values last read back
  desired,      \* the values asked for and not yet taken
  snapshot,     \* snapshot_: the values of the running transaction
  commands,     \* its set commands that are still to be sent
  errors,       \* settings with an error in this transaction
  applying,     \* a transaction is running
  requested,    \* history: what the user asked for in this transaction
  agreeing      \* history: it has to leave trigger and maximum range in agreement

rangesVars == <<dialect, kept, reported, desired, snapshot, commands, errors, applying,
                requested, agreeing>>

NoValues == [p \in Params |-> Nothing]
GroupOf(p) == IF p = "trig" THEN "trig" ELSE "range"
Settable == IF dialect.coupled THEN Params ELSE Params \ {"trig"}

(* quantize_down() *)
Down(v, step) == (v \div step) * step

Rounded(v) == IF dialect.quantized THEN Down(v, dialect.step) ELSE v

(* value_for_() *)
ValueFor(s, p) == IF s[p] # Nothing THEN s[p] ELSE reported[p]

Clamp(p, v) == IF v < dialect.lo[p] THEN dialect.lo[p]
               ELSE IF v > dialect.hi[p] THEN dialect.hi[p] ELSE v

(* Mutant: the trigger range is pulled down although it was asked for. *)
AlteredCoupled(s) ==
  LET trig == ValueFor(s, "trig")
      max  == ValueFor(s, "max")
  IN  IF s["max"] # Nothing /\ trig # Nothing /\ max < trig
      THEN [s EXCEPT !["trig"] = Clamp("trig", max)] ELSE s

(* Mutant: only a maximum below the trigger range is noticed. *)
HalfCoupled(s) ==
  LET trig == ValueFor(s, "trig")
      max  == ValueFor(s, "max")
      min  == ValueFor(s, "min")
  IN  IF /\ dialect.coupled /\ s["trig"] = Nothing /\ s["max"] # Nothing
         /\ trig # Nothing /\ max < trig /\ (min = Nothing \/ min < max)
      THEN [s EXCEPT !["trig"] = Clamp("trig", max)] ELSE s

(* couple_ranges_(): a trigger range above the maximum pushes it up, a     *)
(* maximum below the trigger range pulls that down.                        *)
Coupled(s) ==
  LET trig == ValueFor(s, "trig")
      max  == ValueFor(s, "max")
      min  == ValueFor(s, "min")
      pushed == Clamp("max", trig)
      pulled == Clamp("trig", max)
  IN  IF \/ ~dialect.coupled
         \/ (s["trig"] # Nothing) <=> (s["max"] # Nothing)
         \/ trig = Nothing \/ max = Nothing \/ trig <= max
      THEN s
      ELSE IF s["trig"] # Nothing
           THEN IF pushed < trig THEN s ELSE [s EXCEPT !["max"] = pushed]
           ELSE IF pulled > max \/ (min # Nothing /\ max <= min) THEN s
                ELSE [s EXCEPT !["trig"] = pulled]

(* Mutant: what is sent is rounded, what it is compared with is not. *)
AlteredQuantized(s) == s

(* build_set_(): the read-back is compared with what is sent. *)
Quantized(s) ==
  [p \in Params |-> IF p # "trig" /\ s[p] # Nothing THEN Rounded(s[p]) ELSE s[p]]

Changed(s, g) == \E p \in Params : GroupOf(p) = g /\ s[p] # Nothing

(* build_set_(): the window must be known and not empty. *)
RangeAccepted(s) ==
  LET min == ValueFor(s, "min")
      max == ValueFor(s, "max")
  IN  min # Nothing /\ max # Nothing /\ Rounded(min) < Rounded(max)

Sets(s) ==
  (IF Changed(s, "range") /\ RangeAccepted(s)
   THEN <<[group |-> "range",
           value |-> [NoValues EXCEPT !["min"] = Rounded(ValueFor(s, "min")),
                                      !["max"] = Rounded(ValueFor(s, "max"))]]>>
   ELSE <<>>)
  \o (IF Changed(s, "trig")
      THEN <<[group |-> "trig", value |-> [NoValues EXCEPT !["trig"] = s["trig"]]]>>
      ELSE <<>>)

-----------------------------------------------------------------------------
WithinLimits(p, v) == dialect.lo[p] <= v /\ v <= dialect.hi[p]

(* The radar has a window that is not empty; nothing has been read, or one *)
(* of the groups could not be.                                             *)
RangesInit ==
  /\ dialect \in Dialects
  /\ \E min, max, trig \in Values :
       /\ kept = [p \in Params |-> CASE p = "min" -> min [] p = "max" -> max
                                     [] OTHER -> trig]
       /\ \A p \in Params : WithinLimits(p, kept[p])
       /\ min < max /\ Rounded(min) = min /\ Rounded(max) = max
  /\ \E known \in SUBSET {"range", "trig"} :
       reported = [p \in Params |-> IF GroupOf(p) \in known THEN kept[p] ELSE Nothing]
  /\ desired = NoValues /\ snapshot = NoValues /\ requested = NoValues
  /\ commands = <<>> /\ errors = {} /\ applying = FALSE /\ agreeing = FALSE

(* set_desired(). Bound: the changes of one transaction come before it; a  *)
(* change during a transaction waits for the next one. The errors of the   *)
(* last transaction are of no further interest.                            *)
SetDesired ==
  /\ ~applying
  /\ \E p \in Settable, v \in Values :
       WithinLimits(p, v) /\ desired' = [desired EXCEPT ![p] = v]
  /\ errors' = {}
  /\ UNCHANGED <<dialect, kept, reported, snapshot, commands, applying, requested,
                 agreeing>>

(* start_txn_(); without a set command there is no transaction. *)
StartTxn ==
  LET wanted == Quantized(Coupled(desired))
      refused == Changed(wanted, "range") /\ ~RangeAccepted(Coupled(desired))
  IN  /\ ~applying /\ desired # NoValues
      /\ commands' = Sets(Coupled(desired))
      /\ applying' = (commands' # <<>>)
      /\ requested' = IF applying' THEN desired ELSE NoValues
      /\ desired' = NoValues
      /\ snapshot' = IF applying' THEN wanted ELSE NoValues
      /\ errors' = IF refused THEN {p \in {"min", "max"} : wanted[p] # Nothing} ELSE {}
      /\ agreeing' = /\ applying' /\ dialect.coupled /\ ~refused /\ reported = kept
                     /\ ~((desired["trig"] # Nothing) <=> (desired["max"] # Nothing))
      /\ UNCHANGED <<dialect, kept, reported>>

(* The radar: setRange and setTrigRange of a stopped radar. *)
Keeps(c) ==
  IF c.group = "trig"
  THEN LET t == IF c.value["trig"] < dialect.lo["trig"] THEN dialect.lo["trig"]
                ELSE c.value["trig"]
           width == kept["max"] - kept["min"]
       IN  [kept EXCEPT !["trig"] = IF dialect.clamps /\ t > width THEN width ELSE t]
  ELSE [kept EXCEPT !["min"] = c.value["min"], !["max"] = c.value["max"]]

(* A set command is carried out, or the radar rejects it. *)
SetGroup ==
  /\ applying /\ commands # <<>>
  /\ commands' = Tail(commands)
  /\ \/ /\ kept' = Keeps(Head(commands))
        /\ UNCHANGED <<errors, agreeing>>
     \/ /\ errors' = errors \cup {p \in Params : GroupOf(p) = Head(commands).group}
        /\ agreeing' = FALSE
        /\ UNCHANGED kept
  /\ UNCHANGED <<dialect, reported, desired, snapshot, applying, requested>>

(* More than half a step apart. *)
Differs(v, w) == 2 * (IF v < w THEN w - v ELSE v - w) > dialect.step

(* The read-back and finish_txn_(). *)
FinishTxn ==
  /\ applying /\ commands = <<>>
  /\ \E read \in SUBSET {g \in {"range", "trig"} : Changed(snapshot, g)} :
       /\ reported' = [p \in Params |->
                         IF GroupOf(p) \in read THEN kept[p] ELSE reported[p]]
       /\ errors' = errors \cup {p \in Params :
                      /\ snapshot[p] # Nothing
                      /\ \/ GroupOf(p) \notin read
                         \/ Differs(kept[p], snapshot[p])}
  /\ applying' = FALSE /\ snapshot' = NoValues
  /\ requested' = NoValues /\ agreeing' = FALSE
  /\ UNCHANGED <<dialect, kept, desired, commands>>

RangesNext == SetDesired \/ StartTxn \/ SetGroup \/ FinishTxn

RangesSpec == RangesInit /\ [][RangesNext]_rangesVars

-----------------------------------------------------------------------------
(* A change of the trigger range or of the maximum range alone leaves a    *)
(* radar that carried it out with a trigger range it can reach             *)
(* (couple_ranges_), unless the range itself was refused.                  *)
TriggerReachable ==
  (applying /\ commands = <<>> /\ agreeing) => kept["trig"] <= kept["max"]

(* What the user asked for is what is sent, rounded for a SEN0395; no      *)
(* coupling overrides it (couple_ranges_, build_set_).                     *)
RequestsAreSent ==
  \A i \in 1 .. Len(commands) : \A p \in Params :
    (GroupOf(p) = commands[i].group /\ requested[p] # Nothing)
      => commands[i].value[p] = Rounded(requested[p])

(* A transaction ends with an error for a setting whose value the radar    *)
(* does not have, up to its own rounding, and the comparison of what was   *)
(* read back raises none for a setting that it took (finish_txn_).         *)
ErrorsAreTrue ==
  [][(applying /\ ~applying') =>
       \A p \in Params : requested[p] # Nothing =>
         /\ (Rounded(requested[p]) # kept[p] => p \in errors')
         /\ (p \in errors' \ errors /\ reported'[p] # reported[p])
              => Rounded(requested[p]) # kept[p]]_rangesVars
=============================================================================
