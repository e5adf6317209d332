----------------------------- MODULE RangesProofs -----------------------------
(***************************************************************************)
(* Proofs about Ranges, for all values, limits and steps. The inductive    *)
(* invariant says of the set commands that are still to be sent what they  *)
(* were built for (Sound, Wanted), and where they leave the trigger and    *)
(* the maximum range (Aimed).                                              *)
(***************************************************************************)
EXTENDS Ranges, SequenceTheorems, TLAPS

Known == Nat \cup {Nothing}
Settings == [Params -> Known]

RangesType ==
  /\ dialect \in Dialects
  /\ kept \in [Params -> Nat] /\ reported \in Settings
  /\ desired \in Settings /\ snapshot \in Settings /\ requested \in Settings
  /\ commands \in Seq([group : {"range", "trig"}, value : Settings])
  /\ errors \subseteq Params
  /\ applying \in BOOLEAN /\ agreeing \in BOOLEAN

(* What is asked for is within limits and can be set. *)
Asked(s) ==
  /\ s \in Settings
  /\ \A p \in Params : s[p] # Nothing => p \in Settable /\ WithinLimits(p, s[p])

(* What the table says of the running radar. *)
LEMMA Dialect ==
  ASSUME dialect \in Dialects
  PROVE  /\ dialect.lo \in [Params -> Nat] /\ dialect.hi \in [Params -> Nat]
         /\ \A p \in Params : dialect.lo[p] <= dialect.hi[p]
         /\ dialect.step \in Nat \ {0} /\ dialect.quantized \in BOOLEAN
         /\ dialect.coupled \in BOOLEAN /\ dialect.clamps \in BOOLEAN
         /\ dialect.quantized \/ dialect.step = 1
         /\ dialect.coupled => /\ ~dialect.quantized
                               /\ dialect.lo["trig"] <= dialect.lo["max"]
                               /\ dialect.hi["trig"] <= dialect.hi["max"]
  BY RangesAssumption

LEMMA Names == /\ "min" \in Params /\ "max" \in Params /\ "trig" \in Params
               /\ GroupOf("trig") = "trig" /\ GroupOf("min") = "range"
               /\ GroupOf("max") = "range"
               /\ \A p \in Params : GroupOf(p) \in {"range", "trig"}
               /\ \A p \in Params : GroupOf(p) = "trig" <=> p = "trig"
  BY DEF Params, GroupOf

-----------------------------------------------------------------------------
(* Rounding.                                                               *)

(* Rounding down gives a multiple of the step, and no more than the value. *)
LEMMA Rounding ==
  ASSUME dialect \in Dialects, NEW v \in Nat
  PROVE  /\ Rounded(v) \in Nat /\ Rounded(v) <= v
         /\ \E m \in Nat : Rounded(v) = m * dialect.step
         /\ ~dialect.quantized => Rounded(v) = v
<1>1. dialect.step \in Nat \ {0}
  BY Dialect
<1>. DEFINE step == dialect.step
<1>2. CASE dialect.quantized
  <2>. HIDE DEF step
  <2>1. step \in Nat \ {0}
    BY <1>1 DEF step
  <2>2. v \div step \in Nat /\ (v \div step) * step <= v /\ (v \div step) * step \in Nat
    BY <2>1
  <2>3. Rounded(v) = (v \div step) * step
    BY <1>2 DEF Rounded, Down, step
  <2>. QED
    BY <1>2, <2>2, <2>3 DEF step
<1>3. CASE ~dialect.quantized
  <2>1. dialect.step = 1 /\ Rounded(v) = v
    BY <1>3, Dialect DEF Rounded
  <2>2. v = v * 1
    OBVIOUS
  <2>. QED
    BY <1>3, <2>1, <2>2
<1>. QED
  BY <1>2, <1>3

(* Two multiples of a step that differ are at least a step apart. *)
LEMMA Apart ==
  ASSUME NEW step \in Nat \ {0}, NEW a \in Nat, NEW b \in Nat, a < b
  PROVE  b * step - a * step >= step
<1>1. b * step - a * step = (b - a) * step
  OBVIOUS
<1>2. (b - a) * step = step + (b - a - 1) * step
  OBVIOUS
<1>3. b - a - 1 \in Nat
  OBVIOUS
<1>4. (b - a - 1) * step >= 0
  BY <1>3
<1>. QED
  BY <1>1, <1>2, <1>4

-----------------------------------------------------------------------------
(* Coupling.                                                               *)

LEMMA Clamping ==
  ASSUME dialect \in Dialects, NEW p \in Params, NEW v \in Nat
  PROVE  /\ Clamp(p, v) \in Nat
         /\ dialect.lo[p] <= dialect.hi[p] => /\ dialect.lo[p] <= Clamp(p, v)
                                              /\ Clamp(p, v) <= dialect.hi[p]
         /\ v <= dialect.hi[p] => v <= Clamp(p, v)
         /\ dialect.lo[p] <= v => Clamp(p, v) <= v
<1>1. dialect.lo[p] \in Nat /\ dialect.hi[p] \in Nat
  BY Dialect
<1>. QED
  BY <1>1 DEF Clamp

LEMMA ValueType ==
  ASSUME reported \in Settings, NEW s \in Settings, NEW p \in Params
  PROVE  ValueFor(s, p) \in Known
  BY DEF ValueFor, Settings

(* A range that is to be sent is one that the radar takes. *)
Unrefused(s) == Changed(s, "range") => RangeAccepted(s)

(* What coupling changes: only the other end of what was asked for. *)
LEMMA Coupling ==
  ASSUME dialect \in Dialects, reported \in Settings, NEW s, Asked(s)
  PROVE  /\ Coupled(s) \in Settings
         /\ \A p \in Params : s[p] # Nothing => Coupled(s)[p] = s[p]
         /\ Coupled(s)["trig"] # Nothing =>
              dialect.coupled /\ dialect.lo["trig"] <= Coupled(s)["trig"]
<1>. DEFINE trig == ValueFor(s, "trig")
            max  == ValueFor(s, "max")
            pushed == Clamp("max", trig)
            pulled == Clamp("trig", max)
<1>1. s \in Settings /\ "trig" \in Params /\ "max" \in Params
  BY Names DEF Asked
<1>2. trig \in Known /\ max \in Known
  BY <1>1, ValueType
<1>3. s["trig"] # Nothing => dialect.coupled /\ dialect.lo["trig"] <= s["trig"]
  BY <1>1 DEF Asked, Settable, WithinLimits
<1>4. CASE Coupled(s) = s
  BY <1>1, <1>3, <1>4
<1>5. CASE /\ Coupled(s) = [s EXCEPT !["max"] = pushed]
           /\ s["max"] = Nothing /\ trig # Nothing
  <2>1. pushed \in Nat
    BY <1>1, <1>2, <1>5, Clamping DEF Known
  <2>. HIDE DEF pushed
  <2>. QED
    BY <1>1, <1>3, <1>5, <2>1 DEF Settings, Known
<1>6. CASE /\ Coupled(s) = [s EXCEPT !["trig"] = pulled]
           /\ s["trig"] = Nothing /\ s["max"] # Nothing /\ dialect.coupled /\ max # Nothing
  <2>1. dialect.lo["trig"] \in Nat /\ max \in Nat /\ dialect.lo["max"] <= max
        /\ dialect.lo["trig"] <= dialect.lo["max"] /\ dialect.lo["max"] \in Nat
        /\ dialect.hi["max"] \in Nat /\ dialect.hi["trig"] \in Nat
    BY <1>1, <1>2, <1>6, Dialect DEF Asked, WithinLimits, Known, ValueFor
  <2>2. pulled \in Nat
    BY <1>1, <2>1, Clamping
  <2>3. dialect.lo["trig"] <= pulled
    BY <1>1, <2>1, Clamping, Dialect
  <2>. HIDE DEF pulled
  <2>. QED
    BY <1>1, <1>6, <2>2, <2>3 DEF Settings, Known
<1>7. \/ Coupled(s) = s
      \/ /\ Coupled(s) = [s EXCEPT !["max"] = pushed]
         /\ s["max"] = Nothing /\ trig # Nothing
      \/ /\ Coupled(s) = [s EXCEPT !["trig"] = pulled]
         /\ s["trig"] = Nothing /\ s["max"] # Nothing /\ dialect.coupled /\ max # Nothing
  BY DEF Coupled
<1>. QED
  BY <1>4, <1>5, <1>6, <1>7

(* The trigger range follows the maximum, or the maximum the trigger range, *)
(* when only one of them is asked for and the other is known.              *)
LEMMA CouplingAgrees ==
  ASSUME dialect \in Dialects, reported \in [Params -> Nat], NEW s, Asked(s),
         dialect.coupled, Unrefused(Coupled(s)),
         ~((s["trig"] # Nothing) <=> (s["max"] # Nothing))
  PROVE  LET c == Coupled(s) IN ValueFor(c, "trig") <= ValueFor(c, "max")
<1>. DEFINE trig == ValueFor(s, "trig")
            max  == ValueFor(s, "max")
            min  == ValueFor(s, "min")
            pushed == Clamp("max", trig)
            pulled == Clamp("trig", max)
<1>1. s \in Settings /\ "trig" \in Params /\ "max" \in Params /\ "min" \in Params
  BY Names DEF Asked
<1>2. trig \in Nat /\ max \in Nat /\ min \in Nat /\ Nothing \notin Nat
  BY <1>1 DEF ValueFor, Settings, Known, Nothing
<1>3. /\ dialect.lo["trig"] \in Nat /\ dialect.hi["trig"] \in Nat
      /\ dialect.lo["max"] \in Nat /\ dialect.hi["max"] \in Nat
      /\ dialect.lo["trig"] <= dialect.lo["max"] /\ dialect.hi["trig"] <= dialect.hi["max"]
  BY <1>1, Dialect
<1>4. CASE trig <= max
  <2>1. Coupled(s) = s
    BY <1>4 DEF Coupled
  <2>. QED
    BY <1>4, <2>1
<1>5. CASE ~(trig <= max) /\ s["trig"] # Nothing
  <2>1. trig = s["trig"] /\ trig <= dialect.hi["trig"]
    BY <1>1, <1>5 DEF Asked, WithinLimits, ValueFor
  <2>2. pushed \in Nat /\ trig <= pushed
    BY <1>1, <1>2, <1>3, <2>1, Clamping
  <2>3. Coupled(s) = [s EXCEPT !["max"] = pushed]
    BY <1>2, <1>5, <2>2 DEF Coupled
  <2>4. ValueFor(Coupled(s), "trig") = trig /\ ValueFor(Coupled(s), "max") = pushed
    <3>. HIDE DEF pushed
    <3>1. Coupled(s)["max"] = pushed /\ Coupled(s)["trig"] = s["trig"]
      BY <1>1, <2>3 DEF Settings
    <3>. QED
      BY <1>2, <2>1, <2>2, <3>1 DEF ValueFor
  <2>. QED
    BY <2>2, <2>4
<1>6. CASE ~(trig <= max) /\ s["trig"] = Nothing
  <2>1. max = s["max"] /\ s["max"] # Nothing /\ dialect.lo["max"] <= max
    BY <1>1, <1>6 DEF Asked, WithinLimits, ValueFor
  <2>2. pulled \in Nat /\ pulled <= max
    BY <1>1, <1>2, <1>3, <2>1, Clamping
  <2>3. min < max
    <3>1. CASE Coupled(s) = s
      <4>1. Changed(s, "range")
        BY <1>1, <2>1, Names DEF Changed
      <4>2. Rounded(min) < Rounded(max)
        BY <3>1, <4>1 DEF Unrefused, RangeAccepted
      <4>3. Rounded(min) = min /\ Rounded(max) = max
        BY Dialect DEF Rounded
      <4>. QED
        BY <4>2, <4>3
    <3>2. CASE Coupled(s) # s
      BY <1>2, <1>6, <2>1, <3>2 DEF Coupled
    <3>. QED
      BY <3>1, <3>2
  <2>4. Coupled(s) = [s EXCEPT !["trig"] = pulled]
    BY <1>2, <1>6, <2>1, <2>2, <2>3 DEF Coupled
  <2>5. ValueFor(Coupled(s), "trig") = pulled /\ ValueFor(Coupled(s), "max") = max
    <3>. HIDE DEF pulled
    <3>1. Coupled(s)["trig"] = pulled /\ Coupled(s)["max"] = s["max"]
      BY <1>1, <2>4 DEF Settings
    <3>. QED
      BY <1>2, <2>1, <2>2, <3>1 DEF ValueFor
  <2>. QED
    BY <2>2, <2>5
<1>. QED
  BY <1>4, <1>5, <1>6

-----------------------------------------------------------------------------
(* The set commands of a transaction.                                      *)

Multiple(v) == \E m \in Nat : v = m * dialect.step

(* A range that the radar can have. *)
Window(v) ==
  /\ v["min"] \in Nat /\ v["max"] \in Nat /\ v["min"] < v["max"]
  /\ Multiple(v["min"]) /\ Multiple(v["max"])

Sound(c) ==
  /\ c \in [group : {"range", "trig"}, value : Settings]
  /\ c.group = "range" => Window(c.value)
  /\ c.group = "trig" => /\ dialect.coupled /\ c.value["trig"] \in Nat
                         /\ dialect.lo["trig"] <= c.value["trig"]

(* A command carries what was asked for. *)
Wanted(c, asked) ==
  \A p \in Params : (GroupOf(p) = c.group /\ asked[p] # Nothing)
                      => c.value[p] = Rounded(asked[p])

RangeSet(s) ==
  [group |-> "range",
   value |-> [NoValues EXCEPT !["min"] = Rounded(ValueFor(s, "min")),
                              !["max"] = Rounded(ValueFor(s, "max"))]]

TrigSet(s) == [group |-> "trig", value |-> [NoValues EXCEPT !["trig"] = s["trig"]]]

LEMMA Pairing ==
  ASSUME NEW r \in BOOLEAN, NEW t \in BOOLEAN, NEW x, NEW y
  PROVE  (IF r THEN <<x>> ELSE <<>>) \o (IF t THEN <<y>> ELSE <<>>)
           = IF r THEN IF t THEN <<x, y>> ELSE <<x>> ELSE IF t THEN <<y>> ELSE <<>>
<1>1. <<x>> \o <<y>> = <<x, y>>
  <2>1. <<x>> \o <<y>> = Append(<<x>>, y)
    <3>1. <<x>> \in Seq({x, y})
      OBVIOUS
    <3>. QED
      BY <3>1, AppendIsConcat
  <2>2. Append(<<x>>, y) = <<x, y>>
    <3>1. /\ Len(Append(<<x>>, y)) = 2
          /\ Append(<<x>>, y)[1] = x /\ Append(<<x>>, y)[2] = y
          /\ Append(<<x>>, y) \in Seq({x, y})
      OBVIOUS
    <3>2. <<x, y>> \in Seq({x, y}) /\ Len(<<x, y>>) = 2
      OBVIOUS
    <3>3. \A i \in 1 .. 2 : Append(<<x>>, y)[i] = <<x, y>>[i]
      BY <3>1
    <3>. QED
      BY <3>1, <3>2, <3>3, SeqEqual
  <2>. QED
    BY <2>1, <2>2
<1>2. <<x>> \in Seq({x, y}) /\ <<y>> \in Seq({x, y}) /\ <<>> \in Seq({x, y})
  OBVIOUS
<1>3. <<x>> \o <<>> = <<x>> /\ <<>> \o <<y>> = <<y>> /\ <<>> \o <<>> = <<>>
  BY <1>2, ConcatEmptySeq
<1>. QED
  BY <1>1, <1>3

LEMMA SetsShape ==
  ASSUME NEW s
  PROVE  Sets(s) =
           IF Changed(s, "range") /\ RangeAccepted(s)
           THEN IF Changed(s, "trig") THEN <<RangeSet(s), TrigSet(s)>> ELSE <<RangeSet(s)>>
           ELSE IF Changed(s, "trig") THEN <<TrigSet(s)>> ELSE <<>>
<1>. DEFINE r == Changed(s, "range") /\ RangeAccepted(s)
            t == Changed(s, "trig")
            x == RangeSet(s)
            y == TrigSet(s)
<1>1. Sets(s) = (IF r THEN <<x>> ELSE <<>>) \o (IF t THEN <<y>> ELSE <<>>)
  BY DEF Sets, RangeSet, TrigSet
<1>2. r \in BOOLEAN /\ t \in BOOLEAN
  BY DEF Changed
<1>. HIDE DEF r, t, x, y
<1>3. Sets(s) = IF r THEN IF t THEN <<x, y>> ELSE <<x>> ELSE IF t THEN <<y>> ELSE <<>>
  BY <1>1, <1>2, Pairing
<1>. QED
  BY <1>3 DEF r, t, x, y

LEMMA NoValuesType == NoValues \in Settings
  BY DEF NoValues, Settings, Known

LEMMA TrigChanged == ASSUME NEW s PROVE Changed(s, "trig") <=> s["trig"] # Nothing
  BY DEF Changed, Params, GroupOf

LEMMA RangeSetSound ==
  ASSUME dialect \in Dialects, reported \in Settings, NEW s \in Settings, RangeAccepted(s)
  PROVE  /\ Sound(RangeSet(s))
         /\ RangeSet(s).value["max"] = Rounded(ValueFor(s, "max"))
         /\ RangeSet(s).value["min"] = Rounded(ValueFor(s, "min"))
<1>. DEFINE min == Rounded(ValueFor(s, "min"))
            max == Rounded(ValueFor(s, "max"))
            value == [NoValues EXCEPT !["min"] = min, !["max"] = max]
<1>1. /\ ValueFor(s, "min") \in Nat /\ ValueFor(s, "max") \in Nat
      /\ min < max
  BY ValueType, Names DEF RangeAccepted, Known
<1>2. min \in Nat /\ max \in Nat /\ Multiple(min) /\ Multiple(max)
  BY <1>1, Rounding DEF Multiple
<1>. HIDE DEF min, max
<1>3. value \in Settings /\ value["min"] = min /\ value["max"] = max
  BY <1>2, NoValuesType, Names DEF Settings, Known
<1>4. RangeSet(s) = [group |-> "range", value |-> value]
  BY DEF RangeSet, min, max
<1>. HIDE DEF value
<1>5. RangeSet(s) \in [group : {"range", "trig"}, value : Settings]
      /\ RangeSet(s).group = "range" /\ RangeSet(s).value = value
  BY <1>3, <1>4
<1>. QED
  BY <1>1, <1>2, <1>3, <1>5 DEF Sound, Window, min, max

LEMMA TrigSetSound ==
  ASSUME NEW s \in Settings, s["trig"] # Nothing, dialect.coupled,
         dialect.lo["trig"] <= s["trig"]
  PROVE  Sound(TrigSet(s)) /\ TrigSet(s).value["trig"] = s["trig"]
<1>. DEFINE value == [NoValues EXCEPT !["trig"] = s["trig"]]
<1>1. s["trig"] \in Nat
  BY Names DEF Settings, Known
<1>2. value \in Settings /\ value["trig"] = s["trig"]
  BY <1>1, NoValuesType, Names DEF Settings, Known
<1>3. TrigSet(s) = [group |-> "trig", value |-> value]
  BY DEF TrigSet
<1>. HIDE DEF value
<1>4. TrigSet(s) \in [group : {"range", "trig"}, value : Settings]
      /\ TrigSet(s).group = "trig" /\ TrigSet(s).value = value
  BY <1>2, <1>3
<1>. QED
  BY <1>1, <1>2, <1>4 DEF Sound

(* What is sent is what was asked for, whatever was coupled to it. *)
LEMMA SetsWanted ==
  ASSUME dialect \in Dialects, reported \in Settings, NEW s, Asked(s)
  PROVE  LET c == Coupled(s)
         IN  /\ (Changed(c, "range") /\ RangeAccepted(c)) => Wanted(RangeSet(c), s)
             /\ Changed(c, "trig") => Wanted(TrigSet(c), s)
<1>. DEFINE c == Coupled(s)
<1>1. /\ c \in Settings /\ \A p \in Params : s[p] # Nothing => c[p] = s[p]
      /\ c["trig"] # Nothing => dialect.coupled /\ dialect.lo["trig"] <= c["trig"]
  BY Coupling
<1>. HIDE DEF c
<1>2. ASSUME RangeAccepted(c) PROVE Wanted(RangeSet(c), s)
  <2>1. RangeSet(c).group = "range"
    BY DEF RangeSet
  <2>2. /\ RangeSet(c).value["max"] = Rounded(ValueFor(c, "max"))
        /\ RangeSet(c).value["min"] = Rounded(ValueFor(c, "min"))
    BY <1>1, <1>2, RangeSetSound
  <2>3. \A p \in {"min", "max"} : s[p] # Nothing => ValueFor(c, p) = s[p]
    BY <1>1, Names DEF ValueFor
  <2>. QED
    BY <2>1, <2>2, <2>3 DEF Wanted, Params, GroupOf
<1>3. ASSUME Changed(c, "trig") PROVE Wanted(TrigSet(c), s)
  <2>1. c["trig"] # Nothing
    BY <1>3, TrigChanged
  <2>2. TrigSet(c).value["trig"] = c["trig"] /\ TrigSet(c).group = "trig"
    BY <1>1, <2>1, TrigSetSound DEF TrigSet
  <2>3. s["trig"] # Nothing => Rounded(s["trig"]) = s["trig"]
    BY <1>1, <2>1, Dialect DEF Rounded
  <2>. QED
    BY <1>1, <2>2, <2>3, Names DEF Wanted
<1>. QED
  BY <1>2, <1>3 DEF c

-----------------------------------------------------------------------------
(* The inductive invariant.                                                *)

(* What the running transaction leaves behind, by what is still to be sent. *)
Aimed ==
  \/ commands = <<>> /\ kept["trig"] <= kept["max"]
  \/ \E r : /\ commands = <<r>> /\ r.group = "range"
            /\ kept["trig"] <= r.value["max"]
  \/ \E t : /\ commands = <<t>> /\ t.group = "trig"
            /\ t.value["trig"] <= kept["max"]
  \/ \E r, t : /\ commands = <<r, t>> /\ r.group = "range" /\ t.group = "trig"
               /\ t.value["trig"] <= r.value["max"]

(* The comparison at the end is with what was asked for. *)
Compared ==
  applying => \A p \in Params :
                requested[p] # Nothing => snapshot[p] = Rounded(requested[p])

RangesInv ==
  /\ RangesType
  /\ Window(kept)
  /\ Asked(desired) /\ Asked(requested)
  /\ \A i \in 1 .. Len(commands) : Sound(commands[i]) /\ Wanted(commands[i], requested)
  /\ Compared
  /\ agreeing => Aimed

LEMMA NoneAsked == Asked(NoValues)
  BY NoValuesType DEF Asked, NoValues

LEMMA RangesInitInv == RangesInit => RangesInv
<1>. SUFFICES ASSUME RangesInit PROVE RangesInv
  OBVIOUS
<1>1. PICK min, max, trig \in Values :
        /\ kept = [p \in Params |-> CASE p = "min" -> min [] p = "max" -> max
                                      [] OTHER -> trig]
        /\ min < max /\ Rounded(min) = min /\ Rounded(max) = max
  BY DEF RangesInit
<1>2. dialect \in Dialects
  BY DEF RangesInit
<1>3. min \in Nat /\ max \in Nat /\ trig \in Nat
  BY RangesAssumption
<1>4. kept \in [Params -> Nat] /\ kept["min"] = min /\ kept["max"] = max
  BY <1>1, <1>3, Names
<1>5. Window(kept)
  BY <1>1, <1>2, <1>3, <1>4, Rounding DEF Window, Multiple
<1>6. reported \in Settings
  BY <1>4 DEF RangesInit, Settings, Known
<1>7. /\ desired = NoValues /\ requested = NoValues /\ snapshot = NoValues
      /\ commands = <<>> /\ errors = {} /\ applying = FALSE /\ agreeing = FALSE
  BY DEF RangesInit
<1>8. RangesType
  <2>1. <<>> \in Seq([group : {"range", "trig"}, value : Settings])
    OBVIOUS
  <2>. QED
    BY <1>2, <1>4, <1>6, <1>7, <2>1, NoValuesType DEF RangesType
<1>. QED
  BY <1>5, <1>7, <1>8, NoneAsked DEF RangesInv, Compared

LEMMA SetDesiredStep == RangesInv /\ SetDesired => RangesInv'
<1>. SUFFICES ASSUME RangesInv, SetDesired PROVE RangesInv'
  OBVIOUS
<1>1. PICK p \in Settable, v \in Values :
        WithinLimits(p, v) /\ desired' = [desired EXCEPT ![p] = v]
  BY DEF SetDesired
<1>2. UNCHANGED <<dialect, kept, reported, snapshot, commands, applying, requested,
                  agreeing>> /\ errors' = {} /\ ~applying
  BY DEF SetDesired
<1>3. v \in Nat /\ p \in Params
  BY RangesAssumption DEF Settable
<1>4. desired' \in Settings
  BY <1>1, <1>3 DEF RangesInv, RangesType, Settings, Known
<1>5. \A q \in Params : desired'[q] # Nothing => q \in Settable /\ WithinLimits(q, desired'[q])
  BY <1>1, <1>3 DEF RangesInv, Asked, Settings
<1>6. Asked(desired)'
  BY <1>2, <1>4, <1>5 DEF Asked, Settable, WithinLimits
<1>7. RangesType'
  BY <1>2, <1>4 DEF RangesInv, RangesType
<1>8. Window(kept)' /\ Asked(requested)' /\ Compared' /\ (agreeing => Aimed)'
  BY <1>2 DEF RangesInv, Window, Multiple, Asked, Settable, WithinLimits, Compared, Aimed
<1>9. (\A i \in 1 .. Len(commands) : Sound(commands[i]) /\ Wanted(commands[i], requested))'
  BY <1>2 DEF RangesInv, Sound, Wanted, Window, Multiple, Rounded
<1>. QED
  BY <1>6, <1>7, <1>8, <1>9 DEF RangesInv

(* A transaction starts with the commands for what was asked. *)
LEMMA Started ==
  ASSUME RangesInv
  PROVE  LET c == Coupled(desired)
         IN  /\ Sets(c) \in Seq([group : {"range", "trig"}, value : Settings])
             /\ \A i \in 1 .. Len(Sets(c)) : Sound(Sets(c)[i]) /\ Wanted(Sets(c)[i], desired)
<1>. DEFINE c == Coupled(desired)
            Cmd == [group : {"range", "trig"}, value : Settings]
            r == Changed(c, "range") /\ RangeAccepted(c)
            t == Changed(c, "trig")
            x == RangeSet(c)
            y == TrigSet(c)
<1>1. dialect \in Dialects /\ reported \in Settings /\ Asked(desired)
  BY DEF RangesInv, RangesType
<1>2. c \in Settings /\ (c["trig"] # Nothing =>
                            dialect.coupled /\ dialect.lo["trig"] <= c["trig"])
  BY <1>1, Coupling
<1>3. Sets(c) = IF r THEN IF t THEN <<x, y>> ELSE <<x>> ELSE IF t THEN <<y>> ELSE <<>>
  BY SetsShape
<1>4. (r => Wanted(x, desired)) /\ (t => Wanted(y, desired))
  BY <1>1, SetsWanted
<1>. HIDE DEF c
<1>5. (r => Sound(x)) /\ (t => Sound(y))
  BY <1>1, <1>2, RangeSetSound, TrigSetSound, TrigChanged
<1>. HIDE DEF r, t, x, y
<1>6. (r => x \in Cmd) /\ (t => y \in Cmd)
  BY <1>5 DEF Sound
<1>. HIDE DEF Cmd
<1>7. CASE r /\ t
  <2>1. Sets(c) = <<x, y>>
    BY <1>3, <1>7
  <2>. QED
    BY <1>4, <1>5, <1>6, <1>7, <2>1 DEF c, Cmd
<1>8. CASE r /\ ~t
  <2>1. Sets(c) = <<x>>
    BY <1>3, <1>8
  <2>. QED
    BY <1>4, <1>5, <1>6, <1>8, <2>1 DEF c, Cmd
<1>9. CASE ~r /\ t
  <2>1. Sets(c) = <<y>>
    BY <1>3, <1>9
  <2>. QED
    BY <1>4, <1>5, <1>6, <1>9, <2>1 DEF c, Cmd
<1>10. CASE ~r /\ ~t
  <2>1. Sets(c) = <<>>
    BY <1>3, <1>10
  <2>. QED
    BY <2>1 DEF c, Cmd
<1>. QED
  BY <1>7, <1>8, <1>9, <1>10

(* What is compared with the read-back is what was asked for, rounded. *)
LEMMA QuantizedSettings ==
  ASSUME dialect \in Dialects, NEW s \in Settings
  PROVE  /\ Quantized(s) \in Settings
         /\ \A p \in Params : Quantized(s)[p] # Nothing <=> s[p] # Nothing
         /\ \A p \in Params : (s[p] # Nothing /\ (p = "trig" => ~dialect.quantized))
                               => Quantized(s)[p] = Rounded(s[p])
<1>1. ASSUME NEW p \in Params, s[p] # Nothing PROVE s[p] \in Nat /\ Rounded(s[p]) \in Nat
  BY <1>1, Rounding DEF Settings, Known
<1>2. \A p \in Params : Quantized(s)[p] = IF p # "trig" /\ s[p] # Nothing
                                          THEN Rounded(s[p]) ELSE s[p]
  BY DEF Quantized
<1>3. Quantized(s) \in Settings
  BY <1>1 DEF Quantized, Settings, Known
<1>4. \A p \in Params : Quantized(s)[p] # Nothing <=> s[p] # Nothing
  BY <1>1, <1>2 DEF Nothing
<1>5. \A p \in Params : (s[p] # Nothing /\ (p = "trig" => ~dialect.quantized))
                        => Quantized(s)[p] = Rounded(s[p])
  BY <1>2 DEF Rounded
<1>. QED
  BY <1>3, <1>4, <1>5

LEMMA StartAims ==
  ASSUME RangesInv, StartTxn, agreeing'
  PROVE  Aimed'
<1>. DEFINE c == Coupled(desired)
            wanted == Quantized(c)
            r == Changed(c, "range") /\ RangeAccepted(c)
            t == Changed(c, "trig")
            x == RangeSet(c)
            y == TrigSet(c)
<1>1. dialect \in Dialects /\ reported \in Settings /\ Asked(desired)
      /\ kept \in [Params -> Nat]
  BY DEF RangesInv, RangesType
<1>2. /\ commands' = Sets(c) /\ commands' # <<>> /\ kept' = kept /\ reported = kept
      /\ dialect.coupled
      /\ ~((desired["trig"] # Nothing) <=> (desired["max"] # Nothing))
      /\ ~(Changed(wanted, "range") /\ ~RangeAccepted(c))
  BY DEF StartTxn
<1>3. c \in Settings /\ (c["trig"] # Nothing => dialect.lo["trig"] <= c["trig"])
  BY <1>1, Coupling
<1>4. Unrefused(c)
  BY <1>1, <1>2, <1>3, QuantizedSettings DEF Unrefused, Changed
<1>5. ValueFor(c, "trig") <= ValueFor(c, "max")
  BY <1>1, <1>2, <1>4, CouplingAgrees
<1>6. Sets(c) = IF r THEN IF t THEN <<x, y>> ELSE <<x>> ELSE IF t THEN <<y>> ELSE <<>>
  BY SetsShape
<1>7. t <=> c["trig"] # Nothing
  BY TrigChanged
<1>. HIDE DEF c
<1>8. t => y.value["trig"] = ValueFor(c, "trig") /\ y.group = "trig"
  BY <1>2, <1>3, <1>7, TrigSetSound DEF ValueFor, TrigSet
<1>9. ~t => kept["trig"] = ValueFor(c, "trig")
  BY <1>2, <1>7 DEF ValueFor
<1>10. r => x.value["max"] = ValueFor(c, "max") /\ x.group = "range"
  <2>1. Rounded(ValueFor(c, "max")) = ValueFor(c, "max")
    BY <1>1, <1>2, Dialect DEF Rounded
  <2>2. ASSUME r PROVE x.value["max"] = Rounded(ValueFor(c, "max"))
    BY <1>1, <1>3, <2>2, RangeSetSound
  <2>3. x.group = "range"
    BY DEF RangeSet
  <2>. QED
    BY <2>1, <2>2, <2>3
<1>11. ~r => kept["max"] = ValueFor(c, "max")
  <2>1. ~r => c["max"] = Nothing
    BY <1>4, Names DEF Unrefused, Changed
  <2>. QED
    BY <1>2, <2>1 DEF ValueFor
<1>. HIDE DEF r, t, x, y
<1>12. CASE r /\ t
  <2>1. commands' = <<x, y>>
    BY <1>2, <1>6, <1>12
  <2>. QED
    BY <1>5, <1>8, <1>10, <1>12, <2>1 DEF Aimed
<1>13. CASE r /\ ~t
  <2>1. commands' = <<x>>
    BY <1>2, <1>6, <1>13
  <2>. QED
    BY <1>2, <1>5, <1>9, <1>10, <1>13, <2>1 DEF Aimed
<1>14. CASE ~r /\ t
  <2>1. commands' = <<y>>
    BY <1>2, <1>6, <1>14
  <2>. QED
    BY <1>2, <1>5, <1>8, <1>11, <1>14, <2>1 DEF Aimed
<1>15. CASE ~r /\ ~t
  BY <1>2, <1>6, <1>15
<1>. QED
  BY <1>12, <1>13, <1>14, <1>15

LEMMA StartTxnStep == RangesInv /\ StartTxn => RangesInv'
<1>. SUFFICES ASSUME RangesInv, StartTxn PROVE RangesInv'
  OBVIOUS
<1>. DEFINE c == Coupled(desired)
            wanted == Quantized(c)
<1>1. dialect \in Dialects /\ reported \in Settings /\ Asked(desired)
  BY DEF RangesInv, RangesType
<1>2. /\ commands' = Sets(c)
      /\ applying' = (commands' # <<>>)
      /\ requested' = IF applying' THEN desired ELSE NoValues
      /\ desired' = NoValues
      /\ snapshot' = IF applying' THEN wanted ELSE NoValues
      /\ errors' \subseteq Params
      /\ agreeing' \in BOOLEAN
      /\ UNCHANGED <<dialect, kept, reported>>
  BY DEF StartTxn, Params
<1>3. c \in Settings /\ \A p \in Params : desired[p] # Nothing => c[p] = desired[p]
  BY <1>1, Coupling
<1>4. /\ Sets(c) \in Seq([group : {"range", "trig"}, value : Settings])
      /\ \A i \in 1 .. Len(Sets(c)) : Sound(Sets(c)[i]) /\ Wanted(Sets(c)[i], desired)
  BY Started
<1>. HIDE DEF c
<1>5. wanted \in Settings
  BY <1>1, <1>3, QuantizedSettings
<1>6. desired["trig"] # Nothing => ~dialect.quantized
  BY <1>1, Dialect, Names DEF Asked, Settable
<1>7. \A p \in Params : desired[p] # Nothing => wanted[p] = Rounded(desired[p])
  BY <1>1, <1>3, <1>6, QuantizedSettings
<1>. HIDE DEF wanted
<1>8. RangesType'
  BY <1>1, <1>2, <1>4, <1>5, NoValuesType DEF RangesInv, RangesType
<1>9. Asked(desired)' /\ Asked(requested)'
  BY <1>1, <1>2, NoneAsked DEF Asked, Settable, WithinLimits
<1>10. Window(kept)'
  BY <1>2 DEF RangesInv, Window, Multiple
<1>11. Compared'
  BY <1>2, <1>7 DEF Compared, Rounded
<1>12. (\A i \in 1 .. Len(commands) : Sound(commands[i]) /\ Wanted(commands[i], requested))'
  <2>1. CASE applying'
    <3>. SUFFICES ASSUME NEW i \in 1 .. Len(commands')
                  PROVE  Sound(commands[i])' /\ Wanted(commands[i], requested)'
      OBVIOUS
    <3>1. PICK x : x = Sets(c)[i]
      OBVIOUS
    <3>2. Sound(x) /\ Wanted(x, desired)
      BY <1>2, <1>4, <3>1
    <3>3. commands'[i] = x /\ requested' = desired /\ dialect' = dialect
      BY <1>2, <2>1, <3>1
    <3>4. Sound(x)'
      BY <3>2, <3>3 DEF Sound, Window, Multiple
    <3>5. Sound(commands[i])'
      BY <3>3, <3>4 DEF Sound, Window
    <3>6. Wanted(commands[i], requested)'
      BY <3>2, <3>3 DEF Wanted, Rounded
    <3>. QED
      BY <3>5, <3>6
  <2>2. CASE ~applying'
    <3>1. commands' = <<>>
      BY <1>2, <2>2, Zenon
    <3>. QED
      BY <3>1
  <2>. QED
    BY <2>1, <2>2
<1>. QED
  BY <1>8, <1>9, <1>10, <1>11, <1>12, StartAims DEF RangesInv

(* The radar carries out a command, or rejects it. *)
LEMMA KeepsWindow ==
  ASSUME dialect \in Dialects, kept \in [Params -> Nat], Window(kept), NEW x, Sound(x)
  PROVE  /\ Keeps(x) \in [Params -> Nat]
         /\ Window(Keeps(x))
         /\ x.group = "range" => /\ Keeps(x)["trig"] = kept["trig"]
                                 /\ Keeps(x)["max"] = x.value["max"]
         /\ x.group = "trig" => /\ Keeps(x)["max"] = kept["max"]
                                /\ x.value["trig"] <= kept["max"]
                                     => Keeps(x)["trig"] <= kept["max"]
<1>1. x.group \in {"range", "trig"}
  BY DEF Sound
<1>2. CASE x.group = "range"
  <2>1. x.value["min"] \in Nat /\ x.value["max"] \in Nat /\ Window(x.value)
    BY <1>2 DEF Sound, Window
  <2>2. Keeps(x) = [kept EXCEPT !["min"] = x.value["min"], !["max"] = x.value["max"]]
    BY <1>2 DEF Keeps
  <2>3. /\ Keeps(x)["min"] = x.value["min"] /\ Keeps(x)["max"] = x.value["max"]
        /\ Keeps(x)["trig"] = kept["trig"] /\ Keeps(x) \in [Params -> Nat]
    BY <2>1, <2>2, Names
  <2>. QED
    BY <1>2, <2>1, <2>3 DEF Window
<1>3. CASE x.group = "trig"
  <2>. DEFINE t == IF x.value["trig"] < dialect.lo["trig"] THEN dialect.lo["trig"]
                   ELSE x.value["trig"]
              width == kept["max"] - kept["min"]
              new == IF dialect.clamps /\ t > width THEN width ELSE t
  <2>1. x.value["trig"] \in Nat /\ dialect.lo["trig"] <= x.value["trig"]
        /\ dialect.lo["trig"] \in Nat
    BY <1>3, Dialect, Names DEF Sound
  <2>2. kept["min"] \in Nat /\ kept["max"] \in Nat /\ kept["min"] < kept["max"]
    BY DEF Window
  <2>3. t = x.value["trig"] /\ width \in Nat /\ width <= kept["max"]
    BY <2>1, <2>2
  <2>4. new \in Nat /\ (x.value["trig"] <= kept["max"] => new <= kept["max"])
    BY <2>1, <2>2, <2>3
  <2>5. Keeps(x) = [kept EXCEPT !["trig"] = new]
    BY <1>3 DEF Keeps
  <2>. HIDE DEF new
  <2>6. /\ Keeps(x)["min"] = kept["min"] /\ Keeps(x)["max"] = kept["max"]
        /\ Keeps(x)["trig"] = new /\ Keeps(x) \in [Params -> Nat]
    BY <2>4, <2>5, Names
  <2>. QED
    BY <1>3, <2>4, <2>6 DEF Window
<1>. QED
  BY <1>1, <1>2, <1>3

LEMMA SetGroupStep == RangesInv /\ SetGroup => RangesInv'
<1>. SUFFICES ASSUME RangesInv, SetGroup PROVE RangesInv'
  OBVIOUS
<1>. DEFINE Cmd == [group : {"range", "trig"}, value : Settings]
<1>1. /\ applying /\ commands # <<>> /\ commands' = Tail(commands)
      /\ UNCHANGED <<dialect, reported, desired, snapshot, applying, requested>>
  BY DEF SetGroup
<1>2. /\ dialect \in Dialects /\ kept \in [Params -> Nat] /\ Window(kept)
      /\ commands \in Seq(Cmd)
      /\ \A i \in 1 .. Len(commands) : Sound(commands[i]) /\ Wanted(commands[i], requested)
  BY DEF RangesInv, RangesType
<1>. HIDE DEF Cmd
<1>3. Len(commands) \in Nat \ {0} /\ Head(commands) = commands[1]
  BY <1>1, <1>2
<1>4. Sound(Head(commands))
  BY <1>2, <1>3
<1>5. /\ commands' \in Seq(Cmd) /\ Len(commands') = Len(commands) - 1
      /\ \A i \in 1 .. Len(commands') : commands'[i] = commands[i + 1]
  BY <1>1, <1>2
<1>6. \/ kept' = Keeps(Head(commands)) /\ UNCHANGED <<errors, agreeing>>
      \/ /\ errors' = errors \cup {p \in Params : GroupOf(p) = Head(commands).group}
         /\ agreeing' = FALSE /\ kept' = kept
  BY DEF SetGroup
<1>7. kept' \in [Params -> Nat] /\ Window(kept')
  BY <1>2, <1>4, <1>6, KeepsWindow
<1>8. RangesType'
  <2>1. errors' \subseteq Params /\ agreeing' \in BOOLEAN
    BY <1>6 DEF RangesInv, RangesType
  <2>. QED
    BY <1>1, <1>5, <1>7, <2>1 DEF RangesInv, RangesType, Cmd
<1>9. Window(kept)'
  BY <1>1, <1>7 DEF Window, Multiple
<1>10. Asked(desired)' /\ Asked(requested)' /\ Compared'
  BY <1>1 DEF RangesInv, Asked, Settable, WithinLimits, Compared, Rounded
<1>11. ASSUME NEW i \in 1 .. Len(commands')
       PROVE  Sound(commands[i])' /\ Wanted(commands[i], requested)'
  <2>1. PICK x : x = commands[i + 1]
    OBVIOUS
  <2>2. Sound(x) /\ Wanted(x, requested)
    BY <1>2, <1>3, <1>5, <1>11, <2>1
  <2>3. commands'[i] = x /\ requested' = requested /\ dialect' = dialect
    BY <1>1, <1>5, <2>1
  <2>4. Sound(x)'
    BY <2>2, <2>3 DEF Sound, Window, Multiple
  <2>5. Sound(commands[i])'
    BY <2>3, <2>4 DEF Sound, Window
  <2>6. Wanted(commands[i], requested)'
    BY <2>2, <2>3 DEF Wanted, Rounded
  <2>. QED
    BY <2>5, <2>6
<1>12. ASSUME agreeing' PROVE Aimed'
  <2>1. kept' = Keeps(Head(commands)) /\ Aimed
    BY <1>6, <1>12 DEF RangesInv
  <2>2. PICK x : x = Head(commands)
    OBVIOUS
  <2>3. /\ x.group = "range" => /\ kept'["trig"] = kept["trig"]
                                /\ kept'["max"] = x.value["max"]
        /\ x.group = "trig" => /\ kept'["max"] = kept["max"]
                               /\ x.value["trig"] <= kept["max"]
                                    => kept'["trig"] <= kept["max"]
    BY <1>2, <1>4, <2>1, <2>2, KeepsWindow
  <2>4. ASSUME NEW r, commands = <<r>>, r.group = "range", kept["trig"] <= r.value["max"]
        PROVE  Aimed'
    <3>1. x = r /\ commands' = <<>>
      BY <1>1, <2>2, <2>4
    <3>. QED
      BY <2>3, <2>4, <3>1 DEF Aimed
  <2>5. ASSUME NEW t, commands = <<t>>, t.group = "trig", t.value["trig"] <= kept["max"]
        PROVE  Aimed'
    <3>1. x = t /\ commands' = <<>>
      BY <1>1, <2>2, <2>5
    <3>. QED
      BY <2>3, <2>5, <3>1 DEF Aimed
  <2>6. ASSUME NEW r, NEW t, commands = <<r, t>>, r.group = "range", t.group = "trig",
               t.value["trig"] <= r.value["max"]
        PROVE  Aimed'
    <3>1. x = r /\ commands' = <<t>>
      BY <1>1, <2>2, <2>6
    <3>. QED
      BY <2>3, <2>6, <3>1 DEF Aimed
  <2>. QED
    BY <1>1, <2>1, <2>4, <2>5, <2>6 DEF Aimed
<1>. QED
  BY <1>8, <1>9, <1>10, <1>11, <1>12 DEF RangesInv

LEMMA FinishTxnStep == RangesInv /\ FinishTxn => RangesInv'
<1>. SUFFICES ASSUME RangesInv, FinishTxn PROVE RangesInv'
  OBVIOUS
<1>1. /\ commands' = commands /\ commands = <<>>
      /\ UNCHANGED <<dialect, kept, desired>>
      /\ applying' = FALSE /\ snapshot' = NoValues /\ requested' = NoValues
      /\ agreeing' = FALSE
  BY DEF FinishTxn
<1>2. PICK read \in SUBSET {"range", "trig"} :
        /\ reported' = [p \in Params |->
                          IF GroupOf(p) \in read THEN kept[p] ELSE reported[p]]
        /\ errors' = errors \cup {p \in Params :
                       /\ snapshot[p] # Nothing
                       /\ \/ GroupOf(p) \notin read
                          \/ Differs(kept[p], snapshot[p])}
  BY DEF FinishTxn
<1>3. reported' \in Settings /\ errors' \subseteq Params
  BY <1>2 DEF RangesInv, RangesType, Settings, Known
<1>4. RangesType'
  BY <1>1, <1>3, NoValuesType DEF RangesInv, RangesType
<1>5. Window(kept)' /\ Asked(desired)' /\ Asked(requested)' /\ Compared'
  BY <1>1, NoneAsked
     DEF RangesInv, Window, Multiple, Asked, Settable, WithinLimits, Compared
<1>. QED
  BY <1>1, <1>4, <1>5 DEF RangesInv

LEMMA RangesStep == RangesInv /\ [RangesNext]_rangesVars => RangesInv'
<1>1. RangesInv /\ UNCHANGED rangesVars => RangesInv'
  BY DEF RangesInv, RangesType, rangesVars, Window, Multiple, Asked, Settable, WithinLimits,
         Sound, Wanted, Rounded, Compared, Aimed
<1>. QED
  BY <1>1, SetDesiredStep, StartTxnStep, SetGroupStep, FinishTxnStep DEF RangesNext

LEMMA RangesInvariant == RangesSpec => []RangesInv
  BY RangesInitInv, RangesStep, PTL DEF RangesSpec

-----------------------------------------------------------------------------
(* Whatever limits and values: a trigger range and a maximum that were not *)
(* asked for together end in agreement when the radar carries them out.    *)
THEOREM TriggerFollows == RangesSpec => []TriggerReachable
<1>1. RangesInv => TriggerReachable
  BY DEF RangesInv, Aimed, TriggerReachable
<1>. QED
  BY <1>1, RangesInvariant, PTL

(* No coupling, rounding or order of commands replaces a value that the    *)
(* user asked for.                                                         *)
THEOREM RequestsReachRadar == RangesSpec => []RequestsAreSent
<1>1. RangesInv => RequestsAreSent
  BY DEF RangesInv, Wanted, RequestsAreSent
<1>. QED
  BY <1>1, RangesInvariant, PTL

(* Half a step tells two values apart that the radar can have, and no      *)
(* value from itself.                                                      *)
LEMMA Comparing ==
  ASSUME dialect \in Dialects, NEW v \in Nat, NEW w \in Nat, Multiple(v), Multiple(w)
  PROVE  Differs(v, w) <=> v # w
<1>1. dialect.step \in Nat \ {0}
  BY Dialect
<1>2. PICK m \in Nat : v = m * dialect.step
  BY DEF Multiple
<1>3. PICK n \in Nat : w = n * dialect.step
  BY DEF Multiple
<1>4. CASE m < n
  <2>1. w - v >= dialect.step
    BY <1>1, <1>2, <1>3, <1>4, Apart
  <2>. QED
    BY <1>1, <2>1 DEF Differs
<1>5. CASE n < m
  <2>1. v - w >= dialect.step
    BY <1>1, <1>2, <1>3, <1>5, Apart
  <2>. QED
    BY <1>1, <2>1 DEF Differs
<1>6. CASE m = n
  <2>1. v = w
    BY <1>2, <1>3, <1>6
  <2>. QED
    BY <1>1, <2>1 DEF Differs
<1>. QED
  BY <1>4, <1>5, <1>6

(* The comparison raises an error for a value that the radar does not have *)
(* and, by itself, for none that it has.                                   *)
THEOREM ErrorsTell == RangesSpec => ErrorsAreTrue
<1>1. RangesInv /\ [RangesNext]_rangesVars
        => [(applying /\ ~applying') =>
              \A p \in Params : requested[p] # Nothing =>
                /\ (Rounded(requested[p]) # kept[p] => p \in errors')
                /\ (p \in errors' \ errors /\ reported'[p] # reported[p])
                     => Rounded(requested[p]) # kept[p]]_rangesVars
  <2>. SUFFICES ASSUME RangesInv, RangesNext, applying, ~applying',
                       NEW p \in Params, requested[p] # Nothing
                PROVE  /\ (Rounded(requested[p]) # kept[p] => p \in errors')
                       /\ (p \in errors' \ errors /\ reported'[p] # reported[p])
                            => Rounded(requested[p]) # kept[p]
    OBVIOUS
  <2>1. FinishTxn
    BY DEF RangesNext, SetDesired, StartTxn, SetGroup
  <2>2. PICK read \in SUBSET {"range", "trig"} :
          /\ reported' = [q \in Params |->
                            IF GroupOf(q) \in read THEN kept[q] ELSE reported[q]]
          /\ errors' = errors \cup {q \in Params :
                         /\ snapshot[q] # Nothing
                         /\ \/ GroupOf(q) \notin read
                            \/ Differs(kept[q], snapshot[q])}
    BY <2>1 DEF FinishTxn
  <2>3. dialect \in Dialects /\ kept \in [Params -> Nat] /\ Asked(requested)
        /\ Window(kept) /\ snapshot[p] = Rounded(requested[p])
    BY DEF RangesInv, RangesType, Compared
  <2>4. requested[p] \in Nat /\ (p = "trig" => dialect.coupled)
    BY <2>3 DEF Asked, Settings, Known, Settable
  <2>5. snapshot[p] \in Nat /\ Multiple(snapshot[p])
    BY <2>3, <2>4, Rounding DEF Multiple
  <2>6. kept[p] \in Nat /\ Multiple(kept[p])
    <3>1. CASE p = "trig"
      <4>1. dialect.step = 1
        BY <2>3, <2>4, <3>1, Dialect
      <4>2. kept[p] \in Nat /\ kept[p] = kept[p] * 1
        BY <2>3
      <4>. QED
        BY <4>1, <4>2 DEF Multiple
    <3>2. CASE p # "trig"
      BY <2>3, <3>2 DEF Window, Params
    <3>. QED
      BY <3>1, <3>2
  <2>7. Differs(kept[p], snapshot[p]) <=> kept[p] # snapshot[p]
    BY <2>3, <2>5, <2>6, Comparing
  <2>8. snapshot[p] # Nothing
    BY <2>5 DEF Nothing
  <2>9. reported'[p] # reported[p] => GroupOf(p) \in read
    BY <2>2
  <2>. QED
    BY <2>2, <2>3, <2>7, <2>8, <2>9
<1>. QED
  BY <1>1, RangesInvariant, PTL DEF RangesSpec, ErrorsAreTrue
=============================================================================
