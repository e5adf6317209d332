------------------------------ MODULE MCReports ------------------------------
(* Two parts of the engine that share no state, each on its own: the       *)
(* reports, for a SEN0395 with its presence or its target reports switched *)
(* on and a C4001, with and without the OUT pin; and the range settings,   *)
(* for a C4001 and a SEN0395 with short ranges.                            *)
EXTENDS Reports, Ranges

VARIABLE part

mcVars == <<part, reportsVars, rangesVars>>

MCConfigurations ==
  [model : {"SEN0395"}, hasPin : BOOLEAN, prints : {{"presence"}}]
    \cup [model : {"SEN0395"}, hasPin : {FALSE}, prints : {{"targets"}}]
    \cup [model : {"C4001"}, hasPin : BOOLEAN, prints : {{"presence"}}]

LimitsOf(min, max, trig) ==
  [p \in Params |-> CASE p = "min" -> min [] p = "max" -> max [] OTHER -> trig]

C4001 == [lo |-> LimitsOf(0, 2, 2), hi |-> LimitsOf(5, 6, 5), step |-> 1,
          quantized |-> FALSE, coupled |-> TRUE, clamps |-> FALSE]

(* The step of 0.15 m is three units of 0.05 m. *)
SEN0395 == [lo |-> LimitsOf(0, 3, 0), hi |-> LimitsOf(6, 9, 0), step |-> 3,
            quantized |-> TRUE, coupled |-> FALSE, clamps |-> FALSE]

MCValues == {0, 2, 5, 6, 9}
MCDialects == {C4001, [C4001 EXCEPT !.clamps = TRUE], SEN0395}

MCInit ==
  /\ ReportsInit /\ RangesInit
  /\ \/ /\ part = "reports"
        /\ dialect = SEN0395 /\ reported = NoValues
        /\ kept = LimitsOf(0, 6, 0)
     \/ /\ part = "ranges"
        /\ device = [model |-> "SEN0395", hasPin |-> FALSE, prints |-> {"targets"}]
        /\ burst.n = 1

MCNext ==
  \/ part = "reports" /\ ReportsNext /\ UNCHANGED <<part, rangesVars>>
  \/ part = "ranges" /\ RangesNext /\ UNCHANGED <<part, reportsVars>>

MCSpec == MCInit /\ [][MCNext]_mcVars
=============================================================================
