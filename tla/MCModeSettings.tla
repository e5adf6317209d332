--------------------------- MODULE MCModeSettings ---------------------------
(* Engine with a C4001 whose apps hold different values.  Of the settings    *)
(* the user changes one, any one, in each behaviour.                         *)
EXTENDS MCEngine, TLC

VARIABLE changed

OneSettingSpec ==
  /\ Init /\ changed \in Groups
  /\ \A g \in Groups : radar.val["PRESENCE"][g] # radar.val["SPEED"][g]
  /\ [][Next /\ UNCHANGED changed
             /\ \A g \in Groups \ {changed} : want'[g] = Nil]_<<vars, changed>>

\* Default restores a value only in a factory reset, which is not asked for.
ValueSymmetry == Permutations(Vals)
=============================================================================
