------------------------------ MODULE MCEngine ------------------------------
(* Instances of Engine for TLC.                                            *)
EXTENDS Engine

\* The range belongs to both work modes, as every SEN0395 setting does.
BothModes == [g \in Groups |-> Modes]

\* C4001: a group that is not the range belongs to the presence app.
PresenceOnly ==
  [g \in Groups |-> IF g = RangeGroup THEN Modes ELSE {"PRESENCE"}]

\* C4001: a group that is not the range belongs to the speed app.
SpeedOnly ==
  [g \in Groups |-> IF g = RangeGroup THEN Modes ELSE {"SPEED"}]

\* Supported, or without a single known setting.
AnsweringFirmware == [getRun : {TRUE}, knows : {{}, Groups}]

\* Settings are read only while stopped, or one of them is missing.
MixedFirmware ==
  {[getRun |-> FALSE, knows |-> Groups],
   [getRun |-> TRUE, knows |-> {RangeGroup}]}

\* Gets are answered only while the radar is stopped: with it ShownIsRadars does
\* not hold, as a lost answer to a stop makes the engine take it for the other kind.
StoppedFirmware == {[getRun |-> FALSE, knows |-> Groups]}

GoodFirmware == {[getRun |-> TRUE, knows |-> Groups]}
=============================================================================
