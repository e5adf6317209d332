-------------------------- MODULE MCEngineHistory --------------------------
(* Instances of EngineHistory for TLC.                                     *)
EXTENDS EngineHistory

BothModes == [g \in Groups |-> Modes]
GoodFirmware == {[getRun |-> TRUE, knows |-> Groups]}
=============================================================================
