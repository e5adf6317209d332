----------------------------- MODULE MCExchange -----------------------------
(* The exchange on a short line: one operation, one loss. *)
EXTENDS Exchange

MCCommand == [id : 1 .. MaxCommands, kind : Kinds, retries : 0 .. MaxRetries, reparse : BOOLEAN]

(* Three commands that follow each other in an operation. *)
MCOperations ==
  {<<"swv", "marker", "get">>, <<"stop", "set", "save">>, <<"stop", "get", "start">>,
   <<"reset", "save", "start">>, <<"stop", "runApp", "swv">>}

(* At most one: a command of each kind can run out of them. *)
MCRetries == [kind \in Kinds |-> IF kind \in {"stop", "set", "save"} THEN 1 ELSE 0]

NoCommandValue == [id |-> 0, kind |-> "none", retries |-> 0, reparse |-> FALSE]

(* Pieces of what a radar prints before it is asked anything. *)
BootText ==
  {<<"x", "x", "x", "x", "HIGH">>, <<"x", " ", "CR", "NL">>, Prompt \o <<" ">>,
   <<":", "/">>}

MCByte ==
  Kinds \cup {"Version", "Done", "Response", "1.5", "Error", "not recognized",
    "is not stopped", "stopped already", "can't startSensor", "started already",
    "save cfg complete", "no parameter has changed", "factory reset complete",
    "leapMMW", ":", "/", ">", "$", "1", "*", "x", " ", "NL", "CR", "HIGH"}
=============================================================================
