--------------------------- MODULE EngineHistory ---------------------------
(***************************************************************************)
(* Engine with history variables, for promises of the documentation that   *)
(* speak of what the user did earlier.  The engine itself is not changed:  *)
(* the history only watches.                                               *)
(***************************************************************************)
EXTENDS Engine

VARIABLES
  userOff,  \* the user's last word on the radar, once carried out, was "off"
  late      \* groups with an unapplied change made while the link was lost

hvars == <<vars, userOff, late>>

LinkIsLost == ~pub.linkOk /\ belief.everRunning

HistoryInit == Init /\ userOff = FALSE /\ late = {}

\* A switch of the work mode, like resetSystem, starts the radar on purpose.
WatchUser ==
  userOff' = IF StartRun THEN req.run = "off"
             ELSE userOff /\ ~StartModeSwitch /\ ~StartRestart /\ ~EspReboot

WatchLate ==
  late' = {g \in Groups :
             /\ want'[g] # Nil \/ snap'[g] # Nil
             /\ g \in late \/ (LinkIsLost /\ want'[g] # want[g])}

HistorySpec ==
  HistoryInit /\ [][Next /\ WatchUser /\ WatchLate]_hvars

\* "A settings change while stopped keeps the radar stopped": no transaction,
\* read or recovery starts a radar that the user has stopped.
StoppedRadarStaysStopped ==
  [][fly # Nil /\ fly.id = "START" /\ ~radar.running /\ radar'.running =>
       ~userOff]_hvars

\* "A change made while the link was down is not retried": no such change is
\* sent to the radar once the link is back.
LateChangeNotSent ==
  fly # Nil /\ fly.id = "SET_GROUP" => fly.groups \cap late = {}
=============================================================================
