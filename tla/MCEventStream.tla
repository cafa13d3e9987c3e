--------------------------- MODULE MCEventStream ---------------------------
(***************************************************************************)
(* What the turn and a handler of POST /events publish in the runs of      *)
(* EventStream: a turn on its own, and a turn with a user event next to it.*)
(***************************************************************************)
EXTENDS EventStream, TLC

CONSTANTS turn, handler

Turn == <<"plain", "plain", "plain", "terminal">>
TurnAlone == turn :> Turn @@ handler :> << >>
TurnAndUserEvent == turn :> <<"plain", "terminal">> @@ handler :> <<"plain">>

BothScenarios == {TurnAlone, TurnAndUserEvent}
UserEventScenario == {TurnAndUserEvent}
=============================================================================
