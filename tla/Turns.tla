-------------------------------- MODULE Turns --------------------------------
(***************************************************************************)
(* A session of either driver: the readline program and the single runs    *)
(* use the string driver, the terminal UI and the ACP server the event     *)
(* driver.  A session keeps the driver it began with.                      *)
(***************************************************************************)
EXTENDS TextTurn, EventTurn

TurnInit == TextInit \/ EventInit

TurnNext ==
    \/ mode # "events" /\ TextNext
    \/ mode = "events" /\ EventNext

TurnSpec ==
    /\ TurnInit /\ [][TurnNext]_allVars
    /\ WF_allVars(mode # "events" /\ TextProgress /\ UNCHANGED <<mode, open>>)
    /\ WF_allVars(mode = "events" /\ EventProgress /\ UNCHANGED mode)
=============================================================================
