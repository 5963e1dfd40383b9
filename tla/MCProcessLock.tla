---------------------------- MODULE MCProcessLock ----------------------------
(***************************************************************************)
(* Three processes for TLC: two launchers, or a launcher and the command   *)
(* of one of its modes.                                                    *)
(***************************************************************************)
EXTENDS ProcessLock

CONSTANTS launcher, again, cli, client, bot, worker

AllProcesses == {launcher, again, cli}
AllModes     == {client, bot, worker}

LauncherProgram == <<client, bot, worker>>
Programs == [p \in AllProcesses |-> IF p = cli THEN <<worker>> ELSE LauncherProgram]
=============================================================================
