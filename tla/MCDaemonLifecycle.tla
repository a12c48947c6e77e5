------------------------- MODULE MCDaemonLifecycle -------------------------
(***************************************************************************)
(* Three processes, of which the first and the last get the same id, and   *)
(* one stop command.                                                       *)
(***************************************************************************)
EXTENDS DaemonLifecycle, TLC

CONSTANTS d1, d2, d3, s1

MCDaemons == {d1, d2, d3}
MCDetached == {d3}
MCStoppers == {s1}
MCPidOf == (d1 :> 1) @@ (d2 :> 2) @@ (d3 :> 1)

\* What the other commands say of the daemon, for every state of its files.
Commands == INSTANCE Status
ASSUME Commands!WordsAreEarned
ASSUME Commands!CommandsAgree
ASSUME Commands!HealthIsTheDaemons
ASSUME Commands!StopNoticeIsCautious
ASSUME Commands!ConnectIsConfirmed(2)
ASSUME Commands!UpdateLineIsCurrent

\* The log the processes write, whatever fails in its rotation.
Log == INSTANCE LogRotation
ASSUME Log!RecordsAgeInOrder(2)
ASSUME Log!RecordsAreWritten(2)
ASSUME Log!CapHolds
============================================================================
