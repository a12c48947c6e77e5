------------------------------ MODULE MCDaemon ------------------------------
(***************************************************************************)
(* Instance of Daemon for TLC: two tools, a configuration file that goes   *)
(* through a display-only edit and one that also disables a tool.          *)
(***************************************************************************)
EXTENDS Daemon

CONSTANTS t1, t2

MCTools == {t1, t2}
MCSightings == {{}, {t1}}

Config(disable, how) == [disabled |-> disable, display |-> how]

MCEdits == <<Config({}, "plain"), Config({}, "private"), Config({t2}, "private")>>

\* The daemon while nobody stops it, on a machine where every process scan
\* returns, with a result or an error.
RunningSpec ==
    /\ Init /\ [][Run]_vars
    /\ Fairness
    /\ WF_vars((ListFails \/ ListSucceeds) /\ UNCHANGED daemonVars)

\* The text of an activity, for every short text of every kind of character.
Text == INSTANCE ActivityText
ASSUME Text!NormalizedIsValid(4)
ASSUME Text!OmissionsAreReported(4)
ASSUME Text!LinesStayApart(5)
ASSUME Text!NormalizingSettles(4)
ASSUME Text!ImageTextNeedsImage
=============================================================================
