---------------------------- MODULE Preferences ----------------------------
(***************************************************************************)
(* What the user sets up: the settings editor and the autostart commands   *)
(* share the configuration file, which is also edited by hand.  A setup    *)
(* wizard that is not applying yet stays open meanwhile.                   *)
(***************************************************************************)
EXTENDS Autostart

CONSTANT Fallback   \* config.invalidFallbackWithPath

VARIABLE editor

Editor == INSTANCE Settings WITH Default <- [login |-> TRUE, value |-> Default]

EditorReports == {"saved", "closed", "discarded", "forced"}
ASSUME EditorAssumption ==
    Fallback \in Documents /\ None \notin Editor!Saves \cup EditorReports

prefsVars == <<vars, editor>>

\* The editor does not touch the service: it is opened over an untouched one.
Settings ==
    /\ Idle /\ world.definition = None /\ world.proc = None /\ ~world.waiting
    /\ Editor!Next /\ UNCHANGED <<platform, world, wizard, command, faults, missed>>

EditByHand(file) ==
    /\ Idle /\ editor = None
    /\ config' = file /\ report' = None
    /\ UNCHANGED <<platform, world, wizard, command, faults, missed, editor>>

PrefsInit == Init /\ editor = None
PrefsNext ==
    \/ editor = None /\ Next /\ UNCHANGED editor
    \/ Settings
    \/ \E file \in {None, Garbled} : EditByHand(file)
PrefsSpec == PrefsInit /\ [][PrefsNext]_prefsVars

(* Every variable has its type. *)
PrefsTypeOK == TypeOK /\ editor \in Editor!Editors \cup {None}

(* Leaving the editor by q, Esc or a confirmed save loses no edit: opening it *)
(* again shows the working copy, although keys were handled while saves were  *)
(* in flight (the DeepEqual of settingsSaveResultMsg).  Left out: closing a   *)
(* copy that equals the last save while another save is still in flight.      *)
KeepsEdits ==
    /\ report' = "saved" => config' = editor.cfg
    /\ report' = "closed" /\ ~Editor!Saving => Editor!Loaded(config') = editor.cfg
QuitKeepsEdits == [][KeepsEdits]_prefsVars
=============================================================================
