------------------------------ MODULE Settings ------------------------------
(***************************************************************************)
(* The settings editor (internal/tui/settings.go, confirm.go), a Bubble    *)
(* Tea program: Update handles one message at a time, and a save runs on   *)
(* its own and reports back by a message, so keys arrive while it is in    *)
(* flight.  Of a document only its identity counts, of the cursor only     *)
(* which kind of row it activates; columns, search and layout are left     *)
(* out.                                                                    *)
(***************************************************************************)
CONSTANTS
    Documents,
    Default,        \* what a missing file loads as
    Fallback,       \* what a file that cannot be loaded is edited from
    None, Garbled

VARIABLES
    config,     \* the file: a document, None or Garbled
    editor,     \* the open editor
    report      \* how it was just left

vars == <<config, editor, report>>

Saves == [cfg : Documents, quit : BOOLEAN, result : {"pending", "written", "failed"}]
Editors == [cfg : Documents, savedCfg : Documents, saving : Saves \cup {None},
            confirm : {"none", "save", "quit", "dirtyQuit"}, editing : BOOLEAN]

Loaded(file) == IF file = None THEN Default ELSE IF file = Garbled THEN Fallback ELSE file

Open == editor # None
Saving == editor.saving # None
Dirty == editor.cfg # editor.savedCfg
Browsing == Open /\ editor.confirm = "none" /\ ~editor.editing
Asked == Open /\ editor.confirm # "none"

Stays(e) == editor' = e /\ report' = None
Quits(how) == editor' = None /\ report' = how

\* A save starts unless one is in flight; the key is lost otherwise.
Save(e, quit) ==
    IF e.saving # None THEN e
    ELSE [e EXCEPT !.saving = [cfg |-> e.cfg, quit |-> quit, result |-> "pending"]]

\* The program does not wait for a save in flight: its write may still happen.
Leave(how) ==
    /\ Quits(how)
    /\ \/ UNCHANGED config
       \/ Saving /\ editor.saving.result = "pending" /\ config' = editor.saving.cfg

-----------------------------------------------------------------------------
OpenSettings ==
    /\ ~Open
    /\ Stays([cfg |-> Loaded(config), savedCfg |-> Loaded(config), saving |-> None,
              confirm |-> "none", editing |-> FALSE])
    /\ UNCHANGED config

\* activate on a toggle or a pin; a text row opens its editor instead.
Toggle(document) ==
    Browsing /\ Stays([editor EXCEPT !.cfg = document]) /\ UNCHANGED config
EditText == Browsing /\ Stays([editor EXCEPT !.editing = TRUE]) /\ UNCHANGED config

\* Enter commits a valid text and keeps the editor open on an invalid one.
CommitEdit(document) ==
    /\ Open /\ editor.editing /\ ~Asked
    /\ Stays([editor EXCEPT !.cfg = document, !.editing = FALSE])
    /\ UNCHANGED config
CancelEdit ==
    Open /\ editor.editing /\ ~Asked /\ Stays([editor EXCEPT !.editing = FALSE]) /\ UNCHANGED config

PressSave == Browsing /\ Stays(Save(editor, FALSE)) /\ UNCHANGED config
ChooseSave == Browsing /\ ~Saving /\ Stays([editor EXCEPT !.confirm = "save"]) /\ UNCHANGED config
ChooseQuit == Browsing /\ Stays([editor EXCEPT !.confirm = "quit"]) /\ UNCHANGED config

PressQuit ==
    /\ Browsing
    /\ \/ Dirty /\ Stays([editor EXCEPT !.confirm = "dirtyQuit"]) /\ UNCHANGED config
       \/ ~Dirty /\ Leave("closed")

Answered == [editor EXCEPT !.confirm = "none"]

AnswerYes ==
    /\ Asked
    /\ \/ editor.confirm = "quit" /\ Leave("discarded")
       \/ editor.confirm # "quit" /\ Stays(Save(Answered, TRUE)) /\ UNCHANGED config

AnswerNo ==
    /\ Asked
    /\ Stays(IF editor.confirm = "dirtyQuit" THEN [editor EXCEPT !.confirm = "quit"] ELSE Answered)
    /\ UNCHANGED config

CancelConfirm == Asked /\ Stays(Answered) /\ UNCHANGED config

\* While a text is edited Ctrl+C goes to the text.
ForceQuit == Open /\ (Asked \/ ~editor.editing) /\ Leave("forced")

\* The save runs beside the program ...
WriteConfig ==
    /\ Open /\ Saving /\ editor.saving.result = "pending"
    /\ \/ config' = editor.saving.cfg /\ Stays([editor EXCEPT !.saving.result = "written"])
       \/ Stays([editor EXCEPT !.saving.result = "failed"]) /\ UNCHANGED config

\* Mutant of SaveResult: a save that was to quit quits at once.
SaveResultAtOnce ==
    /\ Open /\ Saving /\ editor.saving.result # "pending"
    /\ LET e == [editor EXCEPT !.saving = None]
       IN  IF editor.saving.result = "failed" THEN Stays(e)
           ELSE IF editor.saving.quit THEN Quits("saved")
           ELSE Stays([e EXCEPT !.savedCfg = editor.saving.cfg])
    /\ UNCHANGED config

\* ... and settingsSaveResultMsg tells it: what was edited meanwhile is saved too
\* before the program quits.
SaveResult ==
    /\ Open /\ Saving /\ editor.saving.result # "pending"
    /\ LET e == [editor EXCEPT !.saving = None]
           s == [e EXCEPT !.savedCfg = editor.saving.cfg]
       IN  IF editor.saving.result = "failed" THEN Stays(e)
           ELSE IF ~editor.saving.quit THEN Stays(s)
           ELSE IF editor.cfg # editor.saving.cfg THEN Stays(Save(s, TRUE))
           ELSE Quits("saved")
    /\ UNCHANGED config

Next ==
    \/ OpenSettings \/ EditText \/ CancelEdit \/ PressSave \/ ChooseSave \/ ChooseQuit
    \/ PressQuit \/ AnswerYes \/ AnswerNo \/ CancelConfirm \/ ForceQuit
    \/ WriteConfig \/ SaveResult
    \/ \E document \in Documents : Toggle(document) \/ CommitEdit(document)
=============================================================================
