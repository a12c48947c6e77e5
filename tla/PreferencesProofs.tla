------------------------- MODULE PreferencesProofs -------------------------
(***************************************************************************)
(* The theorems about what the user sets up: the settings editor loses no  *)
(* edit, and beside it the service's commands keep what AutostartProofs    *)
(* proves of them alone.                                                   *)
(***************************************************************************)
EXTENDS Preferences, AutostartProofs

\* The file is what the editor takes for saved, or what it has just written.
Settled(e, file) ==
    IF e.saving # None /\ e.saving.result = "written" THEN file = e.saving.cfg
    ELSE Editor!Loaded(file) = e.savedCfg

\* What an open editor knows: no command runs beside it, and its file is settled.
EditorFits ==
    /\ editor \in Editor!Editors \cup {None}
    /\ editor # None => command = None /\ Settled(editor, config)

\* The inductive invariant.
PInv == IInv /\ EditorFits

-----------------------------------------------------------------------------
(* The steps of the editor.                                                  *)

\* What a step of the editor does to what it shares.
EditorGood == EditorFits' /\ KeepsEdits /\ config' \in Documents \cup {None, Garbled}
              /\ report' \in EditorReports \cup {None}

LEMMA EditorParts ==
    ASSUME NEW e \in Editor!Editors
    PROVE  /\ e.cfg \in Documents /\ e.savedCfg \in Documents /\ e.editing \in BOOLEAN
           /\ e.confirm \in {"none", "save", "quit", "dirtyQuit"}
           /\ e.saving # None => /\ e.saving \in Editor!Saves /\ e.saving.cfg \in Documents
                                 /\ e.saving.quit \in BOOLEAN
                                 /\ e.saving.result \in {"pending", "written", "failed"}
BY DEF Editor!Editors, Editor!Saves

LEMMA SilentKeeps ==
    ASSUME report' = None
    PROVE  KeepsEdits
BY EditorAssumption DEF KeepsEdits, EditorReports

LEMMA StaysOpen ==
    ASSUME PInv, Idle, command' = command, NEW e \in Editor!Editors, Editor!Stays(e),
           config' \in Documents \cup {None, Garbled}, Settled(e, config')
    PROVE  EditorGood
<1>1. editor' = e /\ report' = None
  BY DEF Editor!Stays
<1>2. EditorFits'
  BY <1>1 DEF EditorFits, Settled, Editor!Loaded, Idle
<1>3. QED
  BY <1>1, <1>2, SilentKeeps DEF EditorGood

\* A working copy that changes, while what is saved and being saved does not.
LEMMA EditsOn ==
    ASSUME PInv, Idle, command' = command, editor # None, UNCHANGED config,
           NEW e \in Editor!Editors, Editor!Stays(e),
           e.saving = editor.saving, e.savedCfg = editor.savedCfg
    PROVE  EditorGood
<1>1. config' \in Documents \cup {None, Garbled}
  BY DEF PInv, IInv, TypeOK
<1>2. Settled(e, config')
  BY DEF PInv, EditorFits, Settled
<1>3. QED
  BY <1>1, <1>2, StaysOpen

\* A save that starts, or finds one in flight.
LEMMA SavesOn ==
    ASSUME PInv, Idle, command' = command, editor # None, UNCHANGED config, NEW quit \in BOOLEAN,
           NEW e \in Editor!Editors, e.saving = editor.saving, e.savedCfg = editor.savedCfg,
           Editor!Stays(Editor!Save(e, quit))
    PROVE  EditorGood
<1> DEFINE s == [cfg |-> e.cfg, quit |-> quit, result |-> "pending"]
<1>1. CASE e.saving # None
  <2>1. Editor!Stays(e)
    BY <1>1 DEF Editor!Save
  <2>2. QED
    BY <2>1, EditsOn
<1>2. CASE e.saving = None
  <2>1. Editor!Stays([e EXCEPT !.saving = s])
    BY <1>2 DEF Editor!Save
  <2>2. s \in Editor!Saves /\ s.result = "pending"
    BY EditorParts DEF Editor!Saves
  <2> HIDE DEF s
  <2> DEFINE f == [e EXCEPT !.saving = s]
  <2>3. f \in Editor!Editors /\ f.saving = s /\ f.savedCfg = e.savedCfg
    BY <2>2 DEF Editor!Editors
  <2> HIDE DEF f
  <2>4. Editor!Loaded(config) = editor.savedCfg
    BY <1>2 DEF PInv, EditorFits, Settled
  <2>5. Settled(f, config')
    BY <2>2, <2>3, <2>4 DEF Settled
  <2>6. config' \in Documents \cup {None, Garbled}
    BY DEF PInv, IInv, TypeOK
  <2>7. QED
    BY <2>1, <2>3, <2>5, <2>6, StaysOpen DEF f
<1>3. QED
  BY <1>1, <1>2

LEMMA LeavesWhole ==
    ASSUME PInv, editor # None, NEW how \in EditorReports \ {"saved"}, Editor!Leave(how),
           how = "closed" => editor.cfg = editor.savedCfg
    PROVE  EditorGood
<1>1. editor \in Editor!Editors /\ config \in Documents \cup {None, Garbled}
      /\ Settled(editor, config)
  BY DEF PInv, IInv, TypeOK, EditorFits
<1>2. editor' = None /\ report' = how
      /\ (config' = config \/ (editor.saving # None /\ config' = editor.saving.cfg))
  BY DEF Editor!Leave, Editor!Quits, Editor!Saving
<1>3. EditorFits' /\ config' \in Documents \cup {None, Garbled}
  BY <1>1, <1>2, EditorParts DEF EditorFits
<1>4. KeepsEdits
  BY <1>1, <1>2 DEF KeepsEdits, Settled, Editor!Saving
<1>5. QED
  BY <1>2, <1>3, <1>4 DEF EditorGood

LEMMA EditorIsGood ==
    ASSUME PInv, Idle, command' = command, Editor!Next
    PROVE  EditorGood
<1>1. /\ config \in Documents \cup {None, Garbled} /\ editor \in Editor!Editors \cup {None}
      /\ editor # None => Settled(editor, config)
  BY DEF PInv, IInv, TypeOK, EditorFits
<1>2. CASE Editor!OpenSettings
  <2> DEFINE e == [cfg |-> Editor!Loaded(config), savedCfg |-> Editor!Loaded(config),
                   saving |-> None, confirm |-> "none", editing |-> FALSE]
  <2>1. Editor!Stays(e) /\ UNCHANGED config
    BY <1>2 DEF Editor!OpenSettings
  <2>2. Editor!Loaded(config) \in Documents
    <3>1. [login |-> TRUE, value |-> Default] \in Documents
      BY ValuesAssumption DEF Documents
    <3>2. QED
      BY <1>1, <3>1, EditorAssumption DEF Editor!Loaded
  <2>3. e \in Editor!Editors /\ Settled(e, config')
    BY <2>1, <2>2 DEF Editor!Editors, Settled
  <2> HIDE DEF e
  <2>4. QED
    BY <1>1, <2>1, <2>3, StaysOpen
<1>3. ASSUME NEW e, Editor!Stays(e), UNCHANGED config, editor # None,
             \/ \E d \in Documents : e = [editor EXCEPT !.cfg = d] \/ e = [editor EXCEPT !.cfg = d, !.editing = FALSE]
             \/ \E b \in BOOLEAN : e = [editor EXCEPT !.editing = b]
             \/ \E a \in {"none", "save", "quit", "dirtyQuit"} : e = [editor EXCEPT !.confirm = a]
      PROVE  EditorGood
  <2>1. e \in Editor!Editors /\ e.saving = editor.saving /\ e.savedCfg = editor.savedCfg
    BY <1>1, <1>3 DEF Editor!Editors
  <2>2. QED
    BY <1>3, <2>1, EditsOn
<1>4. CASE Editor!EditText \/ Editor!CancelEdit
  BY <1>3, <1>4 DEF Editor!EditText, Editor!CancelEdit, Editor!Browsing, Editor!Open
<1>5. CASE Editor!ChooseSave \/ Editor!ChooseQuit \/ Editor!AnswerNo \/ Editor!CancelConfirm
  BY <1>3, <1>5 DEF Editor!ChooseSave, Editor!ChooseQuit, Editor!AnswerNo, Editor!CancelConfirm,
     Editor!Answered, Editor!Asked, Editor!Browsing, Editor!Open
<1>6. CASE \E d \in Documents : Editor!Toggle(d) \/ Editor!CommitEdit(d)
  BY <1>3, <1>6 DEF Editor!Toggle, Editor!CommitEdit, Editor!Browsing, Editor!Open
<1>7. CASE Editor!PressSave
  BY <1>1, <1>7, SavesOn DEF Editor!PressSave, Editor!Browsing, Editor!Open
<1>8. CASE Editor!PressQuit
  <2>1. editor # None
    BY <1>8 DEF Editor!PressQuit, Editor!Browsing, Editor!Open
  <2>2. CASE Editor!Stays([editor EXCEPT !.confirm = "dirtyQuit"]) /\ UNCHANGED config
    BY <1>3, <2>1, <2>2
  <2>3. CASE editor.cfg = editor.savedCfg /\ Editor!Leave("closed")
    BY <2>1, <2>3, LeavesWhole DEF EditorReports
  <2>4. QED
    BY <1>8, <2>2, <2>3 DEF Editor!PressQuit, Editor!Dirty
<1>9. CASE Editor!AnswerYes
  <2>1. editor # None /\ editor \in Editor!Editors
    BY <1>1, <1>9 DEF Editor!AnswerYes, Editor!Asked, Editor!Open
  <2>2. CASE Editor!Leave("discarded")
    BY <2>1, <2>2, LeavesWhole DEF EditorReports
  <2>3. CASE Editor!Stays(Editor!Save(Editor!Answered, TRUE)) /\ UNCHANGED config
    <3> DEFINE e == [editor EXCEPT !.confirm = "none"]
    <3>1. e \in Editor!Editors /\ e.saving = editor.saving /\ e.savedCfg = editor.savedCfg
      BY <2>1 DEF Editor!Editors
    <3>2. Editor!Stays(Editor!Save(e, TRUE))
      BY <2>3 DEF Editor!Answered
    <3> HIDE DEF e
    <3>3. QED
      BY <2>1, <2>3, <3>1, <3>2, SavesOn
  <2>4. QED
    BY <1>9, <2>2, <2>3 DEF Editor!AnswerYes
<1>10. CASE Editor!ForceQuit
  BY <1>10, LeavesWhole DEF Editor!ForceQuit, Editor!Open, EditorReports
<1>11. CASE Editor!WriteConfig
  <2>1. /\ editor # None /\ editor \in Editor!Editors /\ editor.saving # None
        /\ editor.saving.result = "pending"
    BY <1>1, <1>11 DEF Editor!WriteConfig, Editor!Open, Editor!Saving
  <2>2. PICK how \in {"written", "failed"} :
           /\ Editor!Stays([editor EXCEPT !.saving.result = how])
           /\ config' = IF how = "written" THEN editor.saving.cfg ELSE config
    BY <1>11 DEF Editor!WriteConfig
  <2> DEFINE s == [editor.saving EXCEPT !.result = how]
             e == [editor EXCEPT !.saving = s]
  <2>3. s \in Editor!Saves /\ s.cfg = editor.saving.cfg /\ s.result = how
        /\ editor.saving.cfg \in Documents
    BY <2>1, <2>2, EditorParts DEF Editor!Saves
  <2>4. Editor!Stays(e)
    BY <2>1, <2>2 DEF Editor!Editors
  <2> HIDE DEF s
  <2>5. e \in Editor!Editors /\ e.saving = s /\ e.savedCfg = editor.savedCfg
    BY <2>1, <2>3 DEF Editor!Editors
  <2> HIDE DEF e
  <2>6. s # None
    BY <2>3, EditorAssumption
  <2>7. Settled(e, config') /\ config' \in Documents \cup {None, Garbled}
    BY <1>1, <2>1, <2>2, <2>3, <2>5, <2>6 DEF Settled
  <2>8. QED
    BY <2>4, <2>5, <2>7, StaysOpen
<1>12. CASE Editor!SaveResult
  <2> DEFINE e == [editor EXCEPT !.saving = None]
             s == [e EXCEPT !.savedCfg = editor.saving.cfg]
  <2>1. /\ editor # None /\ editor \in Editor!Editors /\ editor.saving # None
        /\ editor.saving.result \in {"written", "failed"} /\ editor.saving.cfg \in Documents
        /\ UNCHANGED config
    BY <1>1, <1>12, EditorParts DEF Editor!SaveResult, Editor!Open, Editor!Saving
  <2>2. IF editor.saving.result = "failed" THEN Editor!Stays(e)
        ELSE IF ~editor.saving.quit THEN Editor!Stays(s)
        ELSE IF editor.cfg # editor.saving.cfg THEN Editor!Stays(Editor!Save(s, TRUE))
        ELSE Editor!Quits("saved")
    BY <1>12 DEF Editor!SaveResult
  <2>3. e \in Editor!Editors /\ e.saving = None /\ e.savedCfg = editor.savedCfg /\ e.cfg = editor.cfg
    BY <2>1 DEF Editor!Editors
  <2> HIDE DEF e
  <2>4. s \in Editor!Editors /\ s.saving = None /\ s.savedCfg = editor.saving.cfg /\ s.cfg = editor.cfg
    BY <2>1, <2>3 DEF Editor!Editors
  <2> HIDE DEF s
  <2>5. CASE editor.saving.result = "failed"
    <3>1. Settled(e, config')
      BY <1>1, <2>1, <2>3, <2>5 DEF Settled
    <3>2. QED
      BY <1>1, <2>1, <2>2, <2>3, <2>5, <3>1, StaysOpen
  <2>6. CASE editor.saving.result = "written"
    <3>1. config' = editor.saving.cfg
      BY <1>1, <2>1, <2>6 DEF Settled
    <3>2. Editor!Loaded(config') = editor.saving.cfg
      BY <2>1, <3>1, DocumentsAssumption DEF Editor!Loaded
    <3>3. CASE ~editor.saving.quit
      <4>1. Settled(s, config')
        BY <2>4, <3>2 DEF Settled
      <4>2. QED
        BY <1>1, <2>1, <2>2, <2>4, <2>6, <3>3, <4>1, StaysOpen
    <3>4. CASE editor.saving.quit /\ editor.cfg # editor.saving.cfg
      <4> DEFINE p == [cfg |-> s.cfg, quit |-> TRUE, result |-> "pending"]
                 f == [s EXCEPT !.saving = p]
      <4>1. Editor!Stays(f)
        BY <2>2, <2>4, <2>6, <3>4 DEF Editor!Save
      <4>2. p \in Editor!Saves /\ p.result = "pending"
        BY <2>4, EditorParts DEF Editor!Saves
      <4> HIDE DEF p
      <4>3. f \in Editor!Editors /\ f.saving = p /\ f.savedCfg = s.savedCfg
        BY <2>4, <4>2 DEF Editor!Editors
      <4> HIDE DEF f
      <4>4. Settled(f, config')
        BY <2>4, <3>2, <4>2, <4>3 DEF Settled
      <4>5. QED
        BY <1>1, <2>1, <4>1, <4>3, <4>4, StaysOpen
    <3>5. CASE editor.saving.quit /\ editor.cfg = editor.saving.cfg
      <4>1. editor' = None /\ report' = "saved"
        BY <2>2, <2>6, <3>5 DEF Editor!Quits
      <4>2. EditorFits' /\ KeepsEdits
        BY <3>1, <3>5, <4>1 DEF EditorFits, KeepsEdits
      <4>3. QED
        BY <1>1, <2>1, <4>1, <4>2 DEF EditorGood, EditorReports
    <3>6. QED
      BY <3>3, <3>4, <3>5
  <2>7. QED
    BY <2>1, <2>5, <2>6
<1>13. QED
  BY <1>2, <1>4, <1>5, <1>6, <1>7, <1>8, <1>9, <1>10, <1>11, <1>12 DEF Editor!Next

-----------------------------------------------------------------------------
(* The theorems.                                                             *)

\* Between commands any file may replace the configuration.
LEMMA FileChanges ==
    ASSUME PInv, Idle, command' = command, UNCHANGED <<platform, world, wizard, faults, missed>>,
           config' \in Documents \cup {None, Garbled}
    PROVE  IInv'
<1>1. /\ command' = None /\ platform' = platform /\ world' = world /\ wizard' = wizard
      /\ faults' = faults /\ missed' = missed
  BY DEF Idle
<1>2. QED
  BY <1>1, Primed DEF PInv, IInv, TypeOK

LEMMA PrefsSteps ==
    ASSUME PInv, PrefsNext
    PROVE  PInv' /\ Restores /\ AppliesBoth /\ RemovesStopped /\ KeepsEdits
<1>1. IInv /\ EditorFits
  BY DEF PInv
<1>2. CASE editor = None /\ Next /\ UNCHANGED editor
  <2>1. Good
    BY <1>1, <1>2, StepsAreGood
  <2>2. EditorFits'
    BY <1>2 DEF EditorFits
  <2>3. KeepsEdits
    <3>1. report' \in Reports \cup {None}
      BY <2>1 DEF Good
    <3>2. report' \notin {"saved", "closed"}
      BY <3>1, EditorAssumption DEF Reports, Outcomes, EditorReports
    <3>3. QED
      BY <3>2 DEF KeepsEdits
  <2>4. QED
    BY <2>1, <2>2, <2>3 DEF PInv, Good
<1>3. CASE Settings
  <2>1. Idle /\ Editor!Next /\ UNCHANGED <<platform, world, wizard, faults, missed>> /\ command' = command
    BY <1>3 DEF Settings
  <2>2. EditorGood
    BY <2>1, EditorIsGood
  <2>3. IInv'
    BY <2>1, <2>2, FileChanges DEF EditorGood
  <2>4. Restores /\ AppliesBoth
    <3>1. report' \notin {"restored", "applied", "undone"}
      BY <2>2, ReportsAssumption DEF EditorGood, EditorReports, Reports, Outcomes
    <3>2. QED
      BY <3>1, Quiet
  <2>5. QED
    BY <2>1, <2>2, <2>3, <2>4, KeptIsNotRemoved DEF PInv, EditorGood
<1>4. CASE \E file \in {None, Garbled} : EditByHand(file)
  <2>1. /\ Idle /\ editor = None /\ editor' = editor /\ command' = command
        /\ report' = None /\ config' \in {None, Garbled}
        /\ UNCHANGED <<platform, world, wizard, faults, missed>>
    BY <1>4 DEF EditByHand
  <2>2. IInv'
    BY <2>1, FileChanges
  <2>3. EditorFits'
    BY <2>1 DEF EditorFits
  <2>4. Restores /\ AppliesBoth /\ RemovesStopped /\ KeepsEdits
    BY <2>1, Quiet, KeptIsNotRemoved, SilentKeeps, ReportsAssumption DEF Reports, Outcomes
  <2>5. QED
    BY <2>2, <2>3, <2>4 DEF PInv
<1>5. QED
  BY <1>2, <1>3, <1>4 DEF PrefsNext

(* With the editor, what AutostartProofs shows of the service holds still,   *)
(* and the file is what an open editor takes for saved or just wrote.        *)
THEOREM PInvHolds == PrefsSpec => []PInv
<1>1. PrefsInit => PInv
  BY InitIsTyped DEF PrefsInit, PInv, EditorFits
<1>2. ASSUME PInv, UNCHANGED prefsVars
      PROVE  PInv'
  <2>1. UNCHANGED vars /\ editor' = editor /\ command' = command /\ config' = config
    BY <1>2 DEF prefsVars, vars
  <2>2. IInv' /\ EditorFits'
    BY <1>2, <2>1, StutterKeeps DEF PInv, EditorFits, Settled, Editor!Loaded
  <2>3. QED
    BY <2>2 DEF PInv
<1>3. PInv /\ [PrefsNext]_prefsVars => PInv'
  BY <1>2, PrefsSteps
<1>4. QED
  BY <1>1, <1>3, PTL DEF PrefsSpec

(* Every variable has its type, the editor's too.                            *)
THEOREM PrefsTypeCorrect == PrefsSpec => []PrefsTypeOK
<1>1. PInv => PrefsTypeOK
  BY DEF PInv, IInv, EditorFits, PrefsTypeOK
<1>2. QED
  BY PInvHolds, <1>1, PTL

(* Leaving the settings editor loses no edit: what was saved, or closed with *)
(* no save in flight, is what opening it again shows (settingsSaveResultMsg).*)
THEOREM EditsAreKept == PrefsSpec => QuitKeepsEdits
<1>1. PInv /\ [PrefsNext]_prefsVars => [KeepsEdits]_prefsVars
  BY PrefsSteps
<1>2. QED
  BY PInvHolds, <1>1, PTL DEF PrefsSpec, QuitKeepsEdits

(* With the editor and edits by hand between the commands, a rollback that   *)
(* reports nothing still left the service as it found it, setup applied both *)
(* the document and autostart or neither, and nothing was orphaned, with the *)
(* same exceptions: no claim is made of a command misled by a failed query.  *)
THEOREM ServiceIsKept == PrefsSpec => RollbackRestores /\ SetupIsAtomic /\ NothingIsOrphaned
<1>1. ASSUME PInv, [PrefsNext]_prefsVars
      PROVE  [Restores]_vars /\ [AppliesBoth]_vars /\ [RemovesStopped]_vars
  BY <1>1, PrefsSteps DEF prefsVars
<1>2. QED
  BY PInvHolds, <1>1, PTL DEF PrefsSpec, RollbackRestores, SetupIsAtomic, NothingIsOrphaned
=============================================================================
