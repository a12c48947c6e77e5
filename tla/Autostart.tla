------------------------------ MODULE Autostart ------------------------------
(***************************************************************************)
(* The login service of internal/service and the commands that drive it    *)
(* (cmd/termp: autostart install, uninstall, disable, enable, uninstall    *)
(* --all, and what Apply does in the setup wizard).                        *)
(*                                                                         *)
(* An installation of termp is named by its executable.  The definition    *)
(* under the service's path (systemd unit, launchd plist, scheduled task)  *)
(* is named by the executable it runs, or is Garbled.  Every command of    *)
(* the service manager is a sequence of effects: when it fails it may have *)
(* had any of them.  One command runs at a time, and the service changes   *)
(* by itself only between commands; a command may be interrupted anywhere. *)
(***************************************************************************)
EXTENDS Naturals, Sequences

CONSTANTS
    Platforms,      \* subset of {"linux", "darwin", "windows"}
    Exes,           \* the executables of the installations
    None, Garbled,
    Values,         \* what a configuration holds besides start_at_login
    Default,        \* config.Default
    MaxFaults       \* bound on the failures during one command

ASSUME PlatformsAssumption == Platforms \subseteq {"linux", "darwin", "windows"}
ASSUME ValuesAssumption ==
    /\ Default \in Values
    /\ None # Garbled /\ {None, Garbled} \cap (Exes \cup Values) = {}
ASSUME MaxFaultsAssumption == MaxFaults \in Nat

VARIABLES
    platform,   \* never changes
    world,      \* the definition and what the service manager made of it
    config,     \* the configuration file: a document, None or Garbled
    wizard,     \* the document an open setup wizard was loaded with, unless it applies
    command,    \* the command under way
    faults,     \* failures during it
    missed,     \* during it, a task that is there was taken for absent
    report      \* how its last operation, or the command itself, just ended

vars == <<platform, world, config, wizard, command, faults, missed, report>>

Documents == [login : BOOLEAN, value : Values]
ASSUME DocumentsAssumption == {None, Garbled} \cap Documents = {}

\* How an operation, or a command, ends.
Outcomes == {"done", "absent", "failed", "refused", "restored", "unrestored"}
Reports == Outcomes \cup {"applied", "undone", "incomplete", "stopped", "removed", "interrupted"}
ASSUME ReportsAssumption == None \notin Reports

Worlds == [definition : Exes \cup {None, Garbled},
           unit : Exes \cup {None, Garbled},    \* as loaded by the manager
           login : BOOLEAN,                     \* started at login
           proc : Exes \cup {None},             \* the daemon it runs
           waiting : BOOLEAN]                   \* that daemon died and is due again

Linux == platform = "linux"
Darwin == platform = "darwin"
Windows == platform = "windows"

Running(w) == w.proc # None /\ ~w.waiting

-----------------------------------------------------------------------------
(* The service managers.                                                     *)

Succeeds(w) == {[ok |-> TRUE, world |-> w, faults |-> 0, missed |-> FALSE]}

\* A command that can succeed has all its effects, or fails after any of them.
Attempt(possible, effects) ==
    {[ok |-> FALSE, world |-> effects[i], faults |-> IF possible THEN 1 ELSE 0,
      missed |-> FALSE] : i \in DOMAIN effects}
    \cup IF possible THEN Succeeds(effects[Len(effects)]) ELSE {}

\* A command whose failure is followed by another one.
OrElse(first, Second(_)) ==
    {r \in first : r.ok}
    \cup UNION {{[s EXCEPT !.faults = @ + r.faults] : s \in Second(r.world)} :
                r \in {r \in first : ~r.ok}}

LoginOn(w) == [w EXCEPT !.login = TRUE]
LoginOff(w) == [w EXCEPT !.login = FALSE]
Started(w) == IF Running(w) THEN w ELSE [w EXCEPT !.proc = w.unit, !.waiting = FALSE]
Halted(w) == [w EXCEPT !.proc = None, !.waiting = FALSE]
Unloaded(w) == [Halted(w) EXCEPT !.unit = None]
Loaded(w) == IF w.unit # None THEN w
             ELSE [w EXCEPT !.unit = w.definition, !.proc = w.definition, !.waiting = FALSE]
Registered(w, definition, login) ==
    [w EXCEPT !.definition = definition, !.unit = definition, !.login = login]

\* systemctl --user daemon-reload, enable, enable --now, start, disable --now.
SystemdReload(w) == Attempt(TRUE, <<w, [w EXCEPT !.unit = w.definition]>>)
SystemdEnable(w) == Attempt(TRUE, <<w, LoginOn(w)>>)
SystemdEnableNow(w) ==
    Attempt(w.unit \in Exes, IF w.unit \in Exes THEN <<w, LoginOn(w), Started(LoginOn(w))>>
                             ELSE <<w, LoginOn(w)>>)
SystemdStart(w) == Attempt(w.unit \in Exes, IF w.unit \in Exes THEN <<w, Started(w)>> ELSE <<w>>)
SystemdDisableNow(w) == Attempt(TRUE, <<w, LoginOff(w), Halted(LoginOff(w))>>)

\* darwinService.load: bootstrap, which refuses a job that is loaded or was
\* disabled by unload -w, else load -w.
LaunchdLoad(w) ==
    LET LoadW(v) == IF v.definition \in Exes
                    THEN Attempt(TRUE, <<v, LoginOn(v), Loaded(LoginOn(v))>>)
                    ELSE Attempt(FALSE, <<v, LoginOn(v)>>)
    IN  OrElse(IF w.unit = None /\ w.login /\ w.definition \in Exes
               THEN Attempt(TRUE, <<w, Loaded(w)>>) ELSE Attempt(FALSE, <<w>>), LoadW)

\* darwinService.unload: bootout, else unload -w; "not loaded" is no failure.
LaunchdUnload(w) ==
    LET UnloadW(v) == IF v.unit = None THEN Succeeds(LoginOff(v))
                      ELSE Attempt(TRUE, <<v, LoginOff(v), Unloaded(LoginOff(v))>>)
    IN  IF w.unit = None THEN Succeeds(w)
        ELSE OrElse(Attempt(TRUE, <<w, Unloaded(w)>>), UnloadW)

\* schtasks /Create /F, /Delete, /Change and /End.  What a deleted task had started
\* runs on, and is not the next task's; but it is not started again.
TaskCreate(w, definition, login) ==
    Attempt(TRUE, <<w, Registered(IF w.definition = None THEN Halted(w) ELSE w, definition, login)>>)
TaskDelete(w) == Attempt(TRUE, <<w, Registered(IF Running(w) THEN w ELSE Halted(w), None, FALSE)>>)
TaskChange(w, login) == Attempt(TRUE, <<w, [w EXCEPT !.login = login]>>)
TaskEnd(w) == Attempt(TRUE, <<w, Halted(w)>>)

\* windowsService.taskExists: any failed query that did run says "absent".
TaskQuery(w) == {[absent |-> w.definition = None, faults |-> 0],
                 [absent |-> w.definition # None, faults |-> 1]}

\* A failure for a task that is then not found is no failure.
OrGone(results) ==
    {r \in results : r.ok}
    \cup UNION {{[r EXCEPT !.ok = q.absent, !.faults = @ + q.faults,
                           !.missed = q.absent /\ r.world.definition # None] :
                     q \in TaskQuery(r.world)} : r \in {r \in results : ~r.ok}}

\* A failure is no failure either when a query, which may fail too, shows that
\* the task runs, or that it does not.
Unless(results, Fine(_)) ==
    {[r EXCEPT !.ok = @ \/ Fine(r.world)] : r \in results}
    \cup {[r EXCEPT !.faults = @ + 1] : r \in {r \in results : ~r.ok}}

\* windowsService.runTask, and /End as rollbackInstall uses it.
TaskRun(w) == OrGone(Unless(Attempt(TRUE, <<w, Started(w)>>), Running))
TaskHalt(w) == Unless(TaskEnd(w), LAMBDA v : ~Running(v))

\* How the operations use them.
Launch(w) == IF Linux THEN SystemdEnableNow(w) ELSE IF Darwin THEN LaunchdLoad(w) ELSE TaskRun(w)
Stop(w) == IF Linux THEN SystemdDisableNow(w) ELSE IF Darwin THEN LaunchdUnload(w) ELSE TaskEnd(w)

\* os.WriteFile truncates before it writes; os.Remove is atomic.
WriteDefinition(w, definition) ==
    LET Partial == IF definition = None THEN {} ELSE {Garbled}
    IN  Succeeds([w EXCEPT !.definition = definition])
        \cup {[ok |-> FALSE, world |-> [w EXCEPT !.definition = d], faults |-> 1,
               missed |-> FALSE] : d \in {w.definition} \cup Partial}

-----------------------------------------------------------------------------
(* Status: who owns the definition, and what the manager says of it.  A      *)
(* definition that is foreign, or cannot be read, is reported as inactive;   *)
(* a task is also reported as absent when its query exits with an error.     *)

Known(b) == IF b THEN "on" ELSE "off"
NoReading == [installed |-> FALSE, foreign |-> FALSE, login |-> "off", active |-> "off"]

Readings(w, exe) ==
    LET foreign == w.definition \notin {None, exe}
        active == Known(IF Darwin THEN w.unit # None ELSE Running(w))
        answers == [installed : {w.definition = exe}, foreign : {FALSE},
                    login : {Known(w.login), "unknown"}, active : {active, "unknown"}]
        Unknowns(r) == (IF r.login = "unknown" THEN 1 ELSE 0)
                       + (IF r.active = "unknown" THEN 1 ELSE 0)
        blind == [NoReading EXCEPT !.foreign = TRUE]
    IN  (IF foreign THEN {[reading |-> blind, faults |-> 0]}
         ELSE {[reading |-> r, faults |-> Unknowns(r)] : r \in answers})
        \cup (IF w.definition # None \/ Windows THEN {[reading |-> blind, faults |-> 1]} ELSE {})
        \cup (IF w.definition # None /\ Windows THEN {[reading |-> NoReading, faults |-> 1]} ELSE {})

\* Before it replaces a task it knows of, install also captures it and whether it runs.
Captures(w, r) ==
    IF ~Windows \/ (~r.reading.installed /\ ~r.reading.foreign) THEN {r}
    ELSE {[r EXCEPT !.reading.active = "unknown", !.faults = @ + IF w.definition = None THEN 0 ELSE 1]}
         \cup IF w.definition = None THEN {}
              ELSE {[r EXCEPT !.reading.active = Known(Running(w))]}

\* Mutant of SaysInstalled: an autostart that was disabled does not count.
SaysEnabled(reading) == reading.installed /\ reading.login = "on"

\* A status that cannot be read says "not installed".
SaysInstalled(reading) == reading.installed
Misread(w, exe, reading) == w.definition = exe /\ reading.foreign
Misses(w, reading) == w.definition # None /\ ~reading.installed /\ ~reading.foreign

-----------------------------------------------------------------------------
(* A command: what it does, the step it is at, what it found and noted.      *)

Begun(caller, op, exe, force, step) ==
    [caller |-> caller, op |-> op, exe |-> exe, force |-> force, launch |-> TRUE, step |-> step,
     found |-> world, reading |-> NoReading, activated |-> FALSE, halted |-> TRUE,
     incomplete |-> FALSE, present |-> FALSE,
     misread |-> FALSE, original |-> None, desired |-> None]

At(step) == command # None /\ command.step = step
Set(c) == command' = c /\ report' = None
To(step) == Set([command EXCEPT !.step = step])
Ends(outcome) == command' = None /\ report' = outcome

\* What follows an operation: the command line stops the daemon after removing
\* or disabling autostart, setup undoes what failed, uninstall --all goes on.
Finish(outcome) ==
    LET succeeded == outcome \in {"done", "absent"}
        failed(step) == command' = [command EXCEPT !.step = step,
                                                   !.incomplete = @ \/ outcome = "unrestored"]
                        /\ report' = outcome
    IN  CASE command.caller = "cli" /\ succeeded /\ command.op \in {"uninstall", "disable"} -> To("stop")
          [] command.caller = "all" /\ succeeded -> To("stopAgain")
          [] command.caller = "setup" /\ succeeded -> Ends("applied")
          [] command.caller = "setup" /\ ~succeeded -> failed("compensate")
          [] command.caller = "compensation" ->
               Set([command EXCEPT !.step = "unsave", !.incomplete = @ \/ ~succeeded])
          [] OTHER -> Ends(outcome)

Fault(n) == faults + n <= MaxFaults /\ faults' = faults + n

\* The step's external command, what it does to the world, and what follows.
Try(results, Then(_)) ==
    \E r \in results :
        /\ Fault(r.faults) /\ world' = r.world /\ missed' = (missed \/ r.missed) /\ Then(r)
        /\ UNCHANGED <<platform, config, wizard>>

-----------------------------------------------------------------------------
(* Manager.Install, Uninstall, Disable and Enable.                           *)

FirstStep(op) ==
    CASE op = "install" -> IF Darwin /\ command.launch THEN "unload" ELSE "write"
      [] op = "uninstall" \/ (op = "disable" /\ ~Windows) -> "halt"
      [] op = "enable" /\ ~Windows -> "activate"
      [] OTHER -> "change"

CheckStatus ==
    /\ At("status")
    /\ \E s \in Readings(world, command.exe) :
         \E r \in IF command.op = "install" /\ command.launch THEN Captures(world, s) ELSE {s} :
           /\ Fault(r.faults) /\ missed' = (missed \/ Misses(world, r.reading))
           /\ IF r.reading.foreign /\ ~command.force THEN Finish("refused")
              ELSE IF command.op # "install" /\ ~r.reading.installed /\ ~r.reading.foreign
              THEN Finish("absent")
              ELSE Set([command EXCEPT !.reading = r.reading, !.step = FirstStep(command.op)])
    /\ UNCHANGED <<platform, world, config, wizard>>

Unload ==
    At("unload") /\ Try(LaunchdUnload(world),
                        LAMBDA r : IF r.ok THEN To("write") ELSE Finish("failed"))

\* Without launch (InstallDefinition) launchd is left alone and no task is run.
Write ==
    /\ At("write")
    /\ Try(IF Windows THEN TaskCreate(world, command.exe, TRUE)
                      ELSE WriteDefinition(world, command.exe),
           LAMBDA r : IF ~r.ok THEN Finish("failed")
                      ELSE IF Linux THEN To("reload")
                      ELSE IF command.launch THEN To("activate") ELSE Finish("done"))

Reload ==
    /\ At("reload")
    /\ Try(SystemdReload(world),
           LAMBDA r : IF command.op = "uninstall" THEN Finish(IF r.ok THEN "done" ELSE "failed")
                      ELSE IF r.ok THEN To("activate") ELSE To("undoWrite"))

Activate ==
    /\ At("activate")
    /\ Try(IF command.launch THEN Launch(world) ELSE SystemdEnable(world),
           LAMBDA r : IF r.ok THEN Finish("done")
                      ELSE IF command.op = "install"
                      THEN Set([command EXCEPT !.step = "undoHalt", !.activated = TRUE])
                      ELSE Finish("failed"))

\* Mutant of Halt: what could not be stopped is removed all the same.
HaltBestEffort ==
    /\ At("halt")
    /\ Try(Stop(world), LAMBDA r : IF command.op = "uninstall" THEN To("remove") ELSE Finish("done"))

\* Removing takes systemd's "unit not loaded" for done.
Halt ==
    /\ At("halt")
    /\ Try(Stop(world) \cup (IF Linux /\ command.op = "uninstall" /\ Unloaded(world) = world
                             THEN Succeeds(world) ELSE {}),
           LAMBDA r : IF ~r.ok THEN Finish("failed")
                      ELSE IF command.op = "uninstall" THEN To("remove") ELSE Finish("done"))

\* A task that turns out to be absent is disabled, or enabled, at once.
Change ==
    /\ At("change")
    /\ Try(OrGone(TaskChange(world, command.op = "enable")),
           LAMBDA r : IF ~r.ok THEN Finish("failed")
                      ELSE IF r.missed THEN Finish("done")
                      ELSE To(IF command.op = "enable" THEN "activate" ELSE "halt"))

Remove ==
    /\ At("remove")
    /\ Try(IF Windows THEN OrGone(TaskDelete(world)) ELSE WriteDefinition(world, None),
           LAMBDA r : IF ~r.ok THEN Finish("failed")
                      ELSE IF Linux THEN To("reload") ELSE Finish("done"))

-----------------------------------------------------------------------------
(* rollbackInstall: stop what was installed, put the definition back, then   *)
(* bring back what was positively known of it.                               *)

\* hadTask is what Status said; on Unix the file was read.
Had == IF Windows THEN command.reading.installed \/ command.reading.foreign
       ELSE command.found.definition # None
WasOn(aspect) == command.reading[aspect] = "on"

\* Mutant of UndoTo: the errors of the rollback are dropped.
UndoToSilently(step, incomplete) ==
    IF step = "end" THEN Finish("restored") ELSE To(step)

UndoTo(step, incomplete) ==
    IF step = "end" THEN Finish(IF incomplete THEN "unrestored" ELSE "restored")
    ELSE Set([command EXCEPT !.step = step, !.incomplete = incomplete])

UndoHalt ==
    /\ At("undoHalt")
    /\ IF Windows /\ Had /\ command.reading.active = "unknown"
       THEN Finish("unrestored") /\ UNCHANGED <<platform, world, config, wizard, faults, missed>>
       ELSE Try(IF Windows THEN TaskHalt(world) ELSE Stop(world),
                LAMBDA r : Set([command EXCEPT !.step = "undoWrite", !.halted = r.ok,
                                               !.incomplete = ~r.ok]))

AfterUndoWrite(ok) ==
    LET incomplete == command.incomplete \/ ~ok
                      \/ (Darwin /\ Had /\ command.reading.active = "unknown")
        step == CASE Linux /\ ok -> "undoReload"
                  [] Darwin /\ ok /\ command.halted /\ Had /\ WasOn("active") -> "undoStart"
                  [] Windows /\ ~incomplete /\ Had /\ WasOn("active") -> "undoStart"
                  [] OTHER -> "end"
    IN  UndoTo(step, incomplete)

\* launchd's job that would not stop keeps its definition for a retry.
UndoWrite ==
    /\ At("undoWrite")
    /\ IF Darwin /\ ~command.halted /\ ~Had
       THEN Finish("unrestored") /\ UNCHANGED <<platform, world, config, wizard, faults, missed>>
       ELSE Try(IF ~Windows THEN WriteDefinition(world, command.found.definition)
                ELSE IF Had THEN TaskCreate(world, command.found.definition, command.found.login)
                ELSE TaskDelete(world),
                LAMBDA r : AfterUndoWrite(r.ok))

AfterUndoEnable == IF WasOn("active") THEN "undoStart" ELSE "end"

UndoReload ==
    /\ At("undoReload")
    /\ Try(SystemdReload(world),
           LAMBDA r : LET touched == command.activated /\ Had
                          unknown == touched /\ "unknown" \in {command.reading.login, command.reading.active}
                      IN  UndoTo(IF ~touched \/ ~r.ok \/ ~command.halted THEN "end"
                                 ELSE IF WasOn("login") THEN "undoEnable" ELSE AfterUndoEnable,
                                 command.incomplete \/ ~r.ok \/ unknown))

UndoEnable ==
    At("undoEnable") /\ Try(SystemdEnable(world),
                            LAMBDA r : UndoTo(AfterUndoEnable, command.incomplete \/ ~r.ok))

UndoStart ==
    /\ At("undoStart")
    /\ Try(IF Linux THEN SystemdStart(world) ELSE Launch(world),
           LAMBDA r : UndoTo("end", command.incomplete \/ ~r.ok))

-----------------------------------------------------------------------------
(* The commands.                                                             *)

Idle == command = None
Starts(c) == command' = c /\ report' = None /\ faults' = 0 /\ missed' = FALSE

RunAutostart(op, exe, force) ==
    /\ Idle /\ (force => op \in {"install", "uninstall"})
    /\ Starts(Begun("cli", op, exe, force, "status"))
    /\ UNCHANGED <<platform, world, config, wizard>>

RunUninstallAll(exe, force) ==
    /\ Idle
    /\ Starts(Begun("all", "uninstall", exe, force, "stopFirst"))
    /\ UNCHANGED <<platform, world, config, wizard>>

\* A daemon that exits on its signal is relaunched by launchd's KeepAlive only.
StopDaemon ==
    /\ \E step \in {"stop", "stopFirst", "stopAgain"} : At(step)
    /\ LET killed == IF Darwin /\ world.unit # None /\ world.proc # None
                     THEN [world EXCEPT !.waiting = TRUE] ELSE Halted(world)
       IN  Try(Attempt(TRUE, <<world, killed>>),
               LAMBDA r : IF ~r.ok THEN Ends("failed")
                          ELSE CASE At("stopFirst") -> To("status")
                                 [] At("stopAgain") -> To("files")
                                 [] OTHER -> Ends("stopped"))

RemoveFiles ==
    /\ At("files")
    /\ \/ config' = None /\ Ends("removed") /\ UNCHANGED faults
       \/ Fault(1) /\ Ends("failed") /\ UNCHANGED config
    /\ UNCHANGED <<platform, world, wizard, missed>>

OpenWizard ==
    /\ Idle /\ wizard = None /\ config # Garbled
    /\ wizard' = IF config = None THEN [login |-> TRUE, value |-> Default] ELSE config
    /\ report' = None
    /\ UNCHANGED <<platform, world, config, command, faults, missed>>

CloseWizard ==
    /\ Idle /\ wizard # None
    /\ wizard' = None /\ report' = None
    /\ UNCHANGED <<platform, world, config, command, faults, missed>>

\* applySetup.  When a daemon is known, the service's or another, a second one
\* is not launched.
Apply(exe, desired) ==
    /\ Idle /\ wizard # None
    /\ \E s \in Readings(world, exe), known \in {Running(world), TRUE} :
         \E present \in {SaysInstalled(s.reading)} :
           /\ s.faults <= MaxFaults /\ faults' = s.faults /\ missed' = Misses(world, s.reading)
           /\ command' = [Begun("setup", IF desired.login THEN "install"
                                         ELSE IF present THEN "uninstall" ELSE "none",
                                exe, FALSE, "save")
                          EXCEPT !.original = wizard, !.desired = desired, !.present = present,
                                 !.misread = Misread(world, exe, s.reading),
                                 !.launch = ~desired.login \/ ~known]
    /\ wizard' = None /\ report' = None
    /\ UNCHANGED <<platform, world, config>>

\* config.Save replaces the file or leaves it alone.
Save ==
    /\ At("save")
    /\ \/ /\ config' = command.desired /\ UNCHANGED faults
          /\ IF command.op = "none" THEN Ends("applied") ELSE To("status")
          /\ UNCHANGED wizard
       \/ Fault(1) /\ Ends("failed") /\ wizard' = command.original /\ UNCHANGED config
    /\ UNCHANGED <<platform, world, missed>>

Compensate ==
    /\ At("compensate")
    /\ \E s \in Readings(world, command.exe) :
         /\ Fault(s.faults) /\ missed' = (missed \/ Misses(world, s.reading))
         /\ IF command.op = "install" /\ ~command.present /\ SaysInstalled(s.reading)
            THEN Set([command EXCEPT !.caller = "compensation", !.op = "uninstall", !.step = "status"])
            ELSE Set([command EXCEPT !.step = "unsave",
                                     !.misread = @ \/ Misread(world, command.exe, s.reading)])
    /\ UNCHANGED <<platform, world, config, wizard>>

Unsave ==
    /\ At("unsave")
    /\ \/ /\ config' = command.original /\ UNCHANGED faults
          /\ Ends(IF command.incomplete THEN "incomplete" ELSE "undone")
       \/ Fault(1) /\ Ends("incomplete") /\ UNCHANGED config
    /\ wizard' = command.original
    /\ UNCHANGED <<platform, world, missed>>

Interrupt ==
    /\ ~Idle /\ Ends("interrupted")
    /\ UNCHANGED <<platform, world, config, wizard, faults, missed>>

-----------------------------------------------------------------------------
(* The service between commands.                                             *)

Service(w) == Idle /\ world' = w /\ report' = None
              /\ UNCHANGED <<platform, config, wizard, command, faults, missed>>

Crash == Running(world) /\ Service([world EXCEPT !.waiting = TRUE])
Relaunch == world.waiting /\ Service(IF world.unit \in Exes THEN Started(world) ELSE Halted(world))
Login ==
    LET unit == IF Darwin /\ ~world.login THEN None ELSE world.definition
        proc == IF world.login /\ world.definition \in Exes THEN world.definition ELSE None
    IN  Service([world EXCEPT !.unit = unit, !.proc = proc, !.waiting = FALSE])

-----------------------------------------------------------------------------
Init ==
    /\ platform \in Platforms
    /\ world = [definition |-> None, unit |-> None, login |-> Darwin, proc |-> None,
                waiting |-> FALSE]
    /\ config = None /\ wizard = None /\ command = None /\ report = None
    /\ faults = 0 /\ missed = FALSE

Operate == CheckStatus \/ Unload \/ Write \/ Reload \/ Activate \/ Halt \/ Change \/ Remove
Rollback == UndoHalt \/ UndoWrite \/ UndoReload \/ UndoEnable \/ UndoStart
Run ==
    \/ \E op \in {"install", "uninstall", "disable", "enable"}, exe \in Exes, force \in BOOLEAN :
         RunAutostart(op, exe, force)
    \/ \E exe \in Exes, force \in BOOLEAN : RunUninstallAll(exe, force)
    \/ StopDaemon \/ RemoveFiles
Setup ==
    \/ OpenWizard \/ CloseWizard \/ Save \/ Compensate \/ Unsave
    \/ \E exe \in Exes, desired \in Documents : Apply(exe, desired)
Environment == Crash \/ Relaunch \/ Login

Next == Operate \/ Rollback \/ Run \/ Setup \/ Interrupt \/ Environment
Spec == Init /\ [][Next]_vars

-----------------------------------------------------------------------------
Aspects == {"on", "off", "unknown"}
Statuses == [installed : BOOLEAN, foreign : BOOLEAN, login : Aspects, active : Aspects]
Steps == {"status", "unload", "write", "reload", "activate", "halt", "change", "remove",
          "undoHalt", "undoWrite", "undoReload", "undoEnable", "undoStart",
          "stop", "stopFirst", "stopAgain", "files", "save", "compensate", "unsave"}
Commands ==
    [caller : {"cli", "all", "setup", "compensation"},
     op : {"install", "uninstall", "disable", "enable", "none"},
     exe : Exes, force : BOOLEAN, launch : BOOLEAN, step : Steps,
     found : Worlds, reading : Statuses, activated : BOOLEAN, halted : BOOLEAN,
     incomplete : BOOLEAN, present : BOOLEAN, misread : BOOLEAN,
     original : Documents \cup {None}, desired : Documents \cup {None}]

(* Every variable has its type. *)
TypeOK ==
    /\ platform \in Platforms /\ world \in Worlds
    /\ config \in Documents \cup {None, Garbled} /\ wizard \in Documents \cup {None}
    /\ faults \in 0..MaxFaults /\ missed \in BOOLEAN /\ command \in Commands \cup {None}

(* An install that fails and reports nothing of its rollback left the service *)
(* as it found it (rollbackInstall, restoreDefinition): the definition, what  *)
(* starts at login and what runs.  Left out: a daemon that was waiting to be  *)
(* relaunched, and on Unix a definition taken over by force, whose state      *)
(* Status does not read; launchd's disabled override; a loaded job that was   *)
(* not running, which loading starts; and a task that a failed query made     *)
(* look absent (taskExists), which the rollback deletes without a report.     *)
Restores ==
    report' = "restored" /\ ~missed' =>
        LET found == command.found
            read == found.definition = None \/ ~command.reading.foreign \/ Windows
        IN  /\ world'.definition = found.definition
            /\ read /\ ~found.waiting =>
                 /\ found.definition # None /\ ~Darwin => world'.login = found.login
                 /\ Running(found) /\ found.definition # None => Running(world')
                 /\ Running(world') => Running(found) \/ (Darwin /\ found.unit # None)
RollbackRestores == [][Restores]_vars

(* Setup applies both the document and autostart, or neither: a failure it    *)
(* undid without a further one leaves the document it was opened with and the *)
(* definition that was absent absent, or half-written.  Left out: a definition*)
(* Status could not read, which setup takes for not installed, and a task     *)
(* that a failed query made look absent (taskExists).                         *)
AppliesBoth ==
    /\ report' = "applied" =>
         /\ config' = command.desired
         /\ command.desired.login => world'.definition = command.exe
         /\ ~command.desired.login /\ ~command.misread /\ ~missed' =>
              world'.definition # command.exe
    /\ report' = "undone" /\ ~command.misread =>
         /\ config' = command.original
         /\ command.present \/ missed' \/ world'.definition \in {command.found.definition, Garbled}
SetupIsAtomic == [][AppliesBoth]_vars

(* The definition is removed only when nothing it started runs any more, and  *)
(* a rollback that has to remove it all the same reports so (Uninstall's "a   *)
(* task definition can be deleted while an instance keeps running").  A       *)
(* daemon left by an earlier, reported failure may outlive a definition that  *)
(* was never activated.                                                       *)
RemovesStopped ==
    world.definition # None /\ world'.definition = None =>
        \/ world'.proc = None \/ command.incomplete
        \/ command.op = "install" /\ ~command.activated
NothingIsOrphaned == [][RemovesStopped]_vars
=============================================================================
