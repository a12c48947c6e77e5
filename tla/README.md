# Formal models of termp

termp is a daemon that shows, as Discord Rich Presence, which AI coding tools
run in the user's terminals. This directory holds TLA+ models of the daemon, of
the commands around it and of the decisions they share, the TLC runs that check
them on small instances, and theorems that TLAPS proves for every instance. Paths
are relative to the repository (`src/` in `PROJECT.json`). Part 1 is the inventory
of the system, part 2 what is modelled, checked and proved, part 3 the plan for the
rest.

## 1. The system

### 1.1 Components, their state, operations and correctness

| component | state | operations | what makes it correct |
|---|---|---|---|
| Presence writer, `internal/presence/writer.go` | desired activity, refused payload, three timers, backoff index, reported flags | one select loop: new activity, clear, timer cases, requested reconnect, stop | a wanted activity always has something that will push it; nothing stays shown after a clear; writes are spaced; a refused payload is not resent; status told to others is true |
| Discord client, `client.go`, `conn_*.go` | the IPC connection | Login, SetActivity, Logout | a failure that broke the connection closes it |
| Activity builder, `activity.go` | none | detection and config to activity | nothing disabled is named |
| Detector loop, `internal/detector/detector.go` (`run`) | last emission, debounce candidate and streak, failure count | scan, emit, reconfigure, save and stop | changes are debounced, never lost; a blind detector clears; no deadlock with its consumer |
| Selector, same file | featured session, idle timers, CPU history | select from a scan | idle and switching decisions are stable |
| Episode store, `episode.go` | episodes per process identity, file | observe, resume, end, cap, load, save | elapsed time survives restarts; a corrupt file is not overwritten |
| Config manager, `internal/config/manager.go` | last good configuration, last error, pending loosening and its timer, result channel, closed flag | construct, reload, retry, watch, close | never acts on a half-written file in a way that publishes more; never misses the finished file; shutdown resolves nothing |
| Config document, `config.go` | none (file) | settle, decode, validate, resolve, save | a settled read is what the file held; defaults fail closed |
| Daemon, `cmd/termp/main.go` (`run`) | applied config, last detection, unsaved usage | translate detections and reloads to activities, order the shutdown | reloads reach what is published; the saves of usage and episodes are in order and run before exit |
| State publisher, `main.go` | state file | write periodically and on change | readers see fresh, true state |
| PID file and stop, `main.go`, `pidfile_*.go` | PID file, locks | publish, replace stale, remove own, stop | one daemon; nobody removes another's record |
| Detached start, `spawn.go` | none | spawn, confirm, watch stability | success is reported only for a stable owner |
| Connect control, `connect.go`, `control*.go` | socket | ask the daemon to reconnect | the answer is true |
| Usage store, `internal/usage` | totals, file | record, throttled and forced save | no lost update between the two saves |
| Update checker, `internal/update`, `cmd/termp/update.go` | cache, cache lock, attempt record | check, cache, lock, install once | one holder of the lock; newest result wins |
| Service managers, `internal/service` | service definition | install, uninstall, roll back | a failed install restores what was there |
| Log rotation, `log_rotation.go` | generations | write, rotate | no record or generation lost |
| Settings editor and setup wizard, `internal/tui` | working copy, last saved copy, a save in flight, a dialog | edit, save, leave; setup with its compensation | leaving loses no edit; setup applies everything or nothing |
| Tool registry, `internal/registry`, `internal/detector` (matching) | none | identify, match, merge custom tools | an argument never makes a tool; the best match wins |
| What commands say: status, watch, connect, stop, `cmd/termp/main.go` | none | conclude from the PID and state files | no more is claimed than was established |
| Text of an activity, `internal/terminaltext`, `client.go` | none | sanitize, bound, validate, lay out | what is sent is valid and nothing is cut silently |
| Uninstall, argument parsing, completion, launcher | - | - | sequential, or pure text |

### 1.2 How they interact

- detector -> translator: a channel of capacity 1; the detector blocks when it is
  full, still listening to Reconfigure and cancellation.
- translator -> detector: `Reconfigure`, an unbuffered handshake.
- config manager -> translator: a channel of capacity 1 in which the newest result
  replaces an unread one.
- translator -> writer: an unbuffered channel of activities.
- `termp connect` -> writer: `Reconnect`, a request with an answer and a context.
- writer -> status: callbacks (`connectionState`, `publicationState`) the state
  publisher copies to a file.
- several processes share the PID file, the state files and the update cache.

### 1.3 What is hard

Select loops with several timers and early returns (lost wakeups); two bounded
channels and a handshake in a cycle (deadlock); a file other programs rewrite in
steps; a timer callback that cannot be stopped once it has fired; shutdown that
must finish while a scan hangs; the order of saves at exit; file records shared
between processes without a server. `PROJECT.json` lists each hazard at its line
with the properties that cover it, or a note saying why none does.

## 2. The models

### 2.1 Presence writer: `PresenceWriter`, `Publication`, `MCPresenceWriter`, `PresenceWriterProofs`

`PresenceWriter` has one action per case of the `RunActivities` select:
`Receive` (a new activity), `Clear` (nil), `RetryFires`, `WriteFires`,
`ReapplyFires`, `Reconnect` (with both branches of the requested reconnect) and
`Stop`. Each performs the whole case body, through `ApplyDesired`, whose three
outcomes are `Published`, `Refused` (permanent) and `Unreachable` (transient).
The variables are the loop's locals under their own names; `link`, `shown` and
`discord` stand for the connection, what Discord displays for it, and whether
Discord answers. A timer is `Off` or the time it has left; time advances by
`Tick`, and a timer at 0 may be served late. Callers of `Writer.Reconnect` are
`Requesters` with a phase and a context that may expire at any time.

Payloads are model values: the loop only compares them. The `Run` wrapper that
maps detections itself is unused by the daemon. A call into the client is one
step with its outcome: nothing but Discord can touch the state meanwhile, and a
loss of the link during the call is the transient outcome. `lastWrite` is read
after the answer, so elapsed call time is not looked at.

`Publication` is what the rest of the program may rely on: only wanted
activities appear, and clearing or stopping leaves nothing shown. The writer
implements it (`ImplementsPublication`) under `open <- running, wanted <-
desired, refusal <- reported`.

Run `presence_writer`: three payloads, one caller, backoff `<<1, 2, 4>>`,
throttle and reapply 3. Three payloads are needed for a refused, a shown and a
newer one; the backoff starts below the throttle and outgrows it, as in the
daemon (2 s growing past the 15 s of throttle and reapply). It checks

- `NoLostWakeup`, `DisplayIsCurrent`, `ReportedRefusalIsLive`,
  `BackoffIsExclusive` (invariants), `RefusalSticks`, `WritesAreSpaced`,
  `ReconnectDelivers` (action properties), the refinement, and
- `WantedIsEventuallyShown`: if Discord stays up, again and again the wanted
  activity is shown, refused or none.

Run `dead_link` (violation): after a permanent refusal every timer is stopped
while the connection is kept; when Discord then quits, nothing probes the link,
and the state publisher repeats `connected` with a fresh time stamp, against the
statement of `docs/context/cli.md:85`.

Fairness: weak for `Tick` (time passes), strong for the timer cases and the
requested reconnect, because Go's select chooses at random among ready cases and
so passes none over for ever. Nothing is assumed of Discord, of the producer of
activities or of when a caller gives up.

### 2.2 Detector loop and daemon: `DetectorLoop`, `Daemon`, `MCDaemon`, `DaemonProofs`

`DetectorLoop` models `Detector.run`: a scan in progress (`ListSucceeds`,
`ListFails`), the debounce, the blocked send (`Emit`), the ticker,
`ApplyReconfigure` and `DetectorStops` wherever the loop can block, and the
deferred save of the episodes before the channel closes (`episodesSaved`: it has run,
which it may do and fail, or after a failed load do nothing). A detection is the set
of enabled tools seen (`Sessions` has the selection), `{}` is None. A call to
`listProcesses` may never return. Streak and failure counters saturate at their
thresholds, which is all the code compares them with.

`Daemon` extends it with the translator (`ReceiveDetection`, `SaveUsage`,
`ReceiveDisplayReload`, `ReceiveDetectorReload`, `ReconfigureReturns`,
`ReconfigureCancelled`, `TranslatorStops`), the manager's channel
(`EditIsAccepted`, `ReloadFails`), the hand-over to the writer (`WriterTakes`)
and the shutdown of the main goroutine (wait for the translator, forced usage
save, drain and wait for the detector with a time-out, exit). Either usage save may
fail or be skipped, as `saveUsage` may; what the forced one could not write is lost
(`usage`).

Run `daemon` goes through three contents, a display-only edit and one that also
disables a tool, and cancels at any point or never:

- `UsageSavesAreOrdered`: the two usage saves never overlap, and no usage is
  recorded behind the forced one (whether that one succeeds is not claimed);
  `EpisodesAreSavedAtExit`: the deferred episode save has run, unless the wait was
  given up;
  `BlindDetectorClears`: a detector that cannot scan clears;
- `CancelledDaemonExits`, even if a scan hangs for ever;
- `ReloadIsApplied`: the channel/handshake cycle swallows no reload, and
  `PublishedCatchesUp`: when things are quiet, the writer holds what the applied
  configuration makes of the tools that run. Both have their condition in the
  formula: scans return (`ScansReturn`), and, for the second, neither fail nor
  find changes any more (`Quiet`).

Two tools and debounce and failure thresholds of two are the least at which a
change can be interrupted between two scans; longer streaks repeat the same step.

Violation runs, on the same instance under `RunningSpec`, in which only the steps
of `Run` happen (nobody stops the daemon) and every scan returns:

- `forced_scan`: when the scan forced by `Reconfigure` fails, `forceEmit` is
  forgotten and the next scans find nothing changed, against the comment at
  `detector.go:173`.
- `last_good`: a failed reload replaces an unread accepted one in the channel,
  and the translator only logs it; the accepted configuration is then not the one
  applied, against `docs/product/architecture.md:61` and `docs/context/config.md:209`.

Fairness: goroutines run (weak); a select case is not passed over for ever
(strong); nothing obliges a scan to return, an edit or a cancellation to happen.

### 2.3 Config manager: `ConfigManager`, `MCConfigManager`, `ConfigManagerProofs`

The file is `Missing` or a sequence of the lines that matter (`on`, `off`,
`optout`, `private`, `torn`, `invalid`); a save is a sequence of contents written one by one,
and its writer may stop anywhere. A reload takes `reloadMu` (`BeginReload`, by the
start, the watcher, the retry or a watch installed late), polls (`Poll`, one read
per step, with the rules for provisional contents) until it settles or gives up,
and commits (`Commit`: re-check of `closed`, failure or `Accept`). `Accept` takes
the configuration or holds a loosening one back (`HoldBack`) with its timer;
`RetryFires`, `CallbackReloads`, `CallbackGivesUp` and `CallbackLeaves` are the life
of the callback, which `Close` can stop only before it fires. `Publish` is the
coalescing channel. The start is `StartReloads`, `Drain`, `StartFromCurrent`; the
watch may fail at first and recover (`InstallWatch`, `RecoverWatch`,
`RecoveryReloads`).

Settings are reduced to the three whose treatment differs: the enabled key with its
explicit/defaulted distinction, the opt-out of one tool, and an override that
withholds another tool's name, which stands for the other privacy dimensions.
That this reduction decides as the whole configuration does is checked, not
assumed: `GuardsAgree` compares `PermissivenessLoosened` of `ConfigManager` with
that of `Publishing` (2.9) on all pairs. A content with
`invalid` also stands for an unreadable file: both are errors and neither is
provisional. Contents are compared as written, so a rewrite of equal bytes is no
change, as in the code.

Run `config_manager`: two saves among truncate-and-append, unlink-and-recreate
with a torn line, and replace by an invalid file or by one that withholds a name, from no file or an opted-out one,
horizon 2 and 2 settle attempts, up to and after Close.

- `LooseningIsWitnessed`: a configuration that publishes more than the previous one
  without saying so explicitly is taken only if all settled reads for the whole
  horizon saw it. `Discloses` is an independent, direct definition of what the
  code decides through `Resolve`. (Reads are samples: a content that comes and goes
  between two reads is not seen; `docs/context/config.md` says so.)
- `ConsumerIsCurrent`: with nothing left to read the consumer holds the manager's
  configuration, coalescing and the discarded startup result notwithstanding.
- `ClosedIsQuiet`, `ClosingResolvesNothing`: no commit, result or retry after Close.

A horizon of 2 lets a candidate be replaced halfway, two attempts separate the
provisional from the ordinary settling; two saves allow one to interrupt the
settling or horizon of the other.

Violation run `opt_out_held` (`DisablingIsPrompt`): a file that withheld a tool's
name by an override and now says `enabled = false` counts as a loosening, because
the guard forces `enabled` on in the previous configuration only and a disabled
one is resolved without its overrides. The daemon goes on publishing for the
horizon, against `docs/context/config.md:213`.

Run `config_live` (one save, smaller set): `ClosingEnds` (each WaitGroup entry is
given back exactly once, so `Close` returns) and `FileIsEventuallyApplied`: a file
left alone, by a writer that finished or one that stopped midway, is in the end
applied by manager and consumer, also when the watch failed at first.
Fairness: goroutines and time advance (weak), a waiter on `reloadMu` gets it (strong:
a Go mutex starves nobody), a failing watch is installed in the end. No writer has
to finish. It checks liveness only, so its instance is kept small; its safety
counterpart is `config_manager`.

### 2.4 PID file, start and stop: `DaemonLifecycle`, `MCDaemonLifecycle`, `DaemonLifecycleProofs`

Actors are processes (`Daemons`, each launched once) and runs of `termp stop`. Each
action is one system call or one decision on what was read: publishing by link
(`PublishRecord`), examining and removing a stale or unreadable record under its lock,
removing one's own record, the state file written by a running daemon, the polls
and the stability window of the detached start, and the stop command from reading
the two files over choosing, validating and signalling the processes to waiting and
cleaning up. A file is named by the process that wrote it, so two records of one
process id are told apart although the code cannot. Ids are reused (`PidOf`), a
process may crash anywhere, and a later look at a start time may fail (`Lookups`).

Run `daemon_lifecycle`: three processes, the first and the last with one id, the
last started detached, and one stop. A third process is what it takes for one to
clean up after a second while a first runs; the shared id is what makes identity
by id insufficient. The system may stop when every process has ended, so deadlock
is not checked.

- `RunningIsRecorded`: the path names the running daemon, whoever starts, stops or
  cleans up around it; so there is at most one, and nobody removes its record.
- `StopStops`: a stop that reports success left none of the daemons it began with
  running. `StartIsReal`: a start that reports success was of a child that
  published. `SignalsAreAimed`: only the process that was chosen is signalled.

The exception `Confused` is in the first two: a stop that found the state file of
an earlier process with the same id takes the two for one. `StartIsReal` admits
another: the child's id may be that of an earlier record. Both are narrow, and the
code does not exclude them; no document claims it does.

### 2.5 Updates: `Updates`, `Installations`, `MCUpdates`, `UpdatesProofs`

`Updates` models every process that looks for releases: the daemon's refresh with
its automatic install, passive checks by `status` and `version`, and `termp update`.
A check reads the cache without the lock, records under the lock that it asks,
asks, and stores the answer under the lock; the lock is a file that a dead holder
leaves behind and that others take over once stale, in two steps. The cache entry
keeps the record of the automatic attempt (`Decide`, `Install`, `Stamp`, `Retire`),
from which `status` derives its restart notice.

Run `updates`: two daemons in turn (interchangeable, hence the symmetry) and one
command over two releases, lifetime 1 and horizon 1.

- `LookupsAreRare`: one passive request per lifetime, all processes together.
- `AttemptIsKept`: a release check never loses the recorded attempt, whoever wrote
  in between.
- `NoticeIsTrue`: the restart notice appears only when the running daemon is older
  than what was installed.

Exceptions: once two processes took over the same stale lock (`forced`) two
processes are in the transaction at once and the run goes no further (`CONSTRAINT
Unforced`); and an install that ends after its daemon was stopped dates its attempt
late (`late`), so that a newer daemon is told to restart. `PrecedenceIsTotal` checks
that the order of versions is a strict total order on versions that differ in one
respect each.

`Installations` (2.9) has how an installation is recognised and replaced.

### 2.6 Selection and elapsed time: `Sessions`, `MCSessions`, `SessionsProofs`

One scan is one action: the detector's goroutine alone owns the state. It lists
processes, enriches them in several looks between which an id may pass to another
process (`Turns`), tells whose they are, corroborates input by CPU use, selects per
tool an instance (`SelectInstance`, with its confirmations) and a featured tool
(`Feature`, with the idle timeout and clear), and maintains the episodes from which
the elapsed time comes (`KeepEpisodes`: resume by identity, end by absence, cap,
save). Around it are starts and ends of processes, `StartDaemon`, `StopDaemon`,
`Crash` and `Reconfigure`.

Run `sessions`: two process ids that four sessions share in turn, one of another
user and one whose creation time cannot be read; three configurations; idle timeout
2, clear 3, saves every 2, one store entry, horizon 5, any number of crashes, and one
fault (a failed look or save, or an id recycled in a scan). Horizon 5 outlasts the
idle clear and holds a switch with its confirmation; the fault can meet a crash.

- `AnchorIsOwn`: no session is shown with the start of another. `TimerContinues`: a
  session that stays present keeps its start across restarts and crashes, unless its
  last change could not be saved.
- `ShownIsMine`: nothing of another user is shown, also when ids change hands
  between the looks of a scan. It claims nothing where the creation time is unknown.
- `SwitchesAreConfirmed`: the instance shown for a tool changes only to one clearly
  better twice in a row.
- `UnreadableIsKept`: an episode file that cannot be loaded is never overwritten.

Left out: the focus clock of Windows and the order in which other tools are listed.

### 2.7 Services and settings: `Autostart`, `Settings`, `Preferences`, `MCPreferences`, `AutostartProofs`, `PreferencesProofs`

`Autostart` models install, uninstall, enable and disable of the login service on
systemd, launchd and Task Scheduler, the rollback of a failed install, the setup
wizard with its compensation, and the stop/remove/delete order of `uninstall --all`. A command of
a service manager is a sequence of effects of which a failed one may have had any.
On Windows a query that fails with an exit code says that the task is absent
(`taskExists`: `Readings`, `TaskQuery`), so an install may not know of the task it
replaces, and a command that failed may pass for done; `missed` remembers that this
happened to a task that is there.
`Settings` is the settings editor: keys arrive while a save is in flight and its
result comes back as a message. `Preferences` puts both over one configuration file,
which is also edited by hand, with a wizard opened beforehand.

Run `preferences`: the three platforms, two executables (a definition may be that of
another installation), two values besides `start_at_login`, two faults in a command:
one to fail it and one to fail what it does about that.

- `RollbackRestores`: a failed install that reports no failure of its rollback left
  the service as it found it, unless a task was missed.
- `SetupIsAtomic`: setup applies document and autostart, or neither, with the same
  exception where it would remove autostart or has undone.
- `NothingIsOrphaned`: a definition goes only when nothing it started runs.
- `QuitKeepsEdits`: leaving the editor loses no edit.

What each leaves out is stated at the property, and again in 2.12. Bounds that are
not the code's: the editor is opened over an untouched service and while no command
runs, and the service changes by itself only between commands.

### 2.8 Fairness of these models

`DaemonLifecycle`, `Updates`, `Sessions` and `Preferences` state safety only and
assume no fairness: anybody may stop or die at any step.

### 2.9 Decisions as functions

These modules hold no state: what they translate decides in one step from what it is
given. Each states what must hold over small sets of inputs as an operator, and the
named MC module assumes it, so TLC evaluates it at the start of that module's runs.

| module | code | evaluated by | what is checked |
|---|---|---|---|
| `DiscordClient` | `client.go`, `conn_*.go` | `MCPresenceWriter` | `OnlyOwnEndpoints`: it connects only to an endpoint its user owns. `SearchIsTruthful`, `SearchIsComplete`: "not found" only after every place was tried, none tried twice. `AttemptsAreAsModelled`: an attempt has the outcomes of `PresenceWriter` |
| `Publishing` | `Config.Resolve`, directory rules, `buildActivity`, `presence/activity.go`, `permissivenessLoosened` | `MCConfigManager` | `NothingUnasked`, `AccountNameIsHidden`. `GuardCoversDisclosure`: a change that makes anything new visible counts as loosening |
| `ActivityText` | `internal/terminaltext`, `client.go` | `MCDaemon` | `NormalizedIsValid`, `OmissionsAreReported`, `LinesStayApart`, `NormalizingSettles` (a second pass changes nothing), `ImageTextNeedsImage` |
| `Registry` | `internal/registry`, matching in `detector.go` | `MCSessions` | `ArgumentsDoNotMatch`, `BestMatchWins`, `AcceptedIsPublishable`, `QuotingIsUndone` |
| `Installations` | `internal/update`, `runUpdateForPlatform` | `MCUpdates` | `TagsAreReadBack`, `OwnerDecides`, `NothingUncheckedIsInstalled`, `UpdateIsHonest`, `FrontEndsAreUsable` |
| `Status` | status, watch, connect, stop of `cmd/termp` | `MCDaemonLifecycle` | `WordsAreEarned`, `CommandsAgree`, `HealthIsTheDaemons`, `StopNoticeIsCautious`, `ConnectIsConfirmed`, `UpdateLineIsCurrent`: each says no more than its files establish |
| `LogRotation` | `log_rotation.go` | `MCDaemonLifecycle` | over two calls of two processes, whatever fails: `RecordsAgeInOrder` (no record is lost or passed by a later one before its generations are used up), `RecordsAreWritten`, `CapHolds` |

Inputs are enumerated to the length at which a case first interferes with another
(texts of 4 or 5 characters, tags of 7, two log calls, five places of a socket).

### 2.10 What is proved

`PresenceWriterProofs` proves, for every set of payloads and callers, every
non-empty backoff sequence of naturals and every pair of intervals (the named
assumptions of `PresenceWriter`):

- `TypeCorrect` (`TypeOK`), `WakeupIsNeverLost` (`NoLostWakeup`),
  `DisplayStaysCurrent` (`DisplayIsCurrent`), `RefusalReportIsLive`
  (`ReportedRefusalIsLive`), `BackoffExcludesOthers` (`BackoffIsExclusive`);
- the action properties `RefusalIsRemembered` (`RefusalSticks`), `WritesStaySpaced`
  (`WritesAreSpaced`), `ReconnectIsHonest` (`ReconnectDelivers`);
- `WriterImplementsPublication`: the refinement of `Publication`.

None of the invariants is inductive alone. `IInv` is `TypeOK` with `Inv`, which
adds what the loop knows of its connection (`ConnectionAgrees`), what is left
after a clear or a stop (`NothingWanted`, `NothingRuns`), that a refusal is that
of the wanted activity (`RefusalIsCurrent`), that a wanted activity has a timer
or is shown on a link that is probed again (`Watched`), and that armed timers
leave the throttle its interval (`TimersRespectThrottle`). `Watched` is why no
wakeup is lost: `NoLostWakeup` follows from it with `ConnectionAgrees`. The
argument has one lemma per outcome of `ApplyDesired` (`PublishedKeeps`,
`RefusedKeeps`, `UnreachableKeeps`), so that every case of the select cites the
same three, and one step per action of `Next`. The action properties and the
refinement follow from `IInv` in the state before the step.

`DaemonProofs` proves, for every set of tools, every sequence of edits and every pair
of thresholds (the assumptions of `DetectorLoop` and `Daemon`), `TypeCorrect`
(`TypeOK`), `UsageSavesStayOrdered` (`UsageSavesAreOrdered`), `EpisodesAreKept`
(`EpisodesAreSavedAtExit`) and `BlindDetectorIsCleared` (`BlindDetectorClears`). Its
`IInv` has a part for the detector, which only the detector's steps and three
channels touch (`ChannelsKeep`), and one for the daemon. What it adds: a detection is
offered only after a scan that succeeded (`OfferIsSeen`), without which a blind
detector could emit an old one; main reaches the forced save only over a translator
that is gone (`TranslatorIsAwaited`), which is why the two saves cannot overlap and
nothing is recorded after them, whether they succeed or not; the channel closes after
the deferred episode save (`SavedWhenGone`); a reload in the channel was made (`ReloadsWereSaved`), for the
type of the applied configuration.

`ConfigManagerProofs` proves, for every set of lines, every way a save may write the
file and every horizon and number of polls (the assumptions of `ConfigManager`):

- `TypeCorrect` (`TypeOK`, with the count of the WaitGroup, `EntriesAreCounted`),
  `ClosedManagersAreQuiet` (`ClosedIsQuiet`), `ConsumersAreCurrent` (`ConsumerIsCurrent`);
- the action properties `LooseningsAreWitnessed` (`LooseningIsWitnessed`) and
  `NothingIsResolvedOnceClosing` (`ClosingResolvesNothing`).

`ClosedIsQuiet` says nothing of how many callbacks there are, so it is not
inductive: Close waits on a counter. What makes it so is the count itself
(`EntriesAreCounted`): `retries` is the number of callbacks that fired, are leaving
or run a reload, plus one for an armed timer. `ConsumerIsCurrent` rests on
`NewestIsQueued`: the coalescing channel holds the last result and no older one, so
emptying it is being up to date. For a loosening, `CandidateIsWitnessed` says what
the poll under way and the pending candidate may claim to have seen, and the lemma
`DisclosuresLoosen` that the reference definition of a disclosure implies the
comparison the manager makes.

`DaemonLifecycleProofs` proves, for every number of daemons, every assignment of
process ids to them and every number of stop commands, `TypeCorrect`,
`RunningDaemonsAreRecorded` (`RunningIsRecorded`) with its consequence `OneDaemonRuns`,
`SuccessfulStopsStopped` (`StopStops`), `ReportedStartsAreReal` (`StartIsReal`) and the
action property `SignalsAreForTargets` (`SignalsAreAimed`). The argument is the one of
the code's comments, made explicit: the record is removed by name, and yet a running
daemon keeps its own, because whoever removes it holds the lock of the very file the
path names (`RemoversHoldThePath`, `LocksAreExclusive`) and has found under that lock
that its writer does not run (`DoomedDoNotRun`). A process publishes once
(`PublishersMoveOn`), which is why a writer once found gone stays gone. For a stop
command, `StopInv` follows the process of the record that was read: as long as it may
live it is a target, then waited for, and only when it is gone does the command go on
to clean up and report; and whatever ran when the command began is that process
(`RunningIsSeen`).

`UpdatesProofs` proves, for every set of daemons and commands, every non-empty sequence
of releases, every lifetime and every horizon, `TypeCorrect`, `LookupsStayRare`
(`LookupsAreRare`), `NoticesAreTrue` (`NoticeIsTrue`) and the action property
`AttemptsAreKept` (`AttemptIsKept`), with the exceptions `forced` and `late` that the
properties name, and beyond the constraint of the run: `IInv` holds in the states after
a lock was taken over twice as well. A process in a transaction holds the lock
(`HoldersOwnTheLock`), so what it is about to write is the cache it read, and an attempt
is dated over an old entry only (`EntriesAreCurrent`); from there a check that may ask
has the entry of this moment to itself, a lifetime after the last lookup
(`PendingIsNext`, `LookupsAreCached`). The notice is true because an attempt, wherever
it is kept, names only daemons that had started, none of which starts again
(`AttemptsAreSound`). The proofs separate the steps that touch the cache, the lock or
what is remembered (`LoudStep`) from those that do not (`QuietSteps`).

`SessionsProofs` proves, for every finite set of process instances, every assignment of
process ids and tools to them, every set of configurations and of looks, and every
bound, `TypeCorrect`, `AnchorsStayOwn` (`AnchorIsOwn`), `ShownStaysMine` (`ShownIsMine`)
and the action properties `TimersContinue` (`TimerContinues`), `SwitchesStayConfirmed`
(`SwitchesAreConfirmed`) and `UnreadableStaysKept` (`UnreadableIsKept`). A scan is one
action, so the proof goes through it in order. `SeenIsSighted`: what the looks agree on
is one instance, which has begun (`AliveHaveBegun`), whether its id was recycled after
the first look or after the second. `BestIsOneOfThem`, `SelectedIsOne`, `FeaturedIsOne`:
the choices are from what was seen; the comparisons of tools are total and transitive on
candidates of distinct tools (`AreCandidates`), so that the featured one is determined,
and of the comparison of instances nothing is assumed. `EpisodesKept`: what is kept of
the sessions collected. The invariant relates the three places of an episode: no start
is before its instance began, in memory or in the file (`EpisodesAreOwn`), a session
without identity is as old as this run of the daemon (`UnknownsAreOfThisRun`), and the
starts that are owed are those in memory, and those in the file unless the last change
was lost (`OwedIsKept`). Where the library would have an induction over numbers, which
takes an operator, `LeastSubset` gives the least counterexample among subsets of a
finite set.

`AutostartProofs` proves, for every set of platforms and executables, every set of
values a configuration may hold and every number of failures in a command,
`TypeCorrect`, `RollbackIsExact` (`RollbackRestores`), `SetupIsWhole` (`SetupIsAtomic`)
and `RemovalIsLast` (`NothingIsOrphaned`). Its `IInv` says of the service what the
managers keep (`Sound`: no task without its definition, no job that runs without being
loaded), and of a command under way what it knows at its step. `ReadingFits`: a status
says what an install found, unless the definition is foreign or a query missed the task. `InstallFits`: how far it
has got. `RollbackFits` is the core: at each step of a rollback every part of the
service is still as found, or has been put in a known state by a command that succeeded,
or a failure has been noted (`incomplete`), so that the last step either restores the
last part or reports. `UninstallFits`: what is removed has been stopped. `SetupFits`:
the document is the desired one while autostart is being changed, and a definition setup
did not find is its own, absent or half-written when it compensates. A command of a
manager may fail after any of its effects, so lemmas state once what each guarantees
whether it succeeds or not (`Systemd`, `LaunchdLoads` and those for tasks), and the proof
has one lemma per step of an operation, of a rollback and of setup. Each shows that the
step keeps `IInv` and does what the three action properties allow (`Good`), since a
report is made by the step that ends the command.

`PreferencesProofs` proves for the composition, and for every document an unreadable
file falls back to, `PrefsTypeCorrect`, `EditsAreKept` (`QuitKeepsEdits`) and
`ServiceIsKept` (the three properties above, with the editor and edits by hand between
the commands). The addition to the invariant is `EditorFits`: the file is what the editor
takes for saved, or what the save in flight has just written.

The assumptions about constants that these proofs use say that `None` and `Garbled` are
no values, documents, saves or reports, and that the defaults and the fallback are
documents (`ValuesAssumption`, `DocumentsAssumption`, `ReportsAssumption`,
`EditorAssumption`).

Each inductive invariant was checked by TLC on the instance of its module's run before
it was proved.

### 2.11 What is only checked, and what is not modelled

Liveness (`WantedIsEventuallyShown`, `CancelledDaemonExits`, `ReloadIsApplied`,
`PublishedCatchesUp`, `ClosingEnds`, `FileIsEventuallyApplied`) needs fairness and
ENABLED, which the prover does not handle: TLC only. Every other property of the passing
runs is stated by a theorem. The refinement of `Publication` is proved for its safety
part; `PublishedCatchesUp` is its liveness. The functions of 2.9 are checked over
bounded inputs: they go over texts, paths and lists with folds, and what a fold computes
for every input would need an induction that takes an operator, which the prover cannot
instantiate.

Every passing property has a mutant in `PROJECT.json`: a definition replaced by
one with a plausible bug (kept next to the original, marked "Mutant of" or "As if"), under
which TLC finds the property violated.

Not modelled, because nothing in it interacts or fails in steps: wording and layout,
the bytes of frames and files, system calls that read processes and terminals, the
catalogue's text, validation of single keys, migration of old paths, argument
parsing, completion, the launcher, the preview card. Errors of the file watcher's
backend reach the log only. The interactive watch shares the daemon's parts. Data
races are absent from what is modelled (each variable is owned by one goroutine or
its lock). The hazards without a property have a note in `PROJECT.json`.

### 2.12 Divergences and gaps met while modelling

Four have a run: `dead_link`, `forced_scan`, `last_good`, `opt_out_held`. The others
are excluded in the properties or models named, and listed here for who maintains
the code:

- `RollbackRestores`, `SetupIsAtomic` (`missed`): `taskExists` takes any
  `schtasks /Query` that exits with an error for an absent task
  (`internal/service/windows.go:524`). An install then replaces the task that is
  there without capturing it, and when `/Run` fails its rollback deletes it and reports
  nothing. Without the exception TLC finds that `RollbackRestores` fails, with two
  failures; `docs/context/service.md:48` says "a pre-existing task is never deleted or
  otherwise rolled back when its prior definition could not be captured". In the same
  way a deletion, a change or a start that failed passes for done, and setup for applied.
- `SetupIsAtomic`, `RollbackRestores`: setup's compensation does not touch autostart
  when an install failed partway over a definition it cannot parse, which is the gap
  `docs/context/tui.md:27` describes it as covering; an unreadable status at preflight makes setup
  report "already disabled"; an uninstall that fails after removing the definition
  leaves `start_at_login = true` without one; setup reverts a save made while the
  wizard was open; a forced takeover on Linux and macOS does not restore whether the
  old definition was enabled or active (`docs/context/service.md:24`); a unit that was
  waiting to be relaunched is not restored.
- `README.md:125` says `autostart disable` pauses; on macOS the job is loaded again at
  the next login. `README.md:135` says leaving the autostart answer unchanged runs no
  service-manager operation; setup reinstalls.
- `NothingIsOrphaned`: rolling back on Linux and Windows removes a new definition
  although stopping what it started failed; macOS keeps it.
- `QuitKeepsEdits`: a clean quit while an earlier save is in flight may leave that
  save's value on disk; a confirmed save-and-quit during a save is ignored silently.
- `Status`: "connected" may come from a fresh state file whose process is not
  checked for identity.
- `Publishing`: `README.md:306` describes a detail line "Using <tool name>" the default
  format never renders; with a custom format and the tool name off, details are
  empty rather than the fallback.
- `ActivityText`: an invisible character at an edge can leave a dangling separator.

## 3. Plan

Modelled: what Discord shows and what changes it (`PresenceWriter`, `DetectorLoop`,
`Daemon`, `ConfigManager`, `Sessions`), the processes and files around it
(`DaemonLifecycle`, `Updates`, `Autostart`, `Settings`), the decisions (2.9).

Next are theorems, in this order:

1. An abstract specification of hot reload (a register whose reader may skip values
   but ends with the last) implemented by `ConfigManager`.
2. An abstract specification of the running daemon (one owner that others may ask to
   go) implemented by `DaemonLifecycle`, so that `OneDaemonRuns` is what others build on.
