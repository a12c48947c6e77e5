--------------------------- MODULE ConfigManager ---------------------------
(***************************************************************************)
(* The configuration manager (internal/config/manager.go, with the settled *)
(* reads of config.go): it watches one file that other programs rewrite,   *)
(* often in several steps, and must neither act on a half-written file nor *)
(* miss the finished one.                                                  *)
(*                                                                         *)
(* A file is Missing or a sequence of the lines that matter here: "on" and *)
(* "off" (the enabled key), "optout" (a tool switched off), "private" (a   *)
(* tool whose name is withheld, though it is not for the others), "torn"   *)
(* (a line cut short, not TOML) and "invalid" (TOML that fails validation, *)
(* or a file that cannot be read).  The watcher's goroutine, the callback of    *)
(* the loosening timer, the start of the daemon and a watch installed late *)
(* all call reload, one at a time (reloadMu); a reload polls the file      *)
(* until it settles and then commits under the state lock.                 *)
(***************************************************************************)
EXTENDS Integers, Sequences

CONSTANTS
    Missing,            \* there is no file
    Saves,              \* the ways a program may rewrite the file: each is the
                        \* sequence of states the file goes through
    Starts,             \* what the file may be when the daemon starts
    NONE,               \* no pending loosening
    Failure,            \* the result of a reload that failed
    SaveLimit,          \* bound on the saves of a behaviour
    Horizon,            \* enabledLooseningHorizon
    SettleAttempts      \* reloadSettleAttempts

Lines == {"on", "off", "optout", "private", "torn", "invalid"}
Configs == [enabled : BOOLEAN, optout : BOOLEAN, private : BOOLEAN]

ASSUME MissingAssumption == Missing \notin Seq(Lines) /\ NONE \notin Seq(Lines) \cup {Missing}
ASSUME SavesAssumption == Saves \subseteq Seq(Seq(Lines) \cup {Missing}) /\ <<>> \notin Saves
ASSUME StartsAssumption == Starts \subseteq Seq(Lines) \cup {Missing} /\ Starts # {}
ASSUME FailureAssumption == Failure \notin Configs
ASSUME BoundsAssumption ==
    SaveLimit \in Nat \ {0} /\ Horizon \in Nat \ {0} /\ SettleAttempts \in Nat \ {0}

VARIABLES
    file,           \* what the file holds
    saving,         \* the states the save in progress still has to write
    saves,          \* the number of saves begun (for SaveLimit)
    event,          \* a file system event is queued for the watcher
    watch,          \* "off" (not tried yet), "failed", "recovered" (installed
                    \* late, its reload is due), "on"
    reloader,       \* who holds reloadMu: "nobody", "start", "watcher", "retry", "recovery"
    stage,          \* of that reload: "idle", "polling", "settled"
    candidate, polls, stableReads,              \* of settledConfigSnapshotUntilWith
    current, accepted, failed,                  \* Manager.current, accepted, lastErr # nil
    pending, age,   \* pendingLoosening.snapshot, and the time since firstSeen
    handle,         \* pendingLoosening.retry # nil
    retry,          \* time left on the armed timer, or Off
    fired,          \* callbacks that fired and wait for reloadMu
    leaving,        \* callbacks that have returned from reload, before their Done
    retries,        \* the WaitGroup Close waits for
    closing,        \* "open", "closing" (waiting for retries), "closed"
    reloads,        \* the results channel, capacity 1
    consumer,       \* "starting", "reloaded", "drained", "running"
    known,          \* the configuration the consumer holds
    witnessed, witnessAge   \* history: what the settled reads have seen since something
                            \* else was read or accepted, and for how long

fileVars == <<file, saving, saves, event, watch>>
settling == <<candidate, polls, stableReads>>
state == <<current, accepted, failed>>
loosening == <<pending, age, handle, retry>>
consuming == <<consumer, known>>
history == <<witnessed, witnessAge>>
vars == <<fileVars, reloader, stage, settling, state, loosening, fired, retries,
          leaving, closing, reloads, consuming, history>>

Off == -1
Files == Seq(Lines) \cup {Missing}

TypeOK ==
    /\ file \in Files /\ saving \in Seq(Files) /\ saves \in 0 .. SaveLimit /\ event \in BOOLEAN
    /\ watch \in {"off", "failed", "recovered", "on"}
    /\ reloader \in {"nobody", "start", "watcher", "retry", "recovery"}
    /\ stage \in {"idle", "polling", "settled"}
    /\ candidate \in Files
    /\ polls \in 0 .. SettleAttempts /\ stableReads \in 0 .. SettleAttempts
    /\ current \in Configs /\ accepted \in Files /\ failed \in BOOLEAN
    /\ pending \in Files \cup {NONE} /\ age \in 0 .. Horizon
    /\ handle \in BOOLEAN /\ retry \in {Off} \cup 0 .. Horizon
    /\ fired \in Nat /\ leaving \in Nat /\ retries \in Nat
    /\ closing \in {"open", "closing", "closed"}
    /\ reloads \in Seq(Configs \cup {Failure}) /\ Len(reloads) <= 1
    /\ consumer \in {"starting", "reloaded", "drained", "running"} /\ known \in Configs
    /\ witnessed \in Files \cup {NONE} /\ witnessAge \in 0 .. Horizon

-----------------------------------------------------------------------------
(* Reading a file.                                                           *)

LinesOf(f) == IF f = Missing THEN {} ELSE {f[i] : i \in 1 .. Len(f)}

Invalid(f) == LinesOf(f) \cap {"torn", "invalid"} # {}

\* loadSnapshotWithMetadata: a missing file or key means the default.
Decode(f) ==
    [enabled |-> "off" \notin LinesOf(f), optout |-> "optout" \in LinesOf(f),
     private |-> "private" \in LinesOf(f)]
EnabledDefined(f) == LinesOf(f) \cap {"on", "off"} # {}

\* invalidFallbackWithPath: the defaults with presence off.
Fallback == [enabled |-> FALSE, optout |-> FALSE, private |-> FALSE]

StrictPrefix(f, g) == Len(f) < Len(g) /\ SubSeq(g, 1, Len(f)) = f

\* provisionalConfigSnapshot: f may be a save in progress.
Provisional(f) ==
    IF f = Missing
    THEN accepted # Missing
    ELSE \/ f = <<>>
         \/ accepted # Missing /\ StrictPrefix(f, accepted)
         \/ "torn" \in LinesOf(f)

\* permissivenessLoosened: some tool with an override could be published, or
\* named, under next and not under prev.  Resolve looks at no override while
\* presence is off; a change of the enabled key is hidden in prev only.
PermissivenessLoosened(prev, next) ==
    LET Publishes(config, enabled) == enabled /\ ~config.optout
        Names(config, enabled) == enabled => ~config.private
        wasEnabled == prev.enabled \/ prev.enabled # next.enabled
    IN  \/ /\ prev.optout \/ next.optout
           /\ Publishes(next, next.enabled) /\ ~Publishes(prev, wasEnabled)
        \/ Names(next, next.enabled) /\ ~Names(prev, wasEnabled)

\* Mutant of Loosens: only the enabled key is guarded (issue 447).
LoosensEnabledOnly(next, enabledDefined) ==
    ~current.enabled /\ next.enabled /\ ~enabledDefined

Loosens(next, enabledDefined) ==
    \/ ~current.enabled /\ next.enabled /\ ~enabledDefined
    \/ PermissivenessLoosened(current, next)

-----------------------------------------------------------------------------
(* The loosening timer and the results channel.                              *)

Armed == retry # Off

\* Mutant of ClearPending: the result of Timer.Stop is ignored.
ClearPendingAlways ==
    /\ retries' = IF handle THEN retries - 1 ELSE retries
    /\ pending' = NONE /\ age' = 0 /\ handle' = FALSE /\ retry' = Off

\* Mutant of ClearPending: the stopped callback is never accounted for.
ClearPendingLeaks ==
    /\ pending' = NONE /\ age' = 0 /\ handle' = FALSE /\ retry' = Off
    /\ UNCHANGED retries

\* clearPendingLooseningLocked: a timer that is stopped in time gives back its
\* WaitGroup entry; one that has fired does so itself.
ClearPending ==
    /\ retries' = IF Armed THEN retries - 1 ELSE retries
    /\ pending' = NONE /\ age' = 0 /\ handle' = FALSE /\ retry' = Off

\* Mutant of Publish: a full channel keeps the older result.
PublishIfRoom(result) == reloads' = IF reloads = <<>> THEN <<result>> ELSE reloads

\* publishReloadLocked: the newest result replaces one not yet consumed.
Publish(result) == reloads' = <<result>>

\* Mutant of HoldBack: a different candidate inherits the age of the previous one.
HoldBackAnything(f) ==
    LET fresh == pending = NONE
        elapsed == IF fresh THEN 0 ELSE age
    IN  /\ elapsed < Horizon
        /\ pending' = f /\ age' = elapsed
        /\ IF handle /\ ~fresh
           THEN UNCHANGED <<handle, retry, retries>>
           ELSE /\ handle' = TRUE /\ retry' = Horizon - elapsed
                /\ retries' = retries + 1

\* A loosening candidate is held back until its horizon has passed.
HoldBack(f) ==
    LET fresh == pending # f
        elapsed == IF fresh THEN 0 ELSE age
        released == IF fresh /\ Armed THEN retries - 1 ELSE retries
    IN  /\ elapsed < Horizon
        /\ pending' = f /\ age' = elapsed
        /\ IF handle /\ ~fresh
           THEN UNCHANGED <<handle, retry, retries>>
           ELSE /\ handle' = TRUE /\ retry' = Horizon - elapsed
                /\ retries' = released + 1

HeldLongEnough(f) == pending = f /\ age = Horizon

\* acceptReloadLocked.
Accept(f) ==
    LET config == Decode(f)
        loosens == Loosens(config, EnabledDefined(f))
    IN  \/ /\ loosens
           /\ HoldBack(f)
           /\ UNCHANGED <<state, reloads>>
        \/ /\ loosens => HeldLongEnough(f)
           /\ ClearPending
           /\ current' = config /\ accepted' = f /\ failed' = FALSE
           /\ Publish(config)

-----------------------------------------------------------------------------
\* newManagerPath: construction cannot certify presence on from a missing,
\* defaulting or unsettled file, holds it off and arms the horizon.
Init ==
    /\ file \in Starts /\ saving \in {<<>>} \cup Saves /\ event = FALSE /\ watch = "off"
    /\ saves = IF saving = <<>> THEN 0 ELSE 1
    /\ reloader = "nobody" /\ stage = "idle"
    /\ candidate = Missing /\ polls = 0 /\ stableReads = 0
    /\ failed = Invalid(file)
    /\ accepted = IF failed THEN Missing ELSE file
    /\ \E settled \in {TRUE} \cup {saving = <<>>} :
          LET uncertified == /\ ~failed /\ Decode(file).enabled
                             /\ ~EnabledDefined(file) \/ ~settled
          IN  /\ current = IF failed \/ uncertified THEN Fallback ELSE Decode(file)
              /\ IF uncertified
                 THEN /\ pending = file /\ handle = TRUE /\ retry = Horizon
                      /\ retries = 1 /\ witnessed = file
                 ELSE /\ pending = NONE /\ handle = FALSE /\ retry = Off
                      /\ retries = 0 /\ witnessed = NONE
    /\ age = 0 /\ witnessAge = 0
    /\ fired = 0 /\ leaving = 0 /\ closing = "open"
    /\ reloads = <<>> /\ consumer = "starting" /\ known = current

-----------------------------------------------------------------------------
(* A reload.                                                                 *)

\* The caller takes reloadMu and reads the file for the first time.
BeginReload(caller) ==
    /\ reloader = "nobody" /\ closing = "open"
    /\ reloader' = caller
    /\ candidate' = file /\ polls' = 0 /\ stableReads' = 0
    /\ stage' = IF file = Missing /\ accepted = Missing THEN "settled" ELSE "polling"
    /\ UNCHANGED <<file, saving, saves, state, loosening, leaving, retries, closing, reloads,
                   consuming, history>>

EndReload ==
    /\ reloader' = "nobody" /\ stage' = "idle"
    /\ candidate' = Missing /\ polls' = 0 /\ stableReads' = 0
    /\ leaving' = IF reloader = "retry" THEN leaving + 1 ELSE leaving
    /\ consumer' = IF reloader = "start" THEN "reloaded" ELSE consumer

\* newWatchedConfigManager reloads once it has tried to install the watch.
StartReloads ==
    /\ consumer = "starting" /\ watch # "off"
    /\ BeginReload("start")
    /\ UNCHANGED <<event, watch, fired>>

\* Watch: an event makes the watcher reload.
WatcherReloads ==
    /\ event /\ event' = FALSE
    /\ BeginReload("watcher")
    /\ UNCHANGED <<watch, fired>>

\* Mutant of RecoveryReloads: a watch installed late waits for an event.
RecoveryTrustsEvents ==
    /\ watch = "recovered" /\ watch' = "on"
    /\ UNCHANGED <<file, saving, saves, event, reloader, stage, settling, state, loosening, fired,
                   leaving, retries, closing, reloads, consuming, history>>

\* retryConfigWatch: the file may have changed while nobody watched it.
RecoveryReloads ==
    /\ watch = "recovered" /\ watch' = "on"
    /\ BeginReload("recovery")
    /\ UNCHANGED <<event, fired>>

\* The callback of a timer that has fired gets reloadMu.
CallbackReloads ==
    /\ fired > 0 /\ fired' = fired - 1
    /\ BeginReload("retry")
    /\ UNCHANGED <<event, watch>>

\* settledConfigSnapshotUntilWith: one more read, reloadSettleInterval later.
Poll ==
    LET same == file = candidate
        reads == IF same THEN stableReads + 1 ELSE 0
        settles == same /\ (~Provisional(candidate) \/ reads = SettleAttempts)
        abandons == \/ ~same /\ Provisional(candidate)
                    \/ ~settles /\ polls + 1 = SettleAttempts
    IN  /\ stage = "polling"
        /\ \/ abandons /\ EndReload
           \/ /\ ~abandons
              /\ polls' = polls + 1 /\ stableReads' = reads /\ candidate' = file
              /\ stage' = IF settles THEN "settled" ELSE stage
              /\ UNCHANGED <<reloader, leaving, consumer>>
        /\ UNCHANGED <<fileVars, state, loosening, fired, retries, closing, reloads, known,
                       history>>

\* History: f was read.  Accepting it starts a new history.
Witness(f) ==
    IF state' = state \/ failed'
    THEN witnessed' = f /\ witnessAge' = IF f = witnessed THEN witnessAge ELSE 0
    ELSE witnessed' = NONE /\ witnessAge' = 0

Resolve(f) ==
    \/ /\ Invalid(f)
       /\ ClearPending /\ failed' = TRUE /\ Publish(Failure)
       /\ UNCHANGED <<current, accepted>>
    \/ ~Invalid(f) /\ Accept(f)

\* Mutant of Commit: a reload that Close overtook commits all the same.
CommitUnchecked ==
    /\ stage = "settled"
    /\ Resolve(candidate)
    /\ Witness(candidate) /\ EndReload
    /\ UNCHANGED <<fileVars, fired, closing, known>>

\* The settled read is decoded and resolved under the state lock, unless the
\* manager was closed meanwhile.
Commit ==
    /\ stage = "settled"
    /\ \/ closing = "open" /\ Resolve(candidate)
       \/ closing # "open" /\ UNCHANGED <<state, loosening, retries, reloads>>
    /\ Witness(candidate) /\ EndReload
    /\ UNCHANGED <<fileVars, fired, closing, known>>

-----------------------------------------------------------------------------
(* The timer, the consumer and the end.                                      *)

\* time.AfterFunc: the callback runs on its own, the handle stays.
RetryFires ==
    /\ retry = 0 /\ retry' = Off
    /\ fired' = fired + 1
    /\ UNCHANGED <<fileVars, reloader, stage, settling, state, pending, age, handle, leaving,
                   retries, closing, reloads, consuming, history>>

\* A callback that finds the manager closed changes nothing.
CallbackGivesUp ==
    /\ fired > 0 /\ closing # "open" /\ reloader = "nobody"
    /\ fired' = fired - 1 /\ leaving' = leaving + 1
    /\ UNCHANGED <<fileVars, reloader, stage, settling, state, loosening, retries, closing,
                   reloads, consuming, history>>

\* The callback's deferred Done.
CallbackLeaves ==
    /\ leaving > 0
    /\ leaving' = leaving - 1 /\ retries' = retries - 1
    /\ UNCHANGED <<fileVars, reloader, stage, settling, state, loosening, fired, closing,
                   reloads, consuming, history>>

\* newWatchedConfigManager: startup throws away what its reload published ...
Drain ==
    /\ consumer = "reloaded" /\ consumer' = "drained" /\ reloads' = <<>>
    /\ UNCHANGED <<fileVars, reloader, stage, settling, state, loosening, fired, leaving,
                   retries, closing, known, history>>

\* ... and starts from the current configuration.
StartFromCurrent ==
    /\ consumer = "drained" /\ consumer' = "running" /\ known' = current
    /\ UNCHANGED <<fileVars, reloader, stage, settling, state, loosening, fired, leaving,
                   retries, closing, reloads, history>>

\* The translator takes a result; a failure leaves its configuration alone.
Consume ==
    /\ consumer = "running" /\ reloads # <<>>
    /\ reloads' = Tail(reloads)
    /\ known' = IF Head(reloads) = Failure THEN known ELSE Head(reloads)
    /\ UNCHANGED <<fileVars, reloader, stage, settling, state, loosening, fired, leaving,
                   retries, closing, consumer, history>>

\* Close: no later commit, and the armed retry is stopped.
BeginClose ==
    /\ consumer = "running" /\ closing = "open" /\ closing' = "closing"
    /\ ClearPending
    /\ UNCHANGED <<fileVars, reloader, stage, settling, state, fired, leaving, reloads,
                   consuming, history>>

\* Mutant of CloseReturns: Close does not wait for a retry in flight.
CloseReturnsAtOnce ==
    /\ closing = "closing" /\ closing' = "closed"
    /\ UNCHANGED <<fileVars, reloader, stage, settling, state, loosening, fired, leaving,
                   retries, reloads, consuming, history>>

CloseReturns ==
    /\ closing = "closing" /\ retries = 0 /\ closing' = "closed"
    /\ UNCHANGED <<fileVars, reloader, stage, settling, state, loosening, fired, leaving,
                   retries, reloads, consuming, history>>

-----------------------------------------------------------------------------
(* The file, its watch and the clock.                                        *)

managerVars == <<reloader, stage, settling, state, fired, leaving, retries, closing, reloads,
                 consuming>>

\* The file changes; an installed watch queues an event.  Once Close has
\* returned the process exits, and the file is of no interest.
Write(f) ==
    /\ closing # "closed"
    /\ file' = f
    /\ event' = (event \/ watch \in {"recovered", "on"})
    /\ UNCHANGED <<watch, managerVars, loosening, history>>

StartSave ==
    \E save \in Saves :
        /\ saving = <<>> /\ saves < SaveLimit
        /\ Write(Head(save)) /\ saving' = Tail(save) /\ saves' = saves + 1

ContinueSave ==
    saving # <<>> /\ Write(Head(saving)) /\ saving' = Tail(saving) /\ UNCHANGED saves

\* startConfigWatchWithRetry: the watch may fail at first.
InstallWatch ==
    /\ watch = "off" /\ watch' \in {"failed", "on"}
    /\ UNCHANGED <<file, saving, saves, event, managerVars, loosening, history>>

RecoverWatch ==
    /\ watch = "failed" /\ watch' = "recovered"
    /\ UNCHANGED <<file, saving, saves, event, managerVars, loosening, history>>

Tick ==
    /\ closing # "closed"
    /\ age' = IF pending # NONE /\ age < Horizon THEN age + 1 ELSE age
    /\ retry' = IF retry > 0 THEN retry - 1 ELSE retry
    /\ witnessAge' = IF witnessed # NONE /\ witnessAge < Horizon THEN witnessAge + 1
                     ELSE witnessAge
    /\ UNCHANGED <<fileVars, managerVars, pending, handle, witnessed>>

-----------------------------------------------------------------------------
Reload == \/ StartReloads \/ WatcherReloads \/ RecoveryReloads \/ CallbackReloads
          \/ Poll \/ Commit
Callback == RetryFires \/ CallbackGivesUp \/ CallbackLeaves
Consumer == Drain \/ StartFromCurrent \/ Consume
Closing == BeginClose \/ CloseReturns
Environment == StartSave \/ ContinueSave \/ InstallWatch \/ RecoverWatch \/ Tick

Exited == closing = "closed" /\ UNCHANGED vars

Next == Reload \/ Callback \/ Consumer \/ Closing \/ Environment \/ Exited

Spec == Init /\ [][Next]_vars

\* Every goroutine keeps running, time passes, reloadMu is handed to whoever
\* waits for it (a Go mutex starves nobody) and a failed watch is installed in
\* the end.  No program has to finish its save.
Fairness ==
    /\ SF_vars(StartReloads) /\ SF_vars(WatcherReloads) /\ SF_vars(RecoveryReloads)
    /\ SF_vars(CallbackReloads) /\ SF_vars(CallbackGivesUp)
    /\ WF_vars(Poll) /\ WF_vars(Commit)
    /\ WF_vars(RetryFires) /\ WF_vars(CallbackLeaves)
    /\ WF_vars(Drain) /\ WF_vars(StartFromCurrent) /\ WF_vars(Consume)
    /\ WF_vars(CloseReturns)
    /\ WF_vars(InstallWatch) /\ WF_vars(RecoverWatch) /\ WF_vars(Tick)

FairSpec == Spec /\ Fairness

-----------------------------------------------------------------------------
(* Properties.                                                               *)

\* A configuration that publishes what the previous one kept private, without
\* saying so explicitly, takes effect only when every settled read of the last
\* horizon saw exactly these bytes (issues 410, 447, 548).  Discloses is the
\* reference definition of what Loosens decides.
Discloses(prev, next, explicit) ==
    \/ ~prev.enabled /\ next.enabled /\ ~explicit
    \/ next.enabled /\ ((prev.optout /\ ~next.optout) \/ (prev.private /\ ~next.private))

LooseningIsWitnessed ==
    [][Discloses(current, current', EnabledDefined(accepted'))
         => witnessed = accepted' /\ witnessAge = Horizon]_vars

\* Turning presence off is not held back: a settled read of a valid file that
\* says so is applied, while one that turns it on may wait for its horizon.
DisablingIsPrompt ==
    [][stage = "settled" /\ stage' = "idle" /\ closing = "open" /\ ~Invalid(candidate)
         /\ current.enabled /\ ~Decode(candidate).enabled
           => current' = Decode(candidate)]_vars

\* Results are coalesced and startup discards one, but a consumer that has none
\* to read holds the manager's configuration, unless the last reload failed.
ConsumerIsCurrent ==
    consumer = "running" /\ reloads = <<>> /\ ~failed => known = current

\* Once Close has returned no retry runs, waits or can still start (issue 553).
ClosedIsQuiet ==
    closing = "closed" => fired = 0 /\ leaving = 0 /\ reloader # "retry" /\ ~Armed

\* Close resolves nothing: no configuration, result or retry appears after it
\* was called, not even by a reload that was reading the file.
ClosingResolvesNothing ==
    [][closing # "open" => /\ UNCHANGED state
                           /\ reloads' \in {reloads, <<>>}
                           /\ ~Armed => retry' = Off]_vars

\* Close does not wait for ever: each WaitGroup entry is given back once.
ClosingEnds == closing = "closing" ~> closing = "closed"

\* When the file stays as it is, whoever stopped writing and wherever it
\* stopped, the manager ends up with it and the consumer follows.
Applied(f) ==
    IF Invalid(f) THEN failed
    ELSE ~failed /\ current = Decode(f) /\ known = current

FileIsEventuallyApplied ==
    \A f \in Starts \cup UNION {{save[i] : i \in 1 .. Len(save)} : save \in Saves} :
        <>[](file = f /\ closing = "open") => <>[]Applied(f)
=============================================================================
