------------------------------- MODULE Daemon -------------------------------
(***************************************************************************)
(* The daemon's run function (cmd/termp/main.go): the detector, the        *)
(* translation goroutine that turns detections and configuration reloads   *)
(* into activities, the writer that takes them, and the shutdown order.    *)
(*                                                                         *)
(* The goroutines meet in four places, and each can block there: the       *)
(* detections channel (capacity 1), the unbuffered Reconfigure handshake,  *)
(* the manager's reload channel (capacity 1, newest wins) and the          *)
(* unbuffered activities channel.  The writer is reduced to taking an      *)
(* activity when it gets round to it (PresenceWriter has its details).     *)
(*                                                                         *)
(* The configuration file goes through a fixed sequence of contents; a     *)
(* configuration is what the daemon derives from it: the tools the user    *)
(* disables and how activities are displayed.                              *)
(***************************************************************************)
EXTENDS DetectorLoop

CONSTANTS
    Edits,          \* the successive contents of the configuration file
    ReloadError     \* a reload result that carries an error

ASSUME EditsAssumption ==
    /\ Edits \in Seq([disabled : SUBSET Tools, display : {"plain", "private"}])
    /\ Edits # <<>>
ASSUME ReloadErrorAssumption == ReloadError \notin 1 .. Len(Edits)

VARIABLES
    saved,          \* how many of the edits have been made
    reloads,        \* the manager's reload channel
    translator,     \* "select", "saveUsage", "send", "reconfigure", "gone"
    applied,        \* the edit the translator applies
    applying,       \* the edit being applied while in Reconfigure
    last, haveLast, \* the latest detection received
    carried,        \* the activity being sent to the writer
    published,      \* the activity the writer last took
    usage,          \* saved, unsaved, or lost: what the forced save could not write
    main,           \* "write", "waitTranslator", "saveUsage", "waitDetector", "exited"
    gaveUp          \* the wait for the detector timed out

translation == <<translator, applied, applying, last, haveLast, carried>>
daemonVars == <<saved, reloads, translation, published, usage, main, gaveUp>>
vars == <<detectorVars, daemonVars>>

Activities ==
    [featured : Tools, others : SUBSET Tools, display : {"plain", "private"}]

TypeOK ==
    /\ DetectorTypeOK
    /\ saved \in 1 .. Len(Edits)
    /\ reloads \in Seq(1 .. Len(Edits) \cup {ReloadError}) /\ Len(reloads) <= 1
    /\ translator \in {"select", "saveUsage", "send", "reconfigure", "gone"}
    /\ applied \in 1 .. saved /\ applying \in 1 .. saved
    /\ last \subseteq Tools /\ haveLast \in BOOLEAN
    /\ carried \in Activities \cup {NULL} /\ published \in Activities \cup {NULL}
    /\ usage \in {"saved", "unsaved", "lost"}
    /\ main \in {"write", "waitTranslator", "saveUsage", "waitDetector", "exited"}
    /\ gaveUp \in BOOLEAN

\* buildActivity: nothing for no tool or a featured tool the user disabled, and
\* every other tool under its own policy.
BuildActivity(edit, tools) ==
    LET featured == CHOOSE tool \in tools : TRUE
        config == Edits[edit]
    IN  IF tools = None \/ featured \in config.disabled
        THEN NULL
        ELSE [featured |-> featured,
              others |-> (tools \ {featured}) \ config.disabled,
              display |-> config.display]

Init ==
    /\ DetectorInit
    /\ disabled = Edits[1].disabled
    /\ saved = 1 /\ reloads = <<>>
    /\ translator = "select"
    /\ applied = 1 /\ applying = 1
    /\ last = None /\ haveLast = FALSE
    /\ carried = NULL /\ published = NULL
    /\ usage = "saved"
    /\ main = "write" /\ gaveUp = FALSE

-----------------------------------------------------------------------------
(* The configuration manager, reduced to what it publishes.  Edits made after *)
(* cancellation are left out: nobody acts on them.                            *)

Alive == main # "exited"

\* An edit is accepted; its result replaces one not yet consumed.
EditIsAccepted ==
    /\ Alive /\ ~cancelled /\ saved < Len(Edits)
    /\ saved' = saved + 1
    /\ reloads' = <<saved'>>
    /\ UNCHANGED <<detectorVars, translation, published, usage, main, gaveUp>>

\* A reload fails; the accepted configuration stays, and a result not yet
\* consumed is replaced.
ReloadFails ==
    /\ Alive /\ ~cancelled
    /\ reloads' = <<ReloadError>>
    /\ UNCHANGED <<detectorVars, saved, translation, published, usage, main,
                   gaveUp>>

-----------------------------------------------------------------------------
(* The translation goroutine.                                                *)

Carry(activity) == translator' = "send" /\ carried' = activity

\* A detection arrives; usage is recorded for a real one, and saved unless the
\* last save is recent.
ReceiveDetection ==
    /\ translator = "select" /\ out # <<>>
    /\ out' = <<>>
    /\ last' = Head(out) /\ haveLast' = TRUE
    /\ \/ /\ last' = None
          /\ Carry(BuildActivity(applied, last'))
          /\ UNCHANGED usage
       \/ /\ last' # None
          /\ usage' = "unsaved"
          /\ \/ Carry(BuildActivity(applied, last'))
             \/ translator' = "saveUsage" /\ UNCHANGED carried
    /\ UNCHANGED <<present, disabled, scanner, forceEmit, offer, emission, debounce,
                   scanFailures, request, cancelled, episodesSaved, owed>>
    /\ UNCHANGED <<saved, reloads, applied, applying, published, main, gaveUp>>

\* saveUsage(false) is done: it wrote the store, or Save failed.  (A save skipped,
\* for the throttle or because the file could not be loaded, takes no step.)
SaveUsage ==
    /\ translator = "saveUsage"
    /\ usage' \in {"saved", usage}
    /\ Carry(BuildActivity(applied, last))
    /\ UNCHANGED <<detectorVars, saved, reloads, applied, applying, last, haveLast,
                   published, main, gaveUp>>

DetectorChanges(edit) == Edits[edit].disabled # Edits[applied].disabled

\* A failed reload changes nothing but what is reported.
ReceiveReloadError ==
    /\ translator = "select" /\ reloads = <<ReloadError>>
    /\ reloads' = <<>>
    /\ UNCHANGED <<detectorVars, saved, translation, published, usage, main,
                   gaveUp>>

\* Mutant of ReceiveDisplayReload: the new configuration waits for a detection.
ReceiveDisplayReloadLazily ==
    /\ translator = "select" /\ reloads \notin {<<>>, <<ReloadError>>}
    /\ ~DetectorChanges(Head(reloads))
    /\ reloads' = <<>>
    /\ applied' = Head(reloads)
    /\ UNCHANGED <<detectorVars, saved, translator, applying, last, haveLast, carried,
                   published, usage, main, gaveUp>>

\* A reload that leaves the detector alone: the latest detection is rendered
\* again at once.
ReceiveDisplayReload ==
    /\ translator = "select" /\ reloads \notin {<<>>, <<ReloadError>>}
    /\ ~DetectorChanges(Head(reloads))
    /\ reloads' = <<>>
    /\ applied' = Head(reloads)
    /\ IF haveLast THEN Carry(BuildActivity(applied', last))
                   ELSE UNCHANGED <<translator, carried>>
    /\ UNCHANGED <<detectorVars, saved, applying, last, haveLast, published, usage,
                   main, gaveUp>>

\* A reload the detector must know of: the goroutine blocks in Reconfigure.
ReceiveDetectorReload ==
    /\ translator = "select" /\ reloads \notin {<<>>, <<ReloadError>>}
    /\ DetectorChanges(Head(reloads))
    /\ reloads' = <<>>
    /\ applying' = Head(reloads)
    /\ request' = Edits[applying'].disabled
    /\ translator' = "reconfigure"
    /\ UNCHANGED <<present, disabled, scanner, forceEmit, offer, emission, debounce,
                   scanFailures, out, cancelled, episodesSaved, owed>>
    /\ UNCHANGED <<saved, applied, last, haveLast, carried, published, usage, main,
                   gaveUp>>

\* Reconfigure returns: the detector has closed request.done.
ReconfigureReturns ==
    /\ translator = "reconfigure" /\ request = NULL
    /\ applied' = applying
    /\ translator' = "select"
    /\ UNCHANGED <<detectorVars, saved, reloads, applying, last, haveLast, carried,
                   published, usage, main, gaveUp>>

\* Reconfigure gives up because the context is done.
ReconfigureCancelled ==
    /\ translator = "reconfigure" /\ cancelled
    /\ request' = NULL
    /\ translator' = "select"
    /\ UNCHANGED <<present, disabled, scanner, forceEmit, offer, emission, debounce,
                   scanFailures, out, cancelled, episodesSaved, owed>>
    /\ UNCHANGED <<saved, reloads, applied, applying, last, haveLast, carried, published,
                   usage, main, gaveUp>>

\* Mutant of TranslatorStops: the send to the writer ignores the context.
TranslatorStopsIdle ==
    /\ translator = "select"
    /\ cancelled \/ (scanner = "gone" /\ out = <<>>)
    /\ translator' = "gone"
    /\ reloads' = <<>>
    /\ applied' = 1 /\ applying' = 1
    /\ last' = None /\ haveLast' = FALSE /\ carried' = NULL
    /\ UNCHANGED <<detectorVars, saved, published, usage, main, gaveUp>>

\* The goroutine returns, closing activities: its context is done or the
\* detections channel is closed and drained.  Its own variables end with it, and
\* nobody reads reloads any more.
TranslatorStops ==
    /\ \/ translator \in {"select", "send"} /\ cancelled
       \/ translator = "select" /\ scanner = "gone" /\ out = <<>>
    /\ translator' = "gone"
    /\ reloads' = <<>>
    /\ applied' = 1 /\ applying' = 1
    /\ last' = None /\ haveLast' = FALSE /\ carried' = NULL
    /\ UNCHANGED <<detectorVars, saved, published, usage, main, gaveUp>>

-----------------------------------------------------------------------------
(* The writer and the main goroutine.                                        *)

WriterTakes ==
    /\ main = "write" /\ translator = "send"
    /\ published' = carried
    /\ translator' = "select" /\ carried' = NULL
    /\ UNCHANGED <<detectorVars, saved, reloads, applied, applying, last, haveLast,
                   usage, main, gaveUp>>

Cancel ==
    /\ Alive /\ ~cancelled
    /\ cancelled' = TRUE
    /\ UNCHANGED <<present, disabled, scanner, forceEmit, offer, emission, debounce,
                   scanFailures, out, request, episodesSaved, owed>>
    /\ UNCHANGED daemonVars

\* RunActivities returns.
WriterReturns ==
    /\ main = "write"
    /\ cancelled \/ translator = "gone"
    /\ main' = "waitTranslator"
    /\ published' = NULL
    /\ UNCHANGED <<detectorVars, saved, reloads, translation, usage, gaveUp>>

\* Mutant of TranslatorIsDone: the forced save does not wait for the translator.
TranslatorIsAssumedDone ==
    /\ main = "waitTranslator"
    /\ main' = "saveUsage"
    /\ UNCHANGED <<detectorVars, saved, reloads, translation, published, usage,
                   gaveUp>>

TranslatorIsDone ==
    /\ main = "waitTranslator" /\ translator = "gone"
    /\ main' = "saveUsage"
    /\ UNCHANGED <<detectorVars, saved, reloads, translation, published, usage,
                   gaveUp>>

\* saveUsage(true): it writes the store; or Save fails or is skipped, because the
\* file could not be loaded, and what was unsaved is lost.
SaveUsageForced ==
    /\ main = "saveUsage"
    /\ usage' \in {"saved", IF usage = "saved" THEN "saved" ELSE "lost"}
    /\ main' = "waitDetector"
    /\ UNCHANGED <<detectorVars, saved, reloads, translation, published, gaveUp>>

\* awaitDetectorShutdown: detections still queued are discarded.
DrainDetections ==
    /\ main = "waitDetector" /\ out # <<>>
    /\ out' = <<>>
    /\ UNCHANGED <<present, disabled, scanner, forceEmit, offer, emission, debounce,
                   scanFailures, request, cancelled, episodesSaved, owed>>
    /\ UNCHANGED daemonVars

\* Mutant of ExitAfterDetector: the detector's shutdown is not awaited.
ExitAtOnce ==
    /\ main = "waitDetector"
    /\ main' = "exited"
    /\ UNCHANGED <<detectorVars, saved, reloads, translation, published, usage,
                   gaveUp>>

ExitAfterDetector ==
    /\ main = "waitDetector" /\ scanner = "gone" /\ out = <<>>
    /\ main' = "exited"
    /\ UNCHANGED <<detectorVars, saved, reloads, translation, published, usage,
                   gaveUp>>

\* detectorShutdownTimeout passes first.
ExitWithoutDetector ==
    /\ main = "waitDetector"
    /\ gaveUp' = TRUE
    /\ main' = "exited"
    /\ UNCHANGED <<detectorVars, saved, reloads, translation, published, usage>>

Translate ==
    \/ ReceiveDetection \/ SaveUsage
    \/ ReceiveReloadError \/ ReceiveDisplayReload \/ ReceiveDetectorReload
    \/ ReconfigureReturns \/ ReconfigureCancelled \/ TranslatorStops

Shutdown ==
    \/ Cancel \/ WriterReturns \/ TranslatorIsDone \/ SaveUsageForced
    \/ DrainDetections \/ ExitAfterDetector \/ ExitWithoutDetector

Detect == Alive /\ DetectorNext /\ UNCHANGED daemonVars

Exited == main = "exited" /\ UNCHANGED vars

Run ==
    \/ Detect
    \/ EditIsAccepted \/ ReloadFails
    \/ Translate
    \/ WriterTakes

Next == Run \/ Shutdown \/ Exited

Spec == Init /\ [][Next]_vars

ReceiveReload == ReceiveReloadError \/ ReceiveDisplayReload \/ ReceiveDetectorReload

MainMoves ==
    \/ WriterTakes \/ TranslatorIsDone \/ SaveUsageForced
    \/ DrainDetections \/ ExitAfterDetector \/ ExitWithoutDetector

\* Every goroutine that can move moves, and a select picks among its ready cases
\* at random, so none is passed over for ever.  Nothing is assumed of
\* listProcesses (a scan may hang), of edits or of cancellation.
Fairness ==
    /\ WF_vars(Alive /\ DetectorMoves /\ UNCHANGED daemonVars)
    /\ SF_vars(Alive /\ ApplyReconfigure /\ UNCHANGED daemonVars)
    /\ WF_vars(Translate)
    /\ SF_vars(ReceiveDetection) /\ SF_vars(ReceiveReload) /\ SF_vars(TranslatorStops)
    /\ WF_vars(MainMoves) /\ SF_vars(WriterReturns)
    /\ WF_vars(ExitAfterDetector \/ ExitWithoutDetector)

FairSpec == Spec /\ Fairness

-----------------------------------------------------------------------------
(***************************************************************************)
(* The throttled usage save and the forced one of shutdown never overlap,  *)
(* and no usage is recorded behind the forced one: what is missing on disk *)
(* afterwards is what that save itself could not write (issue 593).        *)
(***************************************************************************)
UsageSavesAreOrdered ==
    /\ ~(main = "saveUsage" /\ translator = "saveUsage")
    /\ main \in {"waitDetector", "exited"} => usage # "unsaved"

(***************************************************************************)
(* The process does not exit before the detector's deferred episode save   *)
(* has run (it may fail, or be skipped after a failed load), unless it     *)
(* gave up on a detector that did not answer (issue 618).                  *)
(***************************************************************************)
EpisodesAreSavedAtExit ==
    main = "exited" => episodesSaved \/ gaveUp

(***************************************************************************)
(* A cancelled daemon exits, even when a process scan hangs for ever, the  *)
(* detections channel is full or the translator is blocked in Reconfigure  *)
(* or on the writer.                                                       *)
(***************************************************************************)
CancelledDaemonExits == cancelled ~> main = "exited"

\* No process scan hangs for ever.
ScansReturn == []<>(scanner # "list")

(***************************************************************************)
(* While scans return, a configuration in the reload channel is applied,   *)
(* or a later one is, unless the daemon is stopped or a failed reload      *)
(* takes its place first (see LastGoodIsApplied): no cycle of blocked      *)
(* goroutines swallows it.                                                 *)
(***************************************************************************)
ReloadIsApplied ==
    \A edit \in 2 .. Len(Edits) :
        ScansReturn =>
            (reloads = <<edit>> ~>
                (applied >= edit \/ reloads = <<ReloadError>> \/ cancelled))

(***************************************************************************)
(* Once scans have stopped failing and the applied configuration and the   *)
(* tools are quiet, the writer of a running daemon holds the activity that *)
(* configuration gives those tools (unless a failed scan swallowed the     *)
(* emission that a reconfiguration owes: see ReconfigureIsEmitted).        *)
(***************************************************************************)
Quiet ==
    /\ <>[][~ListFails /\ applied' = applied /\ present' = present]_vars
    /\ <>[](translator # "reconfigure" /\ ~cancelled)

PublishedCatchesUp ==
    ScansReturn /\ Quiet =>
        <>[](\/ owed
             \/ published = BuildActivity(applied, present \ Edits[applied].disabled))

(***************************************************************************)
(* docs/product/architecture.md: the config is hot-reloaded "while         *)
(* preserving last-good runtime behavior after an invalid edit".  So the   *)
(* last good configuration is the one applied, invalid edit or not.        *)
(***************************************************************************)
LastGoodIsApplied ==
    \A edit \in 2 .. Len(Edits) : saved = edit ~> applied >= edit

(***************************************************************************)
(* The comment of Detector.Reconfigure: "the next scan is immediate and is *)
(* emitted even when the selected tool IDs did not change".  Once scans     *)
(* have stopped failing and tools are quiet, a reconfiguration is followed *)
(* by an emission, which is what renders the activity under the new        *)
(* configuration.                                                          *)
(***************************************************************************)
ReconfigureIsEmitted ==
    <>[][~ListFails /\ present' = present]_vars => ((owed /\ emitted # None) ~> (~owed \/ emitted = None))
=============================================================================
