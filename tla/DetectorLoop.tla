---------------------------- MODULE DetectorLoop ----------------------------
(***************************************************************************)
(* The detector goroutine (internal/detector/detector.go, run): it scans   *)
(* the process table on a ticker, debounces what the selector reports,     *)
(* emits changes on a channel of capacity one, accepts a new configuration *)
(* whenever it would block, and clears a published detection after too     *)
(* many failed scans.                                                      *)
(*                                                                         *)
(* A detection is the set of tools the selector reports; {} is None.  The  *)
(* selector is abstracted to "the tools present and not disabled" (which   *)
(* of them is featured does not matter to the loop), a configuration to    *)
(* the set of tools it disables.  A scan takes time: listProcesses is a    *)
(* call the loop is stuck in until it returns, whatever is cancelled.      *)
(***************************************************************************)
EXTENDS Integers, Sequences

CONSTANTS
    Tools,
    Sightings,                  \* the sets of tools that may be running
    NULL,
    DebounceCycles,             \* equal scans before a change is emitted
    ScanFailureClearThreshold   \* failed scans before presence is cleared

ASSUME SightingsAssumption == Sightings \subseteq SUBSET Tools /\ Sightings # {}
ASSUME NULLAssumption == \A set \in SUBSET Tools : set # NULL
ASSUME DebounceAssumption == DebounceCycles \in Nat \ {0}
ASSUME ThresholdAssumption == ScanFailureClearThreshold \in Nat \ {0}

VARIABLES
    present,        \* the tools running on the machine
    disabled,       \* the detector's configuration
    scanner,        \* where the goroutine is: "select", "list", "send", "save", "gone"
    forceEmit,      \* the scan in progress must emit
    offer,          \* what a blocked send offers: the "candidate" or "none"
    emitted, hasEmitted,
    candidate,      \* the last selection, or NULL: candidateSet is false
    streak,         \* equal scans in a row, saturating at DebounceCycles; 0 if unset
    scanFailures,   \* failed scans in a row, saturating at the threshold
    out,            \* the detections channel, capacity 1
    request,        \* a caller blocked in Reconfigure, with its configuration
    cancelled,      \* the context is done
    episodesSaved,  \* the deferred episode save has run
    owed            \* history: a reconfiguration has not been followed by an emission

debounce == <<candidate, streak>>
emission == <<emitted, hasEmitted>>
detectorVars == <<present, disabled, scanner, forceEmit, offer, emission, debounce,
                  scanFailures, out, request, cancelled, episodesSaved, owed>>

None == {}
Capacity == 1

DetectorTypeOK ==
    /\ present \in Sightings /\ disabled \subseteq Tools
    /\ scanner \in {"select", "list", "send", "save", "gone"}
    /\ forceEmit \in BOOLEAN
    /\ offer \in {"candidate", "none"}
    /\ emitted \subseteq Tools /\ hasEmitted \in BOOLEAN
    /\ candidate \in {NULL} \cup SUBSET Tools
    /\ streak \in 0 .. DebounceCycles
    /\ scanFailures \in 0 .. ScanFailureClearThreshold
    /\ out \in Seq(SUBSET Tools) /\ Len(out) <= Capacity
    /\ request \in {NULL} \cup SUBSET Tools
    /\ cancelled \in BOOLEAN /\ episodesSaved \in BOOLEAN /\ owed \in BOOLEAN

DetectorInit ==
    /\ present \in Sightings /\ disabled \in SUBSET Tools
    /\ scanner = "list" /\ forceEmit = FALSE /\ offer = "candidate"
    /\ emitted = None /\ hasEmitted = FALSE
    /\ candidate = NULL /\ streak = 0
    /\ scanFailures = 0
    /\ out = <<>> /\ request = NULL
    /\ cancelled = FALSE /\ episodesSaved = FALSE /\ owed = FALSE

-----------------------------------------------------------------------------
(* The scan closure.                                                         *)

AtMost(n, bound) == IF n > bound THEN bound ELSE n

Selected == present \ disabled

\* listProcesses fails.  The scan ends here, forced or not, unless too many
\* scans have failed while something is published.
ListFails ==
    /\ scanner = "list"
    /\ scanFailures' = AtMost(scanFailures + 1, ScanFailureClearThreshold)
    /\ IF \/ scanFailures + 1 < ScanFailureClearThreshold
          \/ ~hasEmitted
          \/ emitted = None
       THEN scanner' = "select" /\ forceEmit' = FALSE /\ UNCHANGED offer
       ELSE scanner' = "send" /\ offer' = "none" /\ UNCHANGED forceEmit
    /\ UNCHANGED <<present, disabled, emission, debounce, out, request,
                   cancelled, episodesSaved, owed>>

Repeated == Selected = candidate

\* listProcesses succeeds and the selector reports what it sees.
ListSucceeds ==
    /\ scanner = "list"
    /\ scanFailures' = 0
    /\ candidate' = Selected
    /\ streak' = IF Repeated THEN AtMost(streak + 1, DebounceCycles) ELSE 1
    /\ IF ~forceEmit /\ (streak' < DebounceCycles \/ (hasEmitted /\ candidate' = emitted))
       THEN scanner' = "select" /\ UNCHANGED offer
       ELSE scanner' = "send" /\ offer' = "candidate"
    /\ UNCHANGED <<present, disabled, forceEmit, emission, out, request,
                   cancelled, episodesSaved, owed>>

\* Mutant of Emit: the send does not wait for room in the channel.
EmitWithoutRoom ==
    /\ scanner = "send"
    /\ out' = Append(out, IF offer = "candidate" THEN candidate ELSE None)
    /\ emitted' = Head(out') /\ hasEmitted' = TRUE
    /\ owed' = FALSE /\ forceEmit' = FALSE /\ offer' = "candidate"
    /\ scanner' = "select"
    /\ UNCHANGED <<present, disabled, debounce, scanFailures, request, cancelled,
                   episodesSaved>>

\* The blocked send goes through.
Emit ==
    /\ scanner = "send" /\ Len(out) < Capacity
    /\ IF offer = "candidate"
       THEN /\ out' = Append(out, candidate)
            /\ emitted' = candidate /\ hasEmitted' = TRUE
            /\ UNCHANGED debounce
       ELSE /\ out' = Append(out, None)
            /\ emitted' = None /\ UNCHANGED hasEmitted
            /\ candidate' = None /\ streak' = 0
    /\ owed' = FALSE
    /\ forceEmit' = FALSE /\ offer' = "candidate"
    /\ scanner' = "select"
    /\ UNCHANGED <<present, disabled, scanFailures, request, cancelled, episodesSaved>>

-----------------------------------------------------------------------------
(* The loop.                                                                 *)

TickerScans ==
    /\ scanner = "select"
    /\ scanner' = "list" /\ forceEmit' = FALSE
    /\ UNCHANGED <<present, disabled, offer, emission, debounce, scanFailures, out,
                   request, cancelled, episodesSaved, owed>>

\* Mutant of ApplyReconfigure (the defect of issue 615): what was emitted is
\* forgotten, so persistent scan failures no longer clear it.
ApplyReconfigureForgetful ==
    /\ scanner \in {"select", "send"} /\ request # NULL
    /\ disabled' = request
    /\ request' = NULL
    /\ candidate' = NULL /\ streak' = 0
    /\ hasEmitted' = FALSE
    /\ owed' = TRUE
    /\ scanner' = "list" /\ forceEmit' = TRUE
    /\ offer' = "candidate"
    /\ UNCHANGED <<present, emitted, scanFailures, out, cancelled, episodesSaved>>

\* Mutant of ApplyReconfigure: a blocked send does not listen for requests.
ApplyReconfigureWhenIdle ==
    /\ scanner = "select" /\ request # NULL
    /\ disabled' = request
    /\ request' = NULL
    /\ candidate' = NULL /\ streak' = 0
    /\ owed' = TRUE
    /\ scanner' = "list" /\ forceEmit' = TRUE
    /\ offer' = "candidate"
    /\ UNCHANGED <<present, emission, scanFailures, out, cancelled, episodesSaved>>

\* A Reconfigure caller is served, from the main select or instead of a blocked
\* send, and a forced scan starts.
ApplyReconfigure ==
    /\ scanner \in {"select", "send"} /\ request # NULL
    /\ disabled' = request
    /\ request' = NULL
    /\ candidate' = NULL /\ streak' = 0
    /\ owed' = TRUE
    /\ scanner' = "list" /\ forceEmit' = TRUE
    /\ offer' = "candidate"
    /\ UNCHANGED <<present, emission, scanFailures, out, cancelled, episodesSaved>>

\* The context is seen done wherever the loop can block, but in listProcesses;
\* the deferred calls save the episodes, then close the channel.  The goroutine's
\* own variables end with it.
DetectorStops ==
    /\ scanner \in {"select", "send"} /\ cancelled
    /\ scanner' = "save"
    /\ forceEmit' = FALSE /\ offer' = "candidate"
    /\ emitted' = None /\ hasEmitted' = FALSE
    /\ candidate' = NULL /\ streak' = 0
    /\ scanFailures' = 0
    /\ owed' = FALSE
    /\ UNCHANGED <<present, disabled, out, request, cancelled, episodesSaved>>

\* The deferred calls: the episode save, which may fail or, after a failed load,
\* be missing, and the close of the detections channel.
SaveAndClose ==
    /\ scanner = "save"
    /\ episodesSaved' = TRUE
    /\ scanner' = "gone"
    /\ UNCHANGED <<present, disabled, forceEmit, offer, emission, debounce, scanFailures, out, request, cancelled, owed>>

\* Tools start and exit (after cancellation it no longer matters).
ToolsChange(tools) ==
    /\ present # tools /\ ~cancelled
    /\ present' = tools
    /\ UNCHANGED <<disabled, scanner, forceEmit, offer, emission, debounce, scanFailures, out, request, cancelled, episodesSaved, owed>>

DetectorNext ==
    \/ ListFails \/ ListSucceeds \/ Emit
    \/ TickerScans \/ ApplyReconfigure \/ DetectorStops \/ SaveAndClose
    \/ \E tools \in Sightings : ToolsChange(tools)

DetectorMoves == Emit \/ TickerScans \/ ApplyReconfigure \/ DetectorStops \/ SaveAndClose

-----------------------------------------------------------------------------
(***************************************************************************)
(* Nothing stays published behind a blind detector: whenever the loop is   *)
(* between scans after the threshold of failed scans, what it last emitted *)
(* is None, or it has never emitted anything.  Reconfigurations must not   *)
(* disarm this (issue 615).                                                *)
(***************************************************************************)
BlindDetectorClears ==
    (scanner = "select" /\ scanFailures = ScanFailureClearThreshold) => emitted = None
=============================================================================
