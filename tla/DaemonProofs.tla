---------------------------- MODULE DaemonProofs ----------------------------
(***************************************************************************)
(* Proofs about the daemon, for every set of tools, every sequence of      *)
(* edits and every pair of thresholds.                                     *)
(*                                                                         *)
(* What holds at the exit holds because of the order in which the main     *)
(* goroutine waits for the others, and a blind detector clears because of  *)
(* what the loop knows when it offers a detection.  IInv adds those facts. *)
(***************************************************************************)
EXTENDS Daemon, TLAPS

\* What is offered was seen by a scan that succeeded, and nothing is shown
\* before the first emission.
OfferIsSeen ==
    scanner = "send" /\ offer = "candidate" => scanFailures = 0 /\ candidate # NULL
NothingBeforeEmission == ~hasEmitted => emitted = None

\* The episodes are saved before the channel closes.
SavedWhenGone == scanner = "gone" => episodesSaved

\* The channel of reloads holds an edit that was made, or an error.
ReloadsWereSaved ==
    \/ reloads = <<>> \/ reloads = <<ReloadError>>
    \/ \E edit \in 1 .. saved : reloads = <<edit>>

\* The main goroutine has waited for the translator.
TranslatorIsAwaited ==
    main \in {"saveUsage", "waitDetector", "exited"} => translator = "gone"

\* The variables the scan and the offer it makes are about, and its counters.
OfferTypeOK ==
    /\ scanner \in {"select", "list", "send", "save", "gone"}
    /\ forceEmit \in BOOLEAN /\ offer \in {"candidate", "none"}
    /\ emitted \subseteq Tools /\ hasEmitted \in BOOLEAN
    /\ candidate \in {NULL} \cup SUBSET Tools
CountersTypeOK ==
    /\ streak \in 0 .. DebounceCycles
    /\ scanFailures \in 0 .. ScanFailureClearThreshold

DetectorInv ==
    /\ DetectorTypeOK
    /\ OfferIsSeen /\ NothingBeforeEmission /\ SavedWhenGone
    /\ BlindDetectorClears

Inv ==
    /\ ReloadsWereSaved
    /\ TranslatorIsAwaited
    /\ UsageSavesAreOrdered
    /\ EpisodesAreSavedAtExit

\* The part of TypeOK that is not the detector's.
DaemonTypeOK ==
    /\ saved \in 1 .. Len(Edits)
    /\ reloads \in Seq(1 .. Len(Edits) \cup {ReloadError}) /\ Len(reloads) <= 1
    /\ translator \in {"select", "saveUsage", "send", "reconfigure", "gone"}
    /\ applied \in 1 .. saved /\ applying \in 1 .. saved
    /\ last \subseteq Tools /\ haveLast \in BOOLEAN
    /\ carried \in Activities \cup {NULL} /\ published \in Activities \cup {NULL}
    /\ usage \in {"saved", "unsaved", "lost"}
    /\ main \in {"write", "waitTranslator", "saveUsage", "waitDetector", "exited"}
    /\ gaveUp \in BOOLEAN

IInv == DetectorInv /\ DaemonTypeOK /\ Inv

LEMMA IInvIsTyped == IInv => TypeOK
BY DEF IInv, DetectorInv, DaemonTypeOK, TypeOK

-----------------------------------------------------------------------------
(* The configuration and the activity it gives are of their types.           *)

LEMMA EditsAreTyped ==
    ASSUME NEW edit \in 1 .. Len(Edits)
    PROVE  /\ Edits[edit].disabled \subseteq Tools
           /\ Edits[edit].display \in {"plain", "private"}
<1> DEFINE Config == [disabled : SUBSET Tools, display : {"plain", "private"}]
<1>1. Edits \in Seq(Config)
  BY EditsAssumption
<1>2. Edits[edit] \in Config
  <2> HIDE DEF Config
  <2>1. QED
    BY <1>1
<1>3. QED
  BY <1>2

LEMMA ActivityIsTyped ==
    ASSUME NEW edit \in 1 .. Len(Edits), NEW tools \in SUBSET Tools
    PROVE  BuildActivity(edit, tools) \in Activities \cup {NULL}
<1> DEFINE featured == CHOOSE tool \in tools : TRUE
<1>1. CASE tools = None \/ featured \in Edits[edit].disabled
  BY <1>1 DEF BuildActivity
<1>2. CASE ~(tools = None \/ featured \in Edits[edit].disabled)
  <2>1. featured \in tools
    BY <1>2 DEF None
  <2>2. QED
    BY <1>2, <2>1, EditsAreTyped DEF BuildActivity, Activities
<1>3. QED
  BY <1>1, <1>2

-----------------------------------------------------------------------------
(* The detector's own steps.                                                 *)

LEMMA DetectorStepKeeps ==
    ASSUME DetectorInv, DetectorNext
    PROVE  DetectorInv'
<1> USE DebounceAssumption, ThresholdAssumption, SightingsAssumption, NULLAssumption
<1> USE DEF DetectorInv, DetectorTypeOK, OfferIsSeen, NothingBeforeEmission, SavedWhenGone,
            BlindDetectorClears, emission, debounce, None, Capacity
<1>1. CASE ListFails
  <2>1. DetectorTypeOK'
    <3>1. OfferTypeOK'
      BY <1>1 DEF ListFails, AtMost, OfferTypeOK
    <3>2. CountersTypeOK'
      BY <1>1 DEF ListFails, AtMost, CountersTypeOK
    <3>3. QED
      BY <1>1, <3>1, <3>2 DEF ListFails, AtMost, OfferTypeOK, CountersTypeOK
  <2>2. OfferIsSeen' /\ NothingBeforeEmission' /\ SavedWhenGone' /\ BlindDetectorClears'
    BY <1>1 DEF ListFails, AtMost
  <2>3. QED
    BY <2>1, <2>2
<1>2. CASE ListSucceeds
  BY <1>2 DEF ListSucceeds, AtMost, Selected, Repeated
<1>3. CASE Emit
  <2>1. DetectorTypeOK'
    <3>1. OfferTypeOK'
      BY <1>3 DEF Emit, OfferTypeOK
    <3>2. CountersTypeOK'
      BY <1>3 DEF Emit, CountersTypeOK
    <3>3. (out \in Seq(SUBSET Tools) /\ Len(out) <= Capacity)'
      BY <1>3 DEF Emit
    <3>4. QED
      BY <1>3, <3>1, <3>2, <3>3 DEF Emit, OfferTypeOK, CountersTypeOK
  <2>2. OfferIsSeen' /\ NothingBeforeEmission' /\ SavedWhenGone' /\ BlindDetectorClears'
    BY <1>3 DEF Emit
  <2>3. QED
    BY <2>1, <2>2
<1>4. CASE TickerScans
  BY <1>4 DEF TickerScans
<1>5. CASE ApplyReconfigure
  BY <1>5 DEF ApplyReconfigure
<1>6. CASE DetectorStops
  <2>1. DetectorTypeOK'
    <3>1. OfferTypeOK'
      BY <1>6 DEF DetectorStops, OfferTypeOK
    <3>2. CountersTypeOK'
      BY <1>6 DEF DetectorStops, CountersTypeOK
    <3>3. QED
      BY <1>6, <3>1, <3>2 DEF DetectorStops, OfferTypeOK, CountersTypeOK
  <2>2. OfferIsSeen' /\ NothingBeforeEmission' /\ SavedWhenGone' /\ BlindDetectorClears'
    BY <1>6 DEF DetectorStops
  <2>3. QED
    BY <2>1, <2>2
<1>7. CASE SaveAndClose
  BY <1>7 DEF SaveAndClose
<1>8. CASE \E tools \in Sightings : ToolsChange(tools)
  BY <1>8 DEF ToolsChange
<1>9. QED
  BY <1>1, <1>2, <1>3, <1>4, <1>5, <1>6, <1>7, <1>8 DEF DetectorNext

LEMMA DetectorInvStutters == DetectorInv /\ UNCHANGED detectorVars => DetectorInv'
BY DEF DetectorInv, DetectorTypeOK, OfferIsSeen, NothingBeforeEmission, SavedWhenGone,
       BlindDetectorClears, detectorVars, emission, debounce, None, Capacity

LEMMA DetectKeeps ==
    ASSUME IInv, Detect
    PROVE  IInv'
<1>1. DetectorInv'
  BY DetectorStepKeeps DEF Detect, IInv
<1>2. QED
  BY <1>1 DEF IInv, Inv, DaemonTypeOK, Detect, Alive, daemonVars, translation,
     ReloadsWereSaved, TranslatorIsAwaited, UsageSavesAreOrdered, EpisodesAreSavedAtExit,
     Activities

-----------------------------------------------------------------------------
(* The steps of the manager, the translator and the main goroutine: what they *)
(* change of the detector is its channels and the context.                    *)

LEMMA ChannelsKeep ==
    ASSUME DetectorInv,
           UNCHANGED <<present, disabled, scanner, forceEmit, offer, emission, debounce,
                       scanFailures, episodesSaved, owed>>,
           out' \in Seq(SUBSET Tools), Len(out') <= Capacity,
           request' \in {NULL} \cup SUBSET Tools, cancelled' \in BOOLEAN
    PROVE  DetectorInv'
BY DEF DetectorInv, DetectorTypeOK, OfferIsSeen, NothingBeforeEmission, SavedWhenGone,
       BlindDetectorClears, emission, debounce, None

\* The head of a channel that holds no error is an edit that was made.
LEMMA HeadWasSaved ==
    ASSUME ReloadsWereSaved, reloads \notin {<<>>, <<ReloadError>>}
    PROVE  Head(reloads) \in 1 .. saved
BY DEF ReloadsWereSaved


LEMMA ManagerKeeps ==
    ASSUME IInv, EditIsAccepted \/ ReloadFails
    PROVE  IInv'
<1> USE DEF IInv, Inv, ReloadsWereSaved, TranslatorIsAwaited, UsageSavesAreOrdered, EpisodesAreSavedAtExit,
            translation, daemonVars
<1>1. CASE EditIsAccepted
  <2>1. DetectorInv'
    BY <1>1, DetectorInvStutters DEF EditIsAccepted
  <2>2. DaemonTypeOK'
    BY <1>1 DEF EditIsAccepted, DaemonTypeOK
  <2>3. Inv'
    <3>1. ReloadsWereSaved'
      BY <1>1 DEF EditIsAccepted, DaemonTypeOK
    <3>2. QED
      BY <1>1, <3>1 DEF EditIsAccepted, Alive
  <2>4. QED
    BY <2>1, <2>2, <2>3
<1>2. CASE ReloadFails
  <2>1. DetectorInv'
    BY <1>2, DetectorInvStutters DEF ReloadFails
  <2>2. DaemonTypeOK'
    BY <1>2 DEF ReloadFails, DaemonTypeOK
  <2>3. Inv'
    <3>1. ReloadsWereSaved'
      BY <1>2 DEF ReloadFails
    <3>2. QED
      BY <1>2, <3>1 DEF ReloadFails, Alive
  <2>4. QED
    BY <2>1, <2>2, <2>3
<1>3. QED
  BY <1>1, <1>2

LEMMA TranslatorKeeps ==
    ASSUME IInv, Translate
    PROVE  IInv'
<1> USE DEF IInv, Inv, ReloadsWereSaved, TranslatorIsAwaited, UsageSavesAreOrdered, EpisodesAreSavedAtExit,
            translation, daemonVars
<1>1. CASE ReceiveDetection
  <2>1. DetectorInv'
    BY <1>1, ChannelsKeep DEF ReceiveDetection, DetectorInv, DetectorTypeOK, None, Capacity
  <2>2. DaemonTypeOK'
    <3>1. Head(out) \in SUBSET Tools
      BY <1>1 DEF ReceiveDetection, DetectorInv, DetectorTypeOK
    <3>2. BuildActivity(applied, last') \in Activities \cup {NULL}
      BY <1>1, <3>1, ActivityIsTyped DEF ReceiveDetection, DaemonTypeOK
    <3>3. QED
      BY <1>1, <3>1, <3>2 DEF ReceiveDetection, Carry, DaemonTypeOK
  <2>3. Inv'
    BY <1>1 DEF ReceiveDetection
  <2>4. QED
    BY <2>1, <2>2, <2>3
<1>2. CASE SaveUsage
  <2>1. DetectorInv'
    BY <1>2, DetectorInvStutters DEF SaveUsage
  <2>2. DaemonTypeOK'
    <3>1. BuildActivity(applied, last) \in Activities \cup {NULL}
      BY ActivityIsTyped DEF DaemonTypeOK
    <3>2. QED
      BY <1>2, <3>1 DEF SaveUsage, Carry, DaemonTypeOK
  <2>3. Inv'
    BY <1>2 DEF SaveUsage
  <2>4. QED
    BY <2>1, <2>2, <2>3
<1>3. CASE ReceiveReloadError
  <2>1. DetectorInv'
    BY <1>3, DetectorInvStutters DEF ReceiveReloadError
  <2>2. DaemonTypeOK'
    BY <1>3 DEF ReceiveReloadError, DaemonTypeOK
  <2>3. Inv'
    BY <1>3 DEF ReceiveReloadError
  <2>4. QED
    BY <2>1, <2>2, <2>3
<1>4. CASE ReceiveDisplayReload
  <2>1. DetectorInv'
    BY <1>4, DetectorInvStutters DEF ReceiveDisplayReload
  <2>2. DaemonTypeOK'
    <3>1. applied' \in 1 .. saved /\ applied' \in 1 .. Len(Edits)
      BY <1>4, HeadWasSaved DEF ReceiveDisplayReload, DaemonTypeOK
    <3>2. BuildActivity(applied', last) \in Activities \cup {NULL}
      BY <3>1, ActivityIsTyped DEF DaemonTypeOK
    <3>3. QED
      BY <1>4, <3>1, <3>2 DEF ReceiveDisplayReload, Carry, DaemonTypeOK
  <2>3. Inv'
    BY <1>4 DEF ReceiveDisplayReload
  <2>4. QED
    BY <2>1, <2>2, <2>3
<1>5. CASE ReceiveDetectorReload
  <2>1. DetectorInv'
    <3>1. applying' \in 1 .. Len(Edits)
      BY <1>5, HeadWasSaved DEF ReceiveDetectorReload, DaemonTypeOK
    <3>2. request' \in SUBSET Tools
      BY <1>5, <3>1, EditsAreTyped DEF ReceiveDetectorReload
    <3>3. QED
      BY <1>5, <3>2, ChannelsKeep DEF ReceiveDetectorReload, DetectorInv, DetectorTypeOK
  <2>2. DaemonTypeOK'
    BY <1>5 DEF ReceiveDetectorReload, DaemonTypeOK
  <2>3. Inv'
    BY <1>5 DEF ReceiveDetectorReload
  <2>4. QED
    BY <2>1, <2>2, <2>3
<1>6. CASE ReconfigureReturns
  <2>1. DetectorInv'
    BY <1>6, DetectorInvStutters DEF ReconfigureReturns
  <2>2. DaemonTypeOK'
    BY <1>6 DEF ReconfigureReturns, DaemonTypeOK
  <2>3. Inv'
    BY <1>6 DEF ReconfigureReturns
  <2>4. QED
    BY <2>1, <2>2, <2>3
<1>7. CASE ReconfigureCancelled
  <2>1. DetectorInv'
    BY <1>7, ChannelsKeep DEF ReconfigureCancelled, DetectorInv, DetectorTypeOK, None, Capacity
  <2>2. DaemonTypeOK'
    BY <1>7 DEF ReconfigureCancelled, DaemonTypeOK
  <2>3. Inv'
    BY <1>7 DEF ReconfigureCancelled
  <2>4. QED
    BY <2>1, <2>2, <2>3
<1>8. CASE TranslatorStops
  <2>1. DetectorInv'
    BY <1>8, DetectorInvStutters DEF TranslatorStops
  <2>2. DaemonTypeOK'
    <3>1. 1 \in 1 .. saved
      BY DEF DaemonTypeOK
    <3>2. (reloads \in Seq(1 .. Len(Edits) \cup {ReloadError}) /\ Len(reloads) <= 1)'
      BY <1>8 DEF TranslatorStops
    <3>3. QED
      BY <1>8, <3>1, <3>2 DEF TranslatorStops, DaemonTypeOK, None
  <2>3. Inv'
    BY <1>8 DEF TranslatorStops
  <2>4. QED
    BY <2>1, <2>2, <2>3
<1>9. QED
  BY <1>1, <1>2, <1>3, <1>4, <1>5, <1>6, <1>7, <1>8 DEF Translate

LEMMA MainKeeps ==
    ASSUME IInv, WriterTakes \/ Shutdown
    PROVE  IInv'
<1> USE DEF IInv, Inv, ReloadsWereSaved, TranslatorIsAwaited, UsageSavesAreOrdered, EpisodesAreSavedAtExit,
            translation, daemonVars
<1>1. CASE WriterTakes
  <2>1. DetectorInv'
    BY <1>1, DetectorInvStutters DEF WriterTakes
  <2>2. DaemonTypeOK'
    BY <1>1 DEF WriterTakes, DaemonTypeOK
  <2>3. Inv'
    BY <1>1 DEF WriterTakes
  <2>4. QED
    BY <2>1, <2>2, <2>3
<1>2. CASE Cancel
  <2>1. DetectorInv'
    BY <1>2, ChannelsKeep DEF Cancel, DetectorInv, DetectorTypeOK, None, Capacity
  <2>2. DaemonTypeOK'
    BY <1>2 DEF Cancel, DaemonTypeOK
  <2>3. Inv'
    BY <1>2 DEF Cancel
  <2>4. QED
    BY <2>1, <2>2, <2>3
<1>3. CASE WriterReturns
  <2>1. DetectorInv'
    BY <1>3, DetectorInvStutters DEF WriterReturns
  <2>2. DaemonTypeOK'
    BY <1>3 DEF WriterReturns, DaemonTypeOK
  <2>3. Inv'
    BY <1>3 DEF WriterReturns
  <2>4. QED
    BY <2>1, <2>2, <2>3
<1>4. CASE TranslatorIsDone
  <2>1. DetectorInv'
    BY <1>4, DetectorInvStutters DEF TranslatorIsDone
  <2>2. DaemonTypeOK'
    BY <1>4 DEF TranslatorIsDone, DaemonTypeOK
  <2>3. Inv'
    BY <1>4 DEF TranslatorIsDone
  <2>4. QED
    BY <2>1, <2>2, <2>3
<1>5. CASE SaveUsageForced
  <2>1. DetectorInv'
    BY <1>5, DetectorInvStutters DEF SaveUsageForced
  <2>2. DaemonTypeOK'
    BY <1>5 DEF SaveUsageForced, DaemonTypeOK
  <2>3. Inv'
    BY <1>5 DEF SaveUsageForced
  <2>4. QED
    BY <2>1, <2>2, <2>3
<1>6. CASE DrainDetections
  <2>1. DetectorInv'
    BY <1>6, ChannelsKeep DEF DrainDetections, DetectorInv, DetectorTypeOK, None, Capacity
  <2>2. DaemonTypeOK'
    BY <1>6 DEF DrainDetections, DaemonTypeOK
  <2>3. Inv'
    BY <1>6 DEF DrainDetections
  <2>4. QED
    BY <2>1, <2>2, <2>3
<1>7. CASE ExitAfterDetector
  <2>1. DetectorInv'
    BY <1>7, DetectorInvStutters DEF ExitAfterDetector
  <2>2. DaemonTypeOK'
    BY <1>7 DEF ExitAfterDetector, DaemonTypeOK
  <2>3. Inv'
    BY <1>7 DEF ExitAfterDetector, DetectorInv, SavedWhenGone, detectorVars
  <2>4. QED
    BY <2>1, <2>2, <2>3
<1>8. CASE ExitWithoutDetector
  <2>1. DetectorInv'
    BY <1>8, DetectorInvStutters DEF ExitWithoutDetector
  <2>2. DaemonTypeOK'
    BY <1>8 DEF ExitWithoutDetector, DaemonTypeOK
  <2>3. Inv'
    BY <1>8 DEF ExitWithoutDetector
  <2>4. QED
    BY <2>1, <2>2, <2>3
<1>9. QED
  BY <1>1, <1>2, <1>3, <1>4, <1>5, <1>6, <1>7, <1>8 DEF Shutdown


-----------------------------------------------------------------------------
(* IInv is inductive.                                                         *)

LEMMA IInvInit == Init => IInv
<1> SUFFICES ASSUME Init PROVE IInv
  OBVIOUS
<1> USE DebounceAssumption, ThresholdAssumption, SightingsAssumption
<1>1. 1 \in 1 .. Len(Edits)
  BY EditsAssumption
<1>2. DetectorInv
  <2>1. DetectorTypeOK
    <3>1. out \in Seq(SUBSET Tools) /\ Len(out) <= Capacity
      BY DEF Init, DetectorInit, Capacity
    <3>2. OfferTypeOK
      BY DEF Init, DetectorInit, OfferTypeOK, None
    <3>3. CountersTypeOK
      BY DEF Init, DetectorInit, CountersTypeOK
    <3>4. QED
      BY <3>1, <3>2, <3>3 DEF Init, DetectorInit, OfferTypeOK, CountersTypeOK, DetectorTypeOK
  <2>2. OfferIsSeen /\ NothingBeforeEmission /\ SavedWhenGone /\ BlindDetectorClears
    BY DEF Init, DetectorInit, OfferIsSeen, NothingBeforeEmission, SavedWhenGone,
       BlindDetectorClears
  <2>3. QED
    BY <2>1, <2>2 DEF DetectorInv
<1>3. DaemonTypeOK
  <2>1. reloads \in Seq(1 .. Len(Edits) \cup {ReloadError}) /\ Len(reloads) <= 1
    BY DEF Init
  <2>2. saved \in 1 .. Len(Edits) /\ applied \in 1 .. saved /\ applying \in 1 .. saved
    BY <1>1 DEF Init
  <2>3. carried \in Activities \cup {NULL} /\ published \in Activities \cup {NULL}
    BY DEF Init
  <2>4. QED
    BY <2>1, <2>2, <2>3 DEF Init, DaemonTypeOK, None
<1>4. Inv
  BY DEF Init, Inv, ReloadsWereSaved, TranslatorIsAwaited, UsageSavesAreOrdered,
     EpisodesAreSavedAtExit
<1>5. QED
  BY <1>2, <1>3, <1>4 DEF IInv

LEMMA IInvStep == IInv /\ [Next]_vars => IInv'
<1> SUFFICES ASSUME IInv, [Next]_vars PROVE IInv'
  OBVIOUS
<1>1. CASE Detect
  BY <1>1, DetectKeeps
<1>2. CASE EditIsAccepted \/ ReloadFails
  BY <1>2, ManagerKeeps
<1>3. CASE Translate
  BY <1>3, TranslatorKeeps
<1>4. CASE WriterTakes \/ Shutdown
  BY <1>4, MainKeeps
<1>5. CASE UNCHANGED vars
  <2>1. DetectorInv'
    BY <1>5, DetectorInvStutters DEF IInv, vars
  <2>2. DaemonTypeOK' /\ Inv'
    BY <1>5 DEF IInv, DaemonTypeOK, Inv, ReloadsWereSaved, TranslatorIsAwaited,
       UsageSavesAreOrdered, EpisodesAreSavedAtExit, vars, detectorVars, daemonVars, translation
  <2>3. QED
    BY <2>1, <2>2 DEF IInv
<1>6. QED
  BY <1>1, <1>2, <1>3, <1>4, <1>5 DEF Next, Run, Exited

LEMMA IInvHolds == Spec => []IInv
<1>1. QED
  BY IInvInit, IInvStep, PTL DEF Spec

-----------------------------------------------------------------------------
(* Every variable has its type, whatever the tools, edits and thresholds.     *)
THEOREM TypeCorrect == Spec => []TypeOK
<1>1. QED
  BY IInvHolds, IInvIsTyped, PTL

(* The throttled and the forced usage save never overlap, and no usage is     *)
(* recorded behind the forced one, whether or not that save succeeds: run     *)
(* waits for the translator first (issue 593).                                *)
THEOREM UsageSavesStayOrdered == Spec => []UsageSavesAreOrdered
<1>1. IInv => UsageSavesAreOrdered
  BY DEF IInv, Inv
<1>2. QED
  BY IInvHolds, <1>1, PTL

(* The process exits after the detector's deferred episode save has run (it   *)
(* may have failed), or gave up on a silent detector.                         *)
THEOREM EpisodesAreKept == Spec => []EpisodesAreSavedAtExit
<1>1. IInv => EpisodesAreSavedAtExit
  BY DEF IInv, Inv
<1>2. QED
  BY IInvHolds, <1>1, PTL

(* After the threshold of failed scans nothing is left published.             *)
THEOREM BlindDetectorIsCleared == Spec => []BlindDetectorClears
<1>1. IInv => BlindDetectorClears
  BY DEF IInv, DetectorInv
<1>2. QED
  BY IInvHolds, <1>1, PTL
=============================================================================
