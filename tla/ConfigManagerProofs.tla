------------------------ MODULE ConfigManagerProofs ------------------------
(***************************************************************************)
(* Proofs about the configuration manager, for every set of saves and      *)
(* starts, every number of saves, every horizon and every number of polls. *)
(*                                                                         *)
(* Close may return when the WaitGroup is empty, so that nothing runs      *)
(* afterwards only because each entry of it stands for one armed timer,    *)
(* waiting callback or running retry; a held-back candidate is old enough  *)
(* only because what was witnessed is as old as the candidate.  IInv adds  *)
(* these facts to the invariants of ConfigManager.                         *)
(***************************************************************************)
EXTENDS ConfigManager, TLAPS

\* A read that is polled can still be polled, and was not stable for longer
\* than it was polled.
PollsAreBounded ==
    stage = "polling" => polls < SettleAttempts /\ stableReads <= polls

\* A candidate that is held back has a handle, and no timer runs without one.
TimerHasHandle ==
    /\ handle <=> pending # NONE
    /\ Armed => handle

\* Each WaitGroup entry is that of one timer, callback or retry.
EntriesAreCounted ==
    retries = fired + leaving + (IF Armed THEN 1 ELSE 0)
                              + (IF reloader = "retry" THEN 1 ELSE 0)

\* Once Close was called no candidate is held back.
ClosingHoldsNothing == closing # "open" => pending = NONE

\* What is held back is what the settled reads have seen since.
CandidateIsWitnessed ==
    pending # NONE => witnessed = pending /\ witnessAge >= age

\* A result still queued is the current configuration, or the last reload failed.
NewestIsQueued == reloads # <<>> /\ ~failed => reloads = <<current>>

Inv ==
    /\ PollsAreBounded
    /\ TimerHasHandle
    /\ EntriesAreCounted
    /\ ClosingHoldsNothing
    /\ CandidateIsWitnessed
    /\ NewestIsQueued
    /\ ConsumerIsCurrent
    /\ ClosedIsQuiet

IInv == TypeOK /\ Inv

-----------------------------------------------------------------------------
(* What the operators of the model return.                                   *)

LEMMA NoneIsNoFile == NONE \notin Files
BY MissingAssumption DEF Files

LEMMA DecodesToConfigs == \A f : Decode(f) \in Configs
BY DEF Decode, Configs

LEMMA FallbackIsConfig == Fallback \in Configs
BY DEF Fallback, Configs

\* A save writes at least one state of the file, and leaves the others to write.
LEMMA SavesWriteFiles ==
    ASSUME NEW save \in Seq(Files), save # <<>>
    PROVE  Head(save) \in Files /\ Tail(save) \in Seq(Files)
OBVIOUS

\* The code's guard holds back at least what Discloses says: a change that
\* publishes or names a tool, or defaults presence on, is a loosening.
LEMMA DisclosuresLoosen ==
    ASSUME current \in Configs, NEW next \in Configs, NEW explicit \in BOOLEAN,
           Discloses(current, next, explicit)
    PROVE  Loosens(next, explicit)
<1> USE DEF Discloses, Loosens
<1>1. CASE ~current.enabled /\ next.enabled /\ ~explicit
  BY <1>1
<1>2. CASE /\ next.enabled
           /\ (current.optout /\ ~next.optout) \/ (current.private /\ ~next.private)
  BY <1>2 DEF PermissivenessLoosened
<1>3. QED
  BY <1>1, <1>2

-----------------------------------------------------------------------------
(* Type correctness, in parts.                                               *)

FileTypes ==
    /\ file \in Files /\ saving \in Seq(Files) /\ saves \in 0 .. SaveLimit
    /\ event \in BOOLEAN /\ watch \in {"off", "failed", "recovered", "on"}
ReloadTypes ==
    /\ reloader \in {"nobody", "start", "watcher", "retry", "recovery"}
    /\ stage \in {"idle", "polling", "settled"}
    /\ candidate \in Files
    /\ polls \in 0 .. SettleAttempts /\ stableReads \in 0 .. SettleAttempts
StateTypes == current \in Configs /\ accepted \in Files /\ failed \in BOOLEAN
TimerTypes ==
    /\ pending \in Files \cup {NONE} /\ age \in 0 .. Horizon
    /\ handle \in BOOLEAN /\ retry \in {Off} \cup 0 .. Horizon
CountTypes == fired \in Nat /\ leaving \in Nat /\ retries \in Nat
ConsumerTypes ==
    /\ reloads \in Seq(Configs \cup {Failure}) /\ Len(reloads) <= 1
    /\ consumer \in {"starting", "reloaded", "drained", "running"} /\ known \in Configs
ClosingTypes == closing \in {"open", "closing", "closed"}
HistoryTypes == witnessed \in Files \cup {NONE} /\ witnessAge \in 0 .. Horizon

LEMMA TypeParts ==
    TypeOK <=> /\ FileTypes /\ ReloadTypes /\ StateTypes /\ TimerTypes
               /\ CountTypes /\ ConsumerTypes /\ ClosingTypes /\ HistoryTypes
BY DEF TypeOK, FileTypes, ReloadTypes, StateTypes, TimerTypes, CountTypes,
       ConsumerTypes, ClosingTypes, HistoryTypes

LEMMA TypePartsNext ==
    TypeOK' <=> /\ FileTypes' /\ ReloadTypes' /\ StateTypes' /\ TimerTypes'
                /\ CountTypes' /\ ConsumerTypes' /\ ClosingTypes' /\ HistoryTypes'
BY DEF TypeOK, FileTypes, ReloadTypes, StateTypes, TimerTypes, CountTypes,
       ConsumerTypes, ClosingTypes, HistoryTypes

LEMMA InitIInv == Init => IInv
<1> SUFFICES ASSUME Init PROVE IInv
  OBVIOUS
<1> USE DEF Init
<1>1. file \in Files /\ Missing \in Files
  BY StartsAssumption DEF Files
<1>2. FileTypes
  <2>1. saving \in Seq(Files)
    <3>1. <<>> \in Seq(Files)
      OBVIOUS
    <3>2. QED
      BY <3>1, SavesAssumption DEF Files
  <2>2. saves \in 0 .. SaveLimit
    BY BoundsAssumption
  <2>3. QED
    BY <1>1, <2>1, <2>2 DEF FileTypes
<1>3. ReloadTypes /\ ClosingTypes
  BY <1>1, BoundsAssumption DEF ReloadTypes, ClosingTypes
<1>4. StateTypes
  <2>1. failed \in BOOLEAN
    BY DEF Invalid
  <2>2. current \in Configs
    BY DecodesToConfigs, FallbackIsConfig
  <2>3. QED
    BY <1>1, <2>1, <2>2 DEF StateTypes
<1>5. /\ TimerTypes /\ CountTypes /\ HistoryTypes
      /\ TimerHasHandle /\ EntriesAreCounted /\ CandidateIsWitnessed
  <2> USE DEF TimerTypes, CountTypes, HistoryTypes, TimerHasHandle, EntriesAreCounted,
              CandidateIsWitnessed, Armed, Off
  <2>1. CASE /\ pending = file /\ handle = TRUE /\ retry = Horizon
             /\ retries = 1 /\ witnessed = file
    BY <1>1, <2>1, NoneIsNoFile, BoundsAssumption
  <2>2. CASE /\ pending = NONE /\ handle = FALSE /\ retry = Off
             /\ retries = 0 /\ witnessed = NONE
    <3>1. ~Armed /\ fired = 0 /\ leaving = 0 /\ reloader = "nobody" /\ age = 0 /\ witnessAge = 0
      BY <2>2
    <3>2. TimerTypes /\ CountTypes /\ HistoryTypes
      <4>1. Horizon \in Nat /\ 0 \in 0 .. Horizon
        BY BoundsAssumption
      <4> HIDE DEF Init
      <4>2. TimerTypes
        BY <2>2, <3>1, <4>1
      <4>3. CountTypes /\ HistoryTypes
        BY <2>2, <3>1, <4>1
      <4>4. QED
        BY <4>2, <4>3
    <3>3. TimerHasHandle /\ CandidateIsWitnessed
      BY <2>2, <3>1
    <3>4. EntriesAreCounted
      BY <2>2, <3>1
    <3>5. QED
      BY <3>2, <3>3, <3>4
  <2>3. QED
    BY <2>1, <2>2
<1>6. ConsumerTypes
  BY <1>4 DEF ConsumerTypes, StateTypes
<1>7. /\ PollsAreBounded /\ ClosingHoldsNothing /\ NewestIsQueued
      /\ ConsumerIsCurrent /\ ClosedIsQuiet
  BY DEF PollsAreBounded, ClosingHoldsNothing, NewestIsQueued, ConsumerIsCurrent, ClosedIsQuiet
<1>8. QED
  BY <1>2, <1>3, <1>4, <1>5, <1>6, <1>7, TypeParts DEF IInv, Inv

-----------------------------------------------------------------------------
(* A reload begins, polls and ends.                                          *)

\* What no step of a reload before its commit touches.
BeforeCommit ==
    UNCHANGED <<file, saving, saves, state, loosening, retries, closing, reloads, known, history>>

\* Taking reloadMu and releasing it moves the WaitGroup entry of a retry, from
\* the waiting callbacks to the reload and on to the callbacks that leave.
LEMMA ReloadSteps ==
    ASSUME IInv, BeforeCommit, ReloadTypes', PollsAreBounded',
           event' \in BOOLEAN, watch' \in {"off", "failed", "recovered", "on"},
           fired' \in Nat, leaving' \in Nat, EntriesAreCounted',
           consumer' \in {consumer, "reloaded"},
           closing = "closed" => fired' = 0 /\ leaving' = 0 /\ reloader' # "retry"
    PROVE  IInv'
<1> USE DEF BeforeCommit, state, loosening, history, IInv, Inv
<1>1. TypeOK'
  <2>1. /\ FileTypes' /\ StateTypes' /\ TimerTypes' /\ CountTypes'
        /\ ConsumerTypes' /\ ClosingTypes' /\ HistoryTypes'
    BY TypeParts DEF FileTypes, StateTypes, TimerTypes, CountTypes, ConsumerTypes,
                     ClosingTypes, HistoryTypes
  <2>2. QED
    BY <2>1, TypePartsNext
<1>2. TimerHasHandle' /\ ClosingHoldsNothing' /\ CandidateIsWitnessed' /\ NewestIsQueued'
  BY DEF TimerHasHandle, ClosingHoldsNothing, CandidateIsWitnessed, NewestIsQueued, Armed
<1>3. ConsumerIsCurrent' /\ ClosedIsQuiet'
  BY DEF ConsumerIsCurrent, ClosedIsQuiet, Armed
<1>4. QED
  BY <1>1, <1>2, <1>3

LEMMA BeginReloadStep ==
    ASSUME IInv, NEW caller \in {"start", "watcher", "retry", "recovery"},
           BeginReload(caller),
           event' \in BOOLEAN, watch' \in {"off", "failed", "recovered", "on"},
           fired' = IF caller = "retry" THEN fired - 1 ELSE fired,
           caller = "retry" => fired > 0
    PROVE  IInv'
<1> USE DEF IInv, Inv, BeginReload
<1>1. ReloadTypes' /\ PollsAreBounded'
  BY TypeParts, BoundsAssumption DEF ReloadTypes, FileTypes, PollsAreBounded
<1>2. fired' \in Nat /\ leaving' \in Nat
  BY TypeParts DEF CountTypes
<1>3. EntriesAreCounted'
  BY TypeParts DEF CountTypes, EntriesAreCounted, Armed, loosening
<1>4. BeforeCommit /\ consumer' = consumer
  BY DEF BeforeCommit, consuming
<1>5. QED
  BY <1>1, <1>2, <1>3, <1>4, ReloadSteps

LEMMA PollStep ==
    ASSUME IInv, Poll
    PROVE  IInv'
<1> DEFINE same == file = candidate
           reads == IF same THEN stableReads + 1 ELSE 0
           settles == same /\ (~Provisional(candidate) \/ reads = SettleAttempts)
<1> USE DEF IInv, Inv
<1>1. /\ stage = "polling" /\ polls < SettleAttempts /\ stableReads <= polls
      /\ polls \in Nat /\ stableReads \in Nat /\ file \in Files
  BY TypeParts DEF Poll, PollsAreBounded, ReloadTypes, FileTypes
<1>2. CASE EndReload
  <2> USE <1>2 DEF EndReload
  <2>1. BeforeCommit /\ UNCHANGED <<event, watch, fired>>
    BY DEF Poll, BeforeCommit, fileVars
  <2>2. ReloadTypes' /\ PollsAreBounded'
    BY BoundsAssumption DEF ReloadTypes, PollsAreBounded, Files
  <2>3. leaving' \in Nat /\ EntriesAreCounted'
    BY <2>1, TypeParts DEF CountTypes, EntriesAreCounted, Armed, BeforeCommit, loosening
  <2>4. closing = "closed" => leaving' = 0
    BY DEF ClosedIsQuiet
  <2>5. QED
    BY <2>1, <2>2, <2>3, <2>4, TypeParts, ReloadSteps
       DEF FileTypes, CountTypes, ClosedIsQuiet
<1>3. CASE /\ settles \/ polls + 1 # SettleAttempts
           /\ polls' = polls + 1 /\ stableReads' = reads /\ candidate' = file
           /\ stage' = IF settles THEN "settled" ELSE stage
           /\ UNCHANGED <<reloader, leaving, consumer>>
  <2>1. BeforeCommit /\ UNCHANGED <<event, watch, fired>>
    BY DEF Poll, BeforeCommit, fileVars
  <2>2. reads \in 0 .. polls + 1
    BY <1>1
  <2>3. ReloadTypes' /\ PollsAreBounded'
    <3> HIDE DEF reads, settles
    <3>1. QED
      BY <1>1, <1>3, <2>2, TypeParts, BoundsAssumption DEF ReloadTypes, PollsAreBounded
  <2>4. EntriesAreCounted'
    BY <1>3, <2>1 DEF EntriesAreCounted, Armed, BeforeCommit, loosening
  <2>5. QED
    BY <1>3, <2>1, <2>3, <2>4, TypeParts, ReloadSteps
       DEF FileTypes, CountTypes, ClosedIsQuiet
<1>4. QED
  BY <1>2, <1>3 DEF Poll

-----------------------------------------------------------------------------
(* A reload commits.                                                         *)

ArmedCount == IF Armed THEN 1 ELSE 0

\* Stopping an armed timer gives back its entry.
LEMMA ClearPendingStep ==
    ASSUME IInv, ClearPending
    PROVE  /\ TimerTypes' /\ TimerHasHandle' /\ pending' = NONE
           /\ retries' \in Nat /\ retries' = retries - ArmedCount + ArmedCount'
<1>1. 0 \in 0 .. Horizon
  BY BoundsAssumption
<1>2. retries \in Nat /\ fired \in Nat /\ leaving \in Nat /\ (Armed => retries > 0)
  BY TypeParts DEF IInv, Inv, EntriesAreCounted, CountTypes
<1>3. pending' = NONE /\ age' = 0 /\ handle' = FALSE /\ retry' = Off
  BY DEF ClearPending
<1>4. TimerTypes' /\ TimerHasHandle'
  BY <1>1, <1>3 DEF TimerTypes, TimerHasHandle, Armed
<1>5. retries' \in Nat /\ retries' = retries - ArmedCount + ArmedCount'
  BY <1>2, <1>3 DEF ClearPending, ArmedCount, Armed
<1>6. QED
  BY <1>3, <1>4, <1>5

\* Holding a candidate back arms one timer, in the place of another candidate's.
LEMMA HoldBackStep ==
    ASSUME IInv, NEW f \in Files, HoldBack(f)
    PROVE  /\ TimerTypes' /\ TimerHasHandle' /\ pending' = f
           /\ retries' \in Nat /\ retries' = retries - ArmedCount + ArmedCount'
           /\ age' = IF pending = f THEN age ELSE 0
<1> USE DEF HoldBack
<1>1. /\ retries \in Nat /\ (Armed => retries > 0)
      /\ TimerTypes /\ TimerHasHandle /\ Horizon \in Nat \ {0}
  BY TypeParts, BoundsAssumption DEF IInv, Inv, EntriesAreCounted, CountTypes
<1>2. f # NONE
  BY NoneIsNoFile
<1>3. CASE pending = f
  <2>1. handle /\ age < Horizon
    BY <1>1, <1>2, <1>3 DEF TimerHasHandle
  <2>2. UNCHANGED <<age, handle, retry, retries>> /\ pending' = f
    BY <1>3, <2>1
  <2>3. QED
    BY <1>1, <1>2, <1>3, <2>1, <2>2 DEF TimerTypes, TimerHasHandle, ArmedCount, Armed
<1>4. CASE pending # f
  <2>1. /\ pending' = f /\ age' = 0 /\ handle' = TRUE /\ retry' = Horizon
        /\ retries' = (IF Armed THEN retries - 1 ELSE retries) + 1
    BY <1>1, <1>4
  <2>2. Armed'
    BY <1>1, <2>1 DEF Armed, Off
  <2>3. QED
    BY <1>1, <1>2, <1>4, <2>1, <2>2 DEF TimerTypes, TimerHasHandle, ArmedCount
<1>5. QED
  BY <1>3, <1>4

LEMMA WitnessStep ==
    ASSUME IInv, NEW f \in Files, Witness(f)
    PROVE  HistoryTypes'
BY TypeParts, BoundsAssumption DEF IInv, Witness, HistoryTypes

\* What every commit does, whatever it resolves.
LEMMA CommitSteps ==
    ASSUME IInv, EndReload, Witness(candidate), UNCHANGED <<fileVars, fired, closing, known>>,
           StateTypes', TimerTypes', TimerHasHandle', CandidateIsWitnessed',
           retries' \in Nat, retries' = retries - ArmedCount + ArmedCount',
           closing = "open" \/ UNCHANGED <<state, loosening, retries, reloads>>,
           \/ UNCHANGED <<state, reloads>>
           \/ reloads' = <<Failure>> /\ failed'
           \/ reloads' = <<current'>>
    PROVE  IInv'
<1> USE DEF IInv, Inv
<1>1. FileTypes' /\ ReloadTypes' /\ PollsAreBounded' /\ ClosingTypes'
  BY TypeParts, BoundsAssumption
     DEF EndReload, fileVars, FileTypes, ReloadTypes, PollsAreBounded, ClosingTypes, Files
<1>2. HistoryTypes'
  BY TypeParts, WitnessStep DEF ReloadTypes
<1>3. CountTypes' /\ EntriesAreCounted'
  BY TypeParts DEF CountTypes, EntriesAreCounted, EndReload, ArmedCount
<1>4. ConsumerTypes'
  <2>1. reloads' \in Seq(Configs \cup {Failure}) /\ Len(reloads') <= 1
    <3>1. /\ reloads \in Seq(Configs \cup {Failure}) /\ Len(reloads) <= 1
          /\ current' \in Configs
      BY TypeParts DEF ConsumerTypes, StateTypes
    <3>2. \/ reloads' = reloads
          \/ \E result \in Configs \cup {Failure} : reloads' = <<result>>
      BY <3>1
    <3>3. CASE reloads' = reloads
      BY <3>1, <3>3
    <3>4. ASSUME NEW result \in Configs \cup {Failure}, reloads' = <<result>>
          PROVE  reloads' \in Seq(Configs \cup {Failure}) /\ Len(reloads') <= 1
      BY <3>4
    <3>5. QED
      BY <3>2, <3>3, <3>4
  <2>2. QED
    BY <2>1, TypeParts DEF ConsumerTypes, EndReload
<1>5. ClosingHoldsNothing' /\ ClosedIsQuiet'
  BY DEF ClosingHoldsNothing, ClosedIsQuiet, loosening, Armed, EndReload
<1>6. NewestIsQueued'
  BY DEF NewestIsQueued, state
<1>7. ConsumerIsCurrent'
  <2>1. consumer' = "running" => consumer = "running"
    BY DEF EndReload
  <2>2. reloads' = <<>> => UNCHANGED <<state, reloads>>
    OBVIOUS
  <2>3. QED
    BY <2>1, <2>2 DEF ConsumerIsCurrent, state
<1>8. QED
  BY <1>1, <1>2, <1>3, <1>4, <1>5, <1>6, <1>7, TypePartsNext

LEMMA CommitStep ==
    ASSUME IInv, Commit
    PROVE  IInv'
<1> DEFINE f == candidate
           loosens == Loosens(Decode(f), EnabledDefined(f))
<1> HIDE DEF loosens
<1>1. f \in Files /\ StateTypes /\ HistoryTypes /\ TimerTypes /\ retries \in Nat
  BY TypeParts DEF IInv, ReloadTypes, CountTypes
<1>2. EndReload /\ Witness(f) /\ UNCHANGED <<fileVars, fired, closing, known>>
  BY DEF Commit
<1>3. CASE closing # "open" /\ UNCHANGED <<state, loosening, retries, reloads>>
  <2>1. StateTypes' /\ TimerTypes' /\ TimerHasHandle' /\ CandidateIsWitnessed'
    BY <1>1, <1>3 DEF IInv, Inv, state, loosening, StateTypes, TimerTypes, TimerHasHandle,
                      Armed, ClosingHoldsNothing, CandidateIsWitnessed
  <2>2. retries' = retries - ArmedCount + ArmedCount'
    BY <1>1, <1>3 DEF loosening, ArmedCount, Armed
  <2>3. QED
    BY <1>1, <1>2, <1>3, <2>1, <2>2, CommitSteps
<1>4. CASE /\ closing = "open"
           /\ ClearPending /\ failed' = TRUE /\ Publish(Failure)
           /\ UNCHANGED <<current, accepted>>
  <2>1. StateTypes' /\ CandidateIsWitnessed'
    BY <1>1, <1>4, ClearPendingStep DEF StateTypes, CandidateIsWitnessed
  <2>2. QED
    BY <1>2, <1>4, <2>1, ClearPendingStep, CommitSteps DEF Publish
<1>5. CASE /\ closing = "open"
           /\ HoldBack(f) /\ UNCHANGED <<state, reloads>>
  <2>1. StateTypes'
    BY <1>1, <1>5 DEF StateTypes, state
  <2>2. CandidateIsWitnessed'
    <3>1. pending = f => witnessed = f /\ witnessAge >= age
      BY <1>1, NoneIsNoFile DEF IInv, Inv, CandidateIsWitnessed
    <3>2. /\ pending' = f /\ witnessed' = f
          /\ age' = IF pending = f THEN age ELSE 0
          /\ witnessAge' = IF f = witnessed THEN witnessAge ELSE 0
      BY <1>1, <1>2, <1>5, HoldBackStep DEF Witness
    <3>3. QED
      BY <1>1, <3>1, <3>2 DEF CandidateIsWitnessed, HistoryTypes, TimerTypes
  <2>3. QED
    BY <1>1, <1>2, <1>5, <2>1, <2>2, HoldBackStep, CommitSteps
<1>6. CASE /\ closing = "open"
           /\ ClearPending
           /\ current' = Decode(f) /\ accepted' = f /\ failed' = FALSE
           /\ Publish(Decode(f))
  <2>1. StateTypes' /\ CandidateIsWitnessed'
    BY <1>1, <1>6, ClearPendingStep, DecodesToConfigs DEF StateTypes, CandidateIsWitnessed
  <2>2. QED
    BY <1>2, <1>6, <2>1, ClearPendingStep, CommitSteps DEF Publish
<1>7. QED
  BY <1>3, <1>4, <1>5, <1>6 DEF Commit, Resolve, Accept

-----------------------------------------------------------------------------
(* The callbacks of the timer, the consumer and Close.                       *)

LEMMA CallbackStep ==
    ASSUME IInv, Callback
    PROVE  IInv'
<1> USE DEF IInv, Inv, state, settling, loosening, consuming, history
<1>1. /\ fired \in Nat /\ leaving \in Nat /\ retries \in Nat /\ TimerTypes
  BY TypeParts DEF CountTypes
<1>2. ASSUME UNCHANGED <<fileVars, reloader, stage, settling, state, pending, age, handle,
                         closing, reloads, consuming, history>>,
             TimerTypes', CountTypes', TimerHasHandle', EntriesAreCounted', ClosedIsQuiet'
      PROVE  IInv'
  <2>1. /\ FileTypes' /\ ReloadTypes' /\ StateTypes' /\ ConsumerTypes' /\ ClosingTypes'
        /\ HistoryTypes'
    BY <1>2, TypeParts DEF fileVars, FileTypes, ReloadTypes, StateTypes, ConsumerTypes,
                           ClosingTypes, HistoryTypes
  <2>2. /\ PollsAreBounded' /\ ClosingHoldsNothing' /\ CandidateIsWitnessed'
        /\ NewestIsQueued' /\ ConsumerIsCurrent'
    BY <1>2 DEF PollsAreBounded, ClosingHoldsNothing, CandidateIsWitnessed, NewestIsQueued,
                ConsumerIsCurrent
  <2>3. QED
    BY <1>2, <2>1, <2>2, TypePartsNext
<1>3. CASE RetryFires
  <2>1. Armed /\ ~Armed' /\ TimerTypes' /\ CountTypes' /\ TimerHasHandle'
    BY <1>1, <1>3 DEF RetryFires, Armed, Off, TimerTypes, CountTypes, TimerHasHandle
  <2>2. EntriesAreCounted'
    BY <1>1, <1>3, <2>1 DEF RetryFires, EntriesAreCounted
  <2>3. ClosedIsQuiet'
    BY <1>3, <2>1 DEF RetryFires, ClosedIsQuiet
  <2>4. QED
    BY <1>2, <1>3, <2>1, <2>2, <2>3 DEF RetryFires
<1>4. CASE CallbackGivesUp
  <2>1. Armed' = Armed /\ TimerTypes' /\ CountTypes' /\ TimerHasHandle'
    BY <1>1, <1>4 DEF CallbackGivesUp, Armed, TimerTypes, CountTypes, TimerHasHandle
  <2>2. EntriesAreCounted'
    BY <1>1, <1>4, <2>1 DEF CallbackGivesUp, EntriesAreCounted
  <2>3. ClosedIsQuiet'
    BY <1>1, <1>4, <2>1 DEF CallbackGivesUp, ClosedIsQuiet
  <2>4. QED
    BY <1>2, <1>4, <2>1, <2>2, <2>3 DEF CallbackGivesUp
<1>5. CASE CallbackLeaves
  <2>1. retries > 0
    BY <1>1, <1>5 DEF CallbackLeaves, EntriesAreCounted
  <2>2. Armed' = Armed /\ TimerTypes' /\ CountTypes' /\ TimerHasHandle'
    BY <1>1, <1>5, <2>1 DEF CallbackLeaves, Armed, TimerTypes, CountTypes, TimerHasHandle
  <2>3. EntriesAreCounted'
    BY <1>1, <1>5, <2>2 DEF CallbackLeaves, EntriesAreCounted
  <2>4. ClosedIsQuiet'
    BY <1>1, <1>5, <2>2 DEF CallbackLeaves, ClosedIsQuiet
  <2>5. QED
    BY <1>2, <1>5, <2>2, <2>3, <2>4 DEF CallbackLeaves
<1>6. QED
  BY <1>3, <1>4, <1>5 DEF Callback

LEMMA ConsumerStep ==
    ASSUME IInv, Consumer
    PROVE  IInv'
<1> USE DEF IInv, Inv, state, settling, loosening, consuming, history
<1>1. /\ current \in Configs /\ known \in Configs
      /\ reloads \in Seq(Configs \cup {Failure}) /\ Len(reloads) <= 1
  BY TypeParts DEF StateTypes, ConsumerTypes
<1>2. ASSUME UNCHANGED <<fileVars, reloader, stage, settling, state, loosening, fired,
                         leaving, retries, closing, history>>,
             ConsumerTypes', NewestIsQueued', ConsumerIsCurrent'
      PROVE  IInv'
  <2>1. /\ FileTypes' /\ ReloadTypes' /\ StateTypes' /\ TimerTypes' /\ CountTypes'
        /\ ClosingTypes' /\ HistoryTypes'
    BY <1>2, TypeParts DEF fileVars, FileTypes, ReloadTypes, StateTypes, TimerTypes, CountTypes,
                           ClosingTypes, HistoryTypes
  <2>2. /\ PollsAreBounded' /\ TimerHasHandle' /\ EntriesAreCounted' /\ ClosingHoldsNothing'
        /\ CandidateIsWitnessed' /\ ClosedIsQuiet'
    BY <1>2 DEF PollsAreBounded, TimerHasHandle, EntriesAreCounted, ClosingHoldsNothing,
                CandidateIsWitnessed, ClosedIsQuiet, Armed
  <2>3. QED
    BY <1>2, <2>1, <2>2, TypePartsNext
<1>3. CASE Drain
  <2>1. ConsumerTypes'
    BY <1>1, <1>3 DEF Drain, ConsumerTypes
  <2>2. NewestIsQueued' /\ ConsumerIsCurrent'
    BY <1>3 DEF Drain, NewestIsQueued, ConsumerIsCurrent
  <2>3. QED
    BY <1>2, <1>3, <2>1, <2>2 DEF Drain
<1>4. CASE StartFromCurrent
  <2>1. ConsumerTypes' /\ NewestIsQueued' /\ ConsumerIsCurrent'
    BY <1>1, <1>4 DEF StartFromCurrent, ConsumerTypes, NewestIsQueued, ConsumerIsCurrent
  <2>2. QED
    BY <1>2, <1>4, <2>1 DEF StartFromCurrent
<1>5. CASE Consume
  <2>1. Head(reloads) \in Configs \cup {Failure} /\ reloads' = <<>>
    BY <1>1, <1>5 DEF Consume
  <2>2. ~failed => Head(reloads) = current
    BY <1>5 DEF Consume, NewestIsQueued
  <2>3. ConsumerTypes' /\ NewestIsQueued' /\ ConsumerIsCurrent'
    BY <1>1, <1>5, <2>1, <2>2, FailureAssumption
       DEF Consume, ConsumerTypes, NewestIsQueued, ConsumerIsCurrent
  <2>4. QED
    BY <1>2, <1>5, <2>3 DEF Consume
<1>6. QED
  BY <1>3, <1>4, <1>5 DEF Consumer

LEMMA ClosingStep ==
    ASSUME IInv, Closing
    PROVE  IInv'
<1> USE DEF IInv, Inv, state, settling, consuming, history
<1>1. ASSUME UNCHANGED <<fileVars, reloader, stage, settling, state, fired, leaving, reloads,
                         consuming, history>>,
             TimerTypes', CountTypes', TimerHasHandle', EntriesAreCounted', CandidateIsWitnessed',
             ClosingTypes', ClosingHoldsNothing', ClosedIsQuiet'
      PROVE  IInv'
  <2>1. FileTypes' /\ ReloadTypes' /\ StateTypes' /\ ConsumerTypes' /\ HistoryTypes'
    BY <1>1, TypeParts DEF fileVars, FileTypes, ReloadTypes, StateTypes, ConsumerTypes,
                           HistoryTypes
  <2>2. PollsAreBounded' /\ NewestIsQueued' /\ ConsumerIsCurrent'
    BY <1>1 DEF PollsAreBounded, NewestIsQueued, ConsumerIsCurrent
  <2>3. QED
    BY <1>1, <2>1, <2>2, TypePartsNext
<1>2. CASE BeginClose
  <2>1. /\ ClearPending /\ closing' = "closing" /\ UNCHANGED <<fired, leaving, reloader>>
    BY <1>2 DEF BeginClose
  <2>2. CountTypes' /\ EntriesAreCounted'
    BY <2>1, ClearPendingStep, TypeParts DEF CountTypes, EntriesAreCounted, ArmedCount
  <2>3. ClosingTypes' /\ ClosingHoldsNothing' /\ CandidateIsWitnessed' /\ ClosedIsQuiet'
    BY <2>1, ClearPendingStep
       DEF ClosingTypes, ClosingHoldsNothing, CandidateIsWitnessed, ClosedIsQuiet
  <2>4. QED
    BY <1>1, <1>2, <2>1, <2>2, <2>3, ClearPendingStep DEF BeginClose
<1>3. CASE CloseReturns
  <2> USE DEF CloseReturns, loosening
  <2>1. fired = 0 /\ leaving = 0 /\ ~Armed /\ reloader # "retry"
    BY <1>3, TypeParts DEF CountTypes, EntriesAreCounted
  <2>2. /\ TimerTypes' /\ CountTypes' /\ TimerHasHandle' /\ EntriesAreCounted'
        /\ CandidateIsWitnessed'
    BY <1>3, TypeParts DEF TimerTypes, CountTypes, TimerHasHandle, EntriesAreCounted, Armed,
                           CandidateIsWitnessed
  <2>3. ClosingTypes' /\ ClosingHoldsNothing' /\ ClosedIsQuiet'
    BY <1>3, <2>1 DEF ClosingTypes, ClosingHoldsNothing, ClosedIsQuiet, Armed
  <2>4. QED
    BY <1>1, <1>3, <2>2, <2>3
<1>4. QED
  BY <1>2, <1>3 DEF Closing

-----------------------------------------------------------------------------
(* The file, its watch and the clock.                                        *)

LEMMA EnvironmentStep ==
    ASSUME IInv, Environment
    PROVE  IInv'
<1> USE DEF IInv, Inv, managerVars, state, settling, loosening, consuming, history
<1>1. FileTypes /\ TimerTypes /\ HistoryTypes
  BY TypeParts
<1>2. ASSUME UNCHANGED <<managerVars, loosening, history>>, FileTypes'
      PROVE  IInv'
  <2>1. /\ ReloadTypes' /\ StateTypes' /\ TimerTypes' /\ CountTypes' /\ ConsumerTypes'
        /\ ClosingTypes' /\ HistoryTypes'
    BY <1>2, TypeParts DEF ReloadTypes, StateTypes, TimerTypes, CountTypes, ConsumerTypes,
                           ClosingTypes, HistoryTypes
  <2>2. Inv'
    BY <1>2 DEF PollsAreBounded, TimerHasHandle, EntriesAreCounted, ClosingHoldsNothing,
                CandidateIsWitnessed, NewestIsQueued, ConsumerIsCurrent, ClosedIsQuiet, Armed
  <2>3. QED
    BY <1>2, <2>1, <2>2, TypePartsNext
<1>3. ASSUME NEW f \in Files, Write(f), saving' \in Seq(Files), saves' \in 0 .. SaveLimit
      PROVE  IInv'
  BY <1>1, <1>2, <1>3 DEF Write, FileTypes
<1>4. CASE StartSave
  <2>1. PICK save \in Saves : /\ saves < SaveLimit /\ Write(Head(save))
                              /\ saving' = Tail(save) /\ saves' = saves + 1
    BY <1>4 DEF StartSave
  <2>2. save \in Seq(Files) /\ save # <<>>
    BY SavesAssumption DEF Files
  <2>3. saves' \in 0 .. SaveLimit
    BY <1>1, <2>1, BoundsAssumption DEF FileTypes
  <2>4. QED
    BY <1>3, <2>1, <2>2, <2>3, SavesWriteFiles
<1>5. CASE ContinueSave
  <2>1. saving \in Seq(Files) /\ saves \in 0 .. SaveLimit
    BY <1>1 DEF FileTypes
  <2>2. QED
    BY <1>3, <1>5, <2>1, SavesWriteFiles DEF ContinueSave
<1>6. CASE InstallWatch
  BY <1>1, <1>2, <1>6 DEF InstallWatch, FileTypes
<1>7. CASE RecoverWatch
  BY <1>1, <1>2, <1>7 DEF RecoverWatch, FileTypes
<1>8. CASE Tick
  <2> USE <1>8 DEF Tick
  <2>1. /\ FileTypes' /\ ReloadTypes' /\ StateTypes' /\ CountTypes' /\ ConsumerTypes'
        /\ ClosingTypes'
    BY TypeParts DEF fileVars, FileTypes, ReloadTypes, StateTypes, CountTypes, ConsumerTypes,
                     ClosingTypes
  <2>2. TimerTypes' /\ HistoryTypes' /\ Armed' = Armed
    <3>1. age' \in 0 .. Horizon /\ witnessAge' \in 0 .. Horizon
      BY <1>1, BoundsAssumption DEF TimerTypes, HistoryTypes
    <3>2. retry' \in {Off} \cup 0 .. Horizon /\ (retry' # Off <=> retry # Off)
      BY <1>1, BoundsAssumption DEF TimerTypes, Off
    <3>3. QED
      BY <1>1, <3>1, <3>2 DEF TimerTypes, HistoryTypes, Armed
  <2>3. CandidateIsWitnessed'
    BY <1>1, NoneIsNoFile, BoundsAssumption DEF CandidateIsWitnessed, TimerTypes, HistoryTypes
  <2>4. /\ PollsAreBounded' /\ TimerHasHandle' /\ EntriesAreCounted' /\ ClosingHoldsNothing'
        /\ NewestIsQueued' /\ ConsumerIsCurrent' /\ ClosedIsQuiet'
    BY <2>2 DEF PollsAreBounded, TimerHasHandle, EntriesAreCounted, ClosingHoldsNothing,
                NewestIsQueued, ConsumerIsCurrent, ClosedIsQuiet
  <2>5. QED
    BY <2>1, <2>2, <2>3, <2>4, TypePartsNext
<1>9. QED
  BY <1>4, <1>5, <1>6, <1>7, <1>8 DEF Environment

LEMMA UnchangedStep ==
    ASSUME IInv, UNCHANGED vars
    PROVE  IInv'
<1> USE DEF IInv, Inv, vars, fileVars, state, settling, loosening, consuming, history
<1>1. TypeOK'
  BY DEF TypeOK
<1>2. Inv'
  BY DEF PollsAreBounded, TimerHasHandle, EntriesAreCounted, ClosingHoldsNothing,
         CandidateIsWitnessed, NewestIsQueued, ConsumerIsCurrent, ClosedIsQuiet, Armed
<1>3. QED
  BY <1>1, <1>2

LEMMA ReloadStep ==
    ASSUME IInv, Reload
    PROVE  IInv'
<1>1. FileTypes /\ CountTypes
  BY TypeParts DEF IInv
<1>2. CASE StartReloads
  BY <1>1, <1>2, BeginReloadStep DEF StartReloads, FileTypes
<1>3. CASE WatcherReloads
  BY <1>1, <1>3, BeginReloadStep DEF WatcherReloads, FileTypes
<1>4. CASE RecoveryReloads
  BY <1>1, <1>4, BeginReloadStep DEF RecoveryReloads, FileTypes
<1>5. CASE CallbackReloads
  BY <1>1, <1>5, BeginReloadStep DEF CallbackReloads, FileTypes
<1>6. CASE Poll
  BY <1>6, PollStep
<1>7. CASE Commit
  BY <1>7, CommitStep
<1>8. QED
  BY <1>2, <1>3, <1>4, <1>5, <1>6, <1>7 DEF Reload

LEMMA NextIInv == IInv /\ [Next]_vars => IInv'
BY ReloadStep, CallbackStep, ConsumerStep, ClosingStep, EnvironmentStep, UnchangedStep
   DEF Next, Exited

-----------------------------------------------------------------------------
(* The theorems.                                                             *)

LEMMA IInvHolds == Spec => []IInv
BY InitIInv, NextIInv, PTL DEF Spec

\* The state of the manager keeps its types, with at most one result in the
\* channel, and the WaitGroup counts exactly the retries that fired, leave, run or
\* are armed: no entry is given back twice or never.
THEOREM TypeCorrect == Spec => [](TypeOK /\ EntriesAreCounted)
<1>1. IInv => TypeOK /\ EntriesAreCounted
  BY DEF IInv, Inv
<1>2. QED
  BY IInvHolds, <1>1, PTL

\* Once Close has returned no retry runs, waits or can still start.
THEOREM ClosedManagersAreQuiet == Spec => []ClosedIsQuiet
<1>1. IInv => ClosedIsQuiet
  BY DEF IInv, Inv
<1>2. QED
  BY IInvHolds, <1>1, PTL

\* A consumer that has read all results holds the manager's configuration,
\* unless the last reload failed.
THEOREM ConsumersAreCurrent == Spec => []ConsumerIsCurrent
<1>1. IInv => ConsumerIsCurrent
  BY DEF IInv, Inv
<1>2. QED
  BY IInvHolds, <1>1, PTL

\* What a step makes current was loaded from the candidate, which is held back
\* for the horizon if it discloses more.
LEMMA CommitsAreWitnessed ==
    ASSUME IInv, Commit, Discloses(current, current', EnabledDefined(accepted'))
    PROVE  witnessed = accepted' /\ witnessAge = Horizon
<1>1. /\ candidate \in Files /\ current \in Configs /\ age \in 0 .. Horizon
      /\ witnessAge \in 0 .. Horizon /\ Horizon \in Nat
  BY TypeParts, BoundsAssumption DEF IInv, ReloadTypes, StateTypes, TimerTypes, HistoryTypes
<1>2. current' # current
  BY DEF Discloses
<1>3. /\ current' = Decode(candidate) /\ accepted' = candidate
      /\ Loosens(current', EnabledDefined(accepted')) => HeldLongEnough(candidate)
  BY <1>2 DEF Commit, Resolve, Accept, state
<1>4. EnabledDefined(accepted') \in BOOLEAN /\ current' \in Configs
  BY <1>3, DecodesToConfigs DEF EnabledDefined
<1>5. HeldLongEnough(candidate)
  BY <1>1, <1>3, <1>4, DisclosuresLoosen
<1>6. QED
  BY <1>1, <1>3, <1>5, NoneIsNoFile DEF HeldLongEnough, IInv, Inv, CandidateIsWitnessed

\* A configuration that discloses more, and does not say so explicitly, takes
\* effect only when every settled read of the last horizon saw its bytes.
THEOREM LooseningsAreWitnessed == Spec => LooseningIsWitnessed
<1>1. ASSUME IInv, [Next]_vars
      PROVE  [Discloses(current, current', EnabledDefined(accepted'))
                => witnessed = accepted' /\ witnessAge = Horizon]_vars
  <2>1. Commit \/ current' = current
    BY <1>1 DEF Next, Reload, Callback, Consumer, Closing, Environment, Exited, vars, state,
                StartReloads, WatcherReloads, RecoveryReloads, CallbackReloads, BeginReload,
                Poll, RetryFires, CallbackGivesUp, CallbackLeaves, Drain, StartFromCurrent,
                Consume, BeginClose, CloseReturns, StartSave, ContinueSave, Write,
                InstallWatch, RecoverWatch, Tick, managerVars
  <2>2. current' = current => ~Discloses(current, current', EnabledDefined(accepted'))
    BY DEF Discloses
  <2>3. QED
    BY <1>1, <2>1, <2>2, CommitsAreWitnessed
<1>2. QED
  BY IInvHolds, <1>1, PTL DEF Spec, LooseningIsWitnessed

\* Close resolves nothing: once it was called no configuration, result or retry
\* appears, not even by a reload that was reading the file.
THEOREM NothingIsResolvedOnceClosing == Spec => ClosingResolvesNothing
<1>1. ASSUME IInv, [Next]_vars
      PROVE  [closing # "open" => /\ UNCHANGED state
                                  /\ reloads' \in {reloads, <<>>}
                                  /\ ~Armed => retry' = Off]_vars
  <2> SUFFICES ASSUME closing # "open"
               PROVE  /\ UNCHANGED state /\ reloads' \in {reloads, <<>>}
                      /\ ~Armed => retry' = Off
    OBVIOUS
  <2>1. reloads \in Seq(Configs \cup {Failure}) /\ Len(reloads) <= 1
    BY <1>1, TypeParts DEF IInv, ConsumerTypes
  <2> USE DEF state, loosening, Armed
  <2>2. CASE Reload
    BY <1>1, <2>2 DEF Reload, StartReloads, WatcherReloads, RecoveryReloads, CallbackReloads,
                BeginReload, Poll, Commit
  <2>3. CASE Callback
    BY <2>3 DEF Callback, RetryFires, CallbackGivesUp, CallbackLeaves
  <2>4. CASE Drain \/ StartFromCurrent
    BY <2>4 DEF Drain, StartFromCurrent
  <2>5. CASE Consume
    BY <2>1, <2>5 DEF Consume
  <2>6. CASE Closing
    BY <2>6 DEF Closing, BeginClose, CloseReturns
  <2>7. CASE Environment
    BY <2>7 DEF Environment, StartSave, ContinueSave, Write, InstallWatch, RecoverWatch, Tick,
                managerVars, Off
  <2>8. CASE UNCHANGED vars
    BY <2>8 DEF vars
  <2>9. QED
    BY <1>1, <2>2, <2>3, <2>4, <2>5, <2>6, <2>7, <2>8 DEF Next, Consumer, Exited
<1>2. QED
  BY IInvHolds, <1>1, PTL DEF Spec, ClosingResolvesNothing
=============================================================================
