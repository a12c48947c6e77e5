----------------------- MODULE DaemonLifecycleProofs -----------------------
(***************************************************************************)
(* Proofs about the life of daemon processes, for every set of processes,  *)
(* every assignment of process ids to them and every set of stop commands. *)
(*                                                                         *)
(* A running daemon keeps its record because whoever is about to remove    *)
(* the file at the path holds the lock of that very file, and has found    *)
(* under the lock that its writer is gone.  IInv says who may hold which   *)
(* file at which point, and what a stop command has made sure of when it   *)
(* starts to clean up.                                                     *)
(***************************************************************************)
EXTENDS DaemonLifecycle, TLAPS

LockStates == {"judge", "recheck", "remove"}

\* The record at the path, and each record an actor has opened or read, was
\* published by its writer.
RecordsArePublished ==
    /\ path \in Daemons => path \in published
    /\ \A a \in Actors : handle[a] \in Daemons => handle[a] \in published
    /\ \A s \in Stoppers : seen[s] \in Daemons => seen[s] \in published

\* A process publishes once: afterwards it runs, withdraws, or is gone.
PublishersMoveOn ==
    \A d \in published :
        \/ at[d] \in {"published", "running", "exiting", "gone"}
        \/ at[d] \in Examining /\ goal[d] = "withdraw"

RunnersPublish == \A d \in Daemons : Running(d) => d \in published

\* Why an actor examines the file.
GoalsFit ==
    /\ \A d \in Daemons : at[d] \in Examining => goal[d] \in {"replace", "withdraw"}
    /\ \A s \in Stoppers : at[s] \in Examining => goal[s] \in {"stale", "reap", "unreadable"}

\* A file is locked by one actor at a time.
LocksAreExclusive ==
    \A a, b \in Actors :
        at[a] \in LockStates /\ at[b] \in LockStates /\ handle[a] = handle[b] => a = b

\* Whoever is about to remove the file by name holds the file of that name ...
RemoversHoldThePath == \A a \in Actors : at[a] = "remove" => path = handle[a]

\* ... and has found that its writer does not run.
DoomedDoNotRun ==
    \A a \in Actors :
        at[a] \in {"recheck", "remove"} /\ handle[a] \in Daemons =>
            ~Running(handle[a]) \/ Confused(handle[a])

\* A stop command has not begun, or has looked at the publisher of the state.
NotBegun(s) == at[s] = "absent" => publisher[s] = None /\ atStart[s] = {}

\* What was running when a stop command began had published its record.
AtStartPublished(s) == \A d \in atStart[s] : d \in published /\ at[d] # "published"

\* What was running then, and still runs, is the process in the record read.
RunningIsSeen(s) ==
    at[s] \notin {"absent", "read"} =>
        \A d \in atStart[s] : at[d] = "running" => seen[s] = d \/ Confused(d)

\* The process in the record read may still live.
MayLive(s) == seen[s] \in Daemons /\ Alive(seen[s]) /\ ~Confused(seen[s])

\* That process is a target, is waited for, and only then given up for gone.
SeenIsStopped(s) ==
    MayLive(s) =>
        /\ at[s] \in {"signal", "kill"} => seen[s] \in targets[s]
        /\ at[s] = "wait" => seen[s] \in unsent[s]
        /\ at[s] \in Examining => goal[s] = "unreadable"
        /\ at[s] \notin {"stopped", "notrunning"}

UnsentAreTargets(s) == unsent[s] \subseteq targets[s]

StopInv(s) ==
    /\ NotBegun(s) /\ AtStartPublished(s) /\ RunningIsSeen(s)
    /\ SeenIsStopped(s) /\ UnsentAreTargets(s)

Inv ==
    /\ RecordsArePublished /\ PublishersMoveOn /\ RunnersPublish /\ GoalsFit
    /\ LocksAreExclusive /\ RemoversHoldThePath /\ DoomedDoNotRun
    /\ RunningIsRecorded
    /\ \A s \in Stoppers : StopInv(s)
    /\ StartIsReal

IInv == TypeOK /\ Inv

-----------------------------------------------------------------------------
(* Type correctness, in parts.                                               *)

Holding == {"lock", "judge", "recheck", "remove"}
Places == Examining \cup Ended \cup
          {"absent", "other", "check", "publish", "published", "running", "exiting",
           "read", "choose", "signal", "kill", "wait"}

ClaimTypes == path \in Files \cup {None} /\ state \in Daemons \cup {None} /\ published \subseteq Daemons
ActorTypes ==
    /\ at \in [Actors -> Places]
    /\ goal \in [Actors -> Goals] /\ handle \in [Actors -> Files \cup {None}]
    /\ \A a \in Actors : at[a] \in Holding <=> handle[a] # None
OtherTypes ==
    /\ signalled \subseteq Daemons
    /\ parent \in [Daemons -> {"none", "wait", "confirm", "ok", "failed"}]
CommandTypes ==
    /\ publisher \in [Stoppers -> Daemons \cup {None}]
    /\ seen \in [Stoppers -> Files \cup {None}]
    /\ targets \in [Stoppers -> SUBSET Daemons] /\ unsent \in [Stoppers -> SUBSET Daemons]
    /\ atStart \in [Stoppers -> SUBSET Daemons]

LEMMA TypeParts == TypeOK <=> ClaimTypes /\ ActorTypes /\ OtherTypes /\ CommandTypes
BY DEF TypeOK, ClaimTypes, ActorTypes, OtherTypes, CommandTypes, Places, Holding

LEMMA TypePartsNext == TypeOK' <=> ClaimTypes' /\ ActorTypes' /\ OtherTypes' /\ CommandTypes'
BY DEF TypeOK, ClaimTypes, ActorTypes, OtherTypes, CommandTypes, Places, Holding

LEMMA KindsOfActors ==
    /\ \A d \in Daemons : d \in Actors /\ d \notin Stoppers /\ d \in Files
    /\ \A s \in Stoppers : s \in Actors /\ s \notin Daemons
    /\ \A a \in Actors : a \in Daemons \/ a \in Stoppers
    /\ None \notin Daemons /\ Junk \notin Daemons
BY ActorsAssumption DEF Actors, Files

\* Where an actor goes on after it has left the file.
Beyond == {"publish", "refused", "exiting", "choose", "notrunning", "stopped", "failed"}

LEMMA AfterGoesOn ==
    ASSUME NEW a \in Actors, NEW result, NEW tolerant
    PROVE  /\ After(a, result, tolerant) \in Beyond
           /\ goal[a] = "withdraw" => After(a, result, tolerant) = "exiting"
           /\ goal[a] = "replace" => After(a, result, tolerant) \in {"publish", "refused"}
           /\ goal[a] = "unreadable" => After(a, result, tolerant) \in {"choose", "failed"}
BY DEF After, Beyond

\* One actor moves, one begins to examine the file, or one leaves it.
LEMMA MoveTypes ==
    ASSUME ActorTypes, NEW a \in Actors, NEW step \in Places, Move(a, step),
           step \in Holding <=> at[a] \in Holding
    PROVE  ActorTypes'
BY DEF ActorTypes, Move

LEMMA ExamineTypes ==
    ASSUME ActorTypes, NEW a \in Actors, NEW why \in Goals, Examine(a, why), at[a] \notin Holding
    PROVE  ActorTypes'
<1>1. "open" \in Places /\ "open" \notin Holding
  BY DEF Places, Examining, Holding
<1>2. QED
  BY <1>1 DEF ActorTypes, Examine

LEMMA LeaveTypes ==
    ASSUME ActorTypes, NEW a \in Actors, NEW result, Leave(a, result)
    PROVE  ActorTypes'
<1>1. PICK next \in Beyond : at' = [at EXCEPT ![a] = next]
  BY AfterGoesOn DEF Leave
<1>2. next \in Places /\ next \notin Holding /\ "none" \in Goals
  BY DEF Beyond, Places, Ended, Holding, Goals
<1>3. QED
  BY <1>1, <1>2 DEF ActorTypes, Leave

LEMMA RemoveFileTypes ==
    ASSUME TypeOK, NEW a \in Actors, RemoveFile(a)
    PROVE  TypeOK'
<1> USE TypeParts
<1>1. OtherTypes' /\ CommandTypes'
  BY DEF RemoveFile, OpenFile, LockFile, Judge, Recheck, Remove, OtherTypes, CommandTypes, command
<1>2. ClaimTypes'
  BY DEF RemoveFile, OpenFile, LockFile, Judge, Recheck, Remove, ClaimTypes, claims
<1>3. ActorTypes'
  <2>1. {"lock", "judge", "recheck", "remove"} \subseteq Places
    BY DEF Places, Examining
  <2>2. CASE OpenFile(a)
    <3>1. CASE path = None
      BY <2>2, <3>1, LeaveTypes DEF OpenFile
    <3>2. CASE path # None
      BY <2>1, <2>2, <3>2 DEF OpenFile, ActorTypes, ClaimTypes, Holding
    <3>3. QED
      BY <3>1, <3>2
  <2>3. CASE LockFile(a)
    BY <2>1, <2>3, LeaveTypes, MoveTypes DEF LockFile, Holding
  <2>4. CASE Judge(a)
    BY <2>1, <2>4, LeaveTypes, MoveTypes DEF Judge, Holding
  <2>5. CASE Recheck(a)
    BY <2>1, <2>5, LeaveTypes, MoveTypes DEF Recheck, Holding
  <2>6. CASE Remove(a)
    BY <2>6, LeaveTypes DEF Remove
  <2>7. QED
    BY <2>2, <2>3, <2>4, <2>5, <2>6 DEF RemoveFile
<1>4. QED
  BY <1>1, <1>2, <1>3, TypePartsNext

LEMMA DaemonStepTypes ==
    ASSUME TypeOK, NEW d \in Daemons, DaemonStep(d)
    PROVE  TypeOK'
<1> USE TypeParts, KindsOfActors
<1>1. CommandTypes'
  BY DEF DaemonStep, Launch, SpawnDetached, StartDaemon, PublishRecord, CloseRecord, Withdraw,
         PublishState, Crash, CommandTypes, command
<1>2. OtherTypes'
  <2>1. CASE SpawnDetached(d)
    BY <2>1 DEF SpawnDetached, OtherTypes
  <2>2. CASE ~SpawnDetached(d)
    BY <2>2 DEF DaemonStep, Launch, StartDaemon, PublishRecord, CloseRecord, Withdraw,
                PublishState, Crash, OtherTypes
  <2>3. QED
    BY <2>1, <2>2
<1>3. ClaimTypes'
  BY DEF DaemonStep, Launch, SpawnDetached, StartDaemon, PublishRecord, CloseRecord, Withdraw,
         PublishState, Crash, ClaimTypes, claims, Files
<1>4. ActorTypes'
  <2>1. /\ {"check", "other", "refused", "publish", "published", "running", "gone"} \subseteq Places
        /\ {"check", "other", "refused", "publish", "published", "running", "gone", "absent"}
              \cap Holding = {}
        /\ {"none", "replace", "withdraw"} \subseteq Goals
    BY DEF Places, Ended, Holding, Goals
  <2>2. CASE Launch(d) \/ SpawnDetached(d) \/ StartDaemon(d)
    <3>1. PICK step \in {"check", "other", "refused", "publish"} :
              at' = [at EXCEPT ![d] = step] /\ UNCHANGED <<goal, handle>>
      BY <2>2 DEF Launch, SpawnDetached, StartDaemon
    <3>2. at[d] \notin Holding
      BY <2>2 DEF Launch, SpawnDetached, StartDaemon, Holding
    <3>3. QED
      BY <2>1, <3>1, <3>2, MoveTypes DEF Move
  <2>3. CASE PublishRecord(d)
    BY <2>1, <2>3, MoveTypes, ExamineTypes DEF PublishRecord
  <2>4. CASE CloseRecord(d)
    BY <2>1, <2>4, MoveTypes DEF CloseRecord
  <2>5. CASE Withdraw(d)
    BY <2>1, <2>5, ExamineTypes DEF Withdraw
  <2>6. CASE PublishState(d)
    BY <2>6 DEF PublishState, ActorTypes
  <2>7. CASE Crash(d)
    BY <2>1, <2>7 DEF Crash, ActorTypes
  <2>8. QED
    BY <2>2, <2>3, <2>4, <2>5, <2>6, <2>7 DEF DaemonStep
<1>5. QED
  BY <1>1, <1>2, <1>3, <1>4, TypePartsNext

LEMMA StopCommandTypes ==
    ASSUME TypeOK, NEW s \in Stoppers, StopCommand(s)
    PROVE  TypeOK'
<1> USE TypeParts, KindsOfActors
<1>1. ClaimTypes'
  BY DEF StopCommand, BeginStop, ReadRecord, ChooseTargets, SignalProcess, ValidateByPid,
         KillByPid, AllSignalled, WaitForExit, StopTimesOut, AllExited, ClaimTypes, claims
<1>2. OtherTypes'
  BY DEF StopCommand, BeginStop, ReadRecord, ChooseTargets, SignalProcess, ValidateByPid,
         KillByPid, AllSignalled, WaitForExit, StopTimesOut, AllExited, OtherTypes, Deliver
<1>3. CommandTypes'
  <2>1. CASE BeginStop(s)
    BY <2>1 DEF BeginStop, CommandTypes, ClaimTypes
  <2>2. CASE ReadRecord(s)
    BY <2>2 DEF ReadRecord, CommandTypes, ClaimTypes
  <2>3. CASE ChooseTargets(s)
    <3>1. \A readable : Candidates(s, readable) \subseteq Daemons
      BY DEF Candidates, RecordRecognised
    <3>2. QED
      BY <2>3, <3>1 DEF ChooseTargets, CommandTypes
  <2>4. CASE SignalProcess(s) \/ KillByPid(s)
    BY <2>4 DEF SignalProcess, KillByPid, Deliver, CommandTypes
  <2>5. CASE ValidateByPid(s) \/ StopTimesOut(s) \/ AllExited(s)
    BY <2>5 DEF ValidateByPid, StopTimesOut, AllExited, command, CommandTypes
  <2>6. CASE AllSignalled(s) \/ WaitForExit(s)
    BY <2>6 DEF AllSignalled, WaitForExit, CommandTypes
  <2>7. QED
    BY <2>1, <2>2, <2>3, <2>4, <2>5, <2>6 DEF StopCommand
<1>4. ActorTypes'
  <2>1. /\ {"absent", "read", "choose", "signal", "kill", "wait", "failed", "notrunning", "stopped"}
              \subseteq Places \ Holding
        /\ {"unreadable", "stale", "reap"} \subseteq Goals
    BY DEF Places, Ended, Holding, Goals
  <2>2. at[s] \in {"absent", "read", "choose", "signal", "kill", "wait"}
    BY DEF StopCommand, BeginStop, ReadRecord, ChooseTargets, SignalProcess, ValidateByPid,
           KillByPid, AllSignalled, WaitForExit, StopTimesOut, AllExited
  <2>3. \/ \E step \in Places \ Holding : Move(s, step)
        \/ \E why \in Goals : Examine(s, why)
        \/ UNCHANGED <<at, goal, handle>>
    BY <2>1 DEF StopCommand, BeginStop, ReadRecord, ChooseTargets, SignalProcess, ValidateByPid,
           KillByPid, AllSignalled, WaitForExit, StopTimesOut, AllExited
  <2>4. QED
    <3>1. CASE UNCHANGED <<at, goal, handle>>
      BY <3>1 DEF ActorTypes
    <3>2. QED
      BY <2>1, <2>2, <2>3, <3>1, MoveTypes, ExamineTypes
<1>5. QED
  BY <1>1, <1>2, <1>3, <1>4, TypePartsNext

LEMMA StartCommandTypes ==
    ASSUME TypeOK, NEW d \in Daemons, StartCommand(d)
    PROVE  TypeOK'
<1> USE DEF StartCommand, PollStart, StartTimesOut, ConfirmStart, Parent
<1>1. ClaimTypes' /\ ActorTypes' /\ CommandTypes'
  BY TypeParts DEF ClaimTypes, ActorTypes, CommandTypes, claims, command
<1>2. OtherTypes'
  BY TypeParts DEF OtherTypes
<1>3. QED
  BY <1>1, <1>2, TypePartsNext

LEMMA NextTypes ==
    ASSUME TypeOK, [Next]_vars
    PROVE  TypeOK'
<1>1. CASE UNCHANGED vars
  BY <1>1 DEF vars, claims, command, TypeOK
<1>2. QED
  BY <1>1, RemoveFileTypes, DaemonStepTypes, StopCommandTypes, StartCommandTypes DEF Next

-----------------------------------------------------------------------------
(* What one step does to the places of the actors.                           *)

\* Nobody but a has moved.
OthersStay(a) ==
    \A b \in Actors \ {a} : at'[b] = at[b] /\ goal'[b] = goal[b] /\ handle'[b] = handle[b]

LEMMA MoveEffect ==
    ASSUME TypeOK, NEW a \in Actors, NEW step, Move(a, step)
    PROVE  /\ OthersStay(a)
           /\ at'[a] = step /\ goal'[a] = goal[a] /\ handle'[a] = handle[a]
BY TypeParts DEF ActorTypes, Move, OthersStay

LEMMA ExamineEffect ==
    ASSUME TypeOK, NEW a \in Actors, NEW why, Examine(a, why)
    PROVE  /\ OthersStay(a)
           /\ at'[a] = "open" /\ goal'[a] = why /\ handle'[a] = handle[a]
BY TypeParts DEF ActorTypes, Examine, OthersStay

LEMMA LeaveEffect ==
    ASSUME TypeOK, NEW a \in Actors, NEW result, Leave(a, result)
    PROVE  /\ OthersStay(a)
           /\ at'[a] \in Beyond /\ handle'[a] = None
           /\ goal[a] = "withdraw" => at'[a] = "exiting"
           /\ goal[a] = "replace" => at'[a] \in {"publish", "refused"}
           /\ goal[a] = "unreadable" => at'[a] \in {"choose", "failed"}
<1>1. PICK tolerant \in BOOLEAN : at' = [at EXCEPT ![a] = After(a, result, tolerant)]
  BY DEF Leave
<1>2. at'[a] = After(a, result, tolerant)
  BY <1>1, TypeParts DEF ActorTypes
<1>3. OthersStay(a) /\ handle'[a] = None
  BY <1>1, TypeParts DEF Leave, ActorTypes, OthersStay
<1>4. QED
  BY <1>2, <1>3, AfterGoesOn

\* An actor at the file goes on with it or leaves it.
LEMMA RemoveFileEffect ==
    ASSUME TypeOK, NEW a \in Actors, RemoveFile(a)
    PROVE  /\ at[a] \in Examining
           /\ OthersStay(a)
           /\ \/ /\ at'[a] \in Examining /\ at'[a] # "open" /\ goal'[a] = goal[a]
                 /\ at'[a] # "lock" => handle'[a] = handle[a]
              \/ \E result : Leave(a, result)
<1>1. CASE OpenFile(a)
  <2>1. CASE path = None
    BY <1>1, <2>1, LeaveEffect DEF OpenFile, Examining
  <2>2. CASE path # None
    BY <1>1, <2>2, TypeParts DEF OpenFile, Examining, ActorTypes, OthersStay
  <2>3. QED
    BY <2>1, <2>2
<1>2. CASE LockFile(a)
  BY <1>2, LeaveEffect, MoveEffect DEF LockFile, Examining
<1>3. CASE Judge(a)
  BY <1>3, LeaveEffect, MoveEffect DEF Judge, Examining
<1>4. CASE Recheck(a)
  BY <1>4, LeaveEffect, MoveEffect DEF Recheck, Examining
<1>5. CASE Remove(a)
  BY <1>5, LeaveEffect DEF Remove, Examining
<1>6. QED
  BY <1>1, <1>2, <1>3, <1>4, <1>5 DEF RemoveFile

\* A daemon's own step: where it goes from where it was.
LEMMA DaemonStepEffect ==
    ASSUME TypeOK, NEW d \in Daemons, DaemonStep(d)
    PROVE  /\ OthersStay(d)
           /\ \/ /\ at[d] \in {"absent", "check"}
                 /\ at'[d] \in {"check", "other", "refused", "publish"}
                 /\ UNCHANGED <<claims, goal, handle>>
              \/ /\ PublishRecord(d) /\ path = None
                 /\ path' = d /\ published' = published \cup {d}
                 /\ at[d] = "publish" /\ at'[d] = "published"
              \/ /\ PublishRecord(d) /\ UNCHANGED claims
                 /\ at[d] = "publish" /\ at'[d] = "open" /\ goal'[d] = "replace"
              \/ /\ at[d] = "published" /\ at'[d] = "running"
                 /\ UNCHANGED <<claims, goal, handle>>
              \/ /\ at[d] = "running" /\ at'[d] = "open" /\ goal'[d] = "withdraw"
                 /\ UNCHANGED claims
              \/ UNCHANGED <<claims, at, goal, handle>>
              \/ /\ Alive(d) /\ at'[d] = "gone" /\ handle'[d] = None
                 /\ UNCHANGED claims
<1> USE KindsOfActors, TypeParts
<1>1. CASE Launch(d) \/ SpawnDetached(d) \/ StartDaemon(d)
  BY <1>1 DEF Launch, SpawnDetached, StartDaemon, ActorTypes, OthersStay
<1>2. CASE PublishRecord(d)
  BY <1>2, MoveEffect, ExamineEffect DEF PublishRecord
<1>3. CASE CloseRecord(d)
  BY <1>3, MoveEffect DEF CloseRecord, Move
<1>4. CASE Withdraw(d)
  BY <1>4, ExamineEffect DEF Withdraw
<1>5. CASE PublishState(d)
  BY <1>5 DEF PublishState, OthersStay
<1>6. CASE Crash(d)
  BY <1>6 DEF Crash, ActorTypes, OthersStay
<1>7. QED
  BY <1>1, <1>2, <1>3, <1>4, <1>5, <1>6 DEF DaemonStep

\* A stop command's own step leaves the files alone.
LEMMA StopCommandEffect ==
    ASSUME TypeOK, NEW s \in Stoppers, StopCommand(s)
    PROVE  /\ UNCHANGED claims
           /\ OthersStay(s)
           /\ at[s] \notin Examining
           /\ \/ at'[s] \notin Examining
              \/ at'[s] = "open" /\ goal'[s] \in {"unreadable", "stale", "reap"}
           /\ handle'[s] = handle[s]
<1> USE KindsOfActors, TypeParts
<1>1. /\ UNCHANGED claims
      /\ at[s] \in {"absent", "read", "choose", "signal", "kill", "wait"}
      /\ \/ \E step \in Places \ Examining : Move(s, step)
         \/ \E why \in {"unreadable", "stale", "reap"} : Examine(s, why)
         \/ UNCHANGED <<at, goal, handle>>
  <2>1. {"read", "choose", "signal", "kill", "wait", "failed", "notrunning", "stopped"}
            \subseteq Places \ Examining
    BY DEF Places, Ended, Examining
  <2>2. QED
    BY <2>1 DEF StopCommand, BeginStop, ReadRecord, ChooseTargets, SignalProcess, ValidateByPid,
        KillByPid, AllSignalled, WaitForExit, StopTimesOut, AllExited
<1>2. at[s] \notin Examining
  BY <1>1 DEF Examining
<1>3. CASE UNCHANGED <<at, goal, handle>>
  BY <1>1, <1>2, <1>3 DEF OthersStay
<1>4. ASSUME NEW step \in Places \ Examining, Move(s, step)
      PROVE  /\ OthersStay(s) /\ at'[s] \notin Examining /\ handle'[s] = handle[s]
  BY <1>4, MoveEffect
<1>5. ASSUME NEW why \in {"unreadable", "stale", "reap"}, Examine(s, why)
      PROVE  /\ OthersStay(s) /\ at'[s] = "open" /\ handle'[s] = handle[s] /\ goal'[s] = why
  BY <1>5, ExamineEffect
<1>6. QED
  BY <1>1, <1>2, <1>3, <1>4, <1>5

LEMMA StartCommandEffect ==
    ASSUME NEW d \in Daemons, StartCommand(d)
    PROVE  UNCHANGED <<claims, at, goal, handle, command>>
BY DEF StartCommand, PollStart, StartTimesOut, ConfirmStart, Parent

-----------------------------------------------------------------------------
(* What no step undoes.                                                      *)

\* A process that has published goes on to run, withdraw and end, and does not
\* come back.
Onward(f) ==
    \/ at'[f] = at[f] /\ goal'[f] = goal[f]
    \/ at[f] = "published" /\ at'[f] = "running"
    \/ at[f] = "running" /\ at'[f] \in Examining /\ goal'[f] = "withdraw"
    \/ at[f] \in Examining /\ at'[f] \in Examining /\ goal[f] = "withdraw" /\ goal'[f] = "withdraw"
    \/ at[f] \in Examining /\ at'[f] = "exiting"
    \/ Alive(f) /\ at'[f] = "gone"

LEMMA PublishersGoOnward ==
    ASSUME TypeOK, PublishersMoveOn, Next, NEW f \in published
    PROVE  Onward(f)
<1>1. /\ f \in Daemons /\ f \in Actors /\ f \notin Stoppers
      /\ \/ at[f] \in {"published", "running", "exiting", "gone"}
         \/ at[f] \in Examining /\ goal[f] = "withdraw"
  BY TypeParts, KindsOfActors DEF PublishersMoveOn, ClaimTypes
<1>2. ASSUME NEW a \in Actors, RemoveFile(a)
      PROVE  Onward(f)
  <2>1. CASE a = f
    <3>1. at[f] \in Examining /\ goal[f] = "withdraw"
      BY <1>1, <1>2, <2>1, RemoveFileEffect DEF Examining
    <3>2. QED
      BY <1>2, <2>1, <3>1, RemoveFileEffect, LeaveEffect DEF Onward
  <2>2. CASE a # f
    BY <1>1, <1>2, <2>2, RemoveFileEffect DEF OthersStay, Onward
  <2>3. QED
    BY <2>1, <2>2
<1>3. ASSUME NEW d \in Daemons, DaemonStep(d)
      PROVE  Onward(f)
  <2>1. CASE d = f
    BY <1>1, <1>3, <2>1, DaemonStepEffect DEF Onward, Examining
  <2>2. CASE d # f
    BY <1>1, <1>3, <2>2, DaemonStepEffect DEF OthersStay, Onward
  <2>3. QED
    BY <2>1, <2>2
<1>4. ASSUME NEW s \in Stoppers, StopCommand(s)
      PROVE  Onward(f)
  BY <1>1, <1>4, StopCommandEffect DEF OthersStay, Onward
<1>5. ASSUME NEW d \in Daemons, StartCommand(d)
      PROVE  Onward(f)
  BY <1>5, StartCommandEffect DEF Onward
<1>6. QED
  BY <1>2, <1>3, <1>4, <1>5 DEF Next

LEMMA PublisherFacts ==
    ASSUME TypeOK, PublishersMoveOn, Next, NEW f \in published
    PROVE  /\ Alive(f)' => Alive(f)
           /\ Running(f)' => Running(f)
           /\ at'[f] = "running" => Running(f)
           /\ at[f] # "published" => at'[f] # "published"
           /\ at[f] # "published" /\ at'[f] = "running" => at[f] = "running"
BY PublishersGoOnward DEF Onward, Alive, Running, Examining

\* Records are published and stay so.
LEMMA PublishedGrows ==
    ASSUME Next
    PROVE  published \subseteq published'
BY DEF Next, RemoveFile, OpenFile, LockFile, Judge, Recheck, Remove, DaemonStep, Launch,
       SpawnDetached, StartDaemon, PublishRecord, CloseRecord, Withdraw, PublishState, Crash,
       StartCommand, PollStart, StartTimesOut, ConfirmStart, Parent,
       StopCommand, BeginStop, ReadRecord, ChooseTargets, SignalProcess, ValidateByPid,
       KillByPid, AllSignalled, WaitForExit, StopTimesOut, AllExited, claims

\* A stop command looks at the publisher of the state once.
LEMMA ConfusionStays ==
    ASSUME TypeOK, \A s \in Stoppers : NotBegun(s), Next, NEW d \in Daemons, Confused(d)
    PROVE  Confused(d)'
<1>1. PICK s \in Stoppers : publisher[s] \notin {None, d} /\ PidOf[publisher[s]] = PidOf[d]
  BY DEF Confused
<1>2. publisher'[s] = publisher[s]
  <2>1. ASSUME NEW t \in Stoppers, BeginStop(t)
        PROVE  publisher'[s] = publisher[s]
    BY <1>1, <2>1, TypeParts DEF BeginStop, NotBegun, CommandTypes
  <2>2. CASE publisher' = publisher
    BY <2>2
  <2>3. QED
    BY <2>1, <2>2
       DEF Next, RemoveFile, OpenFile, LockFile, Judge, Recheck, Remove, DaemonStep, Launch,
           SpawnDetached, StartDaemon, PublishRecord, CloseRecord, Withdraw, PublishState, Crash,
           StartCommand, PollStart, StartTimesOut, ConfirmStart, Parent, command,
           StopCommand, ReadRecord, ChooseTargets, SignalProcess, ValidateByPid,
           KillByPid, AllSignalled, WaitForExit, StopTimesOut, AllExited
<1>3. QED
  BY <1>1, <1>2 DEF Confused

-----------------------------------------------------------------------------
(* The files, their locks and the path.                                      *)

\* The path changes when its file is removed by name, or a record is published.
LEMMA PathEffect ==
    ASSUME TypeOK, Next
    PROVE  \/ UNCHANGED claims
           \/ /\ \E a \in Actors : at[a] = "remove" /\ at'[a] \in Beyond
              /\ path' = None /\ published' = published
           \/ /\ path = None
              /\ \E d \in Daemons : path' = d /\ published' = published \cup {d}
                                    /\ at[d] = "publish" /\ at'[d] = "published"
<1>1. ASSUME NEW a \in Actors, RemoveFile(a)
      PROVE  \/ UNCHANGED claims
             \/ /\ at[a] = "remove" /\ at'[a] \in Beyond
                /\ path' = None /\ published' = published
  BY <1>1, LeaveEffect
     DEF RemoveFile, OpenFile, LockFile, Judge, Recheck, Remove, claims
<1>2. QED
  BY <1>1, DaemonStepEffect, StopCommandEffect, StartCommandEffect DEF Next, claims

\* An actor with a lock keeps its file, and got the lock when nobody had it.
LEMMA LockEffect ==
    ASSUME TypeOK, Next, NEW b \in Actors, at'[b] \in LockStates
    PROVE  /\ handle'[b] = handle[b]
           /\ \/ at[b] \in LockStates
              \/ at[b] = "lock" /\ ~Locked(handle[b]) /\ OthersStay(b)
<1> USE KindsOfActors
<1>1. at'[b] \in Examining /\ at'[b] # "open" /\ at'[b] \notin Beyond /\ at'[b] # "lock"
  BY DEF LockStates, Examining, Beyond
<1>2. ASSUME NEW a \in Actors, RemoveFile(a)
      PROVE  /\ handle'[b] = handle[b]
             /\ \/ at[b] \in LockStates
                \/ at[b] = "lock" /\ ~Locked(handle[b]) /\ OthersStay(b)
  <2>1. CASE a # b
    BY <1>2, <2>1, RemoveFileEffect DEF OthersStay
  <2>2. CASE a = b
    <3>1. handle'[b] = handle[b] /\ OthersStay(b)
      BY <1>1, <1>2, <2>2, RemoveFileEffect, LeaveEffect
    <3>2. CASE OpenFile(b)
      BY <1>1, <3>2, LeaveEffect, TypeParts DEF OpenFile, ActorTypes
    <3>3. CASE LockFile(b)
      BY <1>1, <3>1, <3>3, LeaveEffect DEF LockFile
    <3>4. CASE Judge(b) \/ Recheck(b) \/ Remove(b)
      BY <3>1, <3>4 DEF Judge, Recheck, Remove, LockStates
    <3>5. QED
      BY <1>2, <2>2, <3>2, <3>3, <3>4, <3>1 DEF RemoveFile
  <2>3. QED
    BY <2>1, <2>2
<1>3. ASSUME NEW d \in Daemons, DaemonStep(d)
      PROVE  handle'[b] = handle[b] /\ at[b] \in LockStates
  <2>1. CASE d # b
    BY <1>3, <2>1, DaemonStepEffect DEF OthersStay
  <2>2. CASE d = b
    BY <1>1, <1>3, <2>2, DaemonStepEffect DEF Examining
  <2>3. QED
    BY <2>1, <2>2
<1>4. ASSUME NEW s \in Stoppers, StopCommand(s)
      PROVE  handle'[b] = handle[b] /\ at[b] \in LockStates
  BY <1>1, <1>4, StopCommandEffect DEF OthersStay
<1>5. ASSUME NEW d \in Daemons, StartCommand(d)
      PROVE  handle'[b] = handle[b] /\ at[b] \in LockStates
  BY <1>5, StartCommandEffect
<1>6. QED
  BY <1>2, <1>3, <1>4, <1>5 DEF Next

\* What the last two steps to the removal have found.
LEMMA RecheckEffect ==
    ASSUME TypeOK, Next, NEW b \in Actors, at'[b] \in {"recheck", "remove"}
    PROVE  \/ at[b] = at'[b]
           \/ /\ at[b] = "judge" /\ at'[b] = "recheck" /\ OthersStay(b)
              /\ \E readable \in Lookups : Doomed(b, readable)
              /\ UNCHANGED <<claims, command>>
           \/ at[b] = "recheck" /\ at'[b] = "remove" /\ path = handle[b] /\ UNCHANGED claims
<1> USE KindsOfActors
<1>1. at'[b] \in Examining /\ at'[b] # "open" /\ at'[b] \notin Beyond
  BY DEF Examining, Beyond
<1>2. CASE RemoveFile(b)
  <2>1. CASE OpenFile(b)
    BY <1>1, <2>1, LeaveEffect, TypeParts DEF OpenFile, ActorTypes
  <2>2. CASE LockFile(b)
    BY <1>1, <2>2, LeaveEffect, MoveEffect DEF LockFile
  <2>3. CASE Judge(b)
    BY <1>1, <2>3, LeaveEffect, MoveEffect DEF Judge
  <2>4. CASE Recheck(b)
    BY <1>1, <2>4, LeaveEffect, MoveEffect DEF Recheck
  <2>5. CASE Remove(b)
    BY <1>1, <2>5, LeaveEffect DEF Remove
  <2>6. QED
    BY <1>2, <2>1, <2>2, <2>3, <2>4, <2>5 DEF RemoveFile
<1>3. ASSUME NEW a \in Actors, RemoveFile(a), a # b
      PROVE  at[b] = at'[b]
  BY <1>3, RemoveFileEffect DEF OthersStay
<1>4. ASSUME NEW d \in Daemons, DaemonStep(d)
      PROVE  at[b] = at'[b]
  <2>1. CASE d # b
    BY <1>4, <2>1, DaemonStepEffect DEF OthersStay
  <2>2. CASE d = b
    BY <1>1, <1>4, <2>2, DaemonStepEffect
  <2>3. QED
    BY <2>1, <2>2
<1>5. ASSUME NEW s \in Stoppers, StopCommand(s)
      PROVE  at[b] = at'[b]
  BY <1>1, <1>5, StopCommandEffect DEF OthersStay
<1>6. ASSUME NEW d \in Daemons, StartCommand(d)
      PROVE  at[b] = at'[b]
  BY <1>6, StartCommandEffect
<1>7. QED
  BY <1>2, <1>3, <1>4, <1>5, <1>6 DEF Next

LEMMA PublicationsStep ==
    ASSUME IInv, Next
    PROVE  RecordsArePublished' /\ PublishersMoveOn' /\ GoalsFit'
<1> USE DEF IInv, Inv
<1> USE KindsOfActors
<1>1. published \subseteq published'
  BY PublishedGrows
<1>2. path' \in Daemons => path' \in published'
  BY PathEffect DEF RecordsArePublished, claims
<1>3. \A a \in Actors : handle'[a] \in Daemons => handle'[a] \in published'
  <2>1. ASSUME NEW a \in Actors
        PROVE  handle'[a] \in {handle[a], None} \/ (handle'[a] = path /\ path' = path)
    <3>1. ASSUME NEW b \in Actors, RemoveFile(b)
          PROVE  handle'[a] \in {handle[a], None} \/ (handle'[a] = path /\ path' = path)
      <4>1. CASE a # b
        BY <3>1, <4>1, RemoveFileEffect DEF OthersStay
      <4>2. CASE a = b /\ OpenFile(b)
        BY <4>2, LeaveEffect, TypeParts DEF OpenFile, ActorTypes, claims
      <4>3. CASE a = b /\ ~OpenFile(b)
        BY <3>1, <4>3, LeaveEffect, MoveEffect
           DEF RemoveFile, LockFile, Judge, Recheck, Remove
      <4>4. QED
        BY <4>1, <4>2, <4>3
    <3>2. ASSUME NEW d \in Daemons, DaemonStep(d)
          PROVE  handle'[a] \in {handle[a], None}
      <4>1. CASE d # a
        BY <3>2, <4>1, DaemonStepEffect DEF OthersStay
      <4>2. CASE d = a
        BY <3>2, <4>2, MoveEffect, ExamineEffect, TypeParts
           DEF DaemonStep, Launch, SpawnDetached, StartDaemon, PublishRecord, CloseRecord,
               Withdraw, PublishState, Crash, ActorTypes
      <4>3. QED
        BY <4>1, <4>2
    <3>3. ASSUME NEW s \in Stoppers, StopCommand(s)
          PROVE  handle'[a] = handle[a]
      BY <3>3, StopCommandEffect DEF OthersStay
    <3>4. QED
      BY <3>1, <3>2, <3>3, StartCommandEffect DEF Next
  <2>2. QED
    BY <1>1, <2>1 DEF RecordsArePublished
<1>4. \A s \in Stoppers : seen'[s] \in Daemons => seen'[s] \in published'
  <2>1. ASSUME NEW t \in Stoppers, StopCommand(t), NEW s \in Stoppers
        PROVE  seen'[s] \in {seen[s], path}
    <3>1. CASE ReadRecord(t)
      BY <3>1, TypeParts DEF ReadRecord, CommandTypes
    <3>2. CASE ~ReadRecord(t)
      BY <2>1, <3>2 DEF StopCommand, BeginStop, ChooseTargets, SignalProcess, ValidateByPid,
                        KillByPid, AllSignalled, WaitForExit, StopTimesOut, AllExited, command
    <3>3. QED
      BY <3>1, <3>2
  <2>2. CASE \E t \in Stoppers : StopCommand(t)
    BY <1>1, <2>1, <2>2 DEF RecordsArePublished
  <2>3. CASE ~\E t \in Stoppers : StopCommand(t)
    <3>1. seen' = seen
      BY <2>3, StartCommandEffect
         DEF Next, RemoveFile, OpenFile, LockFile, Judge, Recheck, Remove, DaemonStep, Launch,
             SpawnDetached, StartDaemon, PublishRecord, CloseRecord, Withdraw, PublishState,
             Crash, command
    <3>2. QED
      BY <1>1, <3>1 DEF RecordsArePublished
  <2>4. QED
    BY <2>2, <2>3
<1>5. PublishersMoveOn'
  <2>1. ASSUME NEW f \in published
        PROVE  \/ at'[f] \in {"published", "running", "exiting", "gone"}
               \/ at'[f] \in Examining /\ goal'[f] = "withdraw"
    BY PublishersGoOnward DEF Onward, PublishersMoveOn
  <2>2. ASSUME NEW f \in published', f \notin published
        PROVE  at'[f] = "published"
    BY <2>2, PathEffect DEF claims
  <2>3. QED
    BY <2>1, <2>2 DEF PublishersMoveOn
<1>6. GoalsFit'
  <2>1. Beyond \cap Examining = {} /\ "gone" \notin Examining /\ "running" \notin Examining
        /\ {"check", "other", "refused", "publish", "published"} \cap Examining = {}
    BY DEF Beyond, Examining
  <2>2. ASSUME NEW a \in Actors, RemoveFile(a)
        PROVE  GoalsFit'
    BY <2>1, <2>2, RemoveFileEffect, LeaveEffect DEF GoalsFit, OthersStay
  <2>3. ASSUME NEW d \in Daemons, DaemonStep(d)
        PROVE  GoalsFit'
    BY <2>1, <2>3, DaemonStepEffect DEF GoalsFit, OthersStay
  <2>4. ASSUME NEW s \in Stoppers, StopCommand(s)
        PROVE  GoalsFit'
    BY <2>4, StopCommandEffect DEF GoalsFit, OthersStay
  <2>5. ASSUME NEW d \in Daemons, StartCommand(d)
        PROVE  GoalsFit'
    BY <2>5, StartCommandEffect DEF GoalsFit
  <2>6. QED
    BY <2>2, <2>3, <2>4, <2>5 DEF Next
<1>7. RecordsArePublished'
  BY <1>2, <1>3, <1>4 DEF RecordsArePublished
<1>8. QED
  BY <1>5, <1>6, <1>7

LEMMA LocksStep ==
    ASSUME IInv, Next
    PROVE  LocksAreExclusive'
<1> SUFFICES ASSUME NEW a \in Actors, NEW b \in Actors, a # b,
                    at'[a] \in LockStates, at'[b] \in LockStates
             PROVE  handle'[a] # handle'[b]
  BY DEF LocksAreExclusive
<1> USE DEF IInv, Inv
<1>1. \A c \in Actors : at[c] \in LockStates => c \in Actors /\ at[c] \in {"judge", "recheck", "remove"}
  BY DEF LockStates
<1>2. CASE at[a] \in LockStates /\ at[b] \in LockStates
  BY <1>2, LockEffect DEF LocksAreExclusive
<1>3. CASE at[a] = "lock" /\ ~Locked(handle[a]) /\ OthersStay(a)
  <2>1. at[b] \in LockStates /\ handle'[b] = handle[b] /\ handle'[a] = handle[a]
    BY <1>3, LockEffect DEF OthersStay
  <2>2. QED
    BY <1>1, <1>3, <2>1 DEF Locked
<1>4. CASE at[b] = "lock" /\ ~Locked(handle[b]) /\ OthersStay(b)
  <2>1. at[a] \in LockStates /\ handle'[a] = handle[a] /\ handle'[b] = handle[b]
    BY <1>4, LockEffect DEF OthersStay
  <2>2. QED
    BY <1>1, <1>4, <2>1 DEF Locked
<1>5. QED
  BY <1>2, <1>3, <1>4, LockEffect

LEMMA RemoversStep ==
    ASSUME IInv, Next
    PROVE  RemoversHoldThePath'
<1> SUFFICES ASSUME NEW a \in Actors, at'[a] = "remove"
             PROVE  path' = handle'[a]
  BY DEF RemoversHoldThePath
<1> USE DEF IInv, Inv
<1>1. handle'[a] = handle[a]
  BY LockEffect DEF LockStates
<1>2. CASE at[a] = "recheck" /\ path = handle[a] /\ UNCHANGED claims
  BY <1>1, <1>2 DEF claims
<1>3. CASE at[a] = "remove"
  <2>1. path = handle[a] /\ path # None
    BY <1>3, TypeParts DEF RemoversHoldThePath, ActorTypes, Holding
  <2>2. ASSUME NEW b \in Actors, at[b] = "remove", at'[b] \in Beyond
        PROVE  FALSE
    <3>1. a = b
      BY <1>3, <2>1, <2>2 DEF RemoversHoldThePath, LocksAreExclusive, LockStates
    <3>2. QED
      BY <2>2, <3>1 DEF Beyond
  <2>3. QED
    BY <1>1, <2>1, <2>2, PathEffect DEF claims
<1>4. QED
  BY <1>2, <1>3, RecheckEffect

LEMMA DoomedStep ==
    ASSUME IInv, Next
    PROVE  DoomedDoNotRun'
<1> SUFFICES ASSUME NEW a \in Actors, NEW f \in Daemons,
                    at'[a] \in {"recheck", "remove"}, handle'[a] = f
             PROVE  ~Running(f)' \/ Confused(f)'
  BY DEF DoomedDoNotRun, Running, Confused
<1> USE DEF IInv, Inv
<1>1. handle[a] = f
  BY LockEffect DEF LockStates
<1>2. f \in published
  BY <1>1 DEF RecordsArePublished
<1>3. ~Running(f) \/ Confused(f) => ~Running(f)' \/ Confused(f)'
  BY <1>2, PublisherFacts, ConfusionStays DEF StopInv
<1>4. CASE at[a] \in {"recheck", "remove"}
  BY <1>1, <1>2, <1>3, <1>4 DEF DoomedDoNotRun
<1>5. CASE /\ at[a] = "judge" /\ at'[a] = "recheck"
           /\ \E readable \in Lookups : Doomed(a, readable)
  <2>1. PICK readable \in Lookups : Doomed(a, readable)
    BY <1>5
  <2>2. at[a] \in Examining
    BY <1>5 DEF Examining
  <2>3. CASE goal[a] = "replace"
    <3>1. ~RecordRecognised(f, readable)
      BY <1>1, <2>1, <2>3 DEF Doomed
    <3>2. ~Running(f)
      BY <1>2, <3>1 DEF RecordRecognised, Recognised, Alive, Running
    <3>3. QED
      BY <1>1, <1>3, <3>2
  <2>4. CASE goal[a] = "withdraw"
    <3>1. f = a
      BY <1>1, <2>1, <2>4 DEF Doomed
    <3>2. QED
      BY <1>1, <1>5, <3>1 DEF Running
  <2>5. CASE goal[a] = "unreadable"
    <3>1. f = Junk
      BY <1>1, <2>1, <2>5 DEF Doomed
    <3>2. QED
      BY <1>2, <3>1, KindsOfActors
  <2>6. CASE goal[a] \notin {"replace", "withdraw", "unreadable"}
    <3>1. f = seen[a] /\ a \in Stoppers
      BY <1>1, <2>1, <2>2, <2>6, KindsOfActors DEF Doomed, GoalsFit
    <3>2. ~Alive(f) \/ Confused(f)
      BY <1>2, <2>2, <2>6, <3>1 DEF StopInv, SeenIsStopped, MayLive
    <3>3. QED
      BY <1>1, <1>3, <3>2 DEF Alive, Running
  <2>7. QED
    BY <2>3, <2>4, <2>5, <2>6
<1>6. QED
  BY <1>4, <1>5, RecheckEffect

LEMMA RunnersRan ==
    ASSUME TypeOK, Next, NEW d \in Daemons, Running(d)'
    PROVE  Running(d) \/ path' = d
<1>1. d \in Actors /\ d \notin Stoppers /\ at'[d] \in {"published", "running"}
  BY KindsOfActors DEF Running
<1>2. ASSUME NEW a \in Actors, RemoveFile(a)
      PROVE  Running(d)
  <2>1. a # d
    BY <1>1, <1>2, RemoveFileEffect, LeaveEffect DEF Examining, Beyond
  <2>2. QED
    BY <1>1, <1>2, <2>1, RemoveFileEffect DEF OthersStay, Running
<1>3. ASSUME NEW e \in Daemons, DaemonStep(e)
      PROVE  Running(d) \/ path' = d
  <2>1. CASE e = d
    BY <1>1, <1>3, <2>1, DaemonStepEffect DEF Running
  <2>2. CASE e # d
    BY <1>1, <1>3, <2>2, DaemonStepEffect DEF OthersStay, Running
  <2>3. QED
    BY <2>1, <2>2
<1>4. ASSUME NEW s \in Stoppers, StopCommand(s)
      PROVE  Running(d)
  BY <1>1, <1>4, StopCommandEffect DEF OthersStay, Running
<1>5. QED
  BY <1>1, <1>2, <1>3, <1>4, StartCommandEffect DEF Next, Running

LEMMA RunningStep ==
    ASSUME IInv, Next
    PROVE  RunningIsRecorded'
<1> SUFFICES ASSUME NEW d \in Daemons, Running(d)'
             PROVE  path' = d \/ Confused(d)'
  BY DEF RunningIsRecorded
<1> USE DEF IInv, Inv
<1>1. Running(d) \/ path' = d
  BY RunnersRan
<1>2. CASE path' = d
  BY <1>2
<1>3. CASE Confused(d)
  BY <1>3, ConfusionStays DEF StopInv
<1>4. CASE Running(d) /\ path = d /\ ~Confused(d)
  <2>1. ASSUME NEW a \in Actors, at[a] = "remove"
        PROVE  FALSE
    <3>1. handle[a] = d
      BY <1>4, <2>1 DEF RemoversHoldThePath
    <3>2. QED
      BY <1>4, <2>1, <3>1 DEF DoomedDoNotRun
  <2>2. path # None
    BY <1>4, KindsOfActors
  <2>3. QED
    BY <1>4, <2>1, <2>2, PathEffect DEF claims
<1>5. QED
  BY <1>1, <1>2, <1>3, <1>4 DEF RunningIsRecorded

LEMMA RunnersStep ==
    ASSUME IInv, Next
    PROVE  RunnersPublish'
<1>1. RecordsArePublished' /\ published \subseteq published'
  BY PublicationsStep, PublishedGrows
<1>2. ASSUME NEW d \in Daemons, Running(d)'
      PROVE  d \in published'
  BY <1>1, <1>2, RunnersRan DEF IInv, Inv, RunnersPublish, RecordsArePublished
<1>3. QED
  BY <1>2 DEF RunnersPublish, Running

-----------------------------------------------------------------------------
(* The stop commands.                                                        *)

CommandStays(s) ==
    /\ at'[s] = at[s] /\ goal'[s] = goal[s]
    /\ publisher'[s] = publisher[s] /\ atStart'[s] = atStart[s] /\ seen'[s] = seen[s]
    /\ targets'[s] = targets[s] /\ unsent'[s] = unsent[s]

\* What holds of the daemons a command looked at, whatever happens to them.
LEMMA WhatWasSeenStays ==
    ASSUME IInv, Next, NEW s \in Stoppers, seen'[s] = seen[s]
    PROVE  /\ MayLive(s)' => MayLive(s)
           /\ atStart'[s] = atStart[s] => AtStartPublished(s)'
           /\ atStart'[s] = atStart[s] /\ at[s] \notin {"absent", "read"} => RunningIsSeen(s)'
<1> USE DEF IInv, Inv, StopInv
<1>1. ASSUME NEW f \in published
      PROVE  /\ f \in Daemons /\ f \in published'
             /\ Alive(f)' => Alive(f)
             /\ at[f] # "published" => at'[f] # "published"
             /\ at[f] # "published" /\ at'[f] = "running" => at[f] = "running"
  BY PublisherFacts, PublishedGrows, TypeParts DEF ClaimTypes
<1>2. ASSUME NEW f \in Daemons, Confused(f)
      PROVE  Confused(f)'
  BY <1>2, ConfusionStays
<1>3. MayLive(s)' => MayLive(s)
  <2>1. ASSUME NEW f \in Daemons, seen[s] = f, Alive(f)', ~Confused(f)'
        PROVE  MayLive(s)
    BY <1>1, <1>2, <2>1 DEF MayLive, RecordsArePublished
  <2>2. QED
    BY <2>1 DEF MayLive, Alive, Confused
<1>4. atStart'[s] = atStart[s] => AtStartPublished(s)'
  BY <1>1 DEF AtStartPublished
<1>5. ASSUME atStart'[s] = atStart[s], at[s] \notin {"absent", "read"},
             NEW d \in atStart[s], at'[d] = "running"
      PROVE  seen[s] = d \/ Confused(d)'
  BY <1>1, <1>2, <1>5 DEF AtStartPublished, RunningIsSeen
<1>6. QED
  BY <1>3, <1>4, <1>5 DEF RunningIsSeen, Confused

LEMMA StayingIsSound ==
    ASSUME IInv, Next, NEW s \in Stoppers, CommandStays(s)
    PROVE  StopInv(s)'
<1> USE DEF IInv, Inv, StopInv, CommandStays
<1>1. NotBegun(s)' /\ UnsentAreTargets(s)'
  BY DEF NotBegun, UnsentAreTargets
<1>2. SeenIsStopped(s)'
  BY WhatWasSeenStays DEF SeenIsStopped
<1>3. RunningIsSeen(s)'
  BY WhatWasSeenStays DEF RunningIsSeen
<1>4. QED
  BY <1>1, <1>2, <1>3, WhatWasSeenStays

LEMMA OthersCommandsStay ==
    ASSUME TypeOK, NEW s \in Stoppers
    PROVE  /\ \A a \in Actors \ {s} : RemoveFile(a) => CommandStays(s)
           /\ \A d \in Daemons : DaemonStep(d) \/ StartCommand(d) => CommandStays(s)
           /\ \A t \in Stoppers \ {s} : StopCommand(t) => CommandStays(s)
<1> USE KindsOfActors DEF CommandStays, OthersStay
<1>1. ASSUME NEW a \in Actors \ {s}, RemoveFile(a)
      PROVE  CommandStays(s)
  <2>1. UNCHANGED command
    BY <1>1 DEF RemoveFile, OpenFile, LockFile, Judge, Recheck, Remove
  <2>2. QED
    BY <1>1, <2>1, RemoveFileEffect DEF command
<1>2. ASSUME NEW d \in Daemons, DaemonStep(d)
      PROVE  CommandStays(s)
  <2>1. UNCHANGED command
    BY <1>2 DEF DaemonStep, Launch, SpawnDetached, StartDaemon, PublishRecord, CloseRecord,
                Withdraw, PublishState, Crash
  <2>2. QED
    BY <1>2, <2>1, DaemonStepEffect DEF command
<1>3. ASSUME NEW d \in Daemons, StartCommand(d)
      PROVE  CommandStays(s)
  BY <1>3, StartCommandEffect DEF command
<1>4. ASSUME NEW t \in Stoppers \ {s}, StopCommand(t)
      PROVE  CommandStays(s)
  <2>1. at'[s] = at[s] /\ goal'[s] = goal[s]
    BY <1>4, StopCommandEffect
  <2>2. /\ publisher'[s] = publisher[s] /\ atStart'[s] = atStart[s] /\ seen'[s] = seen[s]
        /\ targets'[s] = targets[s] /\ unsent'[s] = unsent[s]
    BY <1>4, TypeParts
       DEF StopCommand, BeginStop, ReadRecord, ChooseTargets, SignalProcess, ValidateByPid,
           KillByPid, Deliver, AllSignalled, WaitForExit, StopTimesOut, AllExited, command,
           CommandTypes
  <2>3. QED
    BY <2>1, <2>2
<1>5. QED
  BY <1>1, <1>2, <1>3, <1>4

\* A command that cleans up has seen that nothing of its record lives.
LEMMA CleanUpIsSound ==
    ASSUME IInv, Next, NEW s \in Stoppers, RemoveFile(s)
    PROVE  StopInv(s)'
<1> USE KindsOfActors DEF IInv, Inv, StopInv
<1>1. UNCHANGED command
  BY DEF RemoveFile, OpenFile, LockFile, Judge, Recheck, Remove
<1>2. at[s] \in Examining /\ at[s] \notin {"absent", "read"}
  BY RemoveFileEffect DEF Examining
<1>3. \/ at'[s] \in Examining /\ goal'[s] = goal[s]
      \/ at'[s] \in Beyond /\ (goal[s] = "unreadable" => at'[s] \in {"choose", "failed"})
  BY RemoveFileEffect, LeaveEffect
<1>4. NotBegun(s)' /\ UnsentAreTargets(s)'
  BY <1>1, <1>3 DEF NotBegun, UnsentAreTargets, command, Examining, Beyond
<1>5. AtStartPublished(s)' /\ RunningIsSeen(s)'
  BY <1>1, <1>2, WhatWasSeenStays DEF command
<1>6. SeenIsStopped(s)'
  <2>1. MayLive(s)' => goal[s] = "unreadable"
    BY <1>1, <1>2, WhatWasSeenStays DEF command, SeenIsStopped
  <2>2. QED
    BY <1>3, <2>1 DEF SeenIsStopped, Examining, Beyond
<1>7. QED
  BY <1>4, <1>5, <1>6

\* A live process whose record was read is among the candidates.
LEMMA LiveIsCandidate ==
    ASSUME NEW s \in Stoppers, MayLive(s), NEW readable
    PROVE  seen[s] \in Candidates(s, readable)
<1>1. RecordRecognised(seen[s], readable)
  BY DEF MayLive, RecordRecognised, Recognised
<1>2. publisher[s] # None /\ PidOf[seen[s]] = PidOf[publisher[s]] => publisher[s] = seen[s]
  BY DEF MayLive, Confused
<1>3. QED
  BY <1>1, <1>2 DEF Candidates

LEMMA StopCommandIsSound ==
    ASSUME IInv, Next, NEW s \in Stoppers, StopCommand(s)
    PROVE  StopInv(s)'
<1> USE KindsOfActors, TypeParts DEF IInv, Inv, StopInv
<1>1. /\ publisher \in [Stoppers -> Daemons \cup {None}] /\ seen \in [Stoppers -> Files \cup {None}]
      /\ targets \in [Stoppers -> SUBSET Daemons] /\ unsent \in [Stoppers -> SUBSET Daemons]
      /\ atStart \in [Stoppers -> SUBSET Daemons] /\ s \in Actors
  BY DEF CommandTypes
<1>2. CASE BeginStop(s)
  <2>1. at'[s] = "read" /\ OthersStay(s) /\ published' = published /\ seen' = seen
        /\ targets' = targets /\ unsent' = unsent
    BY <1>2, MoveEffect DEF BeginStop, claims
  <2>2. \A d \in atStart'[s] : d \in Daemons /\ at[d] = "running"
    BY <1>1, <1>2 DEF BeginStop
  <2>3. \A d \in atStart'[s] : d \in published /\ at'[d] = "running"
    <3>1. ASSUME NEW d \in Daemons, at[d] = "running"
          PROVE  d \in published
      BY <3>1 DEF RunnersPublish, Running
    <3>2. QED
      BY <2>1, <2>2, <3>1 DEF OthersStay
  <2>4. AtStartPublished(s)'
    BY <2>1, <2>3 DEF AtStartPublished
  <2>5. QED
    BY <2>1, <2>4 DEF NotBegun, RunningIsSeen, SeenIsStopped, UnsentAreTargets, Examining
<1>3. CASE ReadRecord(s)
  <2>1. /\ seen'[s] = path /\ at'[s] \in {"open", "choose"} /\ OthersStay(s)
        /\ at'[s] = "open" => path = Junk
        /\ UNCHANGED <<claims, publisher, atStart, targets, unsent>>
    BY <1>1, <1>3, MoveEffect, ExamineEffect DEF ReadRecord
  <2>2. AtStartPublished(s)' /\ NotBegun(s)' /\ UnsentAreTargets(s)'
    <3>1. \A d \in atStart[s] : d \in Daemons
      BY <1>1
    <3>2. \A d \in atStart[s] : d \in published /\ at'[d] # "published"
      BY <2>1, <3>1 DEF AtStartPublished, OthersStay
    <3>3. QED
      BY <2>1, <3>2 DEF AtStartPublished, NotBegun, UnsentAreTargets, claims
  <2>3. RunningIsSeen(s)'
    <3>1. ASSUME NEW d \in atStart[s], at'[d] = "running"
          PROVE  path = d \/ Confused(d)'
      <4>1. d \in Daemons /\ at[d] = "running"
        BY <1>1, <2>1, <3>1 DEF OthersStay
      <4>2. QED
        BY <4>1, ConfusionStays DEF RunningIsRecorded, Running
    <3>2. QED
      BY <2>1, <3>1 DEF RunningIsSeen, Confused
  <2>4. SeenIsStopped(s)'
    BY <2>1 DEF SeenIsStopped, MayLive, Examining
  <2>5. QED
    BY <2>2, <2>3, <2>4
<1>4. CASE ChooseTargets(s)
  <2>1. PICK readable \in Lookups :
            /\ targets'[s] = Candidates(s, readable) /\ unsent'[s] = Candidates(s, readable)
            /\ Candidates(s, readable) # {} => at'[s] = "signal"
            /\ Candidates(s, readable) = {} => at'[s] \in {"open", "notrunning"}
    BY <1>1, <1>4, MoveEffect, ExamineEffect DEF ChooseTargets
  <2>2. at[s] = "choose" /\ UNCHANGED <<publisher, seen, atStart>>
    BY <1>4 DEF ChooseTargets
  <2>3. MayLive(s)' => seen'[s] \in targets'[s] /\ at'[s] = "signal"
    BY <2>1, <2>2, WhatWasSeenStays, LiveIsCandidate
  <2>4. QED
    BY <2>1, <2>2, <2>3, WhatWasSeenStays
       DEF NotBegun, SeenIsStopped, UnsentAreTargets, Examining
<1>5. CASE SignalProcess(s) \/ KillByPid(s)
  <2>1. /\ at[s] \in {"signal", "kill"} /\ at'[s] \in {"signal", "failed"}
        /\ unsent'[s] \subseteq unsent[s]
        /\ UNCHANGED <<publisher, seen, atStart, targets>>
    BY <1>1, <1>5, MoveEffect DEF SignalProcess, KillByPid, Deliver
  <2>2. QED
    BY <2>1, WhatWasSeenStays
       DEF NotBegun, SeenIsStopped, UnsentAreTargets, Examining
<1>6. CASE ValidateByPid(s) \/ StopTimesOut(s)
  <2>1. /\ \/ at[s] = "signal" /\ at'[s] = "kill"
           \/ at[s] = "wait" /\ at'[s] = "failed"
        /\ UNCHANGED command
    <3>1. CASE ValidateByPid(s)
      BY <3>1, MoveEffect DEF ValidateByPid
    <3>2. CASE StopTimesOut(s)
      BY <3>2, MoveEffect DEF StopTimesOut
    <3>3. QED
      BY <1>6, <3>1, <3>2
  <2>2. QED
    BY <2>1, WhatWasSeenStays
       DEF NotBegun, SeenIsStopped, UnsentAreTargets, Examining, command
<1>7. CASE AllSignalled(s)
  <2>1. /\ at[s] = "signal" /\ at'[s] = "wait" /\ unsent'[s] = targets[s]
        /\ UNCHANGED <<publisher, seen, atStart, targets>>
    BY <1>1, <1>7, MoveEffect DEF AllSignalled
  <2>2. QED
    BY <2>1, WhatWasSeenStays
       DEF NotBegun, SeenIsStopped, UnsentAreTargets, Examining
<1>8. CASE WaitForExit(s)
  <2>1. PICK f \in unsent[s], readable \in Lookups :
            ~Recognised(f, readable) /\ unsent'[s] = unsent[s] \ {f}
    BY <1>1, <1>8 DEF WaitForExit
  <2>2. at[s] = "wait" /\ at' = at /\ UNCHANGED <<publisher, seen, atStart, targets>>
    BY <1>8 DEF WaitForExit
  <2>3. MayLive(s) => f # seen[s]
    BY <2>1 DEF MayLive, Recognised
  <2>4. QED
    BY <2>1, <2>2, <2>3, WhatWasSeenStays
       DEF NotBegun, SeenIsStopped, UnsentAreTargets, Examining
<1>9. CASE AllExited(s)
  <2>1. at[s] = "wait" /\ unsent[s] = {} /\ UNCHANGED command /\ at'[s] \in {"open", "stopped"}
    BY <1>9, MoveEffect, ExamineEffect DEF AllExited
  <2>2. ~MayLive(s)
    BY <2>1 DEF SeenIsStopped
  <2>3. QED
    BY <2>1, <2>2, WhatWasSeenStays
       DEF NotBegun, SeenIsStopped, UnsentAreTargets, command
<1>10. QED
  BY <1>2, <1>3, <1>4, <1>5, <1>6, <1>7, <1>8, <1>9 DEF StopCommand

LEMMA StopStep ==
    ASSUME IInv, Next
    PROVE  \A s \in Stoppers : StopInv(s)'
<1> SUFFICES ASSUME NEW s \in Stoppers
             PROVE  StopInv(s)'
  OBVIOUS
<1>1. \/ RemoveFile(s) \/ StopCommand(s) \/ CommandStays(s)
  BY OthersCommandsStay DEF IInv, Next
<1>2. QED
  BY <1>1, CleanUpIsSound, StopCommandIsSound, StayingIsSound

-----------------------------------------------------------------------------
(* The detached starts.                                                      *)

LEMMA StartStep ==
    ASSUME IInv, Next
    PROVE  StartIsReal'
<1> USE KindsOfActors DEF IInv, Inv
<1>1. published \subseteq published'
  BY PublishedGrows
<1>2. ASSUME NEW d \in Daemons, OwnerIs(d)
      PROVE  \E f \in published : PidOf[f] = PidOf[d]
  BY <1>2 DEF OwnerIs, RecordsArePublished
<1>3. ASSUME NEW d \in Daemons, parent'[d] = "ok"
      PROVE  parent[d] = "ok" \/ OwnerIs(d)
  <2>1. parent \in [Daemons -> {"none", "wait", "confirm", "ok", "failed"}]
    BY TypeParts DEF OtherTypes
  <2>2. ASSUME NEW e \in Daemons, StartCommand(e)
        PROVE  parent[d] = "ok" \/ OwnerIs(d)
    BY <1>3, <2>1, <2>2 DEF StartCommand, PollStart, StartTimesOut, ConfirmStart, Parent
  <2>3. ASSUME NEW e \in Daemons, SpawnDetached(e)
        PROVE  parent[d] = "ok"
    BY <1>3, <2>1, <2>3 DEF SpawnDetached
  <2>4. CASE parent' = parent
    BY <1>3, <2>4
  <2>5. QED
    BY <2>2, <2>3, <2>4
       DEF Next, RemoveFile, OpenFile, LockFile, Judge, Recheck, Remove, DaemonStep, Launch,
           StartDaemon, PublishRecord, CloseRecord, Withdraw, PublishState, Crash,
           StopCommand, BeginStop, ReadRecord, ChooseTargets, SignalProcess, ValidateByPid,
           KillByPid, AllSignalled, WaitForExit, StopTimesOut, AllExited
<1>4. QED
  BY <1>1, <1>2, <1>3 DEF StartIsReal

-----------------------------------------------------------------------------
(* The theorems.                                                             *)

LEMMA InitIInv == Init => IInv
<1> SUFFICES ASSUME Init PROVE IInv
  OBVIOUS
<1> USE KindsOfActors DEF Init
<1>1. TypeOK
  <2>1. "absent" \in Places /\ "absent" \notin Holding /\ "none" \in Goals
    BY DEF Places, Holding, Goals
  <2>2. ActorTypes
    BY <2>1 DEF ActorTypes
  <2>3. ClaimTypes /\ OtherTypes /\ CommandTypes
    BY DEF ClaimTypes, OtherTypes, CommandTypes, Files
  <2>4. QED
    BY <2>2, <2>3, TypeParts
<1>2. /\ RecordsArePublished /\ PublishersMoveOn /\ RunnersPublish /\ GoalsFit
      /\ RunningIsRecorded
  BY DEF RecordsArePublished, PublishersMoveOn, RunnersPublish, GoalsFit, RunningIsRecorded,
         Running, Examining
<1>3. LocksAreExclusive /\ RemoversHoldThePath /\ DoomedDoNotRun /\ StartIsReal
  BY DEF LocksAreExclusive, LockStates, RemoversHoldThePath, DoomedDoNotRun, StartIsReal
<1>4. \A s \in Stoppers : StopInv(s)
  BY DEF StopInv, NotBegun, AtStartPublished, RunningIsSeen, SeenIsStopped, MayLive,
         UnsentAreTargets
<1>5. QED
  BY <1>1, <1>2, <1>3, <1>4 DEF IInv, Inv

LEMMA UnchangedStep ==
    ASSUME IInv, UNCHANGED vars
    PROVE  IInv'
<1> USE DEF IInv, Inv, vars, claims, command
<1>1. TypeOK'
  BY NextTypes
<1>2. /\ RecordsArePublished' /\ PublishersMoveOn' /\ RunnersPublish' /\ GoalsFit'
      /\ LocksAreExclusive' /\ RemoversHoldThePath' /\ StartIsReal'
  BY DEF RecordsArePublished, PublishersMoveOn, RunnersPublish, GoalsFit, Running,
         LocksAreExclusive, RemoversHoldThePath, StartIsReal
<1>3. DoomedDoNotRun' /\ RunningIsRecorded'
  BY DEF DoomedDoNotRun, RunningIsRecorded, Running, Confused
<1>4. \A s \in Stoppers : StopInv(s)'
  BY DEF StopInv, NotBegun, AtStartPublished, RunningIsSeen, SeenIsStopped, MayLive,
         UnsentAreTargets, Alive, Confused
<1>5. QED
  BY <1>1, <1>2, <1>3, <1>4

LEMMA NextIInv == IInv /\ [Next]_vars => IInv'
<1> SUFFICES ASSUME IInv, [Next]_vars PROVE IInv'
  OBVIOUS
<1>1. CASE Next
  <2>1. TypeOK'
    BY NextTypes DEF IInv
  <2>2. QED
    BY <1>1, <2>1, PublicationsStep, RunnersStep, LocksStep, RemoversStep, DoomedStep,
       RunningStep, StopStep, StartStep DEF IInv, Inv
<1>2. QED
  BY <1>1, UnchangedStep

LEMMA IInvHolds == Spec => []IInv
BY InitIInv, NextIInv, PTL DEF Spec

\* The state of the processes and the commands keeps its types: an actor holds
\* a file open exactly while it examines it.
THEOREM TypeCorrect == Spec => []TypeOK
<1>1. IInv => TypeOK
  BY DEF IInv
<1>2. QED
  BY IInvHolds, <1>1, PTL

\* A running daemon's record is the one at the path, whoever starts, stops,
\* crashes or cleans up around it.
THEOREM RunningDaemonsAreRecorded == Spec => []RunningIsRecorded
<1>1. IInv => RunningIsRecorded
  BY DEF IInv, Inv
<1>2. QED
  BY IInvHolds, <1>1, PTL

\* Two processes publish their records at once only if a stop command confused
\* one of them with its predecessor.
THEOREM OneDaemonRuns ==
    Spec => [](\A d, e \in Daemons :
                  Running(d) /\ Running(e) => d = e \/ Confused(d) \/ Confused(e))
<1>1. IInv => \A d, e \in Daemons :
                  Running(d) /\ Running(e) => d = e \/ Confused(d) \/ Confused(e)
  BY DEF IInv, Inv, RunningIsRecorded
<1>2. QED
  BY IInvHolds, <1>1, PTL

\* When "termp stop" reports a success, the daemon that ran when it began does
\* not run any more.
THEOREM SuccessfulStopsStopped == Spec => []StopStops
<1>1. ASSUME IInv
      PROVE  StopStops
  <2> SUFFICES ASSUME NEW s \in Stoppers, at[s] \in {"stopped", "notrunning"},
                      NEW d \in atStart[s], at[d] = "running"
               PROVE  Confused(d)
    BY DEF StopStops
  <2>1. StopInv(s) /\ d \in Daemons
    BY <1>1, TypeParts DEF IInv, Inv, CommandTypes
  <2>2. seen[s] = d \/ Confused(d)
    BY <2>1 DEF StopInv, RunningIsSeen
  <2>3. ~MayLive(s)
    BY <2>1 DEF StopInv, SeenIsStopped
  <2>4. QED
    BY <2>1, <2>2, <2>3 DEF MayLive, Alive
<1>2. QED
  BY IInvHolds, <1>1, PTL

\* A start that is reported as a success was of a child whose id is in a record
\* that was published.
THEOREM ReportedStartsAreReal == Spec => []StartIsReal
<1>1. IInv => StartIsReal
  BY DEF IInv, Inv
<1>2. QED
  BY IInvHolds, <1>1, PTL

\* "termp stop" signals a process that has the id of a record it chose, and but
\* for signals by number that very process, if its start time is known.
THEOREM SignalsAreForTargets == Spec => SignalsAreAimed
<1> DEFINE Aimed(q) == \E s \in Stoppers : \E f \in targets[s] :
                           /\ PidOf[f] = PidOf[q]
                           /\ at[s] = "signal" => q = f \/ f \in UnknownStart
<1>1. ASSUME IInv, [Next]_vars, NEW q \in signalled' \ signalled
      PROVE  Aimed(q)
  <2>1. \A s \in Stoppers : unsent[s] \subseteq targets[s]
    BY <1>1 DEF IInv, Inv, StopInv, UnsentAreTargets
  <2>2. ASSUME NEW s \in Stoppers, SignalProcess(s)
        PROVE  Aimed(q)
    BY <1>1, <2>1, <2>2 DEF SignalProcess, Deliver, Validated
  <2>3. ASSUME NEW s \in Stoppers, KillByPid(s)
        PROVE  Aimed(q)
    <3>1. at[s] = "kill"
      BY <2>3 DEF KillByPid
    <3>2. QED
      BY <1>1, <2>1, <2>3, <3>1 DEF KillByPid, Deliver
  <2>4. ASSUME NEW d \in Daemons, Crash(d)
        PROVE  FALSE
    BY <1>1, <2>4 DEF Crash
  <2>5. CASE signalled' = signalled
    BY <1>1, <2>5
  <2>6. QED
    BY <1>1, <2>2, <2>3, <2>4, <2>5
       DEF Next, RemoveFile, OpenFile, LockFile, Judge, Recheck, Remove, DaemonStep, Launch,
           SpawnDetached, StartDaemon, PublishRecord, CloseRecord, Withdraw, PublishState,
           StartCommand, PollStart, StartTimesOut, ConfirmStart, Parent, vars,
           StopCommand, BeginStop, ReadRecord, ChooseTargets, ValidateByPid,
           AllSignalled, WaitForExit, StopTimesOut, AllExited
<1>2. IInv /\ [Next]_vars =>
          [\A q \in signalled' \ signalled : \E s \in Stoppers : \E f \in targets[s] :
              /\ PidOf[f] = PidOf[q]
              /\ at[s] = "signal" => q = f \/ f \in UnknownStart]_vars
  BY <1>1
<1>3. QED
  BY IInvHolds, <1>2, PTL DEF Spec, SignalsAreAimed
=============================================================================
