-------------------------- MODULE DaemonLifecycle --------------------------
(***************************************************************************)
(* The life of daemon processes around the PID file (cmd/termp: start,     *)
(* writePIDOwned, removePIDIfOwned, removeUnreadablePIDFile, stop and the  *)
(* detached start): who owns the record, who may remove it, whom "stop"    *)
(* signals and what "start" reports.                                       *)
(*                                                                         *)
(* A member of Daemons is one process, from its launch to its exit; PidOf  *)
(* gives two of them the same process id, so that ids are reused.  A file  *)
(* is named by the process that wrote it, its record being that process's  *)
(* id and start time; Junk is a file no build can parse.  A file is locked *)
(* while its writer initialises it and while an actor examines it; a lock  *)
(* dies with its process.  A process running another program looks like no *)
(* process at all (processLooksLikeTermp), so only termp processes appear. *)
(***************************************************************************)
EXTENDS Naturals, FiniteSets

CONSTANTS
    Daemons,        \* processes that may be launched, each once
    Detached,       \* those that "termp start" spawns; autostart launches the others
    Stoppers,       \* runs of "termp stop"
    PidOf,          \* the process id of each process; ids may be reused
    UnknownStart,   \* processes whose start time could not be read at the start
    Lookups,        \* whether a later look at a start time works: TRUE, FALSE
    None, Junk

ASSUME PidAssumption == PidOf \in [Daemons -> Nat]
ASSUME UnknownStartAssumption == UnknownStart \cup Detached \subseteq Daemons
ASSUME LookupsAssumption == Lookups \subseteq BOOLEAN /\ Lookups # {}
ASSUME ActorsAssumption == Daemons \cap Stoppers = {} /\ {None, Junk} \cap Daemons = {}

Actors == Daemons \cup Stoppers
Files == Daemons \cup {Junk}

VARIABLES
    path,       \* the file under the PID path, or None
    state,      \* the process named by the daemon state file, or None
    at,         \* where each actor is
    goal,       \* what an actor examining the file does it for
    handle,     \* the file it holds open
    signalled,  \* the processes sent a termination signal
    published,  \* history: the processes that published their record
    parent,     \* the detached start waiting for this process
    publisher,  \* the process the state file named when a stop command began
    seen,       \* the file it then read under the PID path
    targets,    \* the records it decided to stop
    unsent,     \* those it has still to signal
    atStart     \* history: the daemons running when it began

claims == <<path, published>>
command == <<publisher, seen, targets, unsent, atStart>>
vars == <<claims, state, at, goal, handle, signalled, parent, command>>

Examining == {"open", "lock", "judge", "recheck", "remove"}
Ended == {"refused", "gone", "stopped", "notrunning", "failed"}
Goals == {"replace", "withdraw", "stale", "reap", "unreadable", "none"}

Alive(d) == at[d] \notin {"absent", "refused", "gone"}
Running(d) == at[d] \in {"published", "running"}

TypeOK ==
    /\ path \in Files \cup {None} /\ state \in Daemons \cup {None}
    /\ at \in [Actors -> Examining \cup Ended \cup {"absent", "other", "check",
                  "publish", "published", "running", "exiting", "read", "choose", "signal",
                  "kill", "wait"}]
    /\ goal \in [Actors -> Goals] /\ handle \in [Actors -> Files \cup {None}]
    /\ \A a \in Actors : at[a] \in {"lock", "judge", "recheck", "remove"} <=> handle[a] # None
    /\ signalled \subseteq Daemons /\ published \subseteq Daemons
    /\ parent \in [Daemons -> {"none", "wait", "confirm", "ok", "failed"}]
    /\ publisher \in [Stoppers -> Daemons \cup {None}]
    /\ seen \in [Stoppers -> Files \cup {None}]
    /\ targets \in [Stoppers -> SUBSET Daemons] /\ unsent \in [Stoppers -> SUBSET Daemons]
    /\ atStart \in [Stoppers -> SUBSET Daemons]

----------------------------------------------------------------------------
(* The process table. *)

HasPid(f) == \E q \in Daemons : Alive(q) /\ PidOf[q] = PidOf[f]

(* A record is recognised when a termp process has its id, and its start    *)
(* time unless that was never recorded or cannot be read now.               *)
Recognised(f, readable) ==
    \E q \in Daemons :
        /\ Alive(q) /\ PidOf[q] = PidOf[f]
        /\ q = f \/ f \in UnknownStart \/ ~readable

(* The state file has no marker for a start time that was not read. *)
StateRecognised(readable) ==
    state # None /\ state \notin UnknownStart /\ Recognised(state, readable)

RecordRecognised(f, readable) == f \in Daemons /\ Recognised(f, readable)

Known(readable) == RecordRecognised(path, readable) \/ StateRecognised(readable)

(* As if the start time were not compared. *)
ValidatedByPid(f, q) == Alive(q) /\ PidOf[q] = PidOf[f]

(* A signal is bound to the process that was validated, with its start time. *)
Validated(f, q) == Alive(q) /\ PidOf[q] = PidOf[f] /\ (q = f \/ f \in UnknownStart)

Locked(f) ==
    \/ f \in Daemons /\ at[f] = "published"
    \/ \E a \in Actors : handle[a] = f /\ at[a] \in {"judge", "recheck", "remove"}

----------------------------------------------------------------------------
(* The actor leaves the file with a result; what follows depends on why it *)
(* examined it.                                                            *)
Relaunched(s) == path \in Daemons /\ PidOf[path] # PidOf[seen[s]] /\ HasPid(path)

Stopped(s, result, tolerant) ==
    \/ result \in {"removed", "missing", "vanished"}
    \/ result = "changed" /\ tolerant /\ Relaunched(s)

(* A stop command tolerates another owner if autostart may have relaunched. *)
After(a, result, tolerant) ==
    CASE goal[a] = "replace" /\ result \in {"removed", "missing"} -> "publish"
      [] goal[a] = "replace" /\ result \notin {"removed", "missing"} -> "refused"
      [] goal[a] = "withdraw" -> "exiting"
      [] goal[a] = "unreadable" /\ result # "busy" -> "choose"
      [] goal[a] = "stale" /\ result = "removed" -> "notrunning"
      [] goal[a] = "reap" /\ Stopped(a, result, tolerant) -> "stopped"
      [] OTHER -> "failed"

(* As if the file stayed open. *)
LeaveOpen(a, result) ==
    /\ \E tolerant \in BOOLEAN : at' = [at EXCEPT ![a] = After(a, result, tolerant)]
    /\ goal' = [goal EXCEPT ![a] = "none"]
    /\ UNCHANGED handle

Leave(a, result) ==
    /\ \E tolerant \in BOOLEAN : at' = [at EXCEPT ![a] = After(a, result, tolerant)]
    /\ goal' = [goal EXCEPT ![a] = "none"]
    /\ handle' = [handle EXCEPT ![a] = None]

Move(a, step) == at' = [at EXCEPT ![a] = step] /\ UNCHANGED <<goal, handle>>

Examine(a, why) ==
    /\ at' = [at EXCEPT ![a] = "open"]
    /\ goal' = [goal EXCEPT ![a] = why]
    /\ UNCHANGED handle

OpenFile(a) ==
    /\ at[a] = "open"
    /\ IF path = None
       THEN Leave(a, "missing")
       ELSE /\ at' = [at EXCEPT ![a] = "lock"]
            /\ handle' = [handle EXCEPT ![a] = path]
            /\ UNCHANGED goal
    /\ UNCHANGED <<claims, state, signalled, parent, command>>

(* As if the file were not locked. *)
LockNothing(a) ==
    /\ at[a] = "lock"
    /\ Move(a, "judge")
    /\ UNCHANGED <<claims, state, signalled, parent, command>>

(* The lock is not waited for. *)
LockFile(a) ==
    /\ at[a] = "lock"
    /\ IF Locked(handle[a]) THEN Leave(a, "busy") ELSE Move(a, "judge")
    /\ UNCHANGED <<claims, state, signalled, parent, command>>

(* What the record read under the lock must say for the file to go. *)
Doomed(a, readable) ==
    CASE goal[a] = "replace" -> ~RecordRecognised(handle[a], readable)
      [] goal[a] = "withdraw" -> handle[a] = a
      [] goal[a] = "unreadable" -> handle[a] = Junk
      [] OTHER -> handle[a] = seen[a]

Judge(a) ==
    /\ at[a] = "judge"
    /\ \E readable \in Lookups :
          IF Doomed(a, readable) THEN Move(a, "recheck") ELSE Leave(a, "changed")
    /\ UNCHANGED <<claims, state, signalled, parent, command>>

(* The path must still name the file that is locked. *)
Recheck(a) ==
    /\ at[a] = "recheck"
    /\ IF path = handle[a] THEN Move(a, "remove")
       ELSE Leave(a, IF path = None THEN "vanished" ELSE "changed")
    /\ UNCHANGED <<claims, state, signalled, parent, command>>

(* Removal is by name: it removes whatever the path names now. *)
Remove(a) ==
    /\ at[a] = "remove"
    /\ path' = None
    /\ Leave(a, IF path = None THEN "vanished" ELSE "removed")
    /\ UNCHANGED <<published, state, signalled, parent, command>>

RemoveFile(a) == OpenFile(a) \/ LockFile(a) \/ Judge(a) \/ Recheck(a) \/ Remove(a)

----------------------------------------------------------------------------
(* A daemon. *)

Init ==
    /\ path \in {None, Junk} /\ state = None
    /\ at = [a \in Actors |-> "absent"]
    /\ goal = [a \in Actors |-> "none"] /\ handle = [a \in Actors |-> None]
    /\ signalled = {} /\ published = {}
    /\ parent = [d \in Daemons |-> "none"]
    /\ publisher = [s \in Stoppers |-> None] /\ seen = [s \in Stoppers |-> None]
    /\ targets = [s \in Stoppers |-> {}] /\ unsent = [s \in Stoppers |-> {}]
    /\ atStart = [s \in Stoppers |-> {}]

(* The service manager launches a daemon, or some termp command runs. *)
Launch(d) ==
    /\ at[d] = "absent" /\ d \notin Detached /\ ~HasPid(d)
    /\ \E role \in {"check", "other"} : at' = [at EXCEPT ![d] = role]
    /\ UNCHANGED <<claims, state, goal, handle, signalled, parent, command>>

(* "termp start" looks for a known daemon, then spawns a detached child. *)
SpawnDetached(d) ==
    /\ at[d] = "absent" /\ d \in Detached /\ ~HasPid(d)
    /\ \E readable \in Lookups : ~Known(readable)
    /\ at' = [at EXCEPT ![d] = "check"]
    /\ parent' = [parent EXCEPT ![d] = "wait"]
    /\ UNCHANGED <<claims, state, goal, handle, signalled, command>>

StartDaemon(d) ==
    /\ at[d] = "check"
    /\ \E readable \in Lookups :
          at' = [at EXCEPT ![d] = IF Known(readable) THEN "refused" ELSE "publish"]
    /\ UNCHANGED <<claims, state, goal, handle, signalled, parent, command>>

(* The staged record is linked to the path, which fails if there is a file. *)
PublishRecord(d) ==
    /\ at[d] = "publish"
    /\ IF path = None
       THEN /\ path' = d /\ published' = published \cup {d}
            /\ Move(d, "published")
       ELSE Examine(d, "replace") /\ UNCHANGED claims
    /\ UNCHANGED <<state, signalled, parent, command>>

CloseRecord(d) ==
    /\ at[d] = "published"
    /\ Move(d, "running")
    /\ UNCHANGED <<claims, state, signalled, parent, command>>

(* run returns: it was signalled, or failed by itself. *)
Withdraw(d) ==
    /\ at[d] = "running"
    /\ Examine(d, "withdraw")
    /\ UNCHANGED <<claims, state, signalled, parent, command>>

(* The state publisher writes at the start and at every tick, and is not    *)
(* waited for when the daemon withdraws.                                    *)
PublishState(d) ==
    /\ \/ at[d] = "running"
       \/ at[d] \in Examining /\ goal[d] = "withdraw"
       \/ at[d] = "exiting"
    /\ state' = d
    /\ UNCHANGED <<claims, at, goal, handle, signalled, parent, command>>

(* A process exits, or dies without cleaning up; before a daemon installs its handler *)
(* a termination signal does no less.                                       *)
Crash(d) ==
    /\ Alive(d)
    /\ at' = [at EXCEPT ![d] = "gone"]
    /\ goal' = [goal EXCEPT ![d] = "none"]
    /\ handle' = [handle EXCEPT ![d] = None]
    /\ signalled' = signalled \ {d}
    /\ UNCHANGED <<claims, state, parent, command>>

DaemonStep(d) ==
    \/ Launch(d) \/ SpawnDetached(d) \/ StartDaemon(d) \/ PublishRecord(d)
    \/ CloseRecord(d) \/ Withdraw(d) \/ PublishState(d) \/ Crash(d)

----------------------------------------------------------------------------
(* The detached start: it polls the PID file, comparing process ids only.  *)

Parent(d, phase) ==
    /\ parent' = [parent EXCEPT ![d] = phase]
    /\ UNCHANGED <<claims, state, at, goal, handle, signalled, command>>

OwnerIs(d) == path \in Daemons /\ PidOf[path] = PidOf[d]

(* As if any readable record confirmed the child. *)
PollStartAnyOwner(d) ==
    /\ parent[d] = "wait"
    /\ \/ path # None /\ HasPid(d) /\ Parent(d, "ok")
       \/ ~HasPid(d) /\ Parent(d, "failed")

PollStart(d) ==
    /\ parent[d] = "wait"
    /\ \/ OwnerIs(d) /\ HasPid(d) /\ Parent(d, "confirm")
       \/ path \in Daemons /\ ~OwnerIs(d) /\ HasPid(path) /\ Parent(d, "failed")
       \/ ~HasPid(d) /\ Parent(d, "failed")

(* The budget is spent; what was owned at the last poll is not confirmed. *)
StartTimesOut(d) ==
    /\ parent[d] = "wait"
    /\ IF OwnerIs(d) /\ HasPid(d) THEN Parent(d, "ok") ELSE Parent(d, "failed")

ConfirmStart(d) ==
    /\ parent[d] = "confirm"
    /\ IF HasPid(d) /\ OwnerIs(d) THEN Parent(d, "ok") ELSE Parent(d, "failed")

StartCommand(d) == PollStart(d) \/ StartTimesOut(d) \/ ConfirmStart(d)

----------------------------------------------------------------------------
(* termp stop *)

(* The process named by the state file is a candidate of its own. *)
BeginStop(s) ==
    /\ at[s] = "absent"
    /\ \E readable \in Lookups :
          publisher' = [publisher EXCEPT ![s] = IF StateRecognised(readable) THEN state ELSE None]
    /\ atStart' = [atStart EXCEPT ![s] = {d \in Daemons : at[d] = "running"}]
    /\ Move(s, "read")
    /\ UNCHANGED <<claims, state, signalled, parent, seen, targets, unsent>>

ReadRecord(s) ==
    /\ at[s] = "read"
    /\ seen' = [seen EXCEPT ![s] = path]
    /\ IF path = Junk THEN Examine(s, "unreadable") ELSE Move(s, "choose")
    /\ UNCHANGED <<claims, state, signalled, parent, publisher, targets, unsent, atStart>>

(* As if the state file settled who runs. *)
CandidatesByState(s, readable) ==
    IF RecordRecognised(publisher[s], readable) THEN {publisher[s]}
    ELSE {f \in {seen[s]} : RecordRecognised(f, readable)}

(* The processes to stop: the publisher of the state, and the recorded one  *)
(* unless it has the publisher's id.                                        *)
Candidates(s, readable) ==
    {f \in {publisher[s], seen[s]} : RecordRecognised(f, readable)} \
    {f \in {seen[s]} \ {None, Junk, publisher[s]} :
        publisher[s] # None /\ PidOf[f] = PidOf[publisher[s]]}

ChooseTargets(s) ==
    /\ at[s] = "choose"
    /\ \E readable \in Lookups :
          LET chosen == Candidates(s, readable)
          IN /\ targets' = [targets EXCEPT ![s] = chosen]
             /\ unsent' = [unsent EXCEPT ![s] = chosen]
             /\ IF chosen # {} THEN Move(s, "signal")
                ELSE IF seen[s] \in Daemons THEN Examine(s, "stale")
                ELSE Move(s, "notrunning")
    /\ UNCHANGED <<claims, state, signalled, parent, publisher, seen, atStart>>

(* The publisher of the state is signalled before the recorded process. *)
NextUnsent(s, f) == f \in unsent[s] /\ (f = seen[s] => unsent[s] = {f})

Deliver(s, f, q) ==
    /\ signalled' = signalled \cup {q}
    /\ unsent' = [unsent EXCEPT ![s] = @ \ {f}]

(* The signal goes through a handle on the validated process.  A daemon    *)
(* without a shutdown event is terminated through it: a signal and a Crash. *)
SignalProcess(s) ==
    /\ at[s] = "signal" /\ unsent[s] # {}
    /\ \E f \in unsent[s], readable \in Lookups :
          /\ NextUnsent(s, f)
          /\ IF Recognised(f, readable) /\ \E q \in Daemons : Validated(f, q)
             THEN \E q \in Daemons : Validated(f, q) /\ Deliver(s, f, q) /\ Move(s, "signal")
             ELSE Move(s, "failed") /\ UNCHANGED <<signalled, unsent>>
    /\ UNCHANGED <<claims, state, parent, publisher, seen, targets, atStart>>

(* Without a handle the identity is validated last and the signal goes to   *)
(* whichever process then has the id.                                       *)
ValidateByPid(s) ==
    /\ at[s] = "signal" /\ unsent[s] # {}
    /\ \E f \in unsent[s], q \in Daemons : NextUnsent(s, f) /\ Validated(f, q)
    /\ Move(s, "kill")
    /\ UNCHANGED <<claims, state, signalled, parent, command>>

KillByPid(s) ==
    /\ at[s] = "kill"
    /\ \E f \in unsent[s] :
          /\ NextUnsent(s, f)
          /\ IF HasPid(f)
             THEN /\ \E q \in Daemons : Alive(q) /\ PidOf[q] = PidOf[f] /\ Deliver(s, f, q)
                  /\ Move(s, "signal")
             ELSE Move(s, "failed") /\ UNCHANGED <<signalled, unsent>>
    /\ UNCHANGED <<claims, state, parent, publisher, seen, targets, atStart>>

AllSignalled(s) ==
    /\ at[s] = "signal" /\ unsent[s] = {}
    /\ unsent' = [unsent EXCEPT ![s] = targets[s]]
    /\ Move(s, "wait")
    /\ UNCHANGED <<claims, state, signalled, parent, publisher, seen, targets, atStart>>

(* The targets are waited for one after the other, now the ones in unsent. *)
WaitForExit(s) ==
    /\ at[s] = "wait" /\ unsent[s] # {}
    /\ \E f \in unsent[s], readable \in Lookups :
          /\ NextUnsent(s, f) /\ ~Recognised(f, readable)
          /\ unsent' = [unsent EXCEPT ![s] = @ \ {f}]
    /\ UNCHANGED <<claims, state, at, goal, handle, signalled, parent, publisher, seen, targets, atStart>>

StopTimesOut(s) ==
    /\ at[s] = "wait" /\ unsent[s] # {}
    /\ Move(s, "failed")
    /\ UNCHANGED <<claims, state, signalled, parent, command>>

AllExited(s) ==
    /\ at[s] = "wait" /\ unsent[s] = {}
    /\ IF seen[s] \in Daemons THEN Examine(s, "reap") ELSE Move(s, "stopped")
    /\ UNCHANGED <<claims, state, signalled, parent, command>>

StopCommand(s) ==
    \/ BeginStop(s) \/ ReadRecord(s) \/ ChooseTargets(s) \/ SignalProcess(s)
    \/ ValidateByPid(s) \/ KillByPid(s) \/ AllSignalled(s)
    \/ WaitForExit(s) \/ StopTimesOut(s) \/ AllExited(s)

Next ==
    \/ \E d \in Daemons : DaemonStep(d) \/ StartCommand(d)
    \/ \E s \in Stoppers : StopCommand(s)
    \/ \E a \in Actors : RemoveFile(a)

Spec == Init /\ [][Next]_vars

----------------------------------------------------------------------------
(* A stop command that found the state file of an earlier process with the  *)
(* id of this one: it takes the two for one, judges them gone, and treats   *)
(* the record as stale.  The code does not exclude it.                      *)
Confused(d) ==
    \E s \in Stoppers : publisher[s] \notin {None, d} /\ PidOf[publisher[s]] = PidOf[d]

(* A running daemon's record is the one under the PID path, whoever starts, *)
(* stops, crashes or cleans up around it: so there is at most one running   *)
(* daemon, and nobody removes the record of one (main.go 2989-3046,         *)
(* 3105-3190).                                                              *)
RunningIsRecorded == \A d \in Daemons : Running(d) => path = d \/ Confused(d)

(* When "termp stop" reports a success, or that no daemon runs, the daemon  *)
(* that ran when it began no longer does (main.go 3239-3307).               *)
StopStops ==
    \A s \in Stoppers : at[s] \in {"stopped", "notrunning"} =>
        \A d \in atStart[s] : at[d] # "running" \/ Confused(d)

(* A start that is reported as a success was of a child that published its  *)
(* record, unless the id was already that of a record before it: the record *)
(* is compared by process id only (spawn.go 120-178).                       *)
StartIsReal ==
    \A d \in Daemons : parent[d] = "ok" => \E f \in published : PidOf[f] = PidOf[d]

(* "termp stop" signals only a process that has the id of a record it       *)
(* chose, and but for signals by number that very process, if its start     *)
(* time is known (signalTermpProcessAtPath).                                *)
SignalsAreAimed ==
    [][\A q \in signalled' \ signalled : \E s \in Stoppers : \E f \in targets[s] :
          /\ PidOf[f] = PidOf[q]
          /\ at[s] = "signal" => q = f \/ f \in UnknownStart]_vars

============================================================================
