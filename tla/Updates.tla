------------------------------ MODULE Updates ------------------------------
(***************************************************************************)
(* Update checks and automatic installs (internal/update, cmd/termp        *)
(* update.go): the cache file shared by the daemon, by "status" and        *)
(* "version" (which check passively) and by "termp update" (explicitly),   *)
(* the lock file around its transactions, the recorded automatic attempt,  *)
(* and the restart notice that "status" derives from it.                   *)
(*                                                                         *)
(* A release is [core, pre]: three numbers and a sequence of prerelease    *)
(* identifiers [numeric, rank].  Time advances while no check is under way *)
(* and no cache transaction: they take seconds, a cache entry lives a day. *)
(***************************************************************************)
EXTENDS Integers, Sequences

CONSTANTS
    Daemons,        \* daemon processes, one after the other
    Runs,           \* runs of commands that check
    Releases,       \* the releases in the order of their publication
    Installs,       \* the facts an installation may be recognised by
    Lifetime,       \* of a cache entry
    Horizon,        \* bound on time
    None, Dead      \* nothing; a process that died holding the lock

Procs == Daemons \cup Runs
ReleaseSet == {Releases[i] : i \in 1 .. Len(Releases)}

ASSUME LifetimeAssumption == Lifetime \in Nat \ {0} /\ Horizon \in Nat
ASSUME ReleasesAssumption == Len(Releases) \in Nat \ {0} /\ None \notin ReleaseSet
ASSUME ActorsAssumption == Daemons \cap Runs = {} /\ {None, Dead} \cap Procs = {} /\ None # Dead

VARIABLES
    now,
    source,     \* how many of the releases are published
    install,    \* the facts about this installation
    explicit,   \* the runs of "termp update"; the others check passively
    installed,  \* the release on disk
    running,    \* the daemon that holds the PID file, or None
    cache,      \* the cache file: when checked, latest release, attempt
    lock,       \* who created the lock file: a process, Dead, or None
    stale,      \* the lock file is older than cacheLockStaleAfter
    pc,         \* where each process is
    my,         \* its check: what its cache transaction does (job), the cache
                \* entry it read, the release it got, the attempt it made
    version,    \* the release a process runs
    attempted,  \* the releases the daemon tried to install
    asks,       \* history: passive lookups at each time
    forced,     \* history: a lock file was removed that was not stale
    late        \* history: an attempt was made by a daemon that had withdrawn

world == <<now, source, install, explicit>>
disk == <<installed, running>>
locking == <<lock, stale>>
process == <<version, attempted>>
history == <<asks, forced, late>>
vars == <<world, disk, cache, locking, pc, my, process, history>>

----------------------------------------------------------------------------
(* Versions *)

Sign(n) == IF n < 0 THEN -1 ELSE IF n > 0 THEN 1 ELSE 0

CompareIdentifier(left, right) ==
    IF left.numeric = right.numeric THEN Sign(left.rank - right.rank)
    ELSE IF left.numeric THEN -1 ELSE 1

(* The sign of the first difference of two sequences, or of their lengths. *)
CompareBy(Cmp(_, _), left, right) ==
    LET differ == {i \in 1 .. Len(left) : i <= Len(right) /\ Cmp(left[i], right[i]) # 0}
    IN IF differ = {} THEN Sign(Len(left) - Len(right))
       ELSE LET i == CHOOSE i \in differ : \A j \in differ : i <= j
            IN Cmp(left[i], right[i])

CompareVersion(left, right) ==
    LET core == CompareBy(LAMBDA a, b : Sign(a - b), left.core, right.core)
    IN IF core # 0 THEN core
       ELSE IF left.pre = <<>> \/ right.pre = <<>> THEN Sign(Len(right.pre) - Len(left.pre))
       ELSE CompareBy(CompareIdentifier, left.pre, right.pre)

IsNewer(current, latest) == latest # None /\ CompareVersion(latest, current) > 0
SameVersion(left, right) == CompareVersion(left, right) = 0

----------------------------------------------------------------------------
(* How termp was installed, and whether it may install by itself. *)

DetectInstall(facts) ==
    LET scoop == {"windows", "scoop"} \subseteq facts
    IN IF "unresolved" \in facts THEN IF scoop THEN "scoop" ELSE "generic"
       ELSE IF "brew" \in facts THEN "homebrew"
       ELSE IF scoop THEN "scoop"
       ELSE IF {"linux", "usr"} \subseteq facts THEN "system"
       ELSE IF "gobin" \in facts THEN "go"
       ELSE "generic"

Method == DetectInstall(install)

(* Windows locks the running executable, so an archive cannot be replaced. *)
WindowsArchive == Method = "generic" /\ "windows" \in install

(* An automatic install is skipped where it needs a password or the user. *)
Preflight ==
    /\ Method \notin {"scoop", "system"} /\ ~WindowsArchive
    /\ ~(Method = "generic" /\ "readonly" \in install)

(* What may be on disk after an installer succeeded: Homebrew upgrades to   *)
(* what its tap offers, the others to the release they were asked for.      *)
Installable(target) ==
    IF Method = "homebrew" THEN {installed} \cup {Releases[i] : i \in 1 .. source} ELSE {target}

----------------------------------------------------------------------------

NoEntry == [at |-> -Lifetime, latest |-> None, attempt |-> None]
NoCheck == [job |-> "none", entry |-> NoEntry, got |-> None, made |-> None]

Init ==
    /\ now = 0 /\ source = 1 /\ install \in Installs /\ explicit \in SUBSET Runs
    /\ installed = Releases[1]
    /\ running = None /\ cache = NoEntry /\ lock = None /\ stale = FALSE
    /\ pc = [p \in Procs |-> "absent"] /\ my = [p \in Procs |-> NoCheck]
    /\ version = [p \in Procs |-> None]
    /\ attempted = [d \in Daemons |-> {}] /\ asks = [t \in 0 .. Horizon |-> 0]
    /\ forced = FALSE /\ late = FALSE

(* A process goes on, its check as given; a check that ended is forgotten. *)
Go(p, step, check) ==
    /\ pc' = [pc EXCEPT ![p] = step]
    /\ my' = [my EXCEPT ![p] = IF step \in {"idle", "gone", "dead"} THEN NoCheck ELSE check]

Goto(p, step) == Go(p, step, my[p])

(* A process starts a transaction on the cache. *)
Begin(p, what) == Go(p, "lock", [my[p] EXCEPT !.job = what])

Fresh(e) == now < e.at + Lifetime

Newer(p) == IsNewer(version[p], my[p].got)

(* Where a check goes with its result. *)
Outcome(p, latest) ==
    IF p \in Daemons THEN "recall"
    ELSE IF p \in explicit /\ IsNewer(version[p], latest) THEN "install" ELSE "gone"

AfterTransaction(p) ==
    CASE my[p].job = "attempt" -> "ask"
      [] my[p].job \in {"found", "result"} -> Outcome(p, my[p].got)
      [] my[p].job = "clear" -> "decide"
      [] OTHER -> "idle"

----------------------------------------------------------------------------
(* cacheTransaction and acquireCacheLock *)

(* As if the lock file were opened whether it exists or not. *)
CreateLockAnyway(p) ==
    /\ pc[p] = "lock"
    /\ lock' = p /\ stale' = FALSE
    /\ Goto(p, "locked")
    /\ UNCHANGED <<world, disk, cache, process, history>>

CreateLock(p) ==
    /\ pc[p] = "lock" /\ lock = None
    /\ lock' = p /\ stale' = FALSE
    /\ Goto(p, "locked")
    /\ UNCHANGED <<world, disk, cache, process, history>>

(* The existing lock file is looked at, and then removed if it is stale. *)
SeeStaleLock(p) ==
    /\ pc[p] = "lock" /\ lock # None /\ stale
    /\ Goto(p, "steal")
    /\ UNCHANGED <<world, disk, cache, locking, process, history>>

StealLock(p) ==
    /\ pc[p] = "steal"
    /\ lock' = None /\ stale' = FALSE
    /\ forced' = (forced \/ (lock # None /\ ~stale))
    /\ Goto(p, "lock")
    /\ UNCHANGED <<world, disk, cache, process, asks, late>>

(* Nothing is looked up without a lock; other transactions are given up. *)
LockUnavailable(p) ==
    /\ pc[p] = "lock" /\ lock # None
    /\ Goto(p, IF my[p].job = "attempt" THEN Outcome(p, None) ELSE AfterTransaction(p))
    /\ UNCHANGED <<world, disk, cache, locking, process, history>>

(* As if a result replaced the whole entry. *)
UpdatedWhole(p, e) ==
    CASE my[p].job = "attempt" -> [e EXCEPT !.at = now, !.latest = None]
      [] my[p].job = "result" -> [NoEntry EXCEPT !.at = now, !.latest = my[p].got]
      [] my[p].job = "clear" -> [e EXCEPT !.attempt = None]
      [] OTHER -> [e EXCEPT !.attempt = my[p].made]

(* What the transaction makes of the entry it read. *)
Updated(p, e) ==
    CASE my[p].job = "attempt" -> [e EXCEPT !.at = now, !.latest = None]
      [] my[p].job = "result" -> [e EXCEPT !.at = now, !.latest = my[p].got]
      [] my[p].job = "clear" -> [e EXCEPT !.attempt = None]
      [] OTHER -> [e EXCEPT !.attempt = my[p].made]

(* As if the cache were not looked at again under the lock. *)
ReadEntryBlindly(p) ==
    /\ pc[p] = "locked"
    /\ Go(p, "write", [my[p] EXCEPT !.entry = cache])
    /\ UNCHANGED <<world, disk, cache, locking, process, history>>

(* Another process may have refreshed the cache since it was first read. *)
ReadEntry(p) ==
    /\ pc[p] = "locked"
    /\ IF my[p].job = "attempt" /\ Fresh(cache)
       THEN Go(p, "unlock", [my[p] EXCEPT !.job = "found", !.got = cache.latest])
       ELSE IF my[p].job = "clear" /\ cache.attempt = None THEN Goto(p, "unlock")
       ELSE Go(p, "write", [my[p] EXCEPT !.entry = cache])
    /\ UNCHANGED <<world, disk, cache, locking, process, history>>

(* A temporary file is renamed over the cache. *)
WriteEntry(p) ==
    /\ pc[p] = "write"
    /\ cache' = Updated(p, my[p].entry)
    /\ Go(p, "unlock", [my[p] EXCEPT !.entry = NoEntry])
    /\ UNCHANGED <<world, disk, locking, process, history>>

(* An attempt that cannot be written is not followed by a request.  Other   *)
(* failed writes are no different from a lock that was unavailable.         *)
WriteFails(p) ==
    /\ pc[p] = "write" /\ my[p].job = "attempt"
    /\ Go(p, "unlock", [my[p] EXCEPT !.entry = NoEntry, !.job = "found"])
    /\ UNCHANGED <<world, disk, cache, locking, process, history>>

(* The lock file is removed, whoever created it. *)
Unlock(p) ==
    /\ pc[p] = "unlock"
    /\ lock' = None /\ stale' = FALSE
    /\ forced' = (forced \/ lock \notin {None, p})
    /\ Goto(p, AfterTransaction(p))
    /\ UNCHANGED <<world, disk, cache, process, asks, late>>

Transaction(p) ==
    \/ CreateLock(p) \/ SeeStaleLock(p) \/ StealLock(p) \/ LockUnavailable(p)
    \/ ReadEntry(p) \/ WriteEntry(p) \/ WriteFails(p) \/ Unlock(p)

----------------------------------------------------------------------------
(* Checks *)

StartDaemon(d) ==
    /\ running = None /\ pc[d] = "absent"
    /\ running' = d
    /\ version' = [version EXCEPT ![d] = installed]
    /\ Goto(d, "idle")
    /\ UNCHANGED <<world, installed, cache, locking, attempted, history>>

(* The daemon's loop: at its start and at each tick.  The settings are read *)
(* anew; nothing happens while update_check is off.                         *)
Refresh(d) ==
    /\ pc[d] = "idle" /\ running = d
    /\ Goto(d, "read")
    /\ UNCHANGED <<world, disk, cache, locking, process, history>>

(* "status" and "version" check unless that is off; "termp update" asks     *)
(* whatever the cache says.                                                 *)
StartRun(c) ==
    /\ pc[c] = "absent"
    /\ version' = [version EXCEPT ![c] = installed]
    /\ Goto(c, IF c \in explicit THEN "ask" ELSE "read")
    /\ UNCHANGED <<world, disk, cache, locking, attempted, history>>

(* The first look at the cache, without the lock. *)
ReadFresh(p) ==
    /\ pc[p] = "read"
    /\ IF Fresh(cache)
       THEN Go(p, Outcome(p, cache.latest), [my[p] EXCEPT !.got = cache.latest])
       ELSE Begin(p, "attempt")
    /\ UNCHANGED <<world, disk, cache, locking, process, history>>

Ask(p) ==
    /\ pc[p] = "ask"
    /\ asks' = IF p \in explicit THEN asks ELSE [asks EXCEPT ![now] = @ + 1]
    /\ Goto(p, "answer")
    /\ UNCHANGED <<world, disk, cache, locking, process, forced, late>>

(* The answer is the newest release. *)
Answer(p) ==
    /\ pc[p] = "answer"
    /\ Go(p, "lock", [my[p] EXCEPT !.job = "result", !.got = Releases[source]])
    /\ UNCHANGED <<world, disk, cache, locking, process, history>>

NoAnswer(p) ==
    /\ pc[p] = "answer"
    /\ Goto(p, IF p \in Daemons THEN "recall" ELSE "gone")
    /\ UNCHANGED <<world, disk, cache, locking, process, history>>

Check(p) == ReadFresh(p) \/ Ask(p) \/ Answer(p) \/ NoAnswer(p)

----------------------------------------------------------------------------
(* The rest of a refresh: a stale attempt is retired, a release installed. *)

(* The release now offered: this check's if it is newer, or the cached one. *)
Recall(d) ==
    /\ pc[d] = "recall"
    /\ Go(d, "retire",
          [my[d] EXCEPT !.entry.latest = IF Newer(d) THEN my[d].got ELSE cache.latest])
    /\ UNCHANGED <<world, disk, cache, locking, process, history>>

StaleAttempt(d, attempt) ==
    \/ ~IsNewer(version[d], attempt.target)
    \/ /\ attempt.failed /\ my[d].entry.latest # None
       /\ ~SameVersion(attempt.target, my[d].entry.latest)

Retire(d) ==
    /\ pc[d] = "retire"
    /\ Go(d, IF cache.attempt # None /\ StaleAttempt(d, cache.attempt) THEN "lock" ELSE "decide",
          [my[d] EXCEPT !.job = "clear", !.entry = NoEntry])
    /\ UNCHANGED <<world, disk, cache, locking, process, history>>

(* One attempt per process and release, whatever becomes of it, and none    *)
(* while auto_update is off.                                                *)
Decide(d) ==
    /\ pc[d] = "decide"
    /\ \/ /\ Newer(d) /\ my[d].got \notin attempted[d]
          /\ attempted' = [attempted EXCEPT ![d] = @ \cup {my[d].got}]
          /\ Goto(d, IF Preflight THEN "install" ELSE "failed")
       \/ Goto(d, "idle") /\ UNCHANGED attempted
    /\ UNCHANGED <<world, disk, cache, locking, version, history>>

(* The installer ends; "termp update" only shows guidance where it must. *)
Install(p) ==
    /\ pc[p] = "install"
    /\ \/ /\ p \in Daemons \/ ~(Method = "scoop" \/ WindowsArchive)
          /\ installed' \in Installable(my[p].got)
          /\ Goto(p, IF p \in Daemons THEN "installed" ELSE "gone")
       \/ Goto(p, IF p \in Daemons THEN "failed" ELSE "gone") /\ UNCHANGED installed
    /\ UNCHANGED <<world, running, cache, locking, process, history>>

(* As if the attempt named no daemon generation. *)
AttemptOfAll(d) == [target |-> my[d].got, failed |-> pc[d] = "failed", before |-> Daemons]

(* before is the daemons that started earlier. *)
Attempt(d) ==
    [target |-> my[d].got, failed |-> pc[d] = "failed",
     before |-> {e \in Daemons : version[e] # None}]

(* The attempt is dated. *)
Stamp(d) ==
    /\ pc[d] \in {"installed", "failed"}
    /\ Go(d, "lock", [NoCheck EXCEPT !.job = "record", !.made = Attempt(d)])
    /\ late' = (late \/ running # d)
    /\ UNCHANGED <<world, disk, cache, locking, process, asks, forced>>

(* A stopped daemon gives up the PID file first; its refresh goes on until  *)
(* the process exits.                                                       *)
Withdraw(d) ==
    /\ running = d
    /\ running' = None
    /\ UNCHANGED <<world, installed, cache, locking, pc, my, process, history>>

(* A process dies and the lock file it holds remains.  Elsewhere a death is *)
(* no different from a process that withdraws or does nothing more.  One    *)
(* death is enough for a race to take its lock over (a bound).              *)
Die(p) ==
    /\ lock = p /\ \A q \in Procs : pc[q] # "dead"
    /\ lock' = Dead
    /\ running' = IF running = p THEN None ELSE running
    /\ Goto(p, "dead")
    /\ UNCHANGED <<world, installed, cache, stale, process, history>>

Daemon(d) ==
    \/ StartDaemon(d) \/ Refresh(d) \/ Recall(d) \/ Retire(d) \/ Decide(d)
    \/ Stamp(d) \/ Withdraw(d)

----------------------------------------------------------------------------
(* The world *)

Busy(p) == pc[p] \in {"read", "ask", "answer", "lock", "steal", "locked", "write", "unlock"}

Tick ==
    /\ now < Horizon /\ \A p \in Procs : ~Busy(p)
    /\ now' = now + 1
    /\ UNCHANGED <<source, install, explicit, disk, cache, locking, pc, my, process, history>>

LockAges ==
    /\ lock = Dead /\ ~stale
    /\ stale' = TRUE
    /\ UNCHANGED <<world, disk, cache, lock, pc, my, process, history>>

Publish ==
    /\ source < Len(Releases)
    /\ source' = source + 1
    /\ UNCHANGED <<now, install, explicit, disk, cache, locking, pc, my, process, history>>

Next ==
    \/ Tick \/ LockAges \/ Publish
    \/ \E d \in Daemons : Daemon(d)
    \/ \E c \in Runs : StartRun(c)
    \/ \E p \in Procs : Transaction(p) \/ Check(p) \/ Install(p) \/ Die(p)

Spec == Init /\ [][Next]_vars

----------------------------------------------------------------------------
(* The values each variable ranges over; an entry is never from the future.  *)
Places ==
    {"absent", "idle", "gone", "dead", "read", "ask", "answer", "lock", "steal", "locked",
     "write", "unlock", "recall", "retire", "decide", "install", "installed", "failed"}
Jobs == {"none", "attempt", "found", "result", "clear", "record"}
Attempts == [target : ReleaseSet, failed : BOOLEAN, before : SUBSET Daemons]
Entries ==
    [at : -Lifetime .. now, latest : ReleaseSet \cup {None}, attempt : Attempts \cup {None}]
Checks ==
    [job : Jobs, entry : Entries, got : ReleaseSet \cup {None}, made : Attempts \cup {None}]

TypeOK ==
    /\ now \in 0 .. Horizon /\ explicit \subseteq Runs
    /\ source \in 1 .. Len(Releases) /\ install \in Installs
    /\ installed \in ReleaseSet /\ running \in Daemons \cup {None}
    /\ cache \in Entries
    /\ lock \in Procs \cup {None, Dead} /\ stale \in BOOLEAN
    /\ pc \in [Procs -> Places] /\ my \in [Procs -> Checks]
    /\ version \in [Procs -> ReleaseSet \cup {None}]
    /\ attempted \in [Daemons -> SUBSET ReleaseSet]
    /\ asks \in [0 .. Horizon -> Nat] /\ forced \in BOOLEAN /\ late \in BOOLEAN

(* The passive checks ask the release source at most once per cache         *)
(* lifetime, all processes together: the attempt is recorded under the lock *)
(* before the request (update.go 380-419).  The exception is a lock taken   *)
(* over twice: a second process that saw the stale file removes the lock    *)
(* the first has just created (update.go 437-443).                          *)
LookupsAreRare ==
    \/ forced
    \/ /\ \A t \in 0 .. Horizon : asks[t] <= 1
       /\ \A t, u \in 0 .. Horizon :
             asks[t] = 1 /\ asks[u] = 1 /\ t < u => u - t >= Lifetime

(* Only a transaction that records or clears an attempt changes the one in  *)
(* the cache: release checks keep it whoever wrote in between, since every  *)
(* transaction keeps the fields it does not set (update.go 496-561,         *)
(* 589-596).  The exception is the same.                                    *)
AttemptIsKept ==
    [][cache'.attempt # cache.attempt =>
          forced \/ \E p \in Procs : pc[p] = "write" /\ my[p].job \in {"clear", "record"}]_vars

(* "status" tells the user to restart the running daemon.                   *)
RestartNotice ==
    LET attempt == cache.attempt
    IN /\ running # None /\ attempt # None
       /\ ~attempt.failed /\ ~IsNewer(installed, attempt.target)
       /\ running \in attempt.before

(* The notice is only shown when the running daemon is older than what was  *)
(* installed (main.go 2417-2468).  The exception is an install that ends    *)
(* after its daemon was stopped: the next daemon may have started from the  *)
(* new binary before the attempt is dated.                                  *)
NoticeIsTrue ==
    late \/ (RestartNotice => IsNewer(version[running], cache.attempt.target))
============================================================================
