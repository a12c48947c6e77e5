--------------------------- MODULE UpdatesProofs ---------------------------
(***************************************************************************)
(* Proofs about the update checks, for every set of daemons and commands,  *)
(* every sequence of releases, every lifetime of a cache entry and every   *)
(* horizon.                                                                *)
(*                                                                         *)
(* A request for the newest release is rare because it follows a write of  *)
(* the cache under the lock, and the lock makes the cache a process writes *)
(* the one it has read.  The restart notice is true because an attempt     *)
(* names the daemons that had started, none of which ever starts again.    *)
(***************************************************************************)
EXTENDS Updates, TLAPS

\* A process within a transaction holds the lock, and only a lock whose owner
\* died grows stale.
Holders == {"locked", "write", "unlock"}
HoldersOwnTheLock == \A p \in Procs : pc[p] \in Holders => lock = p \/ forced
StaleLocksAreDead == stale => lock = Dead

\* What a transaction is for, from its start until the cache is written.
WriteJobs == {"attempt", "result", "clear", "record"}
JobsFit ==
    \A p \in Procs : pc[p] \in {"lock", "steal", "locked", "write"} => my[p].job \in WriteJobs

\* A process writes what it has read, and an attempt over an old entry only.
EntriesAreCurrent ==
    forced \/ \A p \in Procs : pc[p] = "write" =>
        /\ my[p].entry = cache
        /\ my[p].job = "attempt" => ~Fresh(cache)

\* A passive check that has recorded its attempt and will ask.
Pending(p) ==
    p \notin explicit /\ (pc[p] = "ask" \/ (pc[p] = "unlock" /\ my[p].job = "attempt"))

\* It has the cache entry of this moment to itself, a lifetime after the last.
PendingIsNext ==
    forced \/ \A p \in Procs : Pending(p) =>
        /\ cache.at = now
        /\ \A q \in Procs : Pending(q) => q = p
        /\ \A t \in 0 .. Horizon : asks[t] > 0 => t + Lifetime <= now

\* A lookup leaves a cache entry that is no older.
LookupsAreCached == forced \/ \A t \in 0 .. Horizon : asks[t] > 0 => t <= cache.at

\* A process runs the release it was started with.
StartedRunAVersion ==
    /\ \A p \in Procs : pc[p] = "absent" => version[p] = None
    /\ running # None => version[running] # None

\* What is installed is newer than what the process runs.
InstallsAreNewer ==
    \A p \in Procs : pc[p] \in {"install", "installed", "failed"} => Newer(p)

\* An attempt names daemons that had started, and the one of them that still
\* runs, if one does, is older than its target.
Sound(attempt) ==
    attempt # None =>
        /\ \A e \in attempt.before : version[e] # None
        /\ late \/ (running \in attempt.before => IsNewer(version[running], attempt.target))

AttemptsAreSound ==
    /\ Sound(cache.attempt)
    /\ \A p \in Procs : Sound(my[p].made) /\ Sound(my[p].entry.attempt)

Inv ==
    /\ HoldersOwnTheLock /\ StaleLocksAreDead /\ JobsFit /\ EntriesAreCurrent
    /\ PendingIsNext /\ LookupsAreCached /\ LookupsAreRare
    /\ StartedRunAVersion /\ InstallsAreNewer /\ AttemptsAreSound

IInv == TypeOK /\ Inv

-----------------------------------------------------------------------------
(* Type correctness.  The types of entries depend on the time.               *)

Shape == pc \in [Procs -> Places] /\ my \in [Procs -> Checks]
DiskTypes == installed \in ReleaseSet /\ running \in Daemons \cup {None}
WorldTypes ==
    /\ now \in 0 .. Horizon /\ explicit \subseteq Runs
    /\ source \in 1 .. Len(Releases) /\ install \in Installs
LockTypes == lock \in Procs \cup {None, Dead} /\ stale \in BOOLEAN
ProcessTypes ==
    /\ version \in [Procs -> ReleaseSet \cup {None}]
    /\ attempted \in [Daemons -> SUBSET ReleaseSet]
HistoryTypes ==
    asks \in [0 .. Horizon -> Nat] /\ forced \in BOOLEAN /\ late \in BOOLEAN

LEMMA TypeParts ==
    TypeOK <=> WorldTypes /\ DiskTypes /\ cache \in Entries /\ LockTypes /\ Shape
               /\ ProcessTypes /\ HistoryTypes
BY DEF TypeOK, WorldTypes, DiskTypes, LockTypes, Shape, ProcessTypes, HistoryTypes

LEMMA TypePartsNext ==
    TypeOK' <=> WorldTypes' /\ DiskTypes' /\ (cache \in Entries)' /\ LockTypes' /\ Shape'
                /\ ProcessTypes' /\ HistoryTypes'
BY DEF TypeOK, WorldTypes, DiskTypes, LockTypes, Shape, ProcessTypes, HistoryTypes

LEMMA KindsOfProcs ==
    /\ \A d \in Daemons : d \in Procs /\ d \notin Runs
    /\ \A c \in Runs : c \in Procs
    /\ \A p \in Procs : p # None /\ p # Dead
    /\ None # Dead
BY ActorsAssumption DEF Procs

LEMMA NothingHasItsType ==
    ASSUME now \in Nat
    PROVE  NoEntry \in Entries /\ NoCheck \in Checks
<1>1. -Lifetime \in -Lifetime .. now
  BY LifetimeAssumption
<1>2. NoEntry \in Entries
  BY <1>1 DEF NoEntry, Entries
<1>3. QED
  BY <1>2 DEF NoCheck, Checks, Jobs

LEMMA EntryFields ==
    ASSUME NEW e \in Entries
    PROVE  /\ e.at \in -Lifetime .. now
           /\ e.latest \in ReleaseSet \cup {None}
           /\ e.attempt \in Attempts \cup {None}
BY DEF Entries

LEMMA CheckFields ==
    ASSUME NEW c \in Checks
    PROVE  /\ c.job \in Jobs /\ c.entry \in Entries
           /\ c.got \in ReleaseSet \cup {None} /\ c.made \in Attempts \cup {None}
BY DEF Checks

\* The fields of a check can be set one by one.
LEMMA SetField ==
    ASSUME NEW c \in Checks
    PROVE  /\ \A j \in Jobs : /\ [c EXCEPT !.job = j] \in Checks
                              /\ [c EXCEPT !.job = j].job = j
                              /\ [c EXCEPT !.job = j].got = c.got
                              /\ [c EXCEPT !.job = j].made = c.made
                              /\ [c EXCEPT !.job = j].entry = c.entry
           /\ \A e \in Entries : /\ [c EXCEPT !.entry = e] \in Checks
                                 /\ [c EXCEPT !.entry = e].job = c.job
                                 /\ [c EXCEPT !.entry = e].got = c.got
                                 /\ [c EXCEPT !.entry = e].made = c.made
                                 /\ [c EXCEPT !.entry = e].entry = e
           /\ \A r \in ReleaseSet \cup {None} :
                                 /\ [c EXCEPT !.got = r] \in Checks
                                 /\ [c EXCEPT !.got = r].job = c.job
                                 /\ [c EXCEPT !.got = r].got = r
                                 /\ [c EXCEPT !.got = r].made = c.made
                                 /\ [c EXCEPT !.got = r].entry = c.entry
BY DEF Checks

LEMMA SetLatest ==
    ASSUME NEW c \in Checks, NEW r \in ReleaseSet \cup {None}
    PROVE  /\ [c EXCEPT !.entry.latest = r] \in Checks
           /\ [c EXCEPT !.entry.latest = r].got = c.got
           /\ [c EXCEPT !.entry.latest = r].made = c.made
           /\ [c EXCEPT !.entry.latest = r].entry.attempt = c.entry.attempt
BY DEF Checks, Entries

\* What a transaction makes of an entry, job by job.
LEMMA UpdatedByJob ==
    ASSUME NEW p \in Procs, NEW e
    PROVE  /\ my[p].job = "attempt" =>
                Updated(p, e) = [e EXCEPT !.at = now, !.latest = None]
           /\ my[p].job = "result" =>
                Updated(p, e) = [e EXCEPT !.at = now, !.latest = my[p].got]
           /\ my[p].job = "clear" => Updated(p, e) = [e EXCEPT !.attempt = None]
           /\ my[p].job \notin {"attempt", "result", "clear"} =>
                Updated(p, e) = [e EXCEPT !.attempt = my[p].made]
BY Zenon DEF Updated

LEMMA UpdatedFields ==
    ASSUME NEW p \in Procs, NEW e \in Entries, my[p] \in Checks, now \in Nat
    PROVE  /\ Updated(p, e) \in Entries
           /\ Updated(p, e).at \in {now, e.at}
           /\ my[p].job = "attempt" => Updated(p, e).at = now
           /\ Updated(p, e).attempt \in {e.attempt, None, my[p].made}
           /\ my[p].job \in {"attempt", "result"} => Updated(p, e).attempt = e.attempt
<1>1. now \in -Lifetime .. now
  BY LifetimeAssumption
<1>2. my[p].got \in ReleaseSet \cup {None} /\ my[p].made \in Attempts \cup {None}
  BY CheckFields
<1>3. CASE my[p].job = "attempt"
  <2>1. Updated(p, e) = [e EXCEPT !.at = now, !.latest = None]
    BY <1>3, UpdatedByJob
  <2>2. QED
    BY <1>1, <1>2, <1>3, <2>1 DEF Entries
<1>4. CASE my[p].job = "result"
  <2>1. Updated(p, e) = [e EXCEPT !.at = now, !.latest = my[p].got]
    BY <1>4, UpdatedByJob
  <2>2. QED
    BY <1>1, <1>2, <1>4, <2>1 DEF Entries
<1>5. CASE my[p].job = "clear"
  <2>1. Updated(p, e) = [e EXCEPT !.attempt = None]
    BY <1>5, UpdatedByJob
  <2>2. QED
    BY <1>1, <1>2, <1>5, <2>1 DEF Entries
<1>6. CASE my[p].job \notin {"attempt", "result", "clear"}
  <2>1. Updated(p, e) = [e EXCEPT !.attempt = my[p].made]
    BY <1>6, UpdatedByJob
  <2>2. QED
    BY <1>1, <1>2, <1>6, <2>1 DEF Entries
<1>7. QED
  BY <1>3, <1>4, <1>5, <1>6

LEMMA OutcomeGoesOn ==
    ASSUME NEW p \in Procs, NEW r
    PROVE  /\ Outcome(p, r) \in {"recall", "install", "gone"}
           /\ Outcome(p, r) = "install" => IsNewer(version[p], r)
BY DEF Outcome

LEMMA AfterTransactionByJob ==
    ASSUME NEW p \in Procs
    PROVE  /\ my[p].job = "attempt" => AfterTransaction(p) = "ask"
           /\ my[p].job \in {"found", "result"} =>
                AfterTransaction(p) = Outcome(p, my[p].got)
           /\ my[p].job = "clear" => AfterTransaction(p) = "decide"
           /\ my[p].job \notin {"attempt", "found", "result", "clear"} =>
                AfterTransaction(p) = "idle"
BY Zenon DEF AfterTransaction

LEMMA AfterTransactionGoesOn ==
    ASSUME NEW p \in Procs
    PROVE  /\ AfterTransaction(p) \in {"ask", "recall", "install", "gone", "decide", "idle"}
           /\ AfterTransaction(p) = "ask" => my[p].job = "attempt"
           /\ AfterTransaction(p) = "install" => Newer(p)
<1>1. CASE my[p].job = "attempt"
  BY <1>1, AfterTransactionByJob
<1>2. CASE my[p].job \in {"found", "result"}
  BY <1>2, AfterTransactionByJob, OutcomeGoesOn DEF Newer
<1>3. CASE my[p].job = "clear"
  BY <1>3, AfterTransactionByJob
<1>4. CASE my[p].job \notin {"attempt", "found", "result", "clear"}
  BY <1>4, AfterTransactionByJob
<1>5. QED
  BY <1>1, <1>2, <1>3, <1>4

\* A process moves and no other does.
OthersStay(p) == \A q \in Procs : q # p => pc'[q] = pc[q] /\ my'[q] = my[q]

LEMMA GoEffect ==
    ASSUME Shape, NEW p \in Procs, NEW step, NEW check, Go(p, step, check)
    PROVE  /\ pc'[p] = step /\ OthersStay(p)
           /\ step \in {"idle", "gone", "dead"} => my'[p] = NoCheck
           /\ step \notin {"idle", "gone", "dead"} => my'[p] = check
BY DEF Shape, Go, OthersStay

LEMMA GoTypes ==
    ASSUME Shape, now \in Nat, now' = now,
           NEW p \in Procs, NEW step \in Places, NEW check \in Checks, Go(p, step, check)
    PROVE  Shape'
<1>1. NoCheck \in Checks
  BY NothingHasItsType
<1>2. Checks' = Checks
  BY DEF Checks, Entries
<1>3. QED
  BY <1>1, <1>2 DEF Shape, Go

-----------------------------------------------------------------------------
(* What the steps do.  Most of them are quiet: they neither enter a          *)
(* transaction nor touch the cache, the lock or what is remembered.          *)

Moves(p, step, check) == pc'[p] = step /\ my'[p] = check /\ OthersStay(p)

Quiet(p) ==
    /\ UNCHANGED <<now, explicit, running, cache, lock, stale, version, asks, forced, late>>
    /\ OthersStay(p)
    /\ pc'[p] \notin Holders \cup {"ask", "absent"}
    /\ pc'[p] \in {"install", "installed", "failed"} => IsNewer(version[p], my'[p].got)
    /\ pc'[p] \in {"lock", "steal"} => my'[p].job \in WriteJobs
    /\ my'[p].made \in {my[p].made, None}
    /\ my'[p].entry.attempt \in {my[p].entry.attempt, None}

LEMMA NoCheckFields ==
    NoCheck.made = None /\ NoCheck.entry.attempt = None /\ NoCheck.job = "none"
BY DEF NoCheck, NoEntry

\* Quiet is what is left to show once a step is known to keep the shared state.
LEMMA QuietGo ==
    ASSUME TypeOK, NEW p \in Procs, NEW step \in Places, NEW check \in Checks,
           Go(p, step, check),
           UNCHANGED <<now, explicit, running, cache, lock, stale, version, asks, forced, late>>,
           step \notin Holders \cup {"ask", "absent"},
           step \in {"install", "installed", "failed"} => IsNewer(version[p], check.got),
           step \in {"lock", "steal"} => check.job \in WriteJobs,
           check.made \in {my[p].made, None},
           check.entry.attempt \in {my[p].entry.attempt, None}
    PROVE  Quiet(p) /\ Shape'
<1>1. Shape /\ now \in Nat
  BY TypeParts DEF WorldTypes
<1>2. Shape'
  BY <1>1, GoTypes
<1>3. CASE step \in {"idle", "gone", "dead"}
  BY <1>1, <1>2, <1>3, GoEffect, NoCheckFields DEF Quiet
<1>4. CASE step \notin {"idle", "gone", "dead"}
  BY <1>1, <1>2, <1>4, GoEffect DEF Quiet
<1>5. QED
  BY <1>3, <1>4

QuietStep(p) ==
    \/ SeeStaleLock(p) \/ LockUnavailable(p)
    \/ ReadFresh(p) \/ Answer(p) \/ NoAnswer(p) \/ Install(p)
    \/ p \in Daemons /\ (Refresh(p) \/ Recall(p) \/ Retire(p) \/ Decide(p))

LEMMA QuietSteps ==
    ASSUME TypeOK, JobsFit, InstallsAreNewer, NEW p \in Procs, QuietStep(p)
    PROVE  Quiet(p) /\ Shape'
<1> USE DEF world, disk, locking, process, history
<1>1. my[p] \in Checks /\ cache \in Entries /\ now \in Nat
  BY TypeParts DEF Shape, WorldTypes
<1>2. my[p].got \in ReleaseSet \cup {None} /\ cache.latest \in ReleaseSet \cup {None}
  BY <1>1, CheckFields, EntryFields
<1>3. CASE SeeStaleLock(p)
  BY <1>1, <1>3, QuietGo DEF SeeStaleLock, Goto, Places, Holders, JobsFit
<1>4. CASE LockUnavailable(p)
  <2> DEFINE step == IF my[p].job = "attempt" THEN Outcome(p, None) ELSE AfterTransaction(p)
  <2>1. ~IsNewer(version[p], None)
    BY DEF IsNewer
  <2>2. /\ step \in {"recall", "install", "gone", "decide", "idle"}
        /\ step = "install" => Newer(p)
    BY <2>1, OutcomeGoesOn, AfterTransactionGoesOn
  <2>3. Go(p, step, my[p])
    BY <1>4 DEF LockUnavailable, Goto
  <2>4. UNCHANGED <<now, explicit, running, cache, lock, stale, version, asks, forced, late>>
    BY <1>4 DEF LockUnavailable
  <2> HIDE DEF step
  <2>5. QED
    BY <1>1, <2>2, <2>3, <2>4, QuietGo DEF Places, Holders, Newer
<1>5. CASE ReadFresh(p)
  <2>1. UNCHANGED <<now, explicit, running, cache, lock, stale, version, asks, forced, late>>
    BY <1>5 DEF ReadFresh
  <2>2. CASE Fresh(cache)
    <3> DEFINE check == [my[p] EXCEPT !.got = cache.latest]
    <3>1. /\ check \in Checks /\ check.got = cache.latest /\ check.made = my[p].made
          /\ check.entry = my[p].entry
      BY <1>1, <1>2, SetField
    <3>2. Go(p, Outcome(p, cache.latest), check)
      BY <1>5, <2>2 DEF ReadFresh
    <3> HIDE DEF check
    <3>3. QED
      BY <2>1, <3>1, <3>2, OutcomeGoesOn, QuietGo DEF Places, Holders
  <2>3. CASE ~Fresh(cache)
    <3> DEFINE check == [my[p] EXCEPT !.job = "attempt"]
    <3>1. /\ check \in Checks /\ check.job = "attempt" /\ check.made = my[p].made
          /\ check.entry = my[p].entry
      BY <1>1, SetField DEF Jobs
    <3>2. Go(p, "lock", check)
      BY <1>5, <2>3 DEF ReadFresh, Begin
    <3> HIDE DEF check
    <3>3. QED
      BY <2>1, <3>1, <3>2, QuietGo DEF Places, Holders, WriteJobs
  <2>4. QED
    BY <2>2, <2>3
<1>6. CASE Answer(p)
  <2> DEFINE check == [my[p] EXCEPT !.job = "result", !.got = Releases[source]]
  <2>1. Releases[source] \in ReleaseSet
    BY TypeParts DEF WorldTypes, ReleaseSet
  <2>2. /\ check \in Checks /\ check.job = "result" /\ check.made = my[p].made
        /\ check.entry = my[p].entry
    BY <1>1, <2>1 DEF Checks, Jobs
  <2>3. Go(p, "lock", check)
    BY <1>6 DEF Answer
  <2>4. UNCHANGED <<now, explicit, running, cache, lock, stale, version, asks, forced, late>>
    BY <1>6 DEF Answer
  <2> HIDE DEF check
  <2>5. QED
    BY <2>2, <2>3, <2>4, QuietGo DEF Places, Holders, WriteJobs
<1>7. CASE NoAnswer(p)
  BY <1>1, <1>7, QuietGo DEF NoAnswer, Goto, Places, Holders
<1>8. CASE Install(p)
  <2>1. Newer(p)
    BY <1>8 DEF Install, InstallsAreNewer
  <2>2. \E step \in {"installed", "failed", "gone"} : Go(p, step, my[p])
    BY <1>8 DEF Install, Goto
  <2>3. UNCHANGED <<now, explicit, running, cache, lock, stale, version, asks, forced, late>>
    BY <1>8 DEF Install
  <2>4. QED
    BY <1>1, <2>1, <2>2, <2>3, QuietGo DEF Places, Holders, Newer
<1>9. CASE p \in Daemons /\ Refresh(p)
  BY <1>1, <1>9, QuietGo DEF Refresh, Goto, Places, Holders
<1>10. CASE p \in Daemons /\ Recall(p)
  <2> DEFINE latest == IF Newer(p) THEN my[p].got ELSE cache.latest
             check == [my[p] EXCEPT !.entry.latest = latest]
  <2>1. latest \in ReleaseSet \cup {None}
    BY <1>2
  <2>2. Go(p, "retire", check)
    BY <1>10 DEF Recall
  <2>3. UNCHANGED <<now, explicit, running, cache, lock, stale, version, asks, forced, late>>
    BY <1>10 DEF Recall
  <2> HIDE DEF latest
  <2>4. /\ check \in Checks /\ check.made = my[p].made
        /\ check.entry.attempt = my[p].entry.attempt
    BY <1>1, <2>1, SetLatest
  <2> HIDE DEF check
  <2>5. QED
    BY <2>2, <2>3, <2>4, QuietGo DEF Places, Holders
<1>11. CASE p \in Daemons /\ Retire(p)
  <2> DEFINE check == [my[p] EXCEPT !.job = "clear", !.entry = NoEntry]
  <2>1. NoEntry \in Entries /\ NoEntry.attempt = None
    BY <1>1, NothingHasItsType DEF NoEntry
  <2>2. /\ check \in Checks /\ check.job = "clear" /\ check.made = my[p].made
        /\ check.entry = NoEntry
    BY <1>1, <2>1 DEF Checks, Jobs
  <2>3. \E step \in {"lock", "decide"} : Go(p, step, check)
    BY <1>11 DEF Retire
  <2>4. UNCHANGED <<now, explicit, running, cache, lock, stale, version, asks, forced, late>>
    BY <1>11 DEF Retire
  <2> HIDE DEF check
  <2>5. QED
    BY <2>1, <2>2, <2>3, <2>4, QuietGo DEF Places, Holders, WriteJobs
<1>12. CASE p \in Daemons /\ Decide(p)
  <2>1. \E step \in {"install", "failed", "idle"} :
            Go(p, step, my[p]) /\ (step # "idle" => Newer(p))
    BY <1>12 DEF Decide, Goto
  <2>2. UNCHANGED <<now, explicit, running, cache, lock, stale, version, asks, forced, late>>
    BY <1>12 DEF Decide
  <2>3. QED
    BY <1>1, <2>1, <2>2, QuietGo DEF Places, Holders, Newer
<1>13. QED
  BY <1>3, <1>4, <1>5, <1>6, <1>7, <1>8, <1>9, <1>10, <1>11, <1>12 DEF QuietStep

\* The other steps of a process, one by one.
LEMMA LoudMoves ==
    ASSUME TypeOK, NEW p \in Procs
    PROVE  /\ CreateLock(p) => Moves(p, "locked", my[p])
           /\ StealLock(p) => Moves(p, "lock", my[p])
           /\ WriteEntry(p) => Moves(p, "unlock", [my[p] EXCEPT !.entry = NoEntry])
           /\ WriteFails(p) =>
                Moves(p, "unlock", [my[p] EXCEPT !.entry = NoEntry, !.job = "found"])
           /\ Ask(p) => Moves(p, "answer", my[p])
           /\ Stamp(p) => Moves(p, "lock", [NoCheck EXCEPT !.job = "record", !.made = Attempt(p)])
           /\ StartDaemon(p) => Moves(p, "idle", NoCheck)
           /\ Die(p) => Moves(p, "dead", NoCheck)
<1>1. Shape
  BY TypeParts
<1>2. QED
  BY <1>1, GoEffect DEF Moves, CreateLock, StealLock, WriteEntry, WriteFails, Ask, Stamp,
                        StartDaemon, Die, Goto

LEMMA ReadEntryMoves ==
    ASSUME TypeOK, NEW p \in Procs, ReadEntry(p)
    PROVE  \/ /\ my[p].job = "attempt" /\ Fresh(cache)
              /\ Moves(p, "unlock", [my[p] EXCEPT !.job = "found", !.got = cache.latest])
           \/ my[p].job = "clear" /\ Moves(p, "unlock", my[p])
           \/ /\ my[p].job = "attempt" => ~Fresh(cache)
              /\ Moves(p, "write", [my[p] EXCEPT !.entry = cache])
BY TypeParts, GoEffect DEF Moves, ReadEntry, Goto

LEMMA UnlockMoves ==
    ASSUME TypeOK, NEW p \in Procs, Unlock(p)
    PROVE  Moves(p, AfterTransaction(p),
                 IF AfterTransaction(p) \in {"idle", "gone", "dead"} THEN NoCheck ELSE my[p])
<1> DEFINE step == AfterTransaction(p)
<1>1. Shape /\ Go(p, step, my[p])
  BY TypeParts DEF Unlock, Goto
<1> HIDE DEF step
<1>2. Moves(p, step, IF step \in {"idle", "gone", "dead"} THEN NoCheck ELSE my[p])
  BY <1>1, GoEffect DEF Moves
<1>3. QED
  BY <1>2 DEF step

LEMMA StartRunMoves ==
    ASSUME TypeOK, NEW p \in Procs, StartRun(p)
    PROVE  Moves(p, IF p \in explicit THEN "ask" ELSE "read", my[p])
BY TypeParts, GoEffect DEF Moves, StartRun, Goto

\* The steps of no process, or of a process that stays where it is.
StillStep ==
    \/ Tick \/ LockAges \/ Publish
    \/ \E d \in Daemons : Withdraw(d)

LEMMA StillStays ==
    ASSUME StillStep
    PROVE  pc' = pc /\ my' = my /\ cache' = cache /\ UNCHANGED <<explicit, version, history>>
<1> USE DEF world, disk, locking, process, history
<1>1. CASE Tick
  BY <1>1 DEF Tick
<1>2. CASE LockAges
  BY <1>2 DEF LockAges
<1>3. CASE Publish
  BY <1>3 DEF Publish
<1>4. CASE \E d \in Daemons : Withdraw(d)
  BY <1>4 DEF Withdraw
<1>5. QED
  BY <1>1, <1>2, <1>3, <1>4 DEF StillStep

LoudStep(p) ==
    \/ CreateLock(p) \/ StealLock(p) \/ ReadEntry(p) \/ WriteEntry(p) \/ WriteFails(p)
    \/ Unlock(p) \/ Ask(p) \/ Die(p)
    \/ p \in Daemons /\ (StartDaemon(p) \/ Stamp(p))
    \/ p \in Runs /\ StartRun(p)

LEMMA NextIsOneOf ==
    ASSUME Next
    PROVE  StillStep \/ \E p \in Procs : QuietStep(p) \/ LoudStep(p)
BY KindsOfProcs DEF Next, Daemon, Transaction, Check, StillStep, QuietStep, LoudStep

LEMMA StillTypes ==
    ASSUME TypeOK, StillStep
    PROVE  TypeOK'
<1> USE DEF world, disk, locking, process, history
<1>0. WorldTypes /\ DiskTypes /\ LockTypes
  BY TypeParts
<1>1. now' \in 0 .. Horizon /\ now' >= now
  BY <1>0, LifetimeAssumption DEF WorldTypes, StillStep, Tick, LockAges, Publish, Withdraw
<1>2. /\ source' \in 1 .. Len(Releases) /\ UNCHANGED <<explicit, install, installed>>
      /\ running' \in {running, None} /\ lock' = lock /\ stale' \in {stale, TRUE}
      /\ UNCHANGED <<version, attempted, asks, forced, late>>
  <2>1. CASE Tick
    BY <1>0, <2>1 DEF Tick, WorldTypes
  <2>2. CASE LockAges
    BY <1>0, <2>2 DEF LockAges, WorldTypes
  <2>3. CASE Publish
    BY <1>0, <2>3, ReleasesAssumption DEF Publish, WorldTypes
  <2>4. CASE \E d \in Daemons : Withdraw(d)
    BY <1>0, <2>4 DEF Withdraw, WorldTypes
  <2>5. QED
    BY <2>1, <2>2, <2>3, <2>4 DEF StillStep
<1>3. UNCHANGED <<cache, pc, my>>
  BY StillStays
<1>4. -Lifetime .. now \subseteq -Lifetime .. now'
  BY <1>1, LifetimeAssumption, TypeParts DEF WorldTypes
<1>5. Entries \subseteq Entries'
  BY <1>4 DEF Entries
<1>6. Checks \subseteq Checks'
  BY <1>5 DEF Checks
<1>7. (cache \in Entries)' /\ Shape'
  BY <1>3, <1>5, <1>6, TypeParts DEF Shape
<1>8. QED
  BY <1>1, <1>2, <1>7, TypeParts, TypePartsNext
     DEF WorldTypes, DiskTypes, LockTypes, ProcessTypes, HistoryTypes

LEMMA QuietTypes ==
    ASSUME TypeOK, JobsFit, InstallsAreNewer, NEW p \in Procs, QuietStep(p)
    PROVE  TypeOK'
<1> USE DEF world, disk, locking, process, history
<1>1. Quiet(p) /\ Shape'
  BY QuietSteps
<1>2. Entries' = Entries
  BY <1>1 DEF Quiet, Entries
<1>3. UNCHANGED <<install, source>>
  BY DEF QuietStep, SeeStaleLock, LockUnavailable, ReadFresh, Answer, NoAnswer, Install,
         Refresh, Recall, Retire, Decide
<1>4. installed' \in ReleaseSet
  <2>1. CASE Install(p) /\ p \in Procs
    <3>1. my[p].got \in ReleaseSet
      <4>1. Newer(p)
        BY <2>1 DEF Install, InstallsAreNewer
      <4>2. my[p].got # None
        BY <4>1 DEF Newer, IsNewer
      <4>3. QED
        BY <4>2, CheckFields, TypeParts DEF Shape
    <3>2. Installable(my[p].got) \subseteq ReleaseSet
      BY <3>1, TypeParts DEF Installable, ReleaseSet, WorldTypes, DiskTypes
    <3>3. QED
      BY <2>1, <3>2, TypeParts DEF Install, DiskTypes
  <2>2. CASE ~Install(p)
    BY <2>2, TypeParts DEF DiskTypes, QuietStep, SeeStaleLock, LockUnavailable, ReadFresh,
                  Answer, NoAnswer, Refresh, Recall, Retire, Decide
  <2>3. QED
    BY <2>1, <2>2
<1>5. attempted' \in [Daemons -> SUBSET ReleaseSet]
  <2>1. CASE p \in Daemons /\ Decide(p) /\ Newer(p)
    <3>1. my[p].got \in ReleaseSet
      BY <2>1, CheckFields, TypeParts DEF Shape, Newer, IsNewer
    <3>2. QED
      BY <2>1, <3>1, TypeParts DEF Decide, ProcessTypes
  <2>2. CASE ~(p \in Daemons /\ Decide(p) /\ Newer(p))
    BY <2>2, TypeParts DEF ProcessTypes, QuietStep, SeeStaleLock, LockUnavailable, ReadFresh,
                  Answer, NoAnswer, Install, Refresh, Recall, Retire, Decide
  <2>3. QED
    BY <2>1, <2>2
<1>6. QED
  BY <1>1, <1>2, <1>3, <1>4, <1>5, TypeParts, TypePartsNext
     DEF Quiet, WorldTypes, DiskTypes, LockTypes, ProcessTypes, HistoryTypes

LEMMA LoudTypes ==
    ASSUME TypeOK, InstallsAreNewer, NEW p \in Procs, LoudStep(p)
    PROVE  TypeOK'
<1> USE DEF world, disk, locking, process, history
<1>1. /\ my[p] \in Checks /\ cache \in Entries /\ now \in Nat /\ Shape
      /\ NoEntry \in Entries /\ NoCheck \in Checks
  BY TypeParts, NothingHasItsType DEF Shape, WorldTypes
<1>2. UNCHANGED <<now, source, install, explicit, installed, attempted>>
  BY DEF LoudStep, CreateLock, StealLock, ReadEntry, WriteEntry, WriteFails, Unlock, Ask, Die,
         StartDaemon, Stamp, StartRun
<1>3. \A step \in Places, check \in Checks : Go(p, step, check) => Shape'
  BY <1>1, <1>2, GoTypes
<1>4. Shape' /\ cache' \in Entries
  <2>1. CASE ReadEntry(p)
    <3>1. /\ [my[p] EXCEPT !.job = "found", !.got = cache.latest] \in Checks
          /\ [my[p] EXCEPT !.entry = cache] \in Checks
      BY <1>1, SetField, EntryFields DEF Checks, Jobs
    <3>2. QED
      BY <1>1, <1>3, <2>1, <3>1 DEF ReadEntry, Goto, Places
  <2>2. CASE WriteEntry(p)
    <3>1. [my[p] EXCEPT !.entry = NoEntry] \in Checks
      BY <1>1, SetField
    <3>2. my[p].entry \in Entries
      BY <1>1, CheckFields
    <3>3. Updated(p, my[p].entry) \in Entries
      BY <1>1, <3>2, UpdatedFields
    <3>4. QED
      BY <1>3, <2>2, <3>1, <3>3 DEF WriteEntry, Places
  <2>3. CASE WriteFails(p)
    <3>1. [my[p] EXCEPT !.entry = NoEntry, !.job = "found"] \in Checks
      BY <1>1 DEF Checks, Jobs
    <3>2. QED
      BY <1>1, <1>3, <2>3, <3>1 DEF WriteFails, Places
  <2>4. CASE Unlock(p)
    BY <1>1, <1>3, <2>4, AfterTransactionGoesOn DEF Unlock, Goto, Places
  <2>5. CASE p \in Daemons /\ Stamp(p)
    <3>1. Newer(p)
      BY <2>5 DEF Stamp, InstallsAreNewer
    <3>2. my[p].got \in ReleaseSet
      BY <1>1, <3>1, CheckFields DEF Newer, IsNewer
    <3>3. Attempt(p) \in Attempts
      BY <3>2 DEF Attempt, Attempts
    <3>4. [NoCheck EXCEPT !.job = "record", !.made = Attempt(p)] \in Checks
      BY <1>1, <3>3 DEF Checks, Jobs
    <3>5. QED
      BY <1>1, <1>3, <2>5, <3>4 DEF Stamp, Places
  <2>6. CASE \/ CreateLock(p) \/ StealLock(p) \/ Ask(p) \/ Die(p)
             \/ StartDaemon(p) \/ StartRun(p)
    BY <1>1, <1>3, <2>6
       DEF CreateLock, StealLock, Ask, Die, StartDaemon, StartRun, Goto, Places
  <2>7. QED
    BY <2>1, <2>2, <2>3, <2>4, <2>5, <2>6 DEF LoudStep
<1>5. Entries' = Entries
  BY <1>2 DEF Entries
<1>6. LockTypes'
  BY TypeParts DEF LockTypes, LoudStep, CreateLock, StealLock, ReadEntry, WriteEntry, WriteFails,
                   Unlock, Ask, Die, StartDaemon, Stamp, StartRun
<1>7. running' \in {running, None, p} /\ (running' = p => running = p \/ p \in Daemons)
  BY DEF LoudStep, CreateLock, StealLock, ReadEntry, WriteEntry, WriteFails, Unlock, Ask, Die,
         StartDaemon, Stamp, StartRun
<1>8. DiskTypes'
  BY <1>2, <1>7, TypeParts DEF DiskTypes
<1>9. version' \in [Procs -> ReleaseSet \cup {None}]
  BY TypeParts DEF ProcessTypes, DiskTypes, LoudStep, CreateLock, StealLock, ReadEntry,
         WriteEntry, WriteFails, Unlock, Ask, Die, StartDaemon, Stamp, StartRun
<1>10. forced' \in BOOLEAN /\ late' \in BOOLEAN
  BY TypeParts DEF HistoryTypes, LoudStep, CreateLock, StealLock, ReadEntry,
         WriteEntry, WriteFails, Unlock, Ask, Die, StartDaemon, Stamp, StartRun
<1>11. asks' \in [0 .. Horizon -> Nat]
  BY TypeParts DEF HistoryTypes, LoudStep, CreateLock, StealLock, ReadEntry,
         WriteEntry, WriteFails, Unlock, Ask, Die, StartDaemon, Stamp, StartRun
<1>12. QED
  BY <1>2, <1>4, <1>5, <1>6, <1>8, <1>9, <1>10, <1>11, TypeParts, TypePartsNext
     DEF WorldTypes, ProcessTypes, HistoryTypes

-----------------------------------------------------------------------------
(* The lock and what its holder knows.                                       *)

\* Until a lock that was not stale is removed, one process holds it.
LEMMA OneHolds ==
    ASSUME HoldersOwnTheLock, ~forced,
           NEW p \in Procs, NEW q \in Procs, pc[p] \in Holders, pc[q] \in Holders
    PROVE  p = q
BY DEF HoldersOwnTheLock

LEMMA ForcedStays ==
    ASSUME TypeOK, Next
    PROVE  forced => forced'
<1> USE DEF world, disk, locking, process, history
<1>1. CASE StillStep
  BY <1>1, StillStays
<1>2. ASSUME NEW p \in Procs, QuietStep(p) PROVE forced => forced'
  BY <1>2 DEF QuietStep, SeeStaleLock, LockUnavailable, ReadFresh, Answer, NoAnswer, Install,
              Refresh, Recall, Retire, Decide
<1>3. ASSUME NEW p \in Procs, LoudStep(p) PROVE forced => forced'
  BY <1>3 DEF LoudStep, CreateLock, StealLock, ReadEntry, WriteEntry, WriteFails, Unlock, Ask,
              Die, StartDaemon, Stamp, StartRun
<1>4. QED
  BY <1>1, <1>2, <1>3, NextIsOneOf

LEMMA HoldersStep ==
    ASSUME TypeOK, JobsFit, InstallsAreNewer, HoldersOwnTheLock, StaleLocksAreDead, Next
    PROVE  HoldersOwnTheLock' /\ StaleLocksAreDead'
<1> USE DEF world, disk, locking, process, history, HoldersOwnTheLock, StaleLocksAreDead
<1>1. CASE StillStep
  <2>1. UNCHANGED <<pc, lock, forced>> /\ (stale' => stale \/ lock = Dead)
    BY <1>1, StillStays DEF StillStep, Tick, LockAges, Publish, Withdraw
  <2>2. QED
    BY <2>1
<1>2. ASSUME NEW p \in Procs, QuietStep(p)
      PROVE  HoldersOwnTheLock' /\ StaleLocksAreDead'
  BY <1>2, QuietSteps DEF Quiet, OthersStay
<1>3. ASSUME NEW p \in Procs, LoudStep(p)
      PROVE  HoldersOwnTheLock' /\ StaleLocksAreDead'
  <2>1. CASE CreateLock(p)
    <3>1. Moves(p, "locked", my[p])
      BY <2>1, LoudMoves
    <3>2. QED
      BY <2>1, <3>1, KindsOfProcs DEF CreateLock, Moves, OthersStay
  <2>2. CASE StealLock(p)
    <3>1. Moves(p, "lock", my[p])
      BY <2>2, LoudMoves
    <3>2. QED
      BY <2>2, <3>1, KindsOfProcs DEF StealLock, Moves, OthersStay, Holders
  <2>3. CASE Unlock(p)
    <3>1. \E check : Moves(p, AfterTransaction(p), check)
      BY <2>3, UnlockMoves
    <3>2. AfterTransaction(p) \notin Holders
      BY AfterTransactionGoesOn DEF Holders
    <3>3. QED
      BY <2>3, <3>1, <3>2, KindsOfProcs DEF Unlock, Moves, OthersStay, Holders
  <2>4. CASE Die(p)
    <3>1. Moves(p, "dead", NoCheck)
      BY <2>4, LoudMoves
    <3>2. QED
      BY <2>4, <3>1, KindsOfProcs DEF Die, Moves, OthersStay, Holders
  <2>5. CASE \/ ReadEntry(p) \/ WriteEntry(p) \/ WriteFails(p) \/ Ask(p)
             \/ p \in Daemons /\ (StartDaemon(p) \/ Stamp(p))
             \/ p \in Runs /\ StartRun(p)
    <3>1. UNCHANGED <<lock, stale, forced>>
      BY <2>5 DEF ReadEntry, WriteEntry, WriteFails, Ask, StartDaemon, Stamp, StartRun
    <3>2. OthersStay(p) /\ (pc'[p] \in Holders => pc[p] \in Holders)
      <4>1. CASE ReadEntry(p)
        BY <4>1, ReadEntryMoves DEF Moves, ReadEntry, Holders
      <4>2. CASE WriteEntry(p) \/ WriteFails(p)
        BY <4>2, LoudMoves DEF Moves, WriteEntry, WriteFails, Holders
      <4>3. CASE Ask(p) \/ (p \in Daemons /\ (StartDaemon(p) \/ Stamp(p)))
        BY <4>3, LoudMoves DEF Moves, Holders
      <4>4. CASE p \in Runs /\ StartRun(p)
        BY <4>4, StartRunMoves DEF Moves, Holders
      <4>5. QED
        BY <2>5, <4>1, <4>2, <4>3, <4>4
    <3>3. QED
      BY <3>1, <3>2 DEF OthersStay
  <2>6. QED
    BY <1>3, <2>1, <2>2, <2>3, <2>4, <2>5 DEF LoudStep
<1>4. QED
  BY <1>1, <1>2, <1>3, NextIsOneOf

LEMMA JobsStep ==
    ASSUME TypeOK, JobsFit, InstallsAreNewer, Next
    PROVE  JobsFit'
<1>1. CASE StillStep
  BY <1>1, StillStays DEF JobsFit
<1>2. ASSUME NEW p \in Procs, QuietStep(p) PROVE JobsFit'
  BY <1>2, QuietSteps DEF Quiet, OthersStay, Holders, JobsFit
<1>3. ASSUME NEW p \in Procs, LoudStep(p) PROVE JobsFit'
  <2> SUFFICES OthersStay(p) /\ (pc'[p] \in {"lock", "steal", "locked", "write"}
                                   => my'[p].job \in WriteJobs)
    BY DEF OthersStay, JobsFit
  <2>1. CASE CreateLock(p) \/ StealLock(p)
    BY <2>1, LoudMoves DEF Moves, JobsFit, CreateLock, StealLock
  <2>2. CASE ReadEntry(p)
    <3>1. my[p] \in Checks /\ cache \in Entries /\ my[p].job \in WriteJobs
      BY <2>2, TypeParts DEF Shape, JobsFit, ReadEntry
    <3>2. [my[p] EXCEPT !.entry = cache].job = my[p].job
      BY <3>1, SetField
    <3>3. QED
      BY <2>2, <3>1, <3>2, ReadEntryMoves DEF Moves
  <2>3. CASE WriteEntry(p) \/ WriteFails(p) \/ Ask(p) \/ Die(p) \/ (p \in Daemons /\ StartDaemon(p))
    BY <2>3, LoudMoves DEF Moves
  <2>4. CASE Unlock(p)
    BY <2>4, UnlockMoves, AfterTransactionGoesOn DEF Moves
  <2>5. CASE p \in Daemons /\ Stamp(p)
    <3>1. [NoCheck EXCEPT !.job = "record", !.made = Attempt(p)].job = "record"
      BY DEF NoCheck
    <3>2. QED
      BY <2>5, <3>1, LoudMoves DEF Moves, WriteJobs
  <2>6. CASE p \in Runs /\ StartRun(p)
    BY <2>6, StartRunMoves DEF Moves
  <2>7. QED
    BY <1>3, <2>1, <2>2, <2>3, <2>4, <2>5, <2>6 DEF LoudStep
<1>4. QED
  BY <1>1, <1>2, <1>3, NextIsOneOf

\* The cache is what the only process that may write it has read.
LEMMA EntriesStep ==
    ASSUME TypeOK, JobsFit, InstallsAreNewer, HoldersOwnTheLock, EntriesAreCurrent, Next
    PROVE  EntriesAreCurrent'
<1> USE DEF world, disk, locking, process, history
<1> DEFINE Current(q) == my[q].entry = cache /\ (my[q].job = "attempt" => ~Fresh(cache))
<1> SUFFICES ASSUME ~forced, ~forced', NEW q \in Procs, pc'[q] = "write"
             PROVE  Current(q)'
  BY ForcedStays DEF EntriesAreCurrent
<1>1. pc[q] = "write" => Current(q)
  BY DEF EntriesAreCurrent
<1>2. now \in Nat /\ cache \in Entries /\ cache.at \in Int /\ Lifetime \in Nat
  BY TypeParts, EntryFields, LifetimeAssumption DEF WorldTypes
<1>3. CASE StillStep
  <2>1. cache' = cache /\ pc' = pc /\ my' = my
    BY <1>3, StillStays
  <2>2. now' \in Nat /\ now' >= now
    BY <1>2, <1>3 DEF StillStep, Tick, LockAges, Publish, Withdraw
  <2>3. QED
    BY <1>1, <1>2, <2>1, <2>2 DEF Fresh
<1>4. ASSUME NEW p \in Procs, QuietStep(p) PROVE Current(q)'
  <2>1. Quiet(p)
    BY <1>4, QuietSteps
  <2>2. q # p /\ pc[q] = "write" /\ my'[q] = my[q] /\ cache' = cache /\ now' = now
    BY <2>1 DEF Quiet, OthersStay, Holders
  <2>3. QED
    BY <1>1, <2>2 DEF Fresh
<1>5. ASSUME NEW p \in Procs, LoudStep(p) PROVE Current(q)'
  <2>1. now' = now
    BY <1>5 DEF LoudStep, CreateLock, StealLock, ReadEntry, WriteEntry, WriteFails, Unlock, Ask,
                Die, StartDaemon, Stamp, StartRun
  <2>2. CASE WriteEntry(p)
    <3>1. q # p /\ pc[q] = "write"
      BY <2>2, LoudMoves DEF Moves, OthersStay
    <3>2. pc[p] = "write"
      BY <2>2 DEF WriteEntry
    <3>3. QED
      BY <3>1, <3>2, OneHolds DEF Holders
  <2>3. CASE ~WriteEntry(p)
    <3>1. cache' = cache
      BY <1>5, <2>3 DEF LoudStep, CreateLock, StealLock, ReadEntry, WriteFails, Unlock, Ask,
                        Die, StartDaemon, Stamp, StartRun
    <3>2. CASE ReadEntry(p) /\ q = p
      <4>1. my[p] \in Checks
        BY TypeParts DEF Shape
      <4>2. /\ [my[p] EXCEPT !.entry = cache].job = my[p].job
            /\ [my[p] EXCEPT !.entry = cache].entry = cache
        BY <1>2, <4>1, SetField
      <4>3. /\ my[p].job = "attempt" => ~Fresh(cache)
            /\ my'[p] = [my[p] EXCEPT !.entry = cache]
        BY <3>2, ReadEntryMoves DEF Moves
      <4>4. QED
        BY <2>1, <3>1, <3>2, <4>2, <4>3 DEF Fresh
    <3>3. CASE q # p
      <4>1. OthersStay(p)
        BY <1>5, LoudMoves, ReadEntryMoves, UnlockMoves, StartRunMoves DEF LoudStep, Moves
      <4>2. QED
        BY <1>1, <2>1, <3>1, <3>3, <4>1 DEF OthersStay, Fresh
    <3>4. CASE ~ReadEntry(p) /\ q = p
      BY <1>5, <2>3, <3>4, LoudMoves, UnlockMoves, AfterTransactionGoesOn, StartRunMoves
         DEF LoudStep, Moves
    <3>5. QED
      BY <3>2, <3>3, <3>4
  <2>4. QED
    BY <2>2, <2>3
<1>6. QED
  BY <1>3, <1>4, <1>5, NextIsOneOf

-----------------------------------------------------------------------------
(* Lookups.                                                                  *)

LookupInv == PendingIsNext /\ LookupsAreCached /\ LookupsAreRare

\* A step that lets no further check through, moves no time and dates nothing.
Stands ==
    /\ UNCHANGED <<now, explicit, asks>> /\ cache'.at = cache.at
    /\ \A q \in Procs : Pending(q)' => Pending(q)

LEMMA StandingKeepsLookups ==
    ASSUME LookupInv, forced => forced', Stands
    PROVE  LookupInv'
BY DEF LookupInv, Stands, PendingIsNext, LookupsAreCached, LookupsAreRare

LEMMA MovesStand ==
    ASSUME NEW p \in Procs, OthersStay(p), UNCHANGED <<now, explicit, asks>>, cache'.at = cache.at,
           Pending(p)' => Pending(p)
    PROVE  Stands
BY DEF Stands, OthersStay, Pending

LEMMA StillKeepsLookups ==
    ASSUME TypeOK, LookupInv, StillStep
    PROVE  LookupInv'
<1> USE DEF world, disk, locking, process, history
<1>1. UNCHANGED <<pc, my, cache, explicit, asks, forced>>
  BY StillStays
<1>2. CASE Tick
  <2>1. \A q \in Procs : ~Pending(q) /\ ~Pending(q)'
    BY <1>1, <1>2 DEF Tick, Busy, Pending
  <2>2. QED
    BY <1>1, <2>1 DEF LookupInv, PendingIsNext, LookupsAreCached, LookupsAreRare
<1>3. CASE ~Tick
  <2>1. now' = now
    BY <1>3 DEF StillStep, LockAges, Publish, Withdraw
  <2>2. Stands
    BY <1>1, <2>1 DEF Stands, Pending
  <2>3. QED
    BY <1>1, <2>2, StandingKeepsLookups
<1>4. QED
  BY <1>2, <1>3

LEMMA QuietKeepsLookups ==
    ASSUME TypeOK, JobsFit, InstallsAreNewer, LookupInv, NEW p \in Procs, QuietStep(p)
    PROVE  LookupInv'
<1>1. Quiet(p)
  BY QuietSteps
<1>2. ~Pending(p)'
  BY <1>1 DEF Quiet, Pending, Holders
<1>3. Stands
  BY <1>1, <1>2, MovesStand DEF Quiet
<1>4. QED
  BY <1>1, <1>3, StandingKeepsLookups DEF Quiet

\* An attempt is dated when the entry was old, so that the lookups until then
\* are a lifetime away and no other check is about to ask.
LEMMA WritingKeepsLookups ==
    ASSUME TypeOK, HoldersOwnTheLock, JobsFit, EntriesAreCurrent, LookupInv,
           NEW p \in Procs, WriteEntry(p)
    PROVE  LookupInv'
<1> USE DEF world, disk, locking, process, history
<1>1. UNCHANGED <<now, explicit, asks, forced>> /\ cache' = Updated(p, my[p].entry)
  BY DEF WriteEntry
<1>2. pc[p] = "write" /\ pc'[p] = "unlock" /\ OthersStay(p)
  BY LoudMoves DEF WriteEntry, Moves
<1>3. /\ my[p] \in Checks /\ now \in Nat /\ cache \in Entries /\ asks \in [0 .. Horizon -> Nat]
      /\ my'[p].job = my[p].job
  <2>1. my[p] \in Checks /\ now \in Nat /\ cache \in Entries /\ asks \in [0 .. Horizon -> Nat]
    BY TypeParts DEF Shape, WorldTypes, HistoryTypes
  <2>2. my'[p] = [my[p] EXCEPT !.entry = NoEntry]
    BY LoudMoves DEF Moves
  <2>3. QED
    BY <2>1, <2>2, SetField, NothingHasItsType
<1>4. CASE forced
  BY <1>1, <1>4 DEF LookupInv, PendingIsNext, LookupsAreCached, LookupsAreRare
<1>5. CASE ~forced
  <2>1. my[p].entry = cache /\ (my[p].job = "attempt" => ~Fresh(cache))
    BY <1>2, <1>5 DEF EntriesAreCurrent
  <2>2. /\ cache'.at \in {now, cache.at} /\ cache.at \in -Lifetime .. now
        /\ my[p].job = "attempt" => cache'.at = now
    BY <1>1, <1>3, <2>1, UpdatedFields, EntryFields
  <2>3. Lifetime \in Nat \ {0} /\ Horizon \in Nat
    BY LifetimeAssumption
  <2>4. LookupsAreCached'
    BY <1>1, <1>3, <1>5, <2>2, <2>3 DEF LookupInv, LookupsAreCached
  <2>5. CASE my[p].job = "attempt"
    <3>1. cache.at + Lifetime <= now
      BY <1>3, <2>1, <2>2, <2>3, <2>5 DEF Fresh
    <3>2. \A q \in Procs : ~Pending(q)
      BY <1>3, <1>5, <2>2, <2>3, <3>1 DEF LookupInv, PendingIsNext
    <3>3. \A q \in Procs : Pending(q)' => q = p
      BY <1>1, <1>2, <3>2 DEF Pending, OthersStay
    <3>4. \A t \in 0 .. Horizon : asks[t] > 0 => t + Lifetime <= now
      BY <1>3, <1>5, <2>2, <2>3, <3>1 DEF LookupInv, LookupsAreCached
    <3>5. PendingIsNext'
      BY <1>1, <2>2, <2>5, <3>3, <3>4 DEF PendingIsNext
    <3>6. QED
      BY <1>1, <2>4, <3>5 DEF LookupInv, LookupsAreRare
  <2>6. CASE my[p].job # "attempt"
    <3>1. \A q \in Procs : Pending(q)' => Pending(q)
      BY <1>1, <1>2, <1>3, <2>6 DEF Pending, OthersStay
    <3>2. PendingIsNext'
      BY <1>1, <1>5, <2>2, <3>1 DEF LookupInv, PendingIsNext
    <3>3. QED
      BY <1>1, <2>4, <3>2 DEF LookupInv, LookupsAreRare
  <2>7. QED
    BY <2>5, <2>6
<1>6. QED
  BY <1>4, <1>5

\* A passive check asks at a moment that no other lookup is near.
LEMMA AskingKeepsLookups ==
    ASSUME TypeOK, LookupInv, NEW p \in Procs, Ask(p)
    PROVE  LookupInv'
<1> USE DEF world, disk, locking, process, history
<1>1. UNCHANGED <<now, explicit, cache, forced>>
  BY DEF Ask
<1>2. pc[p] = "ask" /\ pc'[p] = "answer" /\ OthersStay(p)
  BY LoudMoves DEF Ask, Moves
<1>3. ~Pending(p)'
  BY <1>2 DEF Pending
<1>4. CASE p \in explicit
  <2>1. asks' = asks
    BY <1>4 DEF Ask
  <2>2. Stands
    BY <1>1, <1>2, <1>3, <2>1, MovesStand
  <2>3. QED
    BY <1>1, <2>2, StandingKeepsLookups
<1>5. CASE forced
  BY <1>1, <1>5 DEF LookupInv, PendingIsNext, LookupsAreCached, LookupsAreRare
<1>6. CASE p \notin explicit /\ ~forced
  <2>1. /\ now \in 0 .. Horizon /\ asks \in [0 .. Horizon -> Nat]
        /\ Lifetime \in Nat \ {0} /\ Horizon \in Nat
    BY TypeParts, LifetimeAssumption DEF WorldTypes, HistoryTypes
  <2>2. asks' = [asks EXCEPT ![now] = @ + 1]
    BY <1>6 DEF Ask
  <2>3. /\ cache.at = now /\ \A q \in Procs : Pending(q) => q = p
        /\ \A t \in 0 .. Horizon : asks[t] > 0 => t + Lifetime <= now
    BY <1>2, <1>6 DEF LookupInv, PendingIsNext, Pending
  <2>4. \A q \in Procs : ~Pending(q)'
    BY <1>1, <1>2, <1>3, <2>3 DEF Pending, OthersStay
  <2>5. asks[now] = 0
    BY <2>1, <2>3
  <2>6. /\ asks'[now] = 1
        /\ \A t \in 0 .. Horizon : t # now => asks'[t] = asks[t]
    BY <2>1, <2>2, <2>5
  <2>7. PendingIsNext'
    BY <2>4 DEF PendingIsNext
  <2>8. LookupsAreCached'
    BY <1>1, <1>6, <2>1, <2>3, <2>6 DEF LookupInv, LookupsAreCached
  <2>9. \A t \in 0 .. Horizon : asks[t] <= 1
    BY <1>6 DEF LookupInv, LookupsAreRare
  <2>10. \A t \in 0 .. Horizon : asks'[t] <= 1
    BY <2>1, <2>6, <2>9
  <2>11. ASSUME NEW t \in 0 .. Horizon, NEW u \in 0 .. Horizon,
                asks'[t] = 1, asks'[u] = 1, t < u
         PROVE  u - t >= Lifetime
    <3>1. CASE u = now
      BY <2>1, <2>3, <2>6, <2>11, <3>1
    <3>2. CASE t = now
      BY <2>1, <2>3, <2>6, <2>11, <3>2
    <3>3. CASE t # now /\ u # now
      BY <1>6, <2>6, <2>11, <3>3 DEF LookupInv, LookupsAreRare
    <3>4. QED
      BY <3>1, <3>2, <3>3
  <2>12. QED
    BY <2>7, <2>8, <2>10, <2>11 DEF LookupInv, LookupsAreRare
<1>7. QED
  BY <1>4, <1>5, <1>6

\* The other steps neither date the cache nor let a check through that could
\* not go through already.
LEMMA LoudKeepsLookups ==
    ASSUME TypeOK, HoldersOwnTheLock, JobsFit, EntriesAreCurrent, LookupInv, Next,
           NEW p \in Procs, LoudStep(p)
    PROVE  LookupInv'
<1> USE DEF world, disk, locking, process, history
<1>1. CASE WriteEntry(p)
  BY <1>1, WritingKeepsLookups
<1>2. CASE Ask(p)
  BY <1>2, AskingKeepsLookups
<1>3. CASE ~WriteEntry(p) /\ ~Ask(p)
  <2>1. UNCHANGED <<now, explicit, asks, cache>>
    BY <1>3 DEF LoudStep, CreateLock, StealLock, ReadEntry, WriteFails, Unlock, Die,
                StartDaemon, Stamp, StartRun
  <2>2. my[p] \in Checks /\ cache \in Entries /\ now \in Nat
    BY TypeParts DEF Shape, WorldTypes
  <2>3. OthersStay(p) /\ (Pending(p)' => Pending(p))
    <3>1. CASE CreateLock(p) \/ StealLock(p) \/ Die(p) \/ (p \in Daemons /\ (StartDaemon(p) \/ Stamp(p)))
      BY <3>1, LoudMoves DEF Moves, Pending
    <3>2. CASE WriteFails(p)
      <4>1. [my[p] EXCEPT !.entry = NoEntry, !.job = "found"].job = "found"
        BY <2>2 DEF Checks
      <4>2. QED
        BY <3>2, <4>1, LoudMoves DEF Moves, Pending
    <3>3. CASE ReadEntry(p)
      <4>1. [my[p] EXCEPT !.job = "found", !.got = cache.latest].job = "found"
        BY <2>2 DEF Checks
      <4>2. QED
        BY <3>3, <4>1, ReadEntryMoves DEF Moves, Pending
    <3>4. CASE Unlock(p)
      <4>1. pc[p] = "unlock"
        BY <3>4 DEF Unlock
      <4>2. OthersStay(p) /\ pc'[p] = AfterTransaction(p)
        BY <3>4, UnlockMoves DEF Moves
      <4>3. QED
        BY <2>1, <4>1, <4>2, AfterTransactionGoesOn DEF Pending
    <3>5. CASE p \in Runs /\ StartRun(p)
      BY <2>1, <3>5, StartRunMoves DEF Moves, Pending
    <3>6. QED
      BY <1>3, <3>1, <3>2, <3>3, <3>4, <3>5 DEF LoudStep
  <2>4. Stands
    BY <2>1, <2>3, MovesStand
  <2>5. QED
    BY <2>4, ForcedStays, StandingKeepsLookups
<1>4. QED
  BY <1>1, <1>2, <1>3

-----------------------------------------------------------------------------
(* Attempts and the releases that processes run.                             *)

LEMMA LoudVersions ==
    ASSUME TypeOK, NEW p \in Procs, LoudStep(p)
    PROVE  /\ OthersStay(p) /\ pc'[p] # "absent"
           /\ pc'[p] \notin {"installed", "failed"}
           /\ pc'[p] = "install" => my'[p] = my[p] /\ Newer(p) /\ version' = version
           /\ \A q \in Procs : version[q] # version'[q] =>
                  q = p /\ pc[p] = "absent" /\ version'[p] \in ReleaseSet
           /\ running' \in {running, None, p}
           /\ running' = p /\ running # p => pc[p] = "absent" /\ version'[p] \in ReleaseSet
           /\ late => late'
<1> USE DEF world, disk, locking, process, history
<1>1. version \in [Procs -> ReleaseSet \cup {None}] /\ installed \in ReleaseSet
  BY TypeParts DEF ProcessTypes, DiskTypes
<1>2. p # None /\ p \in Procs
  BY KindsOfProcs
<1>3. CASE CreateLock(p) \/ StealLock(p) \/ WriteEntry(p) \/ WriteFails(p) \/ Ask(p)
  <2>1. UNCHANGED <<version, running, late>>
    BY <1>3 DEF CreateLock, StealLock, WriteEntry, WriteFails, Ask
  <2>2. QED
    BY <1>3, <2>1, LoudMoves DEF Moves
<1>4. CASE ReadEntry(p)
  <2>1. UNCHANGED <<version, running, late>>
    BY <1>4 DEF ReadEntry
  <2>2. QED
    BY <1>4, <2>1, ReadEntryMoves DEF Moves
<1>5. CASE Unlock(p)
  <2>1. UNCHANGED <<version, running, late>>
    BY <1>5 DEF Unlock
  <2>2. QED
    BY <1>5, <2>1, UnlockMoves, AfterTransactionGoesOn DEF Moves
<1>6. CASE Die(p)
  <2>1. UNCHANGED <<version, late>> /\ running' \in {running, None}
    BY <1>6 DEF Die
  <2>2. QED
    BY <1>2, <1>6, <2>1, LoudMoves DEF Moves
<1>7. CASE p \in Daemons /\ StartDaemon(p)
  <2>1. /\ pc[p] = "absent" /\ running' = p /\ UNCHANGED late
        /\ version' = [version EXCEPT ![p] = installed]
    BY <1>7 DEF StartDaemon
  <2>2. QED
    BY <1>1, <1>7, <2>1, LoudMoves DEF Moves
<1>8. CASE p \in Daemons /\ Stamp(p)
  <2>1. UNCHANGED <<version, running>> /\ (late => late')
    BY <1>8 DEF Stamp
  <2>2. QED
    BY <1>8, <2>1, LoudMoves DEF Moves
<1>9. CASE p \in Runs /\ StartRun(p)
  <2>1. /\ pc[p] = "absent" /\ UNCHANGED <<running, late>>
        /\ version' = [version EXCEPT ![p] = installed]
    BY <1>9 DEF StartRun
  <2>2. QED
    BY <1>1, <1>9, <2>1, StartRunMoves DEF Moves
<1>10. QED
  BY <1>3, <1>4, <1>5, <1>6, <1>7, <1>8, <1>9 DEF LoudStep

LEMMA StillVersions ==
    ASSUME StillStep
    PROVE  UNCHANGED <<pc, my, cache, version, late>> /\ running' \in {running, None}
<1> USE DEF world, disk, locking, process, history
<1>1. UNCHANGED <<pc, my, cache, version, late>>
  BY StillStays
<1>2. running' \in {running, None}
  BY DEF StillStep, Tick, LockAges, Publish, Withdraw
<1>3. QED
  BY <1>1, <1>2

LEMMA StartsStep ==
    ASSUME TypeOK, JobsFit, InstallsAreNewer, StartedRunAVersion, Next
    PROVE  StartedRunAVersion'
<1>1. CASE StillStep
  BY <1>1, StillVersions DEF StartedRunAVersion
<1>2. ASSUME NEW p \in Procs, QuietStep(p) PROVE StartedRunAVersion'
  BY <1>2, QuietSteps DEF Quiet, OthersStay, StartedRunAVersion
<1>3. ASSUME NEW p \in Procs, LoudStep(p) PROVE StartedRunAVersion'
  <2>1. None \notin ReleaseSet
    BY ReleasesAssumption
  <2>2. running # None => running \in Procs
    BY TypeParts, KindsOfProcs DEF DiskTypes
  <2>3. \A q \in Procs : pc'[q] = "absent" => version'[q] = None
    BY <1>3, LoudVersions DEF OthersStay, StartedRunAVersion
  <2>4. \A q \in Procs : version[q] # None => version'[q] # None
    BY <1>3, <2>1, LoudVersions
  <2>5. running' # None => version'[running'] # None
    BY <1>3, <2>1, <2>2, <2>4, LoudVersions DEF StartedRunAVersion
  <2>6. QED
    BY <2>3, <2>5 DEF StartedRunAVersion
<1>4. QED
  BY <1>1, <1>2, <1>3, NextIsOneOf

LEMMA InstallsStep ==
    ASSUME TypeOK, JobsFit, InstallsAreNewer, StartedRunAVersion, Next
    PROVE  InstallsAreNewer'
<1> DEFINE Installing(q) == pc[q] \in {"install", "installed", "failed"}
<1>1. CASE StillStep
  BY <1>1, StillVersions DEF InstallsAreNewer, Newer
<1>2. ASSUME NEW p \in Procs, QuietStep(p), NEW q \in Procs, Installing(q)'
      PROVE  Newer(q)'
  <2>1. Quiet(p)
    BY <1>2, QuietSteps
  <2>2. CASE q = p
    BY <1>2, <2>1, <2>2 DEF Quiet, Newer
  <2>3. CASE q # p
    BY <1>2, <2>1, <2>3 DEF Quiet, OthersStay, InstallsAreNewer, Newer
  <2>4. QED
    BY <2>2, <2>3
<1>3. ASSUME NEW p \in Procs, LoudStep(p), NEW q \in Procs, Installing(q)'
      PROVE  Newer(q)'
  <2>1. CASE q = p
    BY <1>3, <2>1, LoudVersions DEF Newer
  <2>2. CASE q # p
    <3>1. pc'[q] = pc[q] /\ my'[q] = my[q] /\ version'[q] = version[q]
      BY <1>3, <2>2, LoudVersions DEF OthersStay
    <3>2. QED
      BY <1>3, <3>1 DEF InstallsAreNewer, Newer
  <2>3. QED
    BY <2>1, <2>2
<1>4. QED
  BY <1>1, <1>2, <1>3, NextIsOneOf DEF InstallsAreNewer

\* What it takes for an attempt to be sound after a step.
SoundNext(attempt) ==
    attempt # None =>
        /\ \A e \in attempt.before : version'[e] # None
        /\ late' \/ (running' \in attempt.before => IsNewer(version'[running'], attempt.target))

LEMMA SoundStays ==
    ASSUME TypeOK, JobsFit, InstallsAreNewer, StartedRunAVersion, Next,
           NEW attempt \in Attempts \cup {None}, Sound(attempt)
    PROVE  SoundNext(attempt)
<1> SUFFICES ASSUME attempt # None
             PROVE  /\ \A e \in attempt.before : version'[e] # None
                    /\ late' \/ (running' \in attempt.before
                                   => IsNewer(version'[running'], attempt.target))
  BY DEF SoundNext
<1>1. attempt.before \subseteq Daemons /\ \A e \in attempt.before : version[e] # None
  BY DEF Attempts, Sound
<1>2. None \notin attempt.before /\ attempt.before \subseteq Procs
  BY <1>1, KindsOfProcs
<1>3. late \/ (running \in attempt.before => IsNewer(version[running], attempt.target))
  BY DEF Sound
<1>4. CASE StillStep
  BY <1>1, <1>2, <1>3, <1>4, StillVersions
<1>5. ASSUME NEW p \in Procs, QuietStep(p)
      PROVE  /\ \A e \in attempt.before : version'[e] # None
             /\ late' \/ (running' \in attempt.before
                            => IsNewer(version'[running'], attempt.target))
  BY <1>1, <1>3, <1>5, QuietSteps DEF Quiet
<1>6. ASSUME NEW p \in Procs, LoudStep(p)
      PROVE  /\ \A e \in attempt.before : version'[e] # None
             /\ late' \/ (running' \in attempt.before
                            => IsNewer(version'[running'], attempt.target))
  <2>1. \A e \in attempt.before : version'[e] = version[e]
    BY <1>1, <1>2, <1>6, LoudVersions DEF StartedRunAVersion
  <2>2. late => late'
    BY <1>6, LoudVersions
  <2>3. running' \in attempt.before => running' = running
    BY <1>1, <1>2, <1>6, LoudVersions DEF StartedRunAVersion
  <2>4. QED
    BY <1>1, <1>3, <2>1, <2>2, <2>3
<1>7. QED
  BY <1>4, <1>5, <1>6, NextIsOneOf

\* Attempts are handed on as they are, from the check that made one to the
\* cache and from there to whoever reads it.
LEMMA AttemptsStep ==
    ASSUME TypeOK, JobsFit, InstallsAreNewer, StartedRunAVersion, AttemptsAreSound, Next
    PROVE  AttemptsAreSound'
<1> USE DEF world, disk, locking, process, history
<1> DEFINE SoundAttempts(q) == SoundNext(my'[q].made) /\ SoundNext(my'[q].entry.attempt)
<1>1. SoundNext(cache.attempt)
  BY SoundStays, EntryFields, TypeParts DEF AttemptsAreSound
<1>2. ASSUME NEW q \in Procs
      PROVE  SoundNext(my[q].made) /\ SoundNext(my[q].entry.attempt)
  <2>1. my[q] \in Checks
    BY TypeParts DEF Shape
  <2>2. my[q].made \in Attempts \cup {None} /\ my[q].entry.attempt \in Attempts \cup {None}
    BY <2>1, CheckFields, EntryFields
  <2>3. QED
    BY <2>2, SoundStays DEF AttemptsAreSound
<1>3. SoundNext(None)
  BY DEF SoundNext
<1>4. ASSUME SoundNext(cache'.attempt), \A q \in Procs : SoundAttempts(q)
      PROVE  AttemptsAreSound'
  BY <1>4 DEF AttemptsAreSound, Sound, SoundNext
<1>5. ASSUME NEW p \in Procs, OthersStay(p), SoundNext(cache'.attempt), SoundAttempts(p)
      PROVE  AttemptsAreSound'
  <2>1. \A q \in Procs : SoundAttempts(q)
    BY <1>2, <1>5 DEF OthersStay
  <2>2. QED
    BY <1>4, <1>5, <2>1
<1>6. CASE StillStep
  <2>1. UNCHANGED <<my, cache>>
    BY <1>6, StillVersions
  <2>2. QED
    BY <1>1, <1>2, <1>4, <2>1
<1>7. ASSUME NEW p \in Procs, QuietStep(p) PROVE AttemptsAreSound'
  <2>1. Quiet(p)
    BY <1>7, QuietSteps
  <2>2. cache' = cache /\ OthersStay(p) /\ SoundAttempts(p)
    BY <1>2, <1>3, <2>1 DEF Quiet
  <2>3. QED
    BY <1>1, <1>5, <2>2
<1>8. ASSUME NEW p \in Procs, LoudStep(p) PROVE AttemptsAreSound'
  <2>1. /\ my[p] \in Checks /\ cache \in Entries /\ now \in Nat /\ my[p].entry \in Entries
        /\ NoEntry \in Entries /\ NoEntry.attempt = None
    BY TypeParts, NothingHasItsType, CheckFields DEF Shape, WorldTypes, NoEntry
  <2>2. OthersStay(p)
    BY <1>8, LoudVersions
  <2>3. CASE WriteEntry(p)
    <3>1. cache' = Updated(p, my[p].entry)
      BY <2>3 DEF WriteEntry
    <3>2. cache'.attempt \in {my[p].entry.attempt, None, my[p].made}
      BY <2>1, <3>1, UpdatedFields
    <3>3. SoundNext(cache'.attempt)
      BY <1>2, <1>3, <3>2
    <3>4. my'[p].made = my[p].made /\ my'[p].entry = NoEntry
      <4>1. my'[p] = [my[p] EXCEPT !.entry = NoEntry]
        BY <2>3, LoudMoves DEF Moves
      <4>2. QED
        BY <2>1, <4>1, SetField
    <3>5. QED
      BY <1>2, <1>3, <1>5, <2>1, <2>2, <3>3, <3>4
  <2>4. CASE ~WriteEntry(p)
    <3>1. cache' = cache
      BY <1>8, <2>4 DEF LoudStep, CreateLock, StealLock, ReadEntry, WriteFails, Unlock, Ask,
                        Die, StartDaemon, Stamp, StartRun
    <3> SUFFICES SoundAttempts(p)
      BY <1>1, <1>5, <2>2, <3>1
    <3>2. CASE my'[p] \in {my[p], NoCheck}
      BY <1>2, <1>3, <3>2, NoCheckFields
    <3>3. CASE WriteFails(p)
      <4>1. my'[p] = [my[p] EXCEPT !.entry = NoEntry, !.job = "found"]
        BY <3>3, LoudMoves DEF Moves
      <4>2. my'[p].made = my[p].made /\ my'[p].entry = NoEntry
        BY <2>1, <4>1 DEF Checks
      <4>3. QED
        BY <1>2, <1>3, <2>1, <4>2
    <3>4. CASE ReadEntry(p)
      <4>1. /\ [my[p] EXCEPT !.entry = cache].made = my[p].made
            /\ [my[p] EXCEPT !.entry = cache].entry = cache
        BY <2>1, SetField
      <4>2. /\ [my[p] EXCEPT !.job = "found", !.got = cache.latest].made = my[p].made
            /\ [my[p] EXCEPT !.job = "found", !.got = cache.latest].entry = my[p].entry
        BY <2>1 DEF Checks
      <4>3. QED
        BY <1>1, <1>2, <3>4, <4>1, <4>2, ReadEntryMoves DEF Moves
    <3>5. CASE p \in Daemons /\ Stamp(p)
      <4>1. my'[p] = [NoCheck EXCEPT !.job = "record", !.made = Attempt(p)]
        BY <3>5, LoudMoves DEF Moves
      <4>2. my'[p].made = Attempt(p) /\ my'[p].entry.attempt = None
        BY <4>1, NoCheckFields DEF NoCheck
      <4>3. Newer(p) /\ UNCHANGED <<running, version>> /\ (late \/ running # p => late')
        BY <3>5 DEF Stamp, InstallsAreNewer
      <4>4. /\ Attempt(p).target = my[p].got
            /\ Attempt(p).before = {e \in Daemons : version[e] # None}
        BY DEF Attempt
      <4>5. SoundNext(Attempt(p))
        BY <4>3, <4>4 DEF SoundNext, Newer
      <4>6. QED
        BY <1>3, <4>2, <4>5
    <3>6. QED
      BY <1>8, <2>4, <3>2, <3>3, <3>4, <3>5, LoudMoves, UnlockMoves, StartRunMoves
         DEF LoudStep, Moves
  <2>5. QED
    BY <2>3, <2>4
<1>9. QED
  BY <1>6, <1>7, <1>8, NextIsOneOf

-----------------------------------------------------------------------------
LEMMA InitIInv == Init => IInv
<1> SUFFICES ASSUME Init
             PROVE  IInv
  OBVIOUS
<1>1. Releases[1] \in ReleaseSet /\ 1 \in 1 .. Len(Releases)
  BY ReleasesAssumption DEF ReleaseSet
<1>2. now = 0 /\ 0 \in 0 .. Horizon /\ now \in Nat
  BY LifetimeAssumption DEF Init
<1>3. NoEntry \in Entries /\ NoCheck \in Checks
  BY <1>2, NothingHasItsType
<1>4. TypeOK
  BY <1>1, <1>2, <1>3 DEF Init, TypeOK, Places
<1>5. \A p \in Procs : pc[p] = "absent" /\ my[p] = NoCheck /\ version[p] = None
  BY DEF Init
<1>6. asks = [t \in 0 .. Horizon |-> 0] /\ cache = NoEntry /\ running = None /\ stale = FALSE
  BY DEF Init
<1>7. HoldersOwnTheLock /\ StaleLocksAreDead /\ JobsFit /\ EntriesAreCurrent
  BY <1>5, <1>6 DEF HoldersOwnTheLock, StaleLocksAreDead, JobsFit, EntriesAreCurrent, Holders
<1>8. PendingIsNext
  BY <1>5 DEF PendingIsNext, Pending
<1>9. LookupsAreCached /\ LookupsAreRare
  BY <1>6 DEF LookupsAreCached, LookupsAreRare
<1>10. StartedRunAVersion /\ InstallsAreNewer
  BY <1>5, <1>6 DEF StartedRunAVersion, InstallsAreNewer
<1>11. AttemptsAreSound
  BY <1>5, <1>6, NoCheckFields DEF AttemptsAreSound, Sound, NoEntry
<1>12. QED
  BY <1>4, <1>7, <1>8, <1>9, <1>10, <1>11 DEF IInv, Inv

LEMMA UnchangedStep == IInv /\ UNCHANGED vars => IInv'
<1> SUFFICES ASSUME IInv, UNCHANGED vars
             PROVE  IInv'
  OBVIOUS
<1> USE DEF vars, world, disk, locking, process, history
<1>1. TypeOK'
  BY DEF IInv, TypeOK, Entries, Checks
<1>2. /\ HoldersOwnTheLock' /\ StaleLocksAreDead' /\ JobsFit' /\ EntriesAreCurrent'
      /\ PendingIsNext' /\ LookupsAreCached' /\ LookupsAreRare'
  BY DEF IInv, Inv, HoldersOwnTheLock, StaleLocksAreDead, JobsFit, EntriesAreCurrent, Fresh,
         PendingIsNext, Pending, LookupsAreCached, LookupsAreRare
<1>3. StartedRunAVersion' /\ InstallsAreNewer' /\ AttemptsAreSound'
  BY DEF IInv, Inv, StartedRunAVersion, InstallsAreNewer, Newer, AttemptsAreSound, Sound
<1>4. QED
  BY <1>1, <1>2, <1>3 DEF IInv, Inv

LEMMA NextIInv == IInv /\ [Next]_vars => IInv'
<1>1. ASSUME IInv, Next
      PROVE  IInv'
  <2> USE <1>1 DEF IInv, Inv
  <2>1. TypeOK'
    BY NextIsOneOf, StillTypes, QuietTypes, LoudTypes
  <2>2. HoldersOwnTheLock' /\ StaleLocksAreDead' /\ JobsFit' /\ EntriesAreCurrent'
    BY HoldersStep, JobsStep, EntriesStep
  <2>3. PendingIsNext' /\ LookupsAreCached' /\ LookupsAreRare'
    <3>1. LookupInv
      BY DEF LookupInv
    <3>2. LookupInv'
      BY <3>1, NextIsOneOf, StillKeepsLookups, QuietKeepsLookups, LoudKeepsLookups
    <3>3. QED
      BY <3>2 DEF LookupInv
  <2>4. StartedRunAVersion' /\ InstallsAreNewer' /\ AttemptsAreSound'
    BY StartsStep, InstallsStep, AttemptsStep
  <2>5. QED
    BY <2>1, <2>2, <2>3, <2>4
<1>2. QED
  BY <1>1, UnchangedStep

LEMMA IInvHolds == Spec => []IInv
BY InitIInv, NextIInv, PTL DEF Spec

-----------------------------------------------------------------------------
\* Every variable of the cache, its lock and the processes keeps its type.
THEOREM TypeCorrect == Spec => []TypeOK
<1>1. IInv => TypeOK
  BY DEF IInv
<1>2. QED
  BY IInvHolds, <1>1, PTL

\* All processes together look up releases passively at most once per lifetime
\* of a cache entry, unless a lock that was not stale was removed.
THEOREM LookupsStayRare == Spec => []LookupsAreRare
<1>1. IInv => LookupsAreRare
  BY DEF IInv, Inv
<1>2. QED
  BY IInvHolds, <1>1, PTL

\* A user told to restart the daemon has one that is older than what was
\* installed, unless a daemon that had withdrawn dated the attempt.
THEOREM NoticesAreTrue == Spec => []NoticeIsTrue
<1>1. IInv => NoticeIsTrue
  BY DEF IInv, Inv, AttemptsAreSound, Sound, NoticeIsTrue, RestartNotice
<1>2. QED
  BY IInvHolds, <1>1, PTL

\* Release checks keep the recorded attempt whoever wrote in between.
THEOREM AttemptsAreKept == Spec => AttemptIsKept
<1>1. ASSUME IInv, [Next]_vars
      PROVE  [cache'.attempt # cache.attempt =>
          forced \/ \E p \in Procs : pc[p] = "write" /\ my[p].job \in {"clear", "record"}]_vars
  <2> USE DEF world, disk, locking, process, history
  <2> SUFFICES ASSUME cache'.attempt # cache.attempt, ~forced
               PROVE  \E p \in Procs : pc[p] = "write" /\ my[p].job \in {"clear", "record"}
    OBVIOUS
  <2>1. cache' # cache
    OBVIOUS
  <2>2. PICK p \in Procs : WriteEntry(p)
    <3>1. Next
      BY <1>1, <2>1 DEF vars
    <3>2. ~StillStep
      BY <2>1, StillStays
    <3>3. ASSUME NEW p \in Procs PROVE ~QuietStep(p)
      BY <1>1, <2>1, <3>3, QuietSteps DEF IInv, Inv, Quiet
    <3>4. ASSUME NEW p \in Procs, LoudStep(p) PROVE WriteEntry(p)
      BY <2>1, <3>4 DEF LoudStep, CreateLock, StealLock, ReadEntry, WriteFails, Unlock, Ask,
                        Die, StartDaemon, Stamp, StartRun
    <3>5. QED
      BY <3>1, <3>2, <3>3, <3>4, NextIsOneOf
  <2>3. /\ pc[p] = "write" /\ cache' = Updated(p, my[p].entry)
        /\ my[p].entry = cache /\ my[p].job \in WriteJobs
    BY <1>1, <2>2 DEF WriteEntry, IInv, Inv, EntriesAreCurrent, JobsFit
  <2>4. my[p] \in Checks /\ cache \in Entries /\ now \in Nat
    BY <1>1, TypeParts DEF IInv, Shape, WorldTypes
  <2>5. my[p].job \notin {"attempt", "result"}
    BY <2>3, <2>4, UpdatedFields
  <2>6. QED
    BY <2>3, <2>5 DEF WriteJobs
<1>2. QED
  BY IInvHolds, <1>1, PTL DEF Spec, AttemptIsKept
=============================================================================
