------------------------------ MODULE Sessions ------------------------------
(***************************************************************************)
(* Which session is shown, and since when (internal/detector: Selector,    *)
(* EpisodeStore, the process enricher and the owner check).                *)
(*                                                                         *)
(* A process instance has a process id, the tool its command line matches, *)
(* and a creation time that may be unreadable; ids are reused, also in the *)
(* middle of a scan.  A scan is one action: it is the only user of its     *)
(* state.  In one scan interval, the unit of time, a process uses no CPU   *)
(* time or more than the activity threshold; its total is above it.        *)
(***************************************************************************)
EXTENDS Integers, FiniteSetsExt

CONSTANTS
    Instances,      \* the process instances: 1 .. their number
    Pid,            \* the process id of each instance; ids are numbers
    Tool,           \* the tool each instance matches; tool ids are numbers
    Foreign,        \* instances of other users
    Unknown,        \* instances whose creation time cannot be read
    Priority,       \* of each tool
    Configs,        \* settings: windows, pin, switching, disabled
    Looks,          \* what a scan may find of a process: its terminal, its work
    IdleTimeout, IdleClear, SavePeriod, MaxEntries,
    Horizon,        \* bound on time
    MaxFaults,      \* bound on failed saves and looks and on ids recycled in a scan
    None, Unreadable

Confirmations == 2
Threshold == 1
Unit == 2        \* of CPU time, more than the threshold
Pids == {Pid[i] : i \in Instances}
Tools == {Tool[i] : i \in Instances}

\* What names an episode, and what is kept of one.
Keys == {[tool |-> Tool[i], pid |-> Pid[i], id |-> j] : i \in Instances, j \in Instances \cup {None}}
Episodes == [since : Nat, last : Nat]

ASSUME InstancesAssumption ==
    /\ Instances \subseteq Nat \ {0} /\ IsFiniteSet(Instances) /\ None \notin Instances
    /\ Foreign \cup Unknown \subseteq Instances
    /\ Pid \in [Instances -> Nat \ {0}] /\ Tool \in [Instances -> Nat]
    /\ Priority \in [Tools -> Nat] /\ None \notin Pids
ASSUME UnreadableAssumption == \A keys \in SUBSET Keys : Unreadable \notin [keys -> Episodes]
ASSUME BoundsAssumption == {IdleTimeout, IdleClear, SavePeriod, MaxEntries, Horizon} \subseteq Nat \ {0}
                           /\ MaxFaults \in Nat
ASSUME ConfigsAssumption == \A c \in Configs : c.pin \in Tools \cup {None} /\ c.disabled \subseteq Tools

VARIABLES
    now, config,
    alive,      \* the instance that has each process id, or None
    born,       \* when each instance began, 0 before
    faults,     \* how many saves and looks failed and ids were recycled in a scan
    run,        \* when the daemon running now began, or None
    cpu,        \* per process whose CPU time is known: when it changed, if it did
    selected,   \* per tool: the key of its selected instance, or None
    challenge,  \* per tool: the key of a better instance, and for how many scans
    idle,       \* per tool: since when it is idle, or None
    previous,   \* the tool featured last, or None
    episodes,   \* per key: since when it is present, its last terminal activity
    loaded,     \* no scan has been made yet of the episodes loaded
    persisted,  \* the episodes as last saved or loaded
    saving,     \* the file could be loaded, so it may be written
    disk,       \* the episode file: episodes, or Unreadable
    shown,      \* the featured session, or None
    owed,       \* history: the start of every known instance present in the last scan
    lost,       \* history: the last change of the episodes is not on the disk
    winner      \* history: per tool: the sessions of the last scan, and which was clearly better

processes == <<alive, born, faults>>
selector == <<cpu, selected, challenge, idle, previous>>
store == <<episodes, loaded, persisted, saving>>
history == <<owed, lost, winner>>
vars == <<now, config, processes, run, selector, store, disk, shown, history>>

Empty == [k \in {} |-> None]
Only(f, S) == [k \in DOMAIN f \cap S |-> f[k]]
PerTool(value) == [t \in Tools |-> value]
NoChallenge == [key |-> None, count |-> 0]
NoWinner == [among |-> {}, better |-> None]

Earliest(q) == CHOOSE i \in Instances : Pid[i] = q /\ \A j \in Instances : Pid[j] = q => i <= j

Init ==
    /\ now = 1 /\ config \in Configs
    /\ alive = [q \in Pids |-> Earliest(q)]
    /\ born = [i \in Instances |-> IF \E q \in Pids : i = Earliest(q) THEN now ELSE 0]
    /\ faults = 0
    /\ run = None
    /\ cpu = Empty /\ selected = PerTool(None) /\ challenge = PerTool(NoChallenge)
    /\ idle = PerTool(None) /\ previous = None
    /\ episodes = Empty /\ loaded = TRUE /\ persisted = Empty /\ saving = FALSE
    /\ disk \in {Empty, Unreadable}
    /\ shown = None /\ owed = Empty /\ lost = FALSE /\ winner = PerTool(NoWinner)

----------------------------------------------------------------------------
(* A scan's three looks at a process id: the process list names it, it is   *)
(* opened again for its details, and again for its owner.  During a scan    *)
(* at most one id is recycled, after the first or the second look.          *)

NoTurn == [pid |-> None]

Occupant(q, turn, look) ==
    IF q = turn.pid /\ look > turn.after THEN turn.next ELSE alive[q]

Named(q) == alive[q]
Enriched(q, turn) == Occupant(q, turn, 2)

(* The details are taken unless a known creation time has changed. *)
Accepted(q, turn) ==
    /\ Enriched(q, turn) # None
    /\ Named(q) \notin Unknown => Enriched(q, turn) \in {Named(q)} \cup Unknown

(* The first creation time that could be read, here as the instance it names. *)
Identity(q, turn) ==
    IF Named(q) \notin Unknown THEN Named(q)
    ELSE IF Enriched(q, turn) \notin Unknown THEN Enriched(q, turn) ELSE None

(* As if the owner were looked up by process id alone (issue 569). *)
OwnedByPid(q, turn) == Occupant(q, turn, 3) \notin Foreign \cup {None}

(* This user's, and of the creation time known so far. *)
Owned(q, turn) ==
    /\ Occupant(q, turn, 3) \notin Foreign \cup {None}
    /\ Identity(q, turn) \in {None, Occupant(q, turn, 3)}

EpisodeKey(q, turn) == [tool |-> Tool[Named(q)], pid |-> q, id |-> Identity(q, turn)]
IdentityKnown(k) == k.id # None

(* observeProcessCPU: a first look, and one after a gap, is a base line only. *)
ObserveCPU(k, work) ==
    IF k \notin DOMAIN cpu THEN [at |-> now, changed |-> FALSE]
    ELSE IF work = "some" THEN [at |-> now, changed |-> TRUE] ELSE cpu[k]

(* What a scan finds of a process of this user. *)
See(q, turn, look) ==
    LET k == EpisodeKey(q, turn)
        work == IF Accepted(q, turn) THEN look.work ELSE "unknown"
        seen == IF work = "unknown" THEN [at |-> 0, changed |-> FALSE] ELSE ObserveCPU(k, work)
        atime == CASE look.tty = "typed" -> now
                   [] look.tty \in {"quiet", "front"} ->
                        IF k \in DOMAIN episodes /\ episodes[k].last # 0 THEN episodes[k].last
                        ELSE born[Named(q)]
                   [] OTHER -> 0
    IN [key |-> k, tool |-> k.tool, named |-> Named(q), tty |-> look.tty, work |-> work,
        cwd |-> IF Accepted(q, turn) THEN Enriched(q, turn) ELSE None,
        cpu |-> seen, atime |-> atime,
        created |-> IF ~IdentityKnown(k) THEN 0 ELSE IF born[k.id] = 0 THEN now ELSE born[k.id],
        total |-> IF work = "unknown" THEN 0 ELSE Unit,
        activity |-> IF work = "some" /\ k \in DOMAIN cpu THEN Unit ELSE 0,
        latest |-> IF seen.changed /\ seen.at > atime THEN seen.at ELSE atime]

(* presenceEligible, with the corroboration by CPU time of Windows. *)
CPURecent(v) == v.work # "unknown" => now - v.cpu.at < IdleClear

PresenceEligible(v) ==
    CASE v.tty \in {"none", "detached"} -> FALSE
      [] v.tty = "unresolved" -> TRUE
      [] v.tty = "blind" -> CPURecent(v)
      [] config.windows /\ v.tty \in {"typed", "front"} -> CPURecent(v)
      [] OTHER -> now - v.atime < IdleClear /\ (config.windows => CPURecent(v))

(* On Windows a session in another window stays in the collection. *)
InactiveCollectionEligible(v) ==
    config.windows /\ v.tty \in {"typed", "quiet", "front", "blind"}

Of(t, those) == {v \in those : v.tool = t}
ByKey(k, those) == CHOOSE v \in those : v.key = k

----------------------------------------------------------------------------
(* The choice among the instances of a tool.                                *)

Active(v) == v.latest # 0 /\ now - v.latest < IdleTimeout

IsBetterInstance(v, w) ==
    CASE v.activity > w.activity + Threshold -> TRUE
      [] w.activity > v.activity + Threshold -> FALSE
      [] Active(v) # Active(w) -> Active(v)
      [] Active(v) /\ v.latest # w.latest -> v.latest > w.latest
      [] OTHER -> v.created > w.created

\* The sessions at a process id that take the place of the best so far.
Takers(views, q, best) ==
    {v \in views : v.key.pid = q /\ (best = None \/ IsBetterInstance(v, best))}

\* The process list is in the order of the ids.
BestInstance(views) ==
    LET upTo[q \in 0 .. Max(Pids)] ==
            IF q = 0 THEN None
            ELSE IF Takers(views, q, upTo[q - 1]) = {} THEN upTo[q - 1]
            ELSE CHOOSE v \in Takers(views, q, upTo[q - 1]) : TRUE
    IN upTo[Max(Pids)]

(* The CPU time the sessions of a tool used since the last scan; all they *)
(* ever used, when nothing was featured.                                  *)
Work(views) == Unit * Cardinality({v \in views : IF previous = None THEN v.total > 0 ELSE v.activity > 0})

ClearlyBetter(v, w) ==
    \/ v.activity > w.activity + Threshold
    \/ Active(v) /\ (Active(w) => v.latest - w.latest >= 1)

(* As if a challenge survived a scan in which nothing was better. *)
StillChallenged(t) == challenge[t]

Unchallenged(t) == NoChallenge

(* selectInstance: a selected instance is replaced by one that was clearly *)
(* better in consecutive scans, or when it is gone.                        *)
SelectInstance(t, views, best) ==
    LET current == {v \in views : v.key = selected[t]}
        better == \A v \in current : best.key # v.key /\ ClearlyBetter(best, v)
        count == 1 + IF challenge[t].key = best.key THEN challenge[t].count ELSE 0
    IN [tool |-> t,
        pick |-> IF better /\ (current = {} \/ count >= Confirmations) THEN best
                 ELSE CHOOSE v \in current : TRUE,
        challenge |-> IF current = {} THEN NoChallenge
                      ELSE IF ~better THEN Unchallenged(t)
                      ELSE IF count >= Confirmations THEN NoChallenge
                      ELSE [key |-> best.key, count |-> count],
        better |-> IF better /\ current # {} THEN best.key ELSE None,
        among |-> {v.key : v \in views},
        work |-> Work(views)]

(* The choice among the tools, each with its pick and its activity. *)
MoreActive(c, d) ==
    \/ c.activity > d.activity
    \/ c.activity = d.activity /\ Priority[c.tool] > Priority[d.tool]
    \/ /\ c.activity = d.activity /\ Priority[c.tool] = Priority[d.tool]
       /\ c.since > d.since \/ (c.since = d.since /\ c.tool < d.tool)

BetterCandidate(c, d) ==
    \/ c.since > d.since
    \/ c.since = d.since /\ Priority[c.tool] > Priority[d.tool]
    \/ /\ c.since = d.since /\ Priority[c.tool] = Priority[d.tool]
       /\ c.created > d.created \/ (c.created = d.created /\ c.tool < d.tool)

First(candidates, Before(_, _)) ==
    CHOOSE c \in candidates : \A d \in candidates \ {c} : Before(c, d)


(* selectFeatured, given the idle times of this scan. *)
SelectFeatured(candidates, since) ==
    LET others == candidates \ Of(previous, candidates)
        yields(was) ==
            /\ config.switching /\ others # {}
            /\ First(others, MoreActive).activity > was.activity + Threshold
            /\ since[previous] # None /\ now - since[previous] >= IdleTimeout
    IN IF Of(config.pin, candidates) # {} THEN First(Of(config.pin, candidates), BetterCandidate)
       ELSE IF Of(previous, candidates) = {} THEN First(candidates, BetterCandidate)
       ELSE LET was == First(Of(previous, candidates), BetterCandidate)
            IN IF yields(was) THEN First(others, MoreActive) ELSE was

----------------------------------------------------------------------------
(* The episodes.                                                            *)

(* As if any loaded episode of the key were resumed (issue 623). *)
AnchorOfAny(k) == IF k \in DOMAIN episodes THEN episodes[k].since ELSE now

(* A loaded episode is resumed only if its key names one process instance; *)
(* one this run has observed keeps its start.                              *)
Anchor(k) ==
    IF k \in DOMAIN episodes /\ (loaded => IdentityKnown(k)) THEN episodes[k].since ELSE now

Observe(v) ==
    [since |-> Anchor(v.key),
     last |-> IF v.atime # 0 THEN v.atime
              ELSE IF ~loaded /\ v.key \in DOMAIN episodes THEN episodes[v.key].last ELSE 0]

(* As if a first observation needed no save of its own. *)
ChangedByActivity(v) ==
    v.atime # 0 /\ v.key \in DOMAIN persisted /\ v.atime - persisted[v.key].last >= SavePeriod

(* Changes of the terminal activity alone are saved once per period. *)
Changed(v) ==
    \/ loaded \/ v.key \notin DOMAIN episodes
    \/ v.atime # 0 /\ (v.key \in DOMAIN persisted /\ persisted[v.key].last # 0
                         => v.atime - persisted[v.key].last >= SavePeriod)

Recency(e) == IF e.last # 0 THEN e.last ELSE e.since

(* enforceCap: what a load may keep. *)
Kept(file) ==
    {keys \in SUBSET DOMAIN file :
        /\ Cardinality(keys) = IF Cardinality(DOMAIN file) <= MaxEntries
                               THEN Cardinality(DOMAIN file) ELSE MaxEntries
        /\ \A k \in keys, l \in DOMAIN file \ keys : Recency(file[k]) >= Recency(file[l])}

----------------------------------------------------------------------------
Failed(look) == look.work = "unknown"

(* One scan (SelectWithEnricher).                                           *)

(* The sessions present are kept; the episodes of all others end. *)
KeepEpisodes(kept, saved) ==
    LET changed == (\E v \in kept : Changed(v)) \/ DOMAIN episodes \ {v.key : v \in kept} # {}
    IN /\ ~saved => changed /\ saving
       /\ episodes' = [k \in {v.key : v \in kept} |-> Observe(ByKey(k, kept))]
       /\ loaded' = FALSE
       /\ IF changed /\ saving /\ saved
          THEN disk' = episodes' /\ persisted' = episodes'
          ELSE persisted' = Only(persisted, DOMAIN episodes') /\ UNCHANGED disk
       /\ owed' = [k \in {l \in DOMAIN episodes' : IdentityKnown(l)} |-> episodes'[k].since]
       /\ lost' = IF changed THEN ~(saving /\ saved) ELSE lost

(* Every tool selects one of its instances. *)
SelectInstances(choices) ==
    LET For(t, none, Part(_)) ==
            IF Of(t, choices) = {} THEN none ELSE Part(CHOOSE c \in Of(t, choices) : TRUE)
    IN /\ selected' = [t \in Tools |-> For(t, None, LAMBDA c : c.pick.key)]
       /\ challenge' = [t \in Tools |-> For(t, NoChallenge, LAMBDA c : c.challenge)]
       /\ winner' = [t \in Tools |->
                        For(t, NoWinner, LAMBDA c : [among |-> c.among, better |-> c.better])]

Candidate(c) ==
    [tool |-> c.tool, key |-> c.pick.key, named |-> c.pick.named, cwd |-> c.pick.cwd,
     created |-> c.pick.created, since |-> Anchor(c.pick.key), activity |-> c.work]

(* One tool is featured; a tool with work to show is not idle. *)
Feature(candidates) ==
    /\ idle' = [t \in Tools |->
                   IF \A c \in Of(t, candidates) : c.activity >= Threshold THEN None
                   ELSE IF idle[t] = None THEN now ELSE idle[t]]
    /\ IF candidates = {} THEN previous' = None /\ shown' = None
       ELSE \E headliner \in {SelectFeatured(candidates, idle')} :
               previous' = headliner.tool /\ shown' = headliner

Scan(turn, looks, saved) ==
    /\ run # None /\ now < Horizon
    /\ faults' = faults + (IF turn.pid = None THEN 0 ELSE 1) + (IF saved THEN 0 ELSE 1)
                      + Cardinality({q \in DOMAIN looks : Failed(looks[q])})
    /\ faults' <= MaxFaults
    /\ \E seen \in {{See(q, turn, looks[q]) :
                          q \in {p \in DOMAIN looks : Tool[alive[p]] \notin config.disabled /\ Owned(p, turn)}}} :
       \E featured \in {{v \in seen : PresenceEligible(v)}} :
       \E choices \in {{SelectInstance(t, Of(t, featured), BestInstance(Of(t, featured))) :
                          t \in {v.tool : v \in featured}}} :
          /\ cpu' = [k \in {v.key : v \in {u \in seen : u.work # "unknown"}} |-> ByKey(k, seen).cpu]
          /\ KeepEpisodes(featured \cup {v \in seen : InactiveCollectionEligible(v)}, saved)
          /\ SelectInstances(choices)
          /\ Feature({Candidate(c) : c \in choices})
    /\ IF turn.pid = None THEN UNCHANGED <<alive, born>>
       ELSE /\ alive' = [alive EXCEPT ![turn.pid] = turn.next]
            /\ born' = IF turn.next = None THEN born ELSE [born EXCEPT ![turn.next] = now]
    /\ now' = now + 1
    /\ UNCHANGED <<config, run, saving>>

----------------------------------------------------------------------------
(* The machine and the daemon around the scans.                             *)

(* The instance that may come next under a process id. *)
NextOf(q) == {i \in Instances : Pid[i] = q /\ born[i] = 0
                /\ \A j \in Instances : Pid[j] = q /\ j < i => born[j] # 0}

(* The process with the id ends, or another begins. *)
Turn(q) ==
    /\ IF alive[q] # None
       THEN alive' = [alive EXCEPT ![q] = None] /\ UNCHANGED born
       ELSE \E i \in NextOf(q) : alive' = [alive EXCEPT ![q] = i] /\ born' = [born EXCEPT ![i] = now]
    /\ UNCHANGED <<now, config, faults, run, selector, store, disk, shown, history>>

(* What a scan may meet: nothing, or an id that changes hands between looks. *)
Turns ==
    {NoTurn} \cup UNION {[pid : {q}, after : 1 .. 2, next : {None} \cup NextOf(q)] :
                            q \in {p \in Pids : alive[p] # None}}

(* As if a file that cannot be loaded counted as one that is missing. *)
MayWriteAny(file) == TRUE

MayWrite(file) == file # Unreadable

(* run begins: the episodes are loaded; an unreadable file is never written. *)
StartDaemon ==
    /\ run = None
    /\ run' = now
    /\ \E keys \in Kept(IF disk = Unreadable THEN Empty ELSE disk) :
          episodes' = IF disk = Unreadable THEN Empty ELSE Only(disk, keys)
    /\ persisted' = episodes' /\ loaded' = TRUE /\ saving' = MayWrite(disk)
    /\ owed' = IF lost THEN Empty ELSE Only(owed, DOMAIN episodes')
    /\ lost' = FALSE
    /\ UNCHANGED <<now, config, processes, selector, disk, shown, winner>>

(* The memory of the detector is gone; the machine and the file remain. *)
Forget ==
    /\ run' = None
    /\ cpu' = Empty /\ selected' = PerTool(None) /\ challenge' = PerTool(NoChallenge)
    /\ idle' = PerTool(None) /\ previous' = None
    /\ episodes' = Empty /\ loaded' = TRUE /\ persisted' = Empty /\ saving' = FALSE
    /\ shown' = None /\ winner' = PerTool(NoWinner)
    /\ UNCHANGED <<now, config, alive, born, owed>>

(* The deferred save when run returns. *)
StopDaemon ==
    /\ run # None
    /\ Forget
    /\ IF saving THEN disk' = episodes /\ lost' = FALSE ELSE UNCHANGED <<disk, lost>>
    /\ UNCHANGED faults

(* Killed, or stopped with a save that fails. *)
Crash ==
    /\ run # None
    /\ Forget
    /\ UNCHANGED <<faults, disk, lost>>

(* Selector.Reconfigure keeps everything it has observed. *)
Reconfigure(c) ==
    /\ run # None /\ c.windows = config.windows
    /\ config' = c
    /\ UNCHANGED <<now, processes, run, selector, store, disk, shown, history>>

Next ==
    \/ \E looks \in [{q \in Pids : alive[q] # None} -> {l \in Looks : ~Failed(l)}] :
          Scan(NoTurn, looks, TRUE)
    \/ /\ faults < MaxFaults
       /\ \E turn \in Turns, looks \in [{q \in Pids : alive[q] # None} -> Looks], saved \in BOOLEAN :
             Scan(turn, looks, saved)
    \/ \E q \in Pids : Turn(q)
    \/ StartDaemon \/ StopDaemon \/ Crash
    \/ \E c \in Configs : Reconfigure(c)

Spec == Init /\ [][Next]_vars

----------------------------------------------------------------------------
(* What is kept of sessions, per key. *)
IsEpisodes(e) == DOMAIN e \subseteq Keys /\ e \in [DOMAIN e -> Episodes]

(* The types of what the properties below read. *)
TypeOK ==
    /\ now \in Nat /\ run \in Nat \cup {None}
    /\ alive \in [Pids -> Instances \cup {None}] /\ born \in [Instances -> Nat]
    /\ IsEpisodes(episodes) /\ loaded \in BOOLEAN /\ saving \in BOOLEAN
    /\ disk # Unreadable => IsEpisodes(disk)
    /\ DOMAIN owed \subseteq Keys /\ owed \in [DOMAIN owed -> Nat] /\ lost \in BOOLEAN
    /\ shown # None => shown.key \in Keys
    /\ \A t \in Tools : challenge[t].count \in Nat
    /\ DOMAIN selected = Tools /\ DOMAIN challenge = Tools /\ DOMAIN winner = Tools

(***************************************************************************)
(* The elapsed timer of a session goes on while it stays present: across   *)
(* scans, restarts and crashes a known instance keeps its start, unless    *)
(* its last change could not be saved before the daemon ended.             *)
(***************************************************************************)
TimerContinues == [][\A k \in DOMAIN owed \cap DOMAIN owed' : owed'[k] = owed[k]]_vars

(***************************************************************************)
(* No session is shown with the start of another: the start is not before  *)
(* its instance began, nor, when that is not known, before the daemon did  *)
(* (issue 623).                                                            *)
(***************************************************************************)
AnchorIsOwn ==
    shown # None =>
        IF IdentityKnown(shown.key) THEN shown.since >= born[shown.key.id] ELSE shown.since >= run

(***************************************************************************)
(* The instance shown for a tool does not flicker: while it stays present  *)
(* another takes its place only if it was the best and clearly better in   *)
(* this scan and in the one before (instanceSwitchConfirmations).          *)
(***************************************************************************)
SwitchesAreConfirmed ==
    [][\A t \in Tools :
          selected[t] \in winner'[t].among /\ selected'[t] # selected[t]
            => winner[t].better = selected'[t] /\ winner'[t].better = selected'[t]]_vars

(***************************************************************************)
(* Nothing of another user is shown: a session whose creation time was     *)
(* known when it was listed is this user's, with its own directory, though *)
(* process ids change hands between the looks of a scan (issue 569).       *)
(***************************************************************************)
ShownIsMine ==
    shown # None /\ shown.named \notin Unknown =>
        shown.named \notin Foreign /\ shown.cwd = shown.named

(* A file that could not be loaded is never overwritten (issue 567). *)
UnreadableIsKept == [][disk = Unreadable => disk' = Unreadable]_vars
============================================================================
