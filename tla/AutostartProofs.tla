-------------------------- MODULE AutostartProofs --------------------------
(***************************************************************************)
(* Proofs about the login service, for every set of platforms and          *)
(* executables, every set of configuration values and every bound on the   *)
(* failures of a command.  What a failed query of a Windows task hides is  *)
(* remembered (missed), and no claim is made of a command that it misled.  *)
(*                                                                         *)
(* A command of a service manager that failed may have had any of its      *)
(* effects.  A rollback is nevertheless exact, because at each of its      *)
(* steps the parts of the service it has not yet put back either were not  *)
(* touched or are known from commands that succeeded, and a step that      *)
(* failed is remembered (RollbackFits).  Setup is atomic because what it   *)
(* knew before its first change is still true when it undoes it, whatever  *)
(* is read of the service in between (SetupFits).                          *)
(***************************************************************************)
EXTENDS Autostart, TLAPS

-----------------------------------------------------------------------------
(* What the service managers do to a world.                                  *)

\* What the managers keep of a daemon and the definition it came from: launchd
\* runs none of a job that is not loaded, and a task is its definition.
Sound(w) ==
    /\ w.waiting => w.proc # None
    /\ Darwin /\ w.unit = None => w.proc = None
    /\ Windows => w.unit = w.definition /\ w.definition # Garbled

LEMMA WorldParts ==
    ASSUME NEW w \in Worlds
    PROVE  /\ w.definition \in Exes \cup {None, Garbled} /\ w.unit \in Exes \cup {None, Garbled}
           /\ w.login \in BOOLEAN /\ w.proc \in Exes \cup {None} /\ w.waiting \in BOOLEAN
BY DEF Worlds

LEMMA NamesDiffer == None \notin Exes /\ Garbled \notin Exes /\ None # Garbled
BY ValuesAssumption

\* The world v has the definition of w, and the other parts named.
SameDefinition(v, w) == v \in Worlds /\ v.definition = w.definition
SameDaemon(v, w) == v.proc = w.proc /\ v.waiting = w.waiting

LEMMA Changes ==
    ASSUME NEW w \in Worlds
    PROVE  /\ SameDefinition(LoginOn(w), w) /\ SameDaemon(LoginOn(w), w)
           /\ LoginOn(w).unit = w.unit /\ LoginOn(w).login
           /\ SameDefinition(LoginOff(w), w) /\ SameDaemon(LoginOff(w), w)
           /\ LoginOff(w).unit = w.unit /\ ~LoginOff(w).login
           /\ SameDefinition(Halted(w), w)
           /\ Halted(w).unit = w.unit /\ Halted(w).login = w.login
           /\ Halted(w).proc = None /\ ~Halted(w).waiting
           /\ SameDefinition(Unloaded(w), w)
           /\ Unloaded(w).login = w.login /\ Unloaded(w).unit = None
           /\ Unloaded(w).proc = None /\ ~Unloaded(w).waiting
BY DEF Worlds, LoginOn, LoginOff, Halted, Unloaded, SameDefinition, SameDaemon

LEMMA StartsRun ==
    ASSUME NEW w \in Worlds, w.unit \in Exes \/ Running(w)
    PROVE  /\ SameDefinition(Started(w), w)
           /\ Started(w).unit = w.unit /\ Started(w).login = w.login /\ Running(Started(w))
<1> USE DEF Running
<1>1. CASE w.proc # None /\ ~w.waiting
  BY <1>1 DEF Started, SameDefinition
<1>2. CASE ~(w.proc # None /\ ~w.waiting)
  <2>1. Started(w) = [w EXCEPT !.proc = w.unit, !.waiting = FALSE] /\ w.unit \in Exes
    BY <1>2 DEF Started
  <2>2. QED
    BY <2>1, NamesDiffer DEF Worlds, SameDefinition
<1>3. QED
  BY <1>1, <1>2

LEMMA LoadsRun ==
    ASSUME NEW w \in Worlds, w.definition \in Exes
    PROVE  /\ SameDefinition(Loaded(w), w) /\ Loaded(w).login = w.login /\ Loaded(w).unit # None
           /\ w.unit # None => Loaded(w) = w
           /\ w.unit = None => Running(Loaded(w))
BY NamesDiffer DEF Worlds, Loaded, SameDefinition, Running

LEMMA Registers ==
    ASSUME NEW w \in Worlds, NEW d \in Exes \cup {None, Garbled}, NEW on \in BOOLEAN
    PROVE  LET v == Registered(w, d, on)
           IN  v \in Worlds /\ SameDaemon(v, w) /\ v.definition = d /\ v.unit = d /\ v.login = on
BY DEF Worlds, Registered, SameDaemon

LEMMA Rewrites ==
    ASSUME NEW w \in Worlds, NEW d \in Exes \cup {None, Garbled}
    PROVE  LET v == [w EXCEPT !.definition = d]
           IN  /\ v \in Worlds /\ SameDaemon(v, w)
               /\ v.definition = d /\ v.unit = w.unit /\ v.login = w.login
BY DEF Worlds, SameDaemon

-----------------------------------------------------------------------------
(* The results of a command of a manager.                                    *)

LEMMA SucceedsParts ==
    ASSUME NEW w, NEW r \in Succeeds(w)
    PROVE  r.ok /\ r.world = w /\ r.faults = 0
BY DEF Succeeds

LEMMA AttemptParts ==
    ASSUME NEW possible \in BOOLEAN, NEW effects, NEW r \in Attempt(possible, effects)
    PROVE  /\ r.ok \in BOOLEAN /\ r.faults \in {0, 1}
           /\ r.ok => possible /\ r.world = effects[Len(effects)]
           /\ ~r.ok => \E i \in DOMAIN effects : r.world = effects[i]
<1>1. \/ possible /\ r \in Succeeds(effects[Len(effects)])
      \/ \E i \in DOMAIN effects :
            r = [ok |-> FALSE, world |-> effects[i], faults |-> IF possible THEN 1 ELSE 0,
                 missed |-> FALSE]
  BY DEF Attempt
<1>2. CASE possible /\ r \in Succeeds(effects[Len(effects)])
  BY <1>2, SucceedsParts
<1>3. CASE \E i \in DOMAIN effects :
              r = [ok |-> FALSE, world |-> effects[i], faults |-> IF possible THEN 1 ELSE 0,
                 missed |-> FALSE]
  BY <1>3
<1>4. QED
  BY <1>1, <1>2, <1>3

LEMMA Attempt1 ==
    ASSUME NEW possible \in BOOLEAN, NEW a, NEW r \in Attempt(possible, <<a>>)
    PROVE  r.ok \in BOOLEAN /\ r.faults \in Nat /\ r.world = a /\ (r.ok => possible)
<1>1. /\ r.ok \in BOOLEAN /\ r.faults \in {0, 1}
      /\ r.ok => possible /\ r.world = <<a>>[Len(<<a>>)]
      /\ ~r.ok => \E i \in DOMAIN <<a>> : r.world = <<a>>[i]
  BY AttemptParts
<1>2. Len(<<a>>) = 1 /\ DOMAIN <<a>> = {1} /\ <<a>>[1] = a
  OBVIOUS
<1>3. QED
  BY <1>1, <1>2

LEMMA Attempt2 ==
    ASSUME NEW possible \in BOOLEAN, NEW a, NEW b, NEW r \in Attempt(possible, <<a, b>>)
    PROVE  /\ r.ok \in BOOLEAN /\ r.faults \in Nat
           /\ r.ok => possible /\ r.world = b
           /\ ~r.ok => r.world \in {a, b}
BY AttemptParts

LEMMA Attempt3 ==
    ASSUME NEW possible \in BOOLEAN, NEW a, NEW b, NEW c, NEW r \in Attempt(possible, <<a, b, c>>)
    PROVE  /\ r.ok \in BOOLEAN /\ r.faults \in Nat
           /\ r.ok => possible /\ r.world = c
           /\ ~r.ok => r.world \in {a, b, c}
BY AttemptParts

\* A result is its four parts.
IsResult(r) == r = [ok |-> r.ok, world |-> r.world, faults |-> r.faults, missed |-> r.missed]

LEMMA AttemptsAreResults ==
    ASSUME NEW possible, NEW effects, NEW r \in Attempt(possible, effects)
    PROVE  IsResult(r)
<1>1. \/ \E w : r = [ok |-> TRUE, world |-> w, faults |-> 0, missed |-> FALSE]
      \/ \E w, n : r = [ok |-> FALSE, world |-> w, faults |-> n, missed |-> FALSE]
  BY DEF Attempt, Succeeds
<1>2. QED
  BY <1>1 DEF IsResult

LEMMA SuccessesAreResults ==
    ASSUME NEW w, NEW r \in Succeeds(w)
    PROVE  IsResult(r)
BY DEF Succeeds, IsResult

LEMMA MoreFaults ==
    ASSUME NEW s, IsResult(s), NEW n
    PROVE  LET r == [s EXCEPT !.faults = @ + n]
           IN  r.ok = s.ok /\ r.world = s.world /\ r.faults = s.faults + n
BY DEF IsResult

\* What every command leaves alone.
Keeps(r, w) ==
    /\ r.ok \in BOOLEAN /\ r.faults \in Nat
    /\ SameDefinition(r.world, w) /\ Sound(r.world)

LEMMA Systemd ==
    ASSUME Linux, NEW w \in Worlds, Sound(w)
    PROVE  /\ \A r \in SystemdReload(w) :
                 /\ Keeps(r, w) /\ SameDaemon(r.world, w) /\ r.world.login = w.login
                 /\ r.ok => r.world.unit = w.definition
           /\ \A r \in SystemdEnable(w) :
                 /\ Keeps(r, w) /\ SameDaemon(r.world, w) /\ r.world.unit = w.unit
                 /\ r.ok => r.world.login
           /\ \A r \in SystemdEnableNow(w) : Keeps(r, w)
           /\ \A r \in SystemdStart(w) :
                 /\ Keeps(r, w) /\ r.world.login = w.login
                 /\ r.ok => Running(r.world)
           /\ \A r \in SystemdDisableNow(w) :
                 /\ Keeps(r, w) /\ r.world.unit = w.unit
                 /\ r.ok => r.world.proc = None /\ ~r.world.login
<1> USE DEF Keeps
<1>1. \A v \in Worlds : SameDaemon(v, w) \/ ~v.waiting => Sound(v)
  BY DEF Sound, SameDaemon, Linux, Darwin, Windows
<1>2. \A v \in Worlds : v = w => SameDefinition(v, w) /\ SameDaemon(v, w)
  BY DEF SameDefinition, SameDaemon
<1>3. ASSUME NEW r \in SystemdReload(w)
      PROVE  /\ Keeps(r, w) /\ SameDaemon(r.world, w) /\ r.world.login = w.login
             /\ r.ok => r.world.unit = w.definition
  <2> DEFINE v == [w EXCEPT !.unit = w.definition]
  <2>1. /\ SameDefinition(v, w) /\ SameDaemon(v, w) /\ v.login = w.login
        /\ v.unit = w.definition
    BY DEF Worlds, SameDefinition, SameDaemon
  <2> HIDE DEF v
  <2>2. r \in Attempt(TRUE, <<w, v>>)
    BY <1>3 DEF SystemdReload, v
  <2>3. r.ok \in BOOLEAN /\ r.faults \in Nat /\ (r.ok => r.world = v) /\ r.world \in {w, v}
    BY <2>2, Attempt2
  <2>4. QED
    BY <1>1, <1>2, <2>1, <2>3 DEF SameDefinition
<1>4. ASSUME NEW r \in SystemdEnable(w)
      PROVE  /\ Keeps(r, w) /\ SameDaemon(r.world, w) /\ r.world.unit = w.unit
             /\ r.ok => r.world.login
  <2>1. r.ok \in BOOLEAN /\ r.faults \in Nat /\ (r.ok => r.world = LoginOn(w))
        /\ r.world \in {w, LoginOn(w)}
    BY <1>4, Attempt2 DEF SystemdEnable
  <2>2. QED
    BY <1>1, <1>2, <2>1, Changes DEF SameDefinition
<1>5. ASSUME NEW r \in SystemdEnableNow(w)
      PROVE  Keeps(r, w)
  <2> DEFINE on == LoginOn(w)
  <2>1. SameDefinition(on, w) /\ SameDaemon(on, w) /\ on.unit = w.unit
    BY Changes
  <2> HIDE DEF on
  <2>2. CASE w.unit \in Exes
    <3>0. r \in Attempt(TRUE, <<w, on, Started(on)>>)
      BY <1>5, <2>2 DEF SystemdEnableNow, on
    <3>1. r.ok \in BOOLEAN /\ r.faults \in Nat /\ r.world \in {w, on, Started(on)}
      BY <3>0, Attempt3
    <3>2. SameDefinition(Started(on), on) /\ ~Started(on).waiting
      BY <2>1, <2>2, StartsRun DEF SameDefinition, Running
    <3>3. QED
      BY <1>1, <1>2, <2>1, <3>1, <3>2 DEF SameDefinition
  <2>3. CASE w.unit \notin Exes
    <3>0. r \in Attempt(FALSE, <<w, on>>)
      <4>1. (w.unit \in Exes) = FALSE
        BY <2>3
      <4>2. QED
        BY <1>5, <4>1 DEF SystemdEnableNow, on
    <3>1. r.ok \in BOOLEAN /\ r.faults \in Nat /\ r.world \in {w, on}
      BY <3>0, Attempt2
    <3>2. QED
      BY <1>1, <1>2, <2>1, <3>1 DEF SameDefinition
  <2>4. QED
    BY <2>2, <2>3
<1>6. ASSUME NEW r \in SystemdStart(w)
      PROVE  /\ Keeps(r, w) /\ r.world.login = w.login
             /\ r.ok => Running(r.world)
  <2>1. CASE w.unit \in Exes
    <3>0. r \in Attempt(TRUE, <<w, Started(w)>>)
      BY <1>6, <2>1 DEF SystemdStart
    <3>1. r.ok \in BOOLEAN /\ r.faults \in Nat /\ (r.ok => r.world = Started(w))
          /\ r.world \in {w, Started(w)}
      BY <3>0, Attempt2
    <3>2. QED
      BY <1>1, <1>2, <2>1, <3>1, StartsRun DEF SameDefinition, Running
  <2>2. CASE w.unit \notin Exes
    <3>0. r \in Attempt(FALSE, <<w>>)
      <4>1. (w.unit \in Exes) = FALSE
        BY <2>2
      <4>2. QED
        BY <1>6, <4>1 DEF SystemdStart
    <3>1. r.ok \in BOOLEAN /\ r.faults \in Nat /\ ~r.ok /\ r.world = w
      BY <3>0, Attempt1
    <3>2. QED
      BY <1>1, <1>2, <3>1
  <2>3. QED
    BY <2>1, <2>2
<1>7. ASSUME NEW r \in SystemdDisableNow(w)
      PROVE  /\ Keeps(r, w) /\ r.world.unit = w.unit
             /\ r.ok => r.world.proc = None /\ ~r.world.login
  <2> DEFINE off == LoginOff(w)
  <2>1. SameDefinition(off, w) /\ SameDaemon(off, w) /\ off.unit = w.unit /\ ~off.login
    BY Changes
  <2> HIDE DEF off
  <2>2. /\ SameDefinition(Halted(off), off) /\ Halted(off).unit = off.unit
        /\ Halted(off).login = off.login /\ Halted(off).proc = None /\ ~Halted(off).waiting
    BY <2>1, Changes DEF SameDefinition
  <2>3. r \in Attempt(TRUE, <<w, off, Halted(off)>>)
    BY <1>7 DEF SystemdDisableNow, off
  <2>4. /\ r.ok \in BOOLEAN /\ r.faults \in Nat
        /\ r.ok => TRUE /\ r.world = Halted(off)
        /\ ~r.ok => r.world \in {w, off, Halted(off)}
    BY <2>3, Attempt3, Zenon
  <2>5. QED
    BY <1>1, <1>2, <2>1, <2>2, <2>4 DEF SameDefinition
<1>8. QED
  BY <1>3, <1>4, <1>5, <1>6, <1>7

LEMMA LaunchdLoads ==
    ASSUME Darwin, NEW w \in Worlds, Sound(w), NEW r \in LaunchdLoad(w)
    PROVE  Keeps(r, w) /\ (r.ok /\ w.unit = None => Running(r.world))
<1> DEFINE LoadW(v) == IF v.definition \in Exes
                       THEN Attempt(TRUE, <<v, LoginOn(v), Loaded(LoginOn(v))>>)
                       ELSE Attempt(FALSE, <<v, LoginOn(v)>>)
           first == IF w.unit = None /\ w.login /\ w.definition \in Exes
                    THEN Attempt(TRUE, <<w, Loaded(w)>>) ELSE Attempt(FALSE, <<w>>)
           Well(v) == v \in Worlds /\ Sound(v) /\ SameDefinition(v, w)
                      /\ (v.unit = None \/ Running(v) \/ w.unit # None)
<1>1. ~Windows
  BY DEF Darwin, Windows
<1>2. Well(w)
  BY DEF SameDefinition
<1>3. ASSUME NEW v, Well(v)
      PROVE  Well(LoginOn(v)) /\ (v.definition \in Exes => Well(Loaded(v)) /\ (w.unit # None \/ Running(Loaded(v))))
  <2>1. Well(LoginOn(v))
    BY <1>1, <1>3, Changes DEF Sound, SameDefinition, SameDaemon, Running
  <2>2. ASSUME v.definition \in Exes
        PROVE  Well(Loaded(v)) /\ (w.unit # None \/ Running(Loaded(v)))
    <3>1. /\ SameDefinition(Loaded(v), v) /\ Loaded(v).unit # None
          /\ v.unit # None => Loaded(v) = v
          /\ v.unit = None => Running(Loaded(v))
      BY <1>3, <2>2, LoadsRun
    <3>2. QED
      BY <1>1, <1>3, <3>1 DEF Sound, SameDefinition, Running
  <2>3. QED
    BY <2>1, <2>2
<1>4. \/ r \in first /\ r.ok
      \/ \E f \in first : \E s \in LoadW(f.world) : ~f.ok /\ r = [s EXCEPT !.faults = @ + f.faults]
  <2>1. r \in {f \in first : f.ok}
             \cup UNION {{[s EXCEPT !.faults = @ + f.faults] : s \in LoadW(f.world)} :
                         f \in {f \in first : ~f.ok}}
    BY DEF LaunchdLoad, OrElse
  <2> HIDE DEF LoadW, first
  <2>2. QED
    BY <2>1
<1> HIDE DEF Well
<1>5. ASSUME NEW f \in first
      PROVE  /\ f.ok \in BOOLEAN /\ f.faults \in Nat /\ Well(f.world)
             /\ f.ok => w.unit # None \/ Running(f.world)
  <2>1. CASE w.unit = None /\ w.login /\ w.definition \in Exes
    <3>1. f \in Attempt(TRUE, <<w, Loaded(w)>>)
      BY <1>5, <2>1
    <3>2. f.ok \in BOOLEAN /\ f.faults \in Nat /\ (f.ok => f.world = Loaded(w))
          /\ f.world \in {w, Loaded(w)}
      BY <3>1, Attempt2
    <3>3. QED
      BY <1>2, <1>3, <2>1, <3>2
  <2>2. CASE ~(w.unit = None /\ w.login /\ w.definition \in Exes)
    <3>1. f \in Attempt(FALSE, <<w>>)
      BY <1>5, <2>2
    <3>2. QED
      BY <1>2, <3>1, Attempt1
  <2>3. QED
    BY <2>1, <2>2
<1>6. ASSUME NEW v, Well(v), NEW s \in LoadW(v)
      PROVE  /\ s.ok \in BOOLEAN /\ s.faults \in Nat /\ Well(s.world)
             /\ s.ok => w.unit # None \/ Running(s.world)
  <2>1. Well(LoginOn(v))
    BY <1>3, <1>6
  <2>2. CASE v.definition \in Exes
    <3> DEFINE on == LoginOn(v)
    <3>1. s \in Attempt(TRUE, <<v, on, Loaded(on)>>)
      BY <1>6, <2>2
    <3>2. on.definition \in Exes
      BY <1>6, <2>2, Changes DEF SameDefinition, Well
    <3>3. /\ s.ok \in BOOLEAN /\ s.faults \in Nat
          /\ s.ok => TRUE /\ s.world = Loaded(on)
          /\ ~s.ok => s.world \in {v, on, Loaded(on)}
      <4> HIDE DEF on
      <4>1. QED
        BY <3>1, Attempt3, Zenon
    <3>4. QED
      BY <1>3, <1>6, <2>1, <3>2, <3>3
  <2>3. CASE v.definition \notin Exes
    <3>1. s \in Attempt(FALSE, <<v, LoginOn(v)>>)
      BY <1>6, <2>3
    <3>2. s.ok \in BOOLEAN /\ s.faults \in Nat /\ ~s.ok /\ s.world \in {v, LoginOn(v)}
      BY <3>1, Attempt2
    <3>3. QED
      BY <1>6, <2>1, <3>2
  <2>4. QED
    BY <2>2, <2>3
<1>7. ASSUME NEW v, NEW s \in LoadW(v)
      PROVE  IsResult(s)
  BY <1>7, AttemptsAreResults
<1>8. r.ok \in BOOLEAN /\ r.faults \in Nat /\ Well(r.world) /\ (r.ok => w.unit # None \/ Running(r.world))
  <2>1. CASE r \in first
    BY <1>5, <2>1
  <2>2. CASE \E f \in first : \E s \in LoadW(f.world) : ~f.ok /\ r = [s EXCEPT !.faults = @ + f.faults]
    <3>0. PICK f \in first : \E s \in LoadW(f.world) : r = [s EXCEPT !.faults = @ + f.faults]
      BY <2>2
    <3>1. PICK s \in LoadW(f.world) : r = [s EXCEPT !.faults = @ + f.faults]
      BY <3>0
    <3>2. r.ok = s.ok /\ r.world = s.world /\ r.faults = s.faults + f.faults
      BY <1>7, <3>1, MoreFaults
    <3>3. f.faults \in Nat /\ Well(f.world)
      BY <1>5
    <3>4. s.ok \in BOOLEAN /\ s.faults \in Nat /\ Well(s.world) /\ (s.ok => w.unit # None \/ Running(s.world))
      BY <1>6, <3>3
    <3>5. QED
      BY <3>2, <3>3, <3>4
  <2>3. QED
    BY <1>4, <2>1, <2>2
<1>9. QED
  BY <1>8 DEF Well, Keeps

LEMMA LaunchdUnloads ==
    ASSUME Darwin, NEW w \in Worlds, Sound(w), NEW r \in LaunchdUnload(w)
    PROVE  /\ Keeps(r, w) /\ (r.ok => r.world.proc = None /\ r.world.unit = None)
           /\ w.unit = None => SameDaemon(r.world, w)
<1> DEFINE UnloadW(v) == IF v.unit = None THEN Succeeds(LoginOff(v))
                         ELSE Attempt(TRUE, <<v, LoginOff(v), Unloaded(LoginOff(v))>>)
           first == Attempt(TRUE, <<w, Unloaded(w)>>)
           Well(v) == v \in Worlds /\ Sound(v) /\ SameDefinition(v, w)
<1>1. ~Windows
  BY DEF Darwin, Windows
<1>2. Well(w)
  BY DEF SameDefinition
<1>3. ASSUME NEW v, Well(v)
      PROVE  /\ Well(LoginOff(v)) /\ LoginOff(v).unit = v.unit
             /\ Well(Unloaded(v)) /\ Unloaded(v).unit = None /\ Unloaded(v).proc = None
  BY <1>1, <1>3, Changes DEF Sound, SameDefinition, SameDaemon
<1>4. CASE w.unit = None
  <2>1. r.ok /\ r.world = w /\ r.faults = 0
    BY <1>4, SucceedsParts DEF LaunchdUnload
  <2>2. QED
    BY <1>2, <1>4, <2>1 DEF Keeps, SameDaemon, Sound
<1>5. CASE w.unit # None
  <2>1. \/ r \in first /\ r.ok
        \/ \E f \in first : \E s \in UnloadW(f.world) : ~f.ok /\ r = [s EXCEPT !.faults = @ + f.faults]
    BY <1>5 DEF LaunchdUnload, OrElse
  <2> HIDE DEF Well
  <2>2. ASSUME NEW f \in first
        PROVE  /\ f.ok \in BOOLEAN /\ f.faults \in Nat /\ Well(f.world)
               /\ f.ok => f.world.unit = None
    <3>1. f.ok \in BOOLEAN /\ f.faults \in Nat /\ (f.ok => f.world = Unloaded(w))
          /\ f.world \in {w, Unloaded(w)}
      BY <2>2, Attempt2
    <3>2. QED
      BY <1>2, <1>3, <3>1
  <2>3. ASSUME NEW v, Well(v), NEW s \in UnloadW(v)
        PROVE  /\ s.ok \in BOOLEAN /\ s.faults \in Nat /\ Well(s.world)
               /\ s.ok => s.world.unit = None
    <3>1. CASE v.unit = None
      <4>1. s \in Succeeds(LoginOff(v))
        BY <2>3, <3>1
      <4>2. s.ok /\ s.world = LoginOff(v) /\ s.faults = 0
        BY <4>1, SucceedsParts
      <4>3. QED
        BY <1>3, <2>3, <3>1, <4>2
    <3>2. CASE v.unit # None
      <4> DEFINE off == LoginOff(v)
      <4>1. s \in Attempt(TRUE, <<v, off, Unloaded(off)>>)
        BY <2>3, <3>2
      <4>2. Well(off)
        BY <1>3, <2>3
      <4> HIDE DEF off
      <4>3. /\ s.ok \in BOOLEAN /\ s.faults \in Nat
            /\ s.ok => TRUE /\ s.world = Unloaded(off)
            /\ ~s.ok => s.world \in {v, off, Unloaded(off)}
        BY <4>1, Attempt3, Zenon
      <4>4. QED
        BY <1>3, <2>3, <4>2, <4>3
    <3>3. QED
      BY <3>1, <3>2
  <2>4. ASSUME NEW v, NEW s \in UnloadW(v)
        PROVE  IsResult(s)
    BY <2>4, AttemptsAreResults, SuccessesAreResults
  <2>5. /\ r.ok \in BOOLEAN /\ r.faults \in Nat /\ Well(r.world)
        /\ r.ok => r.world.unit = None
    <3>1. CASE r \in first
      BY <2>2, <3>1
    <3>2. CASE \E f \in first : \E s \in UnloadW(f.world) : ~f.ok /\ r = [s EXCEPT !.faults = @ + f.faults]
      <4>1. PICK f \in first : \E s \in UnloadW(f.world) : r = [s EXCEPT !.faults = @ + f.faults]
        BY <3>2
      <4>2. PICK s \in UnloadW(f.world) : r = [s EXCEPT !.faults = @ + f.faults]
        BY <4>1
      <4>3. r.ok = s.ok /\ r.world = s.world /\ r.faults = s.faults + f.faults
        BY <2>4, <4>2, MoreFaults
      <4>4. f.faults \in Nat /\ Well(f.world)
        BY <2>2
      <4>5. s.ok \in BOOLEAN /\ s.faults \in Nat /\ Well(s.world) /\ (s.ok => s.world.unit = None)
        BY <2>3, <4>4
      <4>6. QED
        BY <4>3, <4>4, <4>5
    <3>3. QED
      BY <2>1, <3>1, <3>2
  <2>6. QED
    BY <1>5, <2>5 DEF Well, Keeps, Sound
<1>6. QED
  BY <1>4, <1>5

\* What the queries make of a failure.
LEMMA GoneParts ==
    ASSUME NEW results, NEW r \in OrGone(results),
           \A q \in results : IsResult(q) /\ q.ok \in BOOLEAN /\ q.faults \in Nat
    PROVE  \E q \in results :
              /\ r.ok \in BOOLEAN /\ r.faults \in Nat /\ r.world = q.world
              /\ r.ok => q.ok \/ r.world.definition = None \/ r.missed
<1>1. \/ r \in results /\ r.ok
      \/ \E q \in results : \E a \in TaskQuery(q.world) :
            r = [q EXCEPT !.ok = a.absent, !.faults = @ + a.faults,
                          !.missed = a.absent /\ q.world.definition # None]
  BY DEF OrGone
<1>2. CASE r \in results /\ r.ok
  BY <1>2
<1>3. CASE \E q \in results : \E a \in TaskQuery(q.world) :
              r = [q EXCEPT !.ok = a.absent, !.faults = @ + a.faults,
                            !.missed = a.absent /\ q.world.definition # None]
  <2>1. PICK q \in results : \E a \in TaskQuery(q.world) :
           r = [q EXCEPT !.ok = a.absent, !.faults = @ + a.faults,
                         !.missed = a.absent /\ q.world.definition # None]
    BY <1>3
  <2>2. PICK a \in TaskQuery(q.world) :
           r = [q EXCEPT !.ok = a.absent, !.faults = @ + a.faults,
                         !.missed = a.absent /\ q.world.definition # None]
    BY <2>1
  <2>3. a.absent \in BOOLEAN /\ a.faults \in Nat
    <3> DEFINE gone == q.world.definition = None
               there == q.world.definition # None
    <3>1. gone \in BOOLEAN /\ there \in BOOLEAN
      OBVIOUS
    <3>2. a = [absent |-> gone, faults |-> 0] \/ a = [absent |-> there, faults |-> 1]
      BY DEF TaskQuery
    <3> HIDE DEF gone, there
    <3>3. QED
      BY <3>1, <3>2
  <2>4. IsResult(q) /\ q.faults \in Nat
    BY <2>1
  <2>5. /\ r.ok = a.absent /\ r.faults = q.faults + a.faults /\ r.world = q.world
        /\ r.missed = (a.absent /\ q.world.definition # None)
    BY <2>2, <2>4 DEF IsResult
  <2>6. QED
    BY <2>1, <2>3, <2>4, <2>5
<1>4. QED
  BY <1>1, <1>2, <1>3

LEMMA UnlessParts ==
    ASSUME NEW q, IsResult(q), q.ok \in BOOLEAN, q.faults \in Nat, NEW fine \in BOOLEAN, NEW r,
           r = [q EXCEPT !.ok = @ \/ fine] \/ (~q.ok /\ r = [q EXCEPT !.faults = @ + 1])
    PROVE  /\ IsResult(r) /\ r.ok \in BOOLEAN /\ r.faults \in Nat /\ r.world = q.world
           /\ r.ok => q.ok \/ fine
<1>1. CASE r = [q EXCEPT !.ok = @ \/ fine]
  BY <1>1 DEF IsResult
<1>2. CASE ~q.ok /\ r = [q EXCEPT !.faults = @ + 1]
  BY <1>2 DEF IsResult
<1>3. QED
  BY <1>1, <1>2

\* A task that is started, or cannot be.
LEMMA StartedKeeps ==
    ASSUME Windows, NEW w \in Worlds, Sound(w)
    PROVE  SameDefinition(Started(w), w) /\ Sound(Started(w)) /\ Started(w).login = w.login
<1>1. ~Darwin
  BY DEF Windows, Darwin
<1>2. CASE w.unit \in Exes \/ Running(w)
  BY <1>1, <1>2, StartsRun DEF Sound, SameDefinition, Running
<1>3. CASE ~(w.unit \in Exes \/ Running(w))
  <2>1. w.unit = None
    BY <1>3, WorldParts DEF Sound
  <2>2. Started(w) = [w EXCEPT !.proc = None, !.waiting = FALSE]
    BY <1>3, <2>1 DEF Started
  <2>3. Started(w) = Halted(w)
    BY <2>2 DEF Halted
  <2>4. QED
    BY <1>1, <2>3, Changes DEF Sound, SameDefinition
<1>4. QED
  BY <1>2, <1>3

\* The scheduler's commands; creating and deleting change the definition.
LEMMA Tasks ==
    ASSUME Windows, NEW w \in Worlds, Sound(w)
    PROVE  /\ \A r \in TaskEnd(w) :
                 Keeps(r, w) /\ r.world.login = w.login /\ (r.ok => r.world.proc = None)
           /\ \A r \in TaskHalt(w) :
                 Keeps(r, w) /\ r.world.login = w.login /\ (r.ok => ~Running(r.world))
           /\ \A r \in TaskRun(w) :
                 /\ Keeps(r, w) /\ r.world.login = w.login
                 /\ r.ok /\ w.unit \in Exes => Running(r.world) \/ r.missed
           /\ \A on \in BOOLEAN : \A r \in OrGone(TaskChange(w, on)) : Keeps(r, w)
           /\ \A r \in TaskDelete(w) :
                 /\ IsResult(r) /\ r.ok \in BOOLEAN /\ r.faults \in Nat
                 /\ r.world \in Worlds /\ Sound(r.world)
                 /\ r.world.definition \in {w.definition, None}
                 /\ r.ok => r.world.definition = None
                 /\ ~Running(w) /\ r.world # w => r.world.proc = None
           /\ \A d \in Exes, on \in BOOLEAN : \A r \in TaskCreate(w, d, on) :
                 /\ r.ok \in BOOLEAN /\ r.faults \in Nat
                 /\ r.world \in Worlds /\ Sound(r.world)
                 /\ w.definition # None => SameDaemon(r.world, w)
                 /\ r.world.definition \in {w.definition, d}
                 /\ r.ok => r.world.definition = d /\ r.world.login = on
<1> USE DEF Keeps
<1>1. ~Darwin /\ SameDefinition(w, w) /\ SameDaemon(w, w)
  BY DEF Windows, Darwin, SameDefinition, SameDaemon
<1>h. /\ SameDefinition(Halted(w), w) /\ Halted(w).unit = w.unit /\ Halted(w).login = w.login
      /\ Halted(w).proc = None /\ ~Halted(w).waiting /\ Sound(Halted(w))
  BY <1>1, Changes DEF Sound, SameDefinition
<1>2. ASSUME NEW r \in TaskEnd(w)
      PROVE  /\ Keeps(r, w) /\ r.world.login = w.login /\ IsResult(r)
             /\ r.ok => r.world.proc = None
  <2>1. r.ok \in BOOLEAN /\ r.faults \in Nat /\ (r.ok => r.world = Halted(w))
        /\ r.world \in {w, Halted(w)} /\ IsResult(r)
    BY <1>2, Attempt2, AttemptsAreResults DEF TaskEnd
  <2>2. QED
    BY <1>1, <1>h, <2>1
<1>3. ASSUME NEW r \in TaskHalt(w)
      PROVE  Keeps(r, w) /\ r.world.login = w.login /\ (r.ok => ~Running(r.world))
  <2>1. PICK q \in TaskEnd(w) :
           \/ r = [q EXCEPT !.ok = @ \/ ~Running(q.world)]
           \/ ~q.ok /\ r = [q EXCEPT !.faults = @ + 1]
    BY <1>3 DEF TaskHalt, Unless
  <2>2. /\ Keeps(q, w) /\ q.world.login = w.login /\ IsResult(q)
        /\ q.ok => q.world.proc = None
    BY <1>2
  <2> DEFINE fine == ~Running(q.world)
  <2>3. fine \in BOOLEAN /\ (q.ok => fine)
    BY <2>2 DEF Running
  <2>4. r = [q EXCEPT !.ok = @ \/ fine] \/ (~q.ok /\ r = [q EXCEPT !.faults = @ + 1])
    BY <2>1
  <2>5. fine => ~Running(q.world)
    OBVIOUS
  <2> HIDE DEF fine
  <2>6. /\ IsResult(r) /\ r.ok \in BOOLEAN /\ r.faults \in Nat /\ r.world = q.world
        /\ r.ok => q.ok \/ fine
    BY <2>2, <2>3, <2>4, UnlessParts
  <2>7. QED
    BY <2>2, <2>3, <2>5, <2>6
<1>4. ASSUME NEW r \in TaskRun(w)
      PROVE  /\ Keeps(r, w) /\ r.world.login = w.login
             /\ r.ok /\ w.unit \in Exes => Running(r.world) \/ r.missed
  <2> DEFINE runs == Unless(Attempt(TRUE, <<w, Started(w)>>), Running)
  <2>1. ASSUME NEW q \in runs
        PROVE  /\ IsResult(q) /\ Keeps(q, w) /\ q.world.login = w.login
               /\ q.ok => Running(q.world) \/ w.unit \notin Exes
    <3>1. PICK a \in Attempt(TRUE, <<w, Started(w)>>) :
             \/ q = [a EXCEPT !.ok = @ \/ Running(a.world)]
             \/ ~a.ok /\ q = [a EXCEPT !.faults = @ + 1]
      BY <2>1 DEF Unless
    <3>2. /\ IsResult(a) /\ a.ok \in BOOLEAN /\ a.faults \in Nat
          /\ a.ok => a.world = Started(w)
          /\ a.world \in {w, Started(w)}
      BY <3>1, Attempt2, AttemptsAreResults
    <3> DEFINE fine == Running(a.world)
    <3>3. fine \in BOOLEAN /\ (fine => Running(a.world))
      BY DEF Running
    <3>4. q = [a EXCEPT !.ok = @ \/ fine] \/ (~a.ok /\ q = [a EXCEPT !.faults = @ + 1])
      BY <3>1
    <3> HIDE DEF fine
    <3>5. /\ IsResult(q) /\ q.ok \in BOOLEAN /\ q.faults \in Nat /\ q.world = a.world
          /\ q.ok => a.ok \/ fine
      BY <3>2, <3>3, <3>4, UnlessParts
    <3>6. SameDefinition(Started(w), w) /\ Sound(Started(w)) /\ Started(w).login = w.login
      BY StartedKeeps
    <3>7. w.unit \in Exes => Running(Started(w))
      BY StartsRun
    <3>8. QED
      BY <1>1, <3>2, <3>3, <3>5, <3>6, <3>7
  <2>2. r \in OrGone(runs)
    BY <1>4 DEF TaskRun
  <2> HIDE DEF runs
  <2>3. \A q \in runs : IsResult(q) /\ q.ok \in BOOLEAN /\ q.faults \in Nat
    BY <2>1
  <2>4. PICK q \in runs :
           /\ r.ok \in BOOLEAN /\ r.faults \in Nat /\ r.world = q.world
           /\ r.ok => q.ok \/ r.world.definition = None \/ r.missed
    BY <2>2, <2>3, GoneParts
  <2>5. w.unit \in Exes => r.world.definition # None
    BY <2>1, <2>4, NamesDiffer DEF Sound, SameDefinition
  <2>6. QED
    BY <2>1, <2>4, <2>5
<1>5. ASSUME NEW on \in BOOLEAN, NEW r \in OrGone(TaskChange(w, on))
      PROVE  Keeps(r, w)
  <2> DEFINE v == [w EXCEPT !.login = on]
  <2>1. SameDefinition(v, w) /\ SameDaemon(v, w) /\ v.unit = w.unit
    BY DEF Worlds, SameDefinition, SameDaemon
  <2> HIDE DEF v
  <2>2. ASSUME NEW q \in TaskChange(w, on)
        PROVE  IsResult(q) /\ Keeps(q, w)
    <3>1. q \in Attempt(TRUE, <<w, v>>)
      BY <2>2 DEF TaskChange, v
    <3>2. q.ok \in BOOLEAN /\ q.faults \in Nat /\ q.world \in {w, v} /\ IsResult(q)
      BY <3>1, Attempt2, AttemptsAreResults
    <3>3. QED
      BY <1>1, <2>1, <3>2 DEF Sound, SameDefinition, SameDaemon
  <2>3. \A q \in TaskChange(w, on) : IsResult(q) /\ q.ok \in BOOLEAN /\ q.faults \in Nat
    BY <2>2
  <2>4. PICK q \in TaskChange(w, on) :
           r.ok \in BOOLEAN /\ r.faults \in Nat /\ r.world = q.world
    BY <1>5, <2>3, GoneParts
  <2>5. QED
    BY <2>2, <2>4
<1>6. ASSUME NEW r \in TaskDelete(w)
      PROVE  /\ IsResult(r) /\ r.ok \in BOOLEAN /\ r.faults \in Nat
             /\ r.world \in Worlds /\ Sound(r.world)
             /\ r.world.definition \in {w.definition, None}
             /\ r.ok => r.world.definition = None
             /\ ~Running(w) /\ r.world # w => r.world.proc = None
  <2> DEFINE u == IF Running(w) THEN w ELSE Halted(w)
             v == Registered(u, None, FALSE)
  <2>1. u \in Worlds /\ Sound(u) /\ (~Running(w) => u.proc = None)
    BY <1>h DEF SameDefinition
  <2> HIDE DEF u
  <2>2. v \in Worlds /\ SameDaemon(v, u) /\ v.definition = None /\ v.unit = None
    BY <2>1, Registers
  <2>3. r \in Attempt(TRUE, <<w, v>>)
    BY <1>6 DEF TaskDelete, u
  <2> HIDE DEF v
  <2>4. r.ok \in BOOLEAN /\ r.faults \in Nat /\ (r.ok => r.world = v) /\ r.world \in {w, v}
        /\ IsResult(r)
    BY <2>3, Attempt2, AttemptsAreResults
  <2>5. Sound(v)
    BY <1>1, <2>1, <2>2, NamesDiffer DEF Sound, SameDaemon
  <2>6. QED
    BY <2>1, <2>2, <2>4, <2>5 DEF SameDaemon
<1>7. ASSUME NEW d \in Exes, NEW on \in BOOLEAN, NEW r \in TaskCreate(w, d, on)
      PROVE  /\ r.ok \in BOOLEAN /\ r.faults \in Nat
             /\ r.world \in Worlds /\ Sound(r.world)
             /\ w.definition # None => SameDaemon(r.world, w)
             /\ r.world.definition \in {w.definition, d}
             /\ r.ok => r.world.definition = d /\ r.world.login = on
  <2> DEFINE u == IF w.definition = None THEN Halted(w) ELSE w
             v == Registered(u, d, on)
  <2>1. u \in Worlds /\ Sound(u) /\ (w.definition # None => u = w)
    BY <1>h DEF SameDefinition
  <2> HIDE DEF u
  <2>2. v \in Worlds /\ SameDaemon(v, u) /\ v.definition = d /\ v.unit = d /\ v.login = on
    BY <2>1, Registers
  <2>3. r \in Attempt(TRUE, <<w, v>>)
    BY <1>7 DEF TaskCreate, u
  <2> HIDE DEF v
  <2>4. r.ok \in BOOLEAN /\ r.faults \in Nat /\ (r.ok => r.world = v) /\ r.world \in {w, v}
    BY <2>3, Attempt2
  <2>5. Sound(v)
    BY <1>1, <2>1, <2>2, NamesDiffer DEF Sound, SameDaemon
  <2>6. QED
    BY <1>1, <2>1, <2>2, <2>4, <2>5
<1>8. QED
  BY <1>2, <1>3, <1>4, <1>5, <1>6, <1>7

LEMMA Writes ==
    ASSUME ~Windows, NEW w \in Worlds, Sound(w), NEW d \in Exes \cup {None, Garbled},
           NEW r \in WriteDefinition(w, d)
    PROVE  /\ r.ok \in BOOLEAN /\ r.faults \in Nat
           /\ r.world \in Worlds /\ SameDaemon(r.world, w) /\ Sound(r.world)
           /\ r.world.unit = w.unit /\ r.world.login = w.login
           /\ r.ok => r.world.definition = d
           /\ ~r.ok => r.world.definition \in {w.definition, Garbled}
           /\ r.world.definition = None => w.definition = None \/ d = None
<1>1. \/ r \in Succeeds([w EXCEPT !.definition = d])
      \/ \E e \in {w.definition, Garbled} :
            r = [ok |-> FALSE, world |-> [w EXCEPT !.definition = e], faults |-> 1,
                 missed |-> FALSE]
  BY DEF WriteDefinition
<1>2. CASE r \in Succeeds([w EXCEPT !.definition = d])
  <2>1. r.ok /\ r.world = [w EXCEPT !.definition = d] /\ r.faults = 0
    BY <1>2, SucceedsParts
  <2>2. QED
    BY <2>1, Rewrites DEF Sound, SameDaemon
<1>3. CASE \E e \in {w.definition, Garbled} :
              r = [ok |-> FALSE, world |-> [w EXCEPT !.definition = e], faults |-> 1,
                   missed |-> FALSE]
  <2>1. PICK e \in {w.definition, Garbled} :
           r = [ok |-> FALSE, world |-> [w EXCEPT !.definition = e], faults |-> 1,
                missed |-> FALSE]
    BY <1>3
  <2>2. ~r.ok /\ r.world = [w EXCEPT !.definition = e] /\ r.faults = 1 /\ r.ok \in BOOLEAN
    BY <2>1
  <2>3. e \in Exes \cup {None, Garbled}
    BY WorldParts
  <2>4. QED
    BY <2>1, <2>2, <2>3, Rewrites, NamesDiffer DEF Sound, SameDaemon
<1>4. QED
  BY <1>1, <1>2, <1>3

LEMMA Launches ==
    ASSUME platform \in Platforms, NEW w \in Worlds, Sound(w), NEW r \in Launch(w)
    PROVE  /\ Keeps(r, w)
           /\ Darwin /\ r.ok /\ w.unit = None => Running(r.world)
           /\ Windows => /\ r.world.login = w.login
                         /\ r.ok /\ w.unit \in Exes => Running(r.world) \/ r.missed
<1>1. Linux \/ Darwin \/ Windows
  BY PlatformsAssumption DEF Linux, Darwin, Windows
<1>2. CASE Linux
  <2>1. r \in SystemdEnableNow(w) /\ ~Darwin /\ ~Windows
    BY <1>2 DEF Launch, Linux, Darwin, Windows
  <2>2. QED
    BY <1>2, <2>1, Systemd
<1>3. CASE Darwin
  <2>1. r \in LaunchdLoad(w) /\ ~Windows
    BY <1>3 DEF Launch, Linux, Darwin, Windows
  <2>2. QED
    BY <1>3, <2>1, LaunchdLoads
<1>4. CASE Windows
  <2>1. r \in TaskRun(w) /\ ~Darwin
    BY <1>4 DEF Launch, Linux, Darwin, Windows
  <2>2. QED
    BY <1>4, <2>1, Tasks
<1>5. QED
  BY <1>1, <1>2, <1>3, <1>4

LEMMA Stops ==
    ASSUME platform \in Platforms, NEW w \in Worlds, Sound(w), NEW r \in Stop(w)
    PROVE  /\ Keeps(r, w)
           /\ r.ok => r.world.proc = None
           /\ Linux /\ r.ok => ~r.world.login
           /\ Darwin /\ r.ok => r.world.unit = None
<1>1. Linux \/ Darwin \/ Windows
  BY PlatformsAssumption DEF Linux, Darwin, Windows
<1>2. CASE Linux
  <2>1. r \in SystemdDisableNow(w) /\ ~Darwin /\ ~Windows
    BY <1>2 DEF Stop, Linux, Darwin, Windows
  <2>2. QED
    BY <1>2, <2>1, Systemd
<1>3. CASE Darwin
  <2>1. r \in LaunchdUnload(w) /\ ~Windows /\ ~Linux
    BY <1>3 DEF Stop, Linux, Darwin, Windows
  <2>2. QED
    BY <1>3, <2>1, LaunchdUnloads
<1>4. CASE Windows
  <2>1. r \in TaskEnd(w) /\ ~Darwin /\ ~Linux
    BY <1>4 DEF Stop, Linux, Darwin, Windows
  <2>2. QED
    BY <1>4, <2>1, Tasks
<1>5. QED
  BY <1>1, <1>2, <1>3, <1>4

-----------------------------------------------------------------------------
(* The invariant.                                                            *)

\* What a status says, unless the definition is foreign or cannot be read, or is a
\* task taken for absent.
ReadingOf(reading, w, exe) ==
    /\ reading.installed => w.definition = exe /\ ~reading.foreign
    /\ ~reading.foreign /\ ~Misses(w, reading) =>
        /\ w.definition \in {None, exe}
        /\ reading.login \in {Known(w.login), "unknown"}
        /\ reading.active \in {Known(IF Darwin THEN w.unit # None ELSE Running(w)), "unknown"}

Undoing == {"undoHalt", "undoWrite", "undoReload", "undoEnable", "undoStart"}
Changing == {"unload", "write", "reload", "activate"}
Operating == {"status", "halt", "change", "remove"} \cup Changing \cup Undoing
Stopping == {"stop", "stopFirst", "stopAgain", "files"}

\* Which operations are at a step, and for whom.
StepFits(c) ==
    /\ c.step \in Undoing \cup {"unload", "write"} => c.op = "install" /\ c.caller \in {"cli", "setup"}
    /\ c.step = "unload" => Darwin
    /\ c.step \in {"reload", "undoReload", "undoEnable"} => Linux
    /\ c.step = "reload" => c.op \in {"install", "uninstall"}
    /\ c.step = "activate" => c.op \in {"install", "enable"}
    /\ c.step = "halt" => c.op \in {"uninstall", "disable"}
    /\ c.step = "change" => Windows /\ c.op \in {"disable", "enable"}
    /\ c.step = "remove" => c.op = "uninstall"
    /\ c.step \in Stopping => c.caller \in {"cli", "all"} /\ c.op # "install"
    /\ c.step \in {"save", "compensate"} => c.caller = "setup"
    /\ c.step = "unsave" => c.caller \in {"setup", "compensation"}
    /\ c.op = "none" => c.step = "save"
    /\ c.op \in {"disable", "enable"} => c.caller = "cli" /\ c.launch
    /\ c.caller \in {"all", "compensation"} => c.op = "uninstall"
    /\ c.caller = "setup" => ~c.force

\* An install that has begun knows what it found, unless it missed a task (m).
ReadingFits(c, m) ==
    c.op = "install" /\ c.step \in Changing \cup Undoing =>
        /\ ReadingOf(c.reading, c.found, c.exe)
        /\ c.reading.foreign => c.force
        /\ Misses(c.found, c.reading) => Windows /\ m
        /\ Windows /\ c.launch /\ (c.reading.installed \/ c.reading.foreign) =>
             /\ c.reading.active \in {Known(Running(c.found)), "unknown"}
             /\ c.found.definition = None => c.reading.active = "unknown"

\* What it has done so far.
InstallFits(c, w) ==
    c.op = "install" =>
        /\ c.step \in {"save", "status", "unload"} => w = c.found
        /\ c.step = "write" => w.definition = c.found.definition /\ (~Darwin => w = c.found)
        /\ c.step = "reload" => /\ w.definition = c.exe
                                /\ SameDaemon(w, c.found) /\ w.login = c.found.login
        /\ c.step = "activate" => /\ w.definition = c.exe
                                  /\ ~Linux => c.launch
        /\ c.step \in {"save", "status"} \cup Changing =>
             ~c.activated /\ c.halted /\ ~c.incomplete

\* What its rollback still has to put back, and what it has put back.
RollbackFits(c, w) ==
    /\ c.step = "undoHalt" =>
         /\ c.activated /\ c.halted /\ ~c.incomplete
         /\ w.definition = c.exe /\ (~Linux => c.launch)
    /\ c.step = "undoWrite" =>
         /\ w.definition = c.exe
         /\ c.incomplete = ~c.halted
         /\ ~Linux => c.activated /\ c.launch
         /\ ~c.activated => c.halted /\ SameDaemon(w, c.found) /\ w.login = c.found.login
         /\ c.activated /\ c.halted =>
              /\ Linux => w.proc = None /\ ~w.login
              /\ Darwin => w.proc = None /\ w.unit = None
              /\ Windows => ~Running(w)
         /\ Windows /\ (c.reading.installed \/ c.reading.foreign) => c.reading.active # "unknown"
    /\ c.step = "undoReload" =>
         /\ w.definition = c.found.definition
         /\ ~c.halted => c.incomplete
         /\ ~c.activated => c.halted /\ SameDaemon(w, c.found) /\ w.login = c.found.login
         /\ c.activated /\ c.halted => w.proc = None /\ ~w.login
    /\ c.step = "undoEnable" =>
         /\ w.definition = c.found.definition /\ w.unit = c.found.definition /\ w.proc = None
         /\ c.found.definition # None /\ c.reading.login = "on"
         /\ ~c.incomplete => c.reading.active # "unknown"
    /\ c.step = "undoStart" =>
         /\ w.definition = c.found.definition /\ c.found.definition # None
         /\ c.reading.active = "on"
         /\ Linux => /\ w.unit = c.found.definition /\ w.proc = None
                     /\ ~c.incomplete /\ ~c.reading.foreign => w.login = c.found.login
         /\ Darwin => w.proc = None /\ w.unit = None
         /\ Windows => c.launch /\ ~Running(w) /\ w.login = c.found.login

\* What is removed has been stopped.
UninstallFits(c, w) ==
    c.op = "uninstall" =>
        /\ c.step = "remove" => w.proc = None
        /\ c.step = "reload" => w.definition = None

\* What setup wrote, and still has to undo.
Fresh(c, m) == ~c.present /\ ~c.misread /\ ~m

SetupFits(c, w, document, m) ==
    /\ c.caller = "setup" =>
         /\ c.op = "install" <=> c.desired.login
         /\ c.op = "uninstall" => c.present
         /\ c.op = "none" /\ ~c.misread /\ ~m => w.definition # c.exe
         /\ Fresh(c, m) => c.found.definition # c.exe
         /\ c.step \in Operating => document = c.desired
         /\ c.op = "install" /\ c.step = "compensate" =>
              /\ m \/ w.definition \in {c.found.definition, c.exe, Garbled}
              /\ Fresh(c, m) => c.found.definition \in {None, w.definition}
    /\ c.caller = "compensation" /\ Fresh(c, m) => c.found.definition = None
    /\ c.step = "unsave" /\ Fresh(c, m) /\ ~c.incomplete =>
         w.definition \in {c.found.definition, Garbled}

\* What a command knows at its step, of the service and of the configuration.
Fits(c, w, document, m) ==
    /\ StepFits(c) /\ ReadingFits(c, m) /\ InstallFits(c, w)
    /\ RollbackFits(c, w) /\ UninstallFits(c, w) /\ SetupFits(c, w, document, m)

\* The inductive invariant.
IInv ==
    /\ TypeOK /\ Sound(world)
    /\ command # None => Sound(command.found) /\ Fits(command, world, config, missed)

\* Every step keeps the invariant and does what the three properties allow.
Good ==
    /\ IInv' /\ report' \in Reports \cup {None}
    /\ Restores /\ AppliesBoth /\ RemovesStopped

\* The platform does not change, so a part of the invariant means the same after a step.
LEMMA PlatformStays ==
    ASSUME platform' = platform
    PROVE  /\ Sound(world)' <=> Sound(world')
           /\ Sound(command.found)' <=> Sound(command'.found)
           /\ Fits(command, world, config, missed)' <=> Fits(command', world', config', missed')
<1>1. Linux' = Linux /\ Darwin' = Darwin /\ Windows' = Windows
  BY DEF Linux, Darwin, Windows
<1>2. Sound(world)' <=> Sound(world')
  BY <1>1 DEF Sound
<1>3. Sound(command.found)' <=> Sound(command'.found)
  BY <1>1 DEF Sound
<1>4. StepFits(command)' <=> StepFits(command')
  BY <1>1 DEF StepFits
<1>5. ReadingFits(command, missed)' <=> ReadingFits(command', missed')
  BY <1>1 DEF ReadingFits, ReadingOf
<1>6. InstallFits(command, world)' <=> InstallFits(command', world')
  BY <1>1 DEF InstallFits
<1>7. RollbackFits(command, world)' <=> RollbackFits(command', world')
  BY <1>1 DEF RollbackFits
<1>8. QED
  BY <1>1, <1>2, <1>3, <1>4, <1>5, <1>6, <1>7 DEF Fits, UninstallFits, SetupFits, Fresh

LEMMA Primed ==
    ASSUME platform \in Platforms, platform' = platform, world' \in Worlds, Sound(world'),
           config' \in Documents \cup {None, Garbled}, wizard' \in Documents \cup {None},
           faults' \in 0..MaxFaults, missed' \in BOOLEAN, command' \in Commands \cup {None},
           command' # None => Sound(command'.found) /\ Fits(command', world', config', missed')
    PROVE  IInv'
<1>1. TypeOK'
  BY DEF TypeOK
<1>2. QED
  BY <1>1, PlatformStays DEF IInv

LEMMA Quiet ==
    ASSUME report' \notin {"restored", "applied", "undone"}
    PROVE  Restores /\ AppliesBoth
BY DEF Restores, AppliesBoth

\* What was missed during a command stays so.
Recalls == missed' \in BOOLEAN /\ (missed => missed')

\* A command goes on, or ends.
LEMMA GoesOn ==
    ASSUME IInv, NEW c \in Commands, Set(c), Sound(c.found), Fits(c, world', config', missed'),
           platform' = platform, world' \in Worlds, Sound(world'),
           config' \in Documents \cup {None, Garbled}, wizard' \in Documents \cup {None},
           faults' \in 0..MaxFaults, missed' \in BOOLEAN, RemovesStopped
    PROVE  Good
<1>1. command' = c /\ report' = None
  BY DEF Set
<1>2. Restores /\ AppliesBoth
  BY <1>1, ReportsAssumption, Quiet DEF Reports, Outcomes
<1>3. IInv'
  BY <1>1, Primed DEF IInv, TypeOK
<1>4. QED
  BY <1>1, <1>2, <1>3 DEF Good, Reports, Outcomes

LEMMA IsOver ==
    ASSUME IInv, command' = None, platform' = platform, world' \in Worlds, Sound(world'),
           config' \in Documents \cup {None, Garbled}, wizard' \in Documents \cup {None},
           faults' \in 0..MaxFaults, missed' \in BOOLEAN
    PROVE  IInv'
BY Primed DEF IInv, TypeOK

\* The part of a command that its steps never change.
Same(c) ==
    /\ c \in Commands /\ c.exe = command.exe /\ c.force = command.force /\ c.launch = command.launch
    /\ c.found = command.found /\ c.present = command.present
    /\ c.original = command.original /\ c.desired = command.desired
SameAim(c) == Same(c) /\ c.caller = command.caller /\ c.op = command.op
SameNotes(c) == c.reading = command.reading /\ c.activated = command.activated /\ c.misread = command.misread

LEMMA StepTo ==
    ASSUME command \in Commands, NEW s \in Steps
    PROVE  LET c == [command EXCEPT !.step = s]
           IN  /\ SameAim(c) /\ SameNotes(c) /\ c.step = s
               /\ c.halted = command.halted /\ c.incomplete = command.incomplete
BY DEF Commands, Same, SameAim, SameNotes

LEMMA StepActivated ==
    ASSUME command \in Commands, NEW s \in Steps
    PROVE  LET c == [command EXCEPT !.step = s, !.activated = TRUE]
           IN  /\ SameAim(c) /\ c.reading = command.reading /\ c.misread = command.misread
               /\ c.step = s /\ c.activated
               /\ c.halted = command.halted /\ c.incomplete = command.incomplete
BY DEF Commands, Same, SameAim

LEMMA StepIncomplete ==
    ASSUME command \in Commands, NEW s \in Steps, NEW i \in BOOLEAN
    PROVE  LET c == [command EXCEPT !.step = s, !.incomplete = i]
           IN  /\ SameAim(c) /\ SameNotes(c) /\ c.step = s
               /\ c.halted = command.halted /\ c.incomplete = i
BY DEF Commands, Same, SameAim, SameNotes

LEMMA StepHalted ==
    ASSUME command \in Commands, NEW s \in Steps, NEW h \in BOOLEAN
    PROVE  LET c == [command EXCEPT !.step = s, !.halted = h, !.incomplete = ~h]
           IN  /\ SameAim(c) /\ SameNotes(c) /\ c.step = s /\ c.halted = h /\ c.incomplete = ~h
BY DEF Commands, Same, SameAim, SameNotes

LEMMA StepRead ==
    ASSUME command \in Commands, NEW s \in Steps, NEW r \in Statuses
    PROVE  LET c == [command EXCEPT !.reading = r, !.step = s]
           IN  /\ SameAim(c) /\ c.step = s /\ c.reading = r /\ c.activated = command.activated
               /\ c.misread = command.misread
               /\ c.halted = command.halted /\ c.incomplete = command.incomplete
BY DEF Commands, Same, SameAim

-----------------------------------------------------------------------------
(* Statuses.                                                                 *)

LEMMA StatusesAre ==
    ASSUME NEW w \in Worlds, NEW exe \in Exes, NEW s \in Readings(w, exe)
    PROVE  /\ s.reading \in Statuses /\ s.faults \in Nat
           /\ s = [reading |-> s.reading, faults |-> s.faults]
           /\ ReadingOf(s.reading, w, exe)
           /\ Misses(w, s.reading) => Windows
<1> DEFINE active == Known(IF Darwin THEN w.unit # None ELSE Running(w))
           blind == [NoReading EXCEPT !.foreign = TRUE]
           answers == [installed : {w.definition = exe}, foreign : {FALSE},
                       login : {Known(w.login), "unknown"}, active : {active, "unknown"}]
           Unknowns(r) == (IF r.login = "unknown" THEN 1 ELSE 0)
                          + (IF r.active = "unknown" THEN 1 ELSE 0)
<1>1. \/ \E n \in {0, 1} : s = [reading |-> blind, faults |-> n]
      \/ w.definition \in {None, exe} /\ \E r \in answers : s = [reading |-> r, faults |-> Unknowns(r)]
      \/ w.definition # None /\ Windows /\ s = [reading |-> NoReading, faults |-> 1]
  BY DEF Readings
<1>2. NoReading \in Statuses /\ ~NoReading.installed /\ ~NoReading.foreign
  BY DEF NoReading, Statuses, Aspects
<1>3. blind \in Statuses /\ ~blind.installed /\ blind.foreign
  BY DEF NoReading, Statuses, Aspects
<1>4. Known(w.login) \in Aspects /\ active \in Aspects
  BY DEF Known, Aspects
<1>5. ASSUME NEW r \in answers
      PROVE  /\ r \in Statuses /\ Unknowns(r) \in Nat
             /\ r.installed <=> w.definition = exe
             /\ r.foreign = FALSE
             /\ r.login \in {Known(w.login), "unknown"} /\ r.active \in {active, "unknown"}
  <2> HIDE DEF active
  <2>1. /\ r.installed = (w.definition = exe) /\ r.foreign = FALSE
        /\ r.login \in {Known(w.login), "unknown"} /\ r.active \in {active, "unknown"}
        /\ r = [installed |-> r.installed, foreign |-> r.foreign, login |-> r.login,
                active |-> r.active]
    BY <1>5
  <2>2. r.login \in Aspects /\ r.active \in Aspects /\ r.installed \in BOOLEAN
    BY <1>4, <2>1 DEF Aspects
  <2>3. Unknowns(r) \in Nat
    OBVIOUS
  <2> HIDE DEF Unknowns
  <2>4. r \in Statuses
    BY <2>1, <2>2 DEF Statuses
  <2>5. QED
    BY <2>1, <2>3, <2>4
<1> HIDE DEF blind, answers, Unknowns
<1>6. CASE \E n \in {0, 1} : s = [reading |-> blind, faults |-> n]
  BY <1>3, <1>6 DEF ReadingOf, Misses
<1>7. CASE w.definition \in {None, exe} /\ \E r \in answers : s = [reading |-> r, faults |-> Unknowns(r)]
  <2>1. PICK r \in answers : s = [reading |-> r, faults |-> Unknowns(r)]
    BY <1>7
  <2>2. /\ s.reading = r /\ s.faults = Unknowns(r)
        /\ s = [reading |-> s.reading, faults |-> s.faults]
    BY <2>1
  <2>3. ~Misses(w, r)
    BY <1>5, <1>7 DEF Misses
  <2>4. QED
    BY <1>5, <1>7, <2>2, <2>3 DEF ReadingOf
<1>8. CASE w.definition # None /\ Windows /\ s = [reading |-> NoReading, faults |-> 1]
  BY <1>2, <1>8 DEF ReadingOf, Misses
<1>9. QED
  BY <1>1, <1>6, <1>7, <1>8

LEMMA CapturesAre ==
    ASSUME NEW w \in Worlds, NEW exe \in Exes, NEW s \in Readings(w, exe), NEW r \in Captures(w, s)
    PROVE  /\ r.reading \in Statuses /\ r.faults \in Nat
           /\ ReadingOf(r.reading, w, exe)
           /\ Misses(w, r.reading) => Windows
           /\ Windows /\ (r.reading.installed \/ r.reading.foreign) =>
                /\ r.reading.active \in {Known(Running(w)), "unknown"}
                /\ w.definition = None => r.reading.active = "unknown"
<1>1. /\ s.reading \in Statuses /\ s.faults \in Nat
      /\ s = [reading |-> s.reading, faults |-> s.faults]
      /\ ReadingOf(s.reading, w, exe)
      /\ Misses(w, s.reading) => Windows
  BY StatusesAre
<1>2. CASE ~Windows \/ (~s.reading.installed /\ ~s.reading.foreign)
  BY <1>1, <1>2 DEF Captures
<1>3. CASE ~(~Windows \/ (~s.reading.installed /\ ~s.reading.foreign))
  <2>1. \/ \E n \in {0, 1} : r = [s EXCEPT !.reading.active = "unknown", !.faults = @ + n]
        \/ w.definition # None /\ r = [s EXCEPT !.reading.active = Known(Running(w))]
    BY <1>3 DEF Captures
  <2>2. PICK a \in {Known(Running(w)), "unknown"} :
           /\ r.reading = [s.reading EXCEPT !.active = a]
           /\ r.faults \in {s.faults, s.faults + 1}
           /\ w.definition = None => a = "unknown"
    <3>1. CASE w.definition # None /\ r = [s EXCEPT !.reading.active = Known(Running(w))]
      BY <1>1, <3>1
    <3>2. CASE \E n \in {0, 1} : r = [s EXCEPT !.reading.active = "unknown", !.faults = @ + n]
      BY <1>1, <3>2
    <3>3. QED
      BY <2>1, <3>1, <3>2
  <2>3. a \in Aspects
    BY <2>2 DEF Known, Aspects
  <2>4. /\ r.reading \in Statuses /\ r.reading.foreign = s.reading.foreign
        /\ r.reading.installed = s.reading.installed
        /\ r.reading.login = s.reading.login /\ r.reading.active = a
    BY <1>1, <2>2, <2>3 DEF Statuses
  <2>5. ~Darwin
    BY <1>3 DEF Windows, Darwin
  <2>6. QED
    BY <1>1, <1>3, <2>2, <2>4, <2>5 DEF ReadingOf, Misses
<1>4. QED
  BY <1>2, <1>3

-----------------------------------------------------------------------------
(* The end of an operation.                                                  *)

\* What is known of the world when an operation ends: enough for setup, which
\* takes it for done or has to undo it.
Ended(outcome) ==
    /\ outcome \in {"done", "absent"} =>
         /\ command.op = "install" => world'.definition = command.exe
         /\ command.op = "uninstall" => world'.definition = None \/ missed'
    /\ command.op = "install" /\ outcome \notin {"done", "absent"} =>
         /\ missed' \/ world'.definition \in {command.found.definition, command.exe, Garbled}
         /\ command.step = "status" => world' = world
    /\ outcome = "restored" => Restores

LEMMA FinishParts ==
    ASSUME NEW outcome, Finish(outcome)
    PROVE  LET succeeded == outcome \in {"done", "absent"}
           IN  \/ /\ command.caller = "cli" /\ succeeded /\ command.op \in {"uninstall", "disable"}
                  /\ To("stop")
               \/ command.caller = "all" /\ succeeded /\ To("stopAgain")
               \/ command.caller = "setup" /\ succeeded /\ Ends("applied")
               \/ /\ command.caller = "setup" /\ ~succeeded /\ report' = outcome
                  /\ command' = [command EXCEPT !.step = "compensate",
                                                !.incomplete = @ \/ outcome = "unrestored"]
               \/ /\ command.caller = "compensation"
                  /\ Set([command EXCEPT !.step = "unsave", !.incomplete = @ \/ ~succeeded])
               \/ command.caller \notin {"setup", "compensation"} /\ Ends(outcome)
<1> DEFINE succeeded == outcome \in {"done", "absent"}
<1>1. CASE command.caller = "cli" /\ succeeded /\ command.op \in {"uninstall", "disable"}
  BY <1>1, Zenon DEF Finish
<1>2. CASE command.caller = "all" /\ succeeded
  BY <1>2 DEF Finish
<1>3. CASE command.caller = "setup" /\ succeeded
  BY <1>3 DEF Finish
<1>4. CASE command.caller = "setup" /\ ~succeeded
  BY <1>4 DEF Finish
<1>5. CASE command.caller = "compensation"
  BY <1>5 DEF Finish
<1>6. CASE /\ ~(command.caller = "cli" /\ succeeded /\ command.op \in {"uninstall", "disable"})
           /\ ~(command.caller = "all" /\ succeeded)
           /\ command.caller \notin {"setup", "compensation"}
  BY <1>6 DEF Finish
<1>7. QED
  BY <1>1, <1>2, <1>3, <1>4, <1>5, <1>6

LEMMA FinishIsGood ==
    ASSUME IInv, command # None, command.step \in Operating,
           NEW outcome \in Outcomes, Finish(outcome), Ended(outcome),
           UNCHANGED <<platform, config, wizard>>,
           world' \in Worlds, Sound(world'), faults' \in 0..MaxFaults, Recalls, RemovesStopped
    PROVE  Good
<1> DEFINE succeeded == outcome \in {"done", "absent"}
<1>1. /\ command \in Commands /\ config \in Documents \cup {None, Garbled}
      /\ wizard \in Documents \cup {None} /\ Sound(command.found)
      /\ StepFits(command) /\ ReadingFits(command, missed) /\ InstallFits(command, world)
      /\ SetupFits(command, world, config, missed)
  BY DEF IInv, TypeOK, Fits
<1>2. /\ UNCHANGED platform /\ UNCHANGED config /\ UNCHANGED wizard
      /\ missed' \in BOOLEAN /\ (missed => missed')
  BY DEF Recalls
<1>3. Outcomes \cap {"applied", "undone"} = {} /\ outcome # None
  BY ReportsAssumption DEF Outcomes, Reports
\* The operation goes on to stop the daemon, or to another.
<1>4. ASSUME NEW s \in {"stop", "stopAgain"}, To(s), succeeded,
             (command.caller = "cli" /\ command.op \in {"uninstall", "disable"}) \/ command.caller = "all"
      PROVE  Good
  <2> DEFINE c == [command EXCEPT !.step = s]
  <2>1. /\ SameAim(c) /\ SameNotes(c) /\ c.step = s
        /\ c.halted = command.halted /\ c.incomplete = command.incomplete
    BY <1>1, StepTo DEF Steps
  <2>2. Set(c)
    BY <1>4 DEF To
  <2> HIDE DEF c
  <2>3. c \in Commands /\ Sound(c.found) /\ c.caller \in {"cli", "all"} /\ c.op \in {"uninstall", "disable"}
    BY <1>1, <1>4, <2>1 DEF SameAim, Same, StepFits
  <2>4. StepFits(c)
    BY <1>1, <2>1, <2>3, <1>4 DEF StepFits, Stopping, Undoing, SameAim, Same
  <2>5. Fits(c, world', config', missed')
    BY <1>4, <2>1, <2>3, <2>4
       DEF Fits, ReadingFits, InstallFits, RollbackFits, UninstallFits, SetupFits, Changing, Undoing
  <2>6. QED
    BY <1>1, <1>2, <2>2, <2>3, <2>5, GoesOn
<1>5. ASSUME command.caller = "setup", succeeded, Ends("applied")
      PROVE  Good
  <2>1. command' = None /\ report' = "applied"
    BY <1>5 DEF Ends
  <2>2. IInv'
    BY <1>1, <1>2, <2>1, IsOver
  <2>3. AppliesBoth
    <3>1. config' = command.desired
      BY <1>1, <1>2, <1>5 DEF SetupFits
    <3>2. command.desired.login <=> command.op = "install"
      BY <1>1, <1>5 DEF SetupFits
    <3>3. command.op \in {"install", "uninstall"}
      BY <1>1, <1>5 DEF StepFits, Commands, Operating, Changing, Undoing
    <3>4. IF command.op = "install" THEN world'.definition = command.exe
          ELSE world'.definition = None \/ missed'
      BY <1>5, <3>3 DEF Ended
    <3>5. command.exe # None
      BY <1>1, NamesDiffer DEF Commands
    <3>6. QED
      BY <2>1, <3>1, <3>2, <3>3, <3>4, <3>5 DEF AppliesBoth
  <2>4. QED
    BY <2>1, <2>2, <2>3 DEF Good, Restores, Reports, Outcomes
<1>6. ASSUME command.caller = "setup", ~succeeded, report' = outcome,
             command' = [command EXCEPT !.step = "compensate",
                                        !.incomplete = @ \/ outcome = "unrestored"]
      PROVE  Good
  <2> DEFINE i == command.incomplete \/ outcome = "unrestored"
             c == [command EXCEPT !.step = "compensate", !.incomplete = i]
  <2>1. command' = c /\ i \in BOOLEAN
    BY <1>6
  <2> HIDE DEF i
  <2>2. SameAim(c) /\ SameNotes(c) /\ c.step = "compensate"
    <3>1. command \in Commands /\ i \in BOOLEAN
      BY <1>1, <2>1
    <3>2. "compensate" \in Steps
      BY DEF Steps
    <3>3. QED
      BY <3>1, <3>2, StepIncomplete
  <2> HIDE DEF c
  <2>3. c \in Commands /\ Sound(c.found)
    BY <1>1, <2>2 DEF SameAim, Same
  <2>4. StepFits(c)
    BY <1>1, <1>6, <2>2
       DEF StepFits, Operating, Stopping, Changing, Undoing, SameAim, Same, Commands
  <2>5. SetupFits(c, world', config', missed')
    <3>1. c.op = "install" =>
            missed' \/ world'.definition \in {c.found.definition, c.exe, Garbled}
      BY <1>6, <2>2 DEF Ended, SameAim, Same
    <3>2. c.op = "install" /\ Fresh(c, missed') => c.found.definition \in {None, world'.definition}
      <4>1. SUFFICES ASSUME c.op = "install", Fresh(command, missed')
                     PROVE  c.found.definition \in {None, world'.definition}
        BY <2>2 DEF Fresh, SameAim, SameNotes, Same
      <4> Fresh(command, missed)
        BY <1>2, <4>1 DEF Fresh
      <4>2. CASE command.step = "status"
        BY <1>1, <1>6, <2>2, <4>1, <4>2 DEF Ended, InstallFits, SameAim, Same
      <4>3. CASE command.step \in Changing \cup Undoing
        BY <1>1, <1>2, <1>6, <2>2, <4>1, <4>3
           DEF Fresh, ReadingFits, ReadingOf, StepFits, SetupFits, SameAim, Same
      <4>4. QED
        BY <1>1, <2>2, <4>1, <4>2, <4>3 DEF StepFits, Operating, SameAim
    <3>3. (c.op = "install" <=> c.desired.login) /\ (c.op = "uninstall" => c.present)
          /\ (Fresh(c, missed') => c.found.definition # c.exe) /\ c.op # "none"
      BY <1>1, <1>2, <1>6, <2>2 DEF SetupFits, StepFits, Operating, Changing, Undoing, Fresh, SameAim, SameNotes, Same
    <3>4. QED
      BY <1>6, <2>2, <3>1, <3>2, <3>3
         DEF SetupFits, SameAim, Operating, Changing, Undoing
  <2>6. Fits(c, world', config', missed')
    BY <2>2, <2>4, <2>5
       DEF Fits, ReadingFits, InstallFits, RollbackFits, UninstallFits, Changing, Undoing
  <2>7. IInv'
    BY <1>1, <1>2, <2>1, <2>3, <2>6, Primed DEF IInv, TypeOK
  <2>8. Restores /\ AppliesBoth
    BY <1>3, <1>6 DEF Ended, Restores, AppliesBoth
  <2>9. QED
    BY <1>6, <2>7, <2>8 DEF Good, Reports, Outcomes
<1>7. ASSUME command.caller = "compensation",
             Set([command EXCEPT !.step = "unsave", !.incomplete = @ \/ ~succeeded])
      PROVE  Good
  <2> DEFINE i == command.incomplete \/ ~succeeded
             c == [command EXCEPT !.step = "unsave", !.incomplete = i]
  <2>1. Set(c) /\ i \in BOOLEAN
    BY <1>7
  <2>2. ~i => succeeded
    OBVIOUS
  <2> HIDE DEF i
  <2>3. SameAim(c) /\ SameNotes(c) /\ c.step = "unsave" /\ c.incomplete = i
    <3>1. command \in Commands /\ i \in BOOLEAN
      BY <1>1, <2>1
    <3>2. "unsave" \in Steps
      BY DEF Steps
    <3>3. QED
      BY <3>1, <3>2, StepIncomplete
  <2> HIDE DEF c
  <2>4. c \in Commands /\ Sound(c.found) /\ c.caller = "compensation" /\ c.op = "uninstall"
    BY <1>1, <1>7, <2>3 DEF SameAim, Same, StepFits
  <2>5. StepFits(c)
    BY <1>1, <2>3, <2>4 DEF StepFits, Operating, Stopping, Changing, Undoing, SameAim, Same
  <2>6. SetupFits(c, world', config', missed')
    <3>1. Fresh(c, missed') => c.found.definition = None
      BY <1>1, <1>2, <1>7, <2>3 DEF SetupFits, Fresh, SameAim, SameNotes, Same
    <3>2. ~c.incomplete => world'.definition = None \/ missed'
      BY <2>2, <2>3, <2>4 DEF Ended, SameAim
    <3>3. QED
      BY <2>3, <2>4, <3>1, <3>2 DEF SetupFits, Fresh
  <2>7. Fits(c, world', config', missed')
    BY <2>3, <2>4, <2>5, <2>6
       DEF Fits, ReadingFits, InstallFits, RollbackFits, UninstallFits, Changing, Undoing
  <2>8. QED
    BY <1>1, <1>2, <2>1, <2>4, <2>7, GoesOn
<1>8. ASSUME command.caller \notin {"setup", "compensation"}, Ends(outcome)
      PROVE  Good
  <2>1. command' = None /\ report' = outcome
    BY <1>8 DEF Ends
  <2>2. IInv'
    BY <1>1, <1>2, <2>1, IsOver
  <2>3. Restores /\ AppliesBoth
    BY <1>3, <2>1 DEF Ended, Restores, AppliesBoth
  <2>4. QED
    BY <2>1, <2>2, <2>3 DEF Good, Reports, Outcomes
<1>9. QED
  BY <1>4, <1>5, <1>6, <1>7, <1>8, FinishParts

-----------------------------------------------------------------------------
(* The steps of an operation.                                                *)

LEMMA AtAStep ==
    ASSUME IInv, NEW s, At(s)
    PROVE  /\ command # None /\ command \in Commands /\ command.step = s
           /\ command.exe \in Exes /\ command.launch \in BOOLEAN /\ command.force \in BOOLEAN
           /\ command.found \in Worlds /\ Sound(command.found)
           /\ platform \in Platforms /\ world \in Worlds /\ Sound(world)
           /\ config \in Documents \cup {None, Garbled} /\ wizard \in Documents \cup {None}
           /\ faults \in 0..MaxFaults /\ missed \in BOOLEAN
           /\ StepFits(command) /\ ReadingFits(command, missed) /\ InstallFits(command, world)
           /\ RollbackFits(command, world) /\ UninstallFits(command, world)
           /\ SetupFits(command, world, config, missed)
BY DEF IInv, At, TypeOK, Fits, Commands

LEMMA Faulted ==
    ASSUME faults \in 0..MaxFaults, NEW n \in Nat, Fault(n)
    PROVE  faults' \in 0..MaxFaults
BY MaxFaultsAssumption DEF Fault

LEMMA Recalled ==
    ASSUME missed \in BOOLEAN, NEW again, missed' = (missed \/ again)
    PROVE  Recalls /\ (again => missed')
BY DEF Recalls

LEMMA SystemIs ==
    ASSUME platform \in Platforms
    PROVE  /\ Linux \/ Darwin \/ Windows
           /\ ~(Linux /\ Darwin) /\ ~(Linux /\ Windows) /\ ~(Darwin /\ Windows)
BY PlatformsAssumption DEF Linux, Darwin, Windows

\* A definition that is kept is not removed.
LEMMA KeptIsNotRemoved ==
    ASSUME world'.definition = None => world.definition = None
    PROVE  RemovesStopped
BY DEF RemovesStopped

LEMMA CheckStatusIsGood ==
    ASSUME IInv, CheckStatus
    PROVE  Good
<1>1. At("status") /\ UNCHANGED <<platform, world, config, wizard>>
  BY DEF CheckStatus
<1>2. /\ command # None /\ command \in Commands /\ command.step = "status"
      /\ command.exe \in Exes /\ command.found \in Worlds /\ Sound(command.found)
      /\ platform \in Platforms /\ world \in Worlds /\ Sound(world)
      /\ config \in Documents \cup {None, Garbled} /\ wizard \in Documents \cup {None}
      /\ faults \in 0..MaxFaults /\ missed \in BOOLEAN
      /\ StepFits(command) /\ InstallFits(command, world) /\ SetupFits(command, world, config, missed)
  BY <1>1, AtAStep
<1>3. UNCHANGED platform /\ UNCHANGED world /\ UNCHANGED config /\ UNCHANGED wizard
      /\ RemovesStopped /\ world' \in Worlds /\ Sound(world')
  BY <1>1, <1>2, KeptIsNotRemoved
<1>4. PICK s \in Readings(world, command.exe) :
        \E r \in IF command.op = "install" /\ command.launch THEN Captures(world, s) ELSE {s} :
           /\ Fault(r.faults) /\ missed' = (missed \/ Misses(world, r.reading))
           /\ IF r.reading.foreign /\ ~command.force THEN Finish("refused")
              ELSE IF command.op # "install" /\ ~r.reading.installed /\ ~r.reading.foreign
              THEN Finish("absent")
              ELSE Set([command EXCEPT !.reading = r.reading, !.step = FirstStep(command.op)])
  BY DEF CheckStatus
<1>5. PICK r \in IF command.op = "install" /\ command.launch THEN Captures(world, s) ELSE {s} :
           /\ Fault(r.faults) /\ missed' = (missed \/ Misses(world, r.reading))
           /\ IF r.reading.foreign /\ ~command.force THEN Finish("refused")
              ELSE IF command.op # "install" /\ ~r.reading.installed /\ ~r.reading.foreign
              THEN Finish("absent")
              ELSE Set([command EXCEPT !.reading = r.reading, !.step = FirstStep(command.op)])
  BY <1>4
<1>6. /\ r.reading \in Statuses /\ r.faults \in Nat /\ ReadingOf(r.reading, world, command.exe)
      /\ Misses(world, r.reading) => Windows
      /\ Windows /\ command.op = "install" /\ command.launch
              /\ (r.reading.installed \/ r.reading.foreign) =>
           /\ r.reading.active \in {Known(Running(world)), "unknown"}
           /\ world.definition = None => r.reading.active = "unknown"
  <2>1. CASE command.op = "install" /\ command.launch
    BY <1>2, <1>5, <2>1, CapturesAre
  <2>2. CASE ~(command.op = "install" /\ command.launch)
    BY <1>2, <1>5, <2>2, StatusesAre
  <2>3. QED
    BY <2>1, <2>2
<1>7. faults' \in 0..MaxFaults /\ Recalls /\ (Misses(world, r.reading) => missed')
  BY <1>2, <1>5, <1>6, Faulted, Recalled
<1>8. command.step \in Operating
  BY <1>2 DEF Operating
<1>9. CASE r.reading.foreign /\ ~command.force
  <2>1. Finish("refused")
    BY <1>5, <1>9
  <2>2. Ended("refused")
    BY <1>2, <1>3 DEF Ended, InstallFits
  <2>3. QED
    BY <1>2, <1>3, <1>7, <1>8, <2>1, <2>2, FinishIsGood DEF Outcomes
<1>10. CASE /\ ~(r.reading.foreign /\ ~command.force)
            /\ command.op # "install" /\ ~r.reading.installed /\ ~r.reading.foreign
  <2>1. Finish("absent")
    BY <1>5, <1>10
  <2>2. Ended("absent")
    BY <1>3, <1>7, <1>10 DEF Ended, Misses
  <2>3. QED
    BY <1>2, <1>3, <1>7, <1>8, <2>1, <2>2, FinishIsGood DEF Outcomes
<1>11. CASE /\ ~(r.reading.foreign /\ ~command.force)
            /\ ~(command.op # "install" /\ ~r.reading.installed /\ ~r.reading.foreign)
  <2> DEFINE first == FirstStep(command.op)
             c == [command EXCEPT !.reading = r.reading, !.step = first]
  <2>1. Set(c)
    BY <1>5, <1>11
  <2>2. command.op \in {"install", "uninstall", "disable", "enable"}
    BY <1>2 DEF Commands, StepFits
  <2>3. /\ command.op = "install" => first = "write" \/ (first = "unload" /\ Darwin /\ command.launch)
        /\ command.op = "uninstall" => first = "halt"
        /\ command.op = "disable" => first = "halt" \/ (first = "change" /\ Windows)
        /\ command.op = "enable" => first = "activate" \/ (first = "change" /\ Windows)
    <3>1. CASE command.op = "install"
      BY <3>1 DEF FirstStep
    <3>2. CASE command.op = "uninstall"
      BY <3>2 DEF FirstStep
    <3>3. CASE command.op = "disable"
      BY <3>3 DEF FirstStep
    <3>4. CASE command.op = "enable"
      BY <3>4 DEF FirstStep
    <3>5. QED
      BY <2>2, <3>1, <3>2, <3>3, <3>4
  <2>4. first \in {"write", "unload", "halt", "change", "activate"}
    BY <2>2, <2>3
  <2> HIDE DEF first
  <2>5. /\ SameAim(c) /\ c.step = first /\ c.reading = r.reading /\ c.activated = command.activated
        /\ c.misread = command.misread
        /\ c.halted = command.halted /\ c.incomplete = command.incomplete
    <3>1. first \in Steps
      BY <2>4 DEF Steps
    <3>2. QED
      BY <1>2, <1>6, <3>1, StepRead
  <2> HIDE DEF c
  <2>6. /\ c \in Commands /\ c.found = command.found /\ c.exe = command.exe /\ c.force = command.force
        /\ c.launch = command.launch /\ c.op = command.op /\ c.caller = command.caller
        /\ c.present = command.present /\ c.desired = command.desired
        /\ c.caller \in {"cli", "all", "setup", "compensation"}
    BY <1>2, <2>5 DEF SameAim, Same, Commands
  <2>7. StepFits(c)
    BY <1>2, <2>2, <2>3, <2>4, <2>5, <2>6 DEF StepFits, Undoing, Stopping
  <2>8. ReadingFits(c, missed')
    BY <1>2, <1>6, <1>7, <1>11, <2>5, <2>6 DEF ReadingFits, InstallFits
  <2>9. InstallFits(c, world')
    BY <1>2, <1>3, <2>2, <2>3, <2>4, <2>5, <2>6 DEF InstallFits, Changing
  <2>10. SetupFits(c, world', config', missed')
    BY <1>2, <1>3, <1>7, <2>2, <2>4, <2>5, <2>6 DEF Recalls, SetupFits, Fresh, Operating, Changing
  <2>11. Fits(c, world', config', missed')
    BY <2>2, <2>3, <2>4, <2>5, <2>6, <2>7, <2>8, <2>9, <2>10 DEF Fits, RollbackFits, UninstallFits
  <2>12. QED
    BY <1>2, <1>3, <1>7, <2>1, <2>6, <2>11, GoesOn DEF Recalls
<1>12. QED
  BY <1>9, <1>10, <1>11

\* A step after the status that goes on to another.
LEMMA Proceeds ==
    ASSUME IInv, command # None, command.step \in Operating \ {"status"},
           NEW c, Set(c), SameAim(c), c.reading = command.reading, c.misread = command.misread,
           c.step \in Operating,
           UNCHANGED <<platform, config, wizard>>,
           world' \in Worlds, Sound(world'), faults' \in 0..MaxFaults, Recalls, RemovesStopped,
           StepFits(c), InstallFits(c, world'), RollbackFits(c, world'), UninstallFits(c, world')
    PROVE  Good
<1>1. /\ command \in Commands /\ config \in Documents \cup {None, Garbled}
      /\ wizard \in Documents \cup {None} /\ Sound(command.found)
      /\ StepFits(command) /\ ReadingFits(command, missed) /\ SetupFits(command, world, config, missed)
  BY DEF IInv, TypeOK, Fits
<1>2. /\ UNCHANGED platform /\ UNCHANGED config /\ UNCHANGED wizard
      /\ missed' \in BOOLEAN /\ (missed => missed')
  BY DEF Recalls
<1>3. /\ c \in Commands /\ c.found = command.found /\ c.exe = command.exe /\ c.force = command.force
      /\ c.launch = command.launch /\ c.op = command.op /\ c.caller = command.caller
      /\ c.present = command.present /\ c.desired = command.desired
  BY DEF SameAim, Same
<1>4. ReadingFits(c, missed')
  <2>1. SUFFICES ASSUME c.op = "install" PROVE command.step \in Changing \cup Undoing
    BY <1>1, <1>2, <1>3 DEF ReadingFits
  <2>2. QED
    BY <1>1, <1>3, <2>1 DEF StepFits, Operating
<1>5. SetupFits(c, world', config', missed')
  <2>1. command.op # "none"
    BY <1>1 DEF StepFits, Operating, Changing, Undoing
  <2>2. c.step \notin {"compensate", "unsave"}
    BY DEF Operating, Changing, Undoing
  <2>3. QED
    BY <1>1, <1>2, <1>3, <2>1, <2>2 DEF SetupFits, Fresh
<1>6. Fits(c, world', config', missed')
  BY <1>4, <1>5 DEF Fits
<1>7. QED
  BY <1>1, <1>2, <1>3, <1>6, GoesOn

LEMMA UnloadIsGood ==
    ASSUME IInv, Unload
    PROVE  Good
<1>1. At("unload")
  BY DEF Unload
<1>2. PICK r \in LaunchdUnload(world) :
         /\ Fault(r.faults) /\ world' = r.world /\ missed' = (missed \/ r.missed)
         /\ UNCHANGED <<platform, config, wizard>>
         /\ IF r.ok THEN To("write") ELSE Finish("failed")
  BY DEF Unload, Try
<1>3. /\ command # None /\ command \in Commands /\ command.step = "unload"
      /\ platform \in Platforms /\ world \in Worlds /\ Sound(world)
      /\ faults \in 0..MaxFaults /\ missed \in BOOLEAN
      /\ StepFits(command) /\ InstallFits(command, world)
  BY <1>1, AtAStep
<1>4. Darwin /\ command.op = "install" /\ command.caller \in {"cli", "setup"}
      /\ world = command.found
  <2>1. Darwin /\ command.op = "install" /\ command.caller \in {"cli", "setup"}
    BY <1>3 DEF StepFits
  <2>2. QED
    BY <1>3, <2>1 DEF InstallFits
<1>5. Keeps(r, world)
  BY <1>2, <1>3, <1>4, LaunchdUnloads
<1>6. /\ world' \in Worlds /\ Sound(world') /\ world'.definition = world.definition
      /\ faults' \in 0..MaxFaults /\ Recalls /\ RemovesStopped
  BY <1>2, <1>3, <1>5, Faulted, Recalled, KeptIsNotRemoved DEF Keeps, SameDefinition
<1>7. command.step \in Operating \ {"status"}
  BY <1>3 DEF Operating, Changing
<1>8. CASE r.ok
  <2> DEFINE c == [command EXCEPT !.step = "write"]
  <2>1. Set(c)
    BY <1>2, <1>8 DEF To
  <2>2. /\ SameAim(c) /\ SameNotes(c) /\ c.step = "write"
        /\ c.halted = command.halted /\ c.incomplete = command.incomplete
    BY <1>3, StepTo DEF Steps
  <2> HIDE DEF c
  <2>3. c.op = "install" /\ c.caller = command.caller /\ c.found = command.found /\ c.force = command.force
    BY <1>4, <2>2 DEF SameAim, Same
  <2>4. StepFits(c)
    BY <1>3, <1>4, <2>2, <2>3 DEF StepFits, Undoing, Stopping
  <2>5. InstallFits(c, world')
    BY <1>3, <1>4, <1>6, <2>2, <2>3, SystemIs DEF InstallFits, Changing, SameNotes
  <2>6. RollbackFits(c, world') /\ UninstallFits(c, world')
    BY <2>2, <2>3 DEF RollbackFits, UninstallFits
  <2>7. QED
    BY <1>2, <1>3, <1>6, <1>7, <2>1, <2>2, <2>4, <2>5, <2>6, Proceeds DEF SameNotes, Operating, Changing
<1>9. CASE ~r.ok
  <2>1. Ended("failed")
    BY <1>3, <1>4, <1>6 DEF Ended
  <2>2. QED
    BY <1>2, <1>3, <1>6, <1>7, <1>9, <2>1, FinishIsGood DEF Outcomes
<1>10. QED
  BY <1>8, <1>9, <1>5 DEF Keeps

LEMMA WriteIsGood ==
    ASSUME IInv, Write
    PROVE  Good
<1>1. At("write")
  BY DEF Write
<1>2. PICK r \in IF Windows THEN TaskCreate(world, command.exe, TRUE)
                 ELSE WriteDefinition(world, command.exe) :
         /\ Fault(r.faults) /\ world' = r.world /\ missed' = (missed \/ r.missed)
         /\ UNCHANGED <<platform, config, wizard>>
         /\ IF ~r.ok THEN Finish("failed")
            ELSE IF Linux THEN To("reload")
            ELSE IF command.launch THEN To("activate") ELSE Finish("done")
  BY DEF Write, Try
<1>3. /\ command # None /\ command \in Commands /\ command.step = "write"
      /\ command.exe \in Exes /\ command.found \in Worlds /\ command.launch \in BOOLEAN
      /\ platform \in Platforms /\ world \in Worlds /\ Sound(world)
      /\ faults \in 0..MaxFaults /\ missed \in BOOLEAN
      /\ StepFits(command) /\ InstallFits(command, world)
  BY <1>1, AtAStep
<1>4. /\ command.op = "install" /\ command.caller \in {"cli", "setup"}
      /\ world.definition = command.found.definition /\ (~Darwin => world = command.found)
      /\ ~command.activated /\ command.halted /\ ~command.incomplete
  BY <1>3 DEF StepFits, InstallFits, Changing
<1>5. /\ r.ok \in BOOLEAN /\ r.faults \in Nat
      /\ r.world \in Worlds /\ Sound(r.world)
      /\ ~Windows => r.world.login = world.login /\ SameDaemon(r.world, world)
      /\ r.ok => r.world.definition = command.exe
      /\ r.world.definition \in {world.definition, command.exe, Garbled}
      /\ r.world.definition = None => world.definition = None
  <2>1. CASE Windows
    <3>1. r \in TaskCreate(world, command.exe, TRUE)
      BY <1>2, <2>1
    <3>2. /\ r.ok \in BOOLEAN /\ r.faults \in Nat
          /\ r.world \in Worlds /\ Sound(r.world)
          /\ r.world.definition \in {world.definition, command.exe}
          /\ r.ok => r.world.definition = command.exe /\ r.world.login = TRUE
      BY <1>3, <2>1, <3>1, Tasks, Zenon
    <3>3. QED
      BY <1>3, <2>1, <3>2, NamesDiffer
  <2>2. CASE ~Windows
    BY <1>2, <1>3, <2>2, Writes, NamesDiffer
  <2>3. QED
    BY <2>1, <2>2
<1>6. /\ world' \in Worlds /\ Sound(world') /\ faults' \in 0..MaxFaults /\ Recalls /\ RemovesStopped
  BY <1>2, <1>3, <1>5, Faulted, Recalled, KeptIsNotRemoved
<1>7. command.step \in Operating \ {"status"}
  BY <1>3 DEF Operating, Changing
<1>8. ASSUME NEW s \in {"reload", "activate"}, To(s), r.ok, s = "reload" <=> Linux,
             s = "activate" => command.launch
      PROVE  Good
  <2> DEFINE c == [command EXCEPT !.step = s]
  <2>1. Set(c)
    BY <1>8 DEF To
  <2>2. /\ SameAim(c) /\ SameNotes(c) /\ c.step = s
        /\ c.halted = command.halted /\ c.incomplete = command.incomplete
    BY <1>3, StepTo DEF Steps
  <2> HIDE DEF c
  <2>3. /\ c.op = "install" /\ c.caller = command.caller /\ c.found = command.found
        /\ c.exe = command.exe /\ c.launch = command.launch /\ c.force = command.force
    BY <1>4, <2>2 DEF SameAim, Same
  <2>4. StepFits(c)
    BY <1>3, <1>4, <1>8, <2>2, <2>3 DEF StepFits, Undoing, Stopping
  <2>5. InstallFits(c, world')
    BY <1>2, <1>3, <1>4, <1>5, <1>8, <2>2, <2>3, SystemIs DEF InstallFits, Changing, SameNotes, SameDaemon
  <2>6. RollbackFits(c, world') /\ UninstallFits(c, world')
    BY <2>2, <2>3 DEF RollbackFits, UninstallFits
  <2>7. QED
    BY <1>2, <1>3, <1>6, <1>7, <2>1, <2>2, <2>4, <2>5, <2>6, Proceeds DEF SameNotes, Operating, Changing
<1>9. ASSUME NEW outcome \in {"failed", "done"}, Finish(outcome), outcome = "done" => r.ok
      PROVE  Good
  <2>1. Ended(outcome)
    BY <1>2, <1>3, <1>4, <1>5, <1>9 DEF Ended
  <2>2. QED
    BY <1>2, <1>3, <1>6, <1>7, <1>9, <2>1, FinishIsGood DEF Outcomes
<1>10. QED
  BY <1>2, <1>5, <1>8, <1>9

LEMMA ReloadIsGood ==
    ASSUME IInv, Reload
    PROVE  Good
<1>1. At("reload")
  BY DEF Reload
<1>2. PICK r \in SystemdReload(world) :
         /\ Fault(r.faults) /\ world' = r.world /\ missed' = (missed \/ r.missed)
         /\ UNCHANGED <<platform, config, wizard>>
         /\ IF command.op = "uninstall" THEN Finish(IF r.ok THEN "done" ELSE "failed")
            ELSE IF r.ok THEN To("activate") ELSE To("undoWrite")
  BY DEF Reload, Try
<1>3. /\ command # None /\ command \in Commands /\ command.step = "reload"
      /\ command.exe \in Exes /\ command.found \in Worlds /\ command.launch \in BOOLEAN
      /\ platform \in Platforms /\ world \in Worlds /\ Sound(world)
      /\ faults \in 0..MaxFaults /\ missed \in BOOLEAN
      /\ StepFits(command) /\ InstallFits(command, world) /\ UninstallFits(command, world)
  BY <1>1, AtAStep
<1>4. Linux /\ ~Darwin /\ ~Windows /\ command.op \in {"install", "uninstall"}
  BY <1>3, SystemIs DEF StepFits
<1>5. Keeps(r, world) /\ SameDaemon(r.world, world) /\ r.world.login = world.login
  BY <1>2, <1>3, <1>4, Systemd
<1>6. /\ world' \in Worlds /\ Sound(world') /\ world'.definition = world.definition
      /\ faults' \in 0..MaxFaults /\ Recalls /\ RemovesStopped
  BY <1>2, <1>3, <1>5, Faulted, Recalled, KeptIsNotRemoved DEF Keeps, SameDefinition
<1>7. command.step \in Operating \ {"status"}
  BY <1>3 DEF Operating, Changing
<1>8. CASE command.op = "uninstall"
  <2> DEFINE outcome == IF r.ok THEN "done" ELSE "failed"
  <2>1. Finish(outcome)
    BY <1>2, <1>8
  <2>2. outcome \in Outcomes /\ outcome # "restored"
    BY DEF Outcomes
  <2> HIDE DEF outcome
  <2>3. Ended(outcome)
    BY <1>3, <1>6, <1>8, <2>2 DEF Ended, UninstallFits
  <2>4. QED
    BY <1>2, <1>3, <1>6, <1>7, <2>1, <2>2, <2>3, FinishIsGood
<1>9. CASE command.op = "install"
  <2>1. PICK s \in {"activate", "undoWrite"} : To(s)
    BY <1>2, <1>9
  <2>2. /\ world.definition = command.exe /\ SameDaemon(world, command.found)
        /\ world.login = command.found.login
        /\ ~command.activated /\ command.halted /\ ~command.incomplete
    BY <1>3, <1>9 DEF InstallFits, Changing
  <2> DEFINE c == [command EXCEPT !.step = s]
  <2>3. Set(c)
    BY <2>1 DEF To
  <2>4. /\ SameAim(c) /\ SameNotes(c) /\ c.step = s
        /\ c.halted = command.halted /\ c.incomplete = command.incomplete
    BY <1>3, StepTo DEF Steps
  <2> HIDE DEF c
  <2>5. /\ c.op = "install" /\ c.caller = command.caller /\ c.found = command.found
        /\ c.exe = command.exe /\ c.launch = command.launch /\ c.force = command.force
        /\ c.caller \in {"cli", "all", "setup", "compensation"}
        /\ c.activated = command.activated /\ c.halted \in BOOLEAN /\ c.incomplete \in BOOLEAN
    BY <1>3, <1>9, <2>4 DEF SameAim, Same, SameNotes, Commands
  <2>6. StepFits(c)
    BY <1>3, <1>9, <2>4, <2>5 DEF StepFits, Undoing, Stopping
  <2>7. InstallFits(c, world')
    BY <1>4, <1>6, <2>2, <2>4, <2>5 DEF InstallFits, Changing
  <2>8. RollbackFits(c, world')
    BY <1>2, <1>4, <1>5, <1>6, <2>2, <2>4, <2>5 DEF RollbackFits, SameDaemon
  <2>9. UninstallFits(c, world')
    BY <2>5 DEF UninstallFits
  <2>10. QED
    BY <1>2, <1>3, <1>6, <1>7, <2>3, <2>4, <2>6, <2>7, <2>8, <2>9, Proceeds
       DEF SameNotes, Operating, Changing, Undoing
<1>10. QED
  BY <1>4, <1>8, <1>9

LEMMA ActivateIsGood ==
    ASSUME IInv, Activate
    PROVE  Good
<1>1. At("activate")
  BY DEF Activate
<1>2. PICK r \in IF command.launch THEN Launch(world) ELSE SystemdEnable(world) :
         /\ Fault(r.faults) /\ world' = r.world /\ missed' = (missed \/ r.missed)
         /\ UNCHANGED <<platform, config, wizard>>
         /\ IF r.ok THEN Finish("done")
            ELSE IF command.op = "install"
            THEN Set([command EXCEPT !.step = "undoHalt", !.activated = TRUE])
            ELSE Finish("failed")
  BY DEF Activate, Try
<1>3. /\ command # None /\ command \in Commands /\ command.step = "activate"
      /\ command.exe \in Exes /\ command.found \in Worlds /\ command.launch \in BOOLEAN
      /\ Sound(command.found)
      /\ platform \in Platforms /\ world \in Worlds /\ Sound(world)
      /\ faults \in 0..MaxFaults /\ missed \in BOOLEAN
      /\ StepFits(command) /\ InstallFits(command, world)
  BY <1>1, AtAStep
<1>4. command.op \in {"install", "enable"} /\ (~Linux => command.launch)
  <2>1. command.op \in {"install", "enable"} /\ (command.op = "enable" => command.launch)
    BY <1>3 DEF StepFits
  <2>2. command.op = "install" => (~Linux => command.launch)
    BY <1>3 DEF InstallFits
  <2>3. QED
    BY <2>1, <2>2
<1>5. Keeps(r, world)
  <2>1. CASE command.launch
    BY <1>2, <1>3, <2>1, Launches
  <2>2. CASE ~command.launch
    BY <1>2, <1>3, <1>4, <2>2, Systemd, SystemIs
  <2>3. QED
    BY <2>1, <2>2
<1>6. /\ world' \in Worlds /\ Sound(world') /\ world'.definition = world.definition
      /\ faults' \in 0..MaxFaults /\ Recalls /\ RemovesStopped
  BY <1>2, <1>3, <1>5, Faulted, Recalled, KeptIsNotRemoved DEF Keeps, SameDefinition
<1>7. command.step \in Operating \ {"status"}
  BY <1>3 DEF Operating, Changing
<1>8. ASSUME NEW outcome \in {"done", "failed"}, Finish(outcome),
             outcome = "failed" => command.op = "enable"
      PROVE  Good
  <2>1. command.op = "install" => world.definition = command.exe
    BY <1>3 DEF InstallFits
  <2>2. Ended(outcome)
    BY <1>4, <1>6, <1>8, <2>1 DEF Ended
  <2>3. QED
    BY <1>2, <1>3, <1>6, <1>7, <1>8, <2>2, FinishIsGood DEF Outcomes
<1>9. CASE ~r.ok /\ command.op = "install"
  <2> DEFINE c == [command EXCEPT !.step = "undoHalt", !.activated = TRUE]
  <2>1. Set(c)
    BY <1>2, <1>9
  <2>2. /\ SameAim(c) /\ c.reading = command.reading /\ c.misread = command.misread
        /\ c.step = "undoHalt" /\ c.activated
        /\ c.halted = command.halted /\ c.incomplete = command.incomplete
    BY <1>3, StepActivated DEF Steps
  <2> HIDE DEF c
  <2>3. /\ world.definition = command.exe /\ command.halted /\ ~command.incomplete
    BY <1>3, <1>9 DEF InstallFits, Changing
  <2>4. /\ c.op = "install" /\ c.caller = command.caller /\ c.found = command.found
        /\ c.exe = command.exe /\ c.launch = command.launch /\ c.force = command.force
        /\ c.caller \in {"cli", "all", "setup", "compensation"}
    BY <1>3, <1>9, <2>2 DEF SameAim, Same, Commands
  <2>5. StepFits(c)
    BY <1>3, <1>9, <2>2, <2>4 DEF StepFits, Undoing, Stopping
  <2>6. RollbackFits(c, world')
    BY <1>4, <1>6, <2>2, <2>3, <2>4 DEF RollbackFits
  <2>7. InstallFits(c, world') /\ UninstallFits(c, world')
    BY <2>2, <2>4 DEF InstallFits, UninstallFits, Changing
  <2>8. QED
    BY <1>2, <1>3, <1>6, <1>7, <2>1, <2>2, <2>5, <2>6, <2>7, Proceeds DEF Operating, Undoing
<1>10. QED
  BY <1>2, <1>4, <1>8, <1>9

LEMMA HaltIsGood ==
    ASSUME IInv, Halt
    PROVE  Good
<1>1. At("halt")
  BY DEF Halt
<1>2. PICK r \in Stop(world) \cup (IF Linux /\ command.op = "uninstall" /\ Unloaded(world) = world
                                   THEN Succeeds(world) ELSE {}) :
         /\ Fault(r.faults) /\ world' = r.world /\ missed' = (missed \/ r.missed)
         /\ UNCHANGED <<platform, config, wizard>>
         /\ IF ~r.ok THEN Finish("failed")
            ELSE IF command.op = "uninstall" THEN To("remove") ELSE Finish("done")
  BY DEF Halt, Try
<1>3. /\ command # None /\ command \in Commands /\ command.step = "halt"
      /\ platform \in Platforms /\ world \in Worlds /\ Sound(world)
      /\ faults \in 0..MaxFaults /\ missed \in BOOLEAN
      /\ StepFits(command)
  BY <1>1, AtAStep
<1>4. command.op \in {"uninstall", "disable"}
  BY <1>3 DEF StepFits
<1>5. Keeps(r, world) /\ (r.ok => r.world.proc = None)
  <2>1. CASE r \in Stop(world)
    BY <1>3, <2>1, Stops
  <2>2. CASE r \in Succeeds(world) /\ Unloaded(world) = world
    <3>1. r.ok \in BOOLEAN /\ r.world = world /\ r.faults \in Nat
      <4>1. r = [ok |-> TRUE, world |-> world, faults |-> 0, missed |-> FALSE]
        BY <2>2 DEF Succeeds
      <4>2. QED
        BY <4>1
    <3>2. world.proc = None
      BY <1>3, <2>2, Changes
    <3>3. QED
      BY <1>3, <3>1, <3>2 DEF Keeps, SameDefinition
  <2>3. QED
    BY <1>2, <2>1, <2>2
<1>6. /\ world' \in Worlds /\ Sound(world') /\ world'.definition = world.definition
      /\ faults' \in 0..MaxFaults /\ Recalls /\ RemovesStopped
  BY <1>2, <1>3, <1>5, Faulted, Recalled, KeptIsNotRemoved DEF Keeps, SameDefinition
<1>7. command.step \in Operating \ {"status"}
  BY <1>3 DEF Operating
<1>8. ASSUME NEW outcome \in {"done", "failed"}, Finish(outcome),
             outcome = "done" => command.op = "disable"
      PROVE  Good
  <2>1. Ended(outcome)
    BY <1>4, <1>8 DEF Ended
  <2>2. QED
    BY <1>2, <1>3, <1>6, <1>7, <1>8, <2>1, FinishIsGood DEF Outcomes
<1>9. CASE r.ok /\ command.op = "uninstall"
  <2> DEFINE c == [command EXCEPT !.step = "remove"]
  <2>1. Set(c)
    BY <1>2, <1>9 DEF To
  <2>2. SameAim(c) /\ SameNotes(c) /\ c.step = "remove"
    BY <1>3, StepTo DEF Steps
  <2> HIDE DEF c
  <2>3. c.op = "uninstall" /\ c.caller = command.caller /\ c.force = command.force
    BY <1>9, <2>2 DEF SameAim, Same
  <2>4. StepFits(c)
    BY <1>3, <1>9, <2>2, <2>3 DEF StepFits, Undoing, Stopping
  <2>5. UninstallFits(c, world')
    BY <1>2, <1>5, <1>9, <2>2 DEF UninstallFits
  <2>6. InstallFits(c, world') /\ RollbackFits(c, world')
    BY <2>2, <2>3 DEF RollbackFits, InstallFits
  <2>7. QED
    BY <1>2, <1>3, <1>6, <1>7, <2>1, <2>2, <2>4, <2>5, <2>6, Proceeds DEF SameNotes, Operating
<1>10. QED
  BY <1>2, <1>4, <1>8, <1>9, <1>5 DEF Keeps

LEMMA ChangeIsGood ==
    ASSUME IInv, Change
    PROVE  Good
<1>1. At("change")
  BY DEF Change
<1>2. PICK r \in OrGone(TaskChange(world, command.op = "enable")) :
         /\ Fault(r.faults) /\ world' = r.world /\ missed' = (missed \/ r.missed)
         /\ UNCHANGED <<platform, config, wizard>>
         /\ IF ~r.ok THEN Finish("failed")
            ELSE IF r.missed THEN Finish("done")
            ELSE To(IF command.op = "enable" THEN "activate" ELSE "halt")
  BY DEF Change, Try
<1>3. /\ command # None /\ command \in Commands /\ command.step = "change"
      /\ platform \in Platforms /\ world \in Worlds /\ Sound(world)
      /\ faults \in 0..MaxFaults /\ missed \in BOOLEAN
      /\ StepFits(command)
  BY <1>1, AtAStep
<1>4. Windows /\ command.op \in {"disable", "enable"}
  BY <1>3 DEF StepFits
<1>5. Keeps(r, world)
  <2>1. (command.op = "enable") \in BOOLEAN
    OBVIOUS
  <2>2. QED
    BY <1>2, <1>3, <1>4, <2>1, Tasks
<1>6. /\ world' \in Worlds /\ Sound(world') /\ world'.definition = world.definition
      /\ faults' \in 0..MaxFaults /\ Recalls /\ RemovesStopped
  BY <1>2, <1>3, <1>5, Faulted, Recalled, KeptIsNotRemoved DEF Keeps, SameDefinition
<1>7. command.step \in Operating \ {"status"}
  BY <1>3 DEF Operating
<1>8. ASSUME NEW outcome \in {"failed", "done"}, Finish(outcome)
      PROVE  Good
  <2>1. Ended(outcome)
    BY <1>4, <1>8 DEF Ended
  <2>2. QED
    BY <1>2, <1>3, <1>6, <1>7, <1>8, <2>1, FinishIsGood DEF Outcomes
<1>9. CASE r.ok /\ ~r.missed
  <2>1. PICK s \in {"activate", "halt"} :
           To(s) /\ command.op = IF s = "activate" THEN "enable" ELSE "disable"
    BY <1>2, <1>4, <1>9
  <2> DEFINE c == [command EXCEPT !.step = s]
  <2>2. Set(c)
    BY <2>1 DEF To
  <2>3. SameAim(c) /\ SameNotes(c) /\ c.step = s
    BY <1>3, StepTo DEF Steps
  <2> HIDE DEF c
  <2>4. /\ c.op = command.op /\ c.caller = command.caller /\ c.force = command.force
        /\ c.launch = command.launch
    BY <2>3 DEF SameAim, Same
  <2>5. StepFits(c)
    BY <1>3, <1>4, <2>1, <2>3, <2>4 DEF StepFits, Undoing, Stopping
  <2>6. InstallFits(c, world') /\ RollbackFits(c, world') /\ UninstallFits(c, world')
    BY <1>4, <2>3, <2>4 DEF RollbackFits, InstallFits, UninstallFits
  <2>7. QED
    BY <1>2, <1>3, <1>6, <1>7, <2>2, <2>3, <2>5, <2>6, Proceeds DEF SameNotes, Operating, Changing
<1>10. QED
  BY <1>2, <1>8, <1>9

LEMMA RemoveIsGood ==
    ASSUME IInv, Remove
    PROVE  Good
<1>1. At("remove")
  BY DEF Remove
<1>2. PICK r \in IF Windows THEN OrGone(TaskDelete(world)) ELSE WriteDefinition(world, None) :
         /\ Fault(r.faults) /\ world' = r.world /\ missed' = (missed \/ r.missed)
         /\ UNCHANGED <<platform, config, wizard>>
         /\ IF ~r.ok THEN Finish("failed")
            ELSE IF Linux THEN To("reload") ELSE Finish("done")
  BY DEF Remove, Try
<1>3. /\ command # None /\ command \in Commands /\ command.step = "remove"
      /\ platform \in Platforms /\ world \in Worlds /\ Sound(world)
      /\ faults \in 0..MaxFaults /\ missed \in BOOLEAN
      /\ StepFits(command) /\ UninstallFits(command, world)
  BY <1>1, AtAStep
<1>4. command.op = "uninstall" /\ world.proc = None
  BY <1>3 DEF StepFits, UninstallFits
<1>5. /\ r.ok \in BOOLEAN /\ r.faults \in Nat
      /\ r.world \in Worlds /\ Sound(r.world) /\ r.world.proc = None
      /\ r.ok => r.world.definition = None \/ (Windows /\ r.missed)
  <2>1. CASE Windows
    <3>1. \A q \in TaskDelete(world) :
             /\ IsResult(q) /\ q.ok \in BOOLEAN /\ q.faults \in Nat
             /\ q.world \in Worlds /\ Sound(q.world) /\ q.world.proc = None
             /\ q.ok => q.world.definition = None
      BY <1>3, <1>4, <2>1, Tasks DEF Running
    <3>2. r \in OrGone(TaskDelete(world))
      BY <1>2, <2>1
    <3>3. PICK q \in TaskDelete(world) :
             /\ r.ok \in BOOLEAN /\ r.faults \in Nat /\ r.world = q.world
             /\ r.ok => q.ok \/ r.world.definition = None \/ r.missed
      BY <3>1, <3>2, GoneParts
    <3>4. QED
      BY <2>1, <3>1, <3>3
  <2>2. CASE ~Windows
    BY <1>2, <1>3, <1>4, <2>2, Writes DEF SameDaemon
  <2>3. QED
    BY <2>1, <2>2
<1>6. /\ world' \in Worlds /\ Sound(world') /\ faults' \in 0..MaxFaults /\ RemovesStopped
      /\ Recalls /\ (r.missed => missed')
  BY <1>2, <1>3, <1>4, <1>5, Faulted, Recalled DEF RemovesStopped
<1>7. command.step \in Operating \ {"status"}
  BY <1>3 DEF Operating
<1>8. ASSUME NEW outcome \in {"done", "failed"}, Finish(outcome),
             outcome = "done" => world'.definition = None \/ missed'
      PROVE  Good
  <2>1. Ended(outcome)
    BY <1>4, <1>8 DEF Ended
  <2>2. QED
    BY <1>2, <1>3, <1>6, <1>7, <1>8, <2>1, FinishIsGood DEF Outcomes
<1>9. CASE Linux /\ r.ok
  <2> DEFINE c == [command EXCEPT !.step = "reload"]
  <2>1. Set(c)
    BY <1>2, <1>9 DEF To
  <2>2. SameAim(c) /\ SameNotes(c) /\ c.step = "reload"
    BY <1>3, StepTo DEF Steps
  <2> HIDE DEF c
  <2>3. c.op = "uninstall" /\ c.caller = command.caller /\ c.force = command.force
    BY <1>4, <2>2 DEF SameAim, Same
  <2>4. StepFits(c)
    BY <1>3, <1>9, <2>2, <2>3 DEF StepFits, Undoing, Stopping
  <2>5. UninstallFits(c, world')
    BY <1>2, <1>3, <1>5, <1>9, <2>2, SystemIs DEF UninstallFits
  <2>6. InstallFits(c, world') /\ RollbackFits(c, world')
    BY <2>2, <2>3 DEF RollbackFits, InstallFits
  <2>7. QED
    BY <1>2, <1>3, <1>6, <1>7, <2>1, <2>2, <2>4, <2>5, <2>6, Proceeds DEF SameNotes, Operating, Changing
<1>10. QED
  BY <1>2, <1>3, <1>5, <1>6, <1>8, <1>9, SystemIs

-----------------------------------------------------------------------------
(* The steps of a rollback.                                                  *)

LEMMA UndoHaltIsGood ==
    ASSUME IInv, UndoHalt
    PROVE  Good
<1>1. At("undoHalt")
  BY DEF UndoHalt
<1>2. /\ command # None /\ command \in Commands /\ command.step = "undoHalt"
      /\ platform \in Platforms /\ world \in Worlds /\ Sound(world)
      /\ faults \in 0..MaxFaults /\ missed \in BOOLEAN
      /\ StepFits(command) /\ RollbackFits(command, world)
  BY <1>1, AtAStep
<1>3. /\ command.op = "install" /\ command.caller \in {"cli", "setup"}
      /\ command.activated /\ world.definition = command.exe /\ (~Linux => command.launch)
  BY <1>2 DEF StepFits, RollbackFits, Undoing
<1>4. command.step \in Operating \ {"status"}
  BY <1>2 DEF Operating, Undoing
<1>5. CASE Windows /\ Had /\ command.reading.active = "unknown"
  <2>1. Finish("unrestored") /\ UNCHANGED <<platform, world, config, wizard, faults, missed>>
    BY <1>5 DEF UndoHalt
  <2>2. Ended("unrestored")
    BY <1>2, <1>3, <2>1 DEF Ended
  <2>3. QED
    BY <1>2, <1>4, <2>1, <2>2, FinishIsGood, KeptIsNotRemoved DEF Outcomes, Recalls
<1>6. CASE ~(Windows /\ Had /\ command.reading.active = "unknown")
  <2>1. PICK r \in IF Windows THEN TaskHalt(world) ELSE Stop(world) :
           /\ Fault(r.faults) /\ world' = r.world /\ missed' = (missed \/ r.missed)
           /\ UNCHANGED <<platform, config, wizard>>
           /\ Set([command EXCEPT !.step = "undoWrite", !.halted = r.ok, !.incomplete = ~r.ok])
    BY <1>6 DEF UndoHalt, Try
  <2>2. /\ Keeps(r, world)
        /\ Linux /\ r.ok => r.world.proc = None /\ ~r.world.login
        /\ Darwin /\ r.ok => r.world.proc = None /\ r.world.unit = None
        /\ Windows /\ r.ok => ~Running(r.world)
    <3>1. CASE Windows
      BY <1>2, <2>1, <3>1, Tasks, SystemIs
    <3>2. CASE ~Windows
      BY <1>2, <2>1, <3>2, Stops
    <3>3. QED
      BY <3>1, <3>2
  <2>3. /\ world' \in Worlds /\ Sound(world') /\ world'.definition = world.definition
        /\ faults' \in 0..MaxFaults /\ Recalls /\ RemovesStopped
    BY <1>2, <2>1, <2>2, Faulted, Recalled, KeptIsNotRemoved DEF Keeps, SameDefinition
  <2> DEFINE halted == r.ok
             c == [command EXCEPT !.step = "undoWrite", !.halted = halted, !.incomplete = ~halted]
  <2>4. Set(c) /\ halted \in BOOLEAN
    BY <2>1, <2>2 DEF Keeps
  <2>5. halted => r.ok
    OBVIOUS
  <2> HIDE DEF halted
  <2>6. SameAim(c) /\ SameNotes(c) /\ c.step = "undoWrite" /\ c.halted = halted
        /\ c.incomplete = ~halted
    BY <1>2, <2>4, StepHalted DEF Steps
  <2> HIDE DEF c
  <2>7. /\ c.op = "install" /\ c.caller = command.caller /\ c.found = command.found
        /\ c.exe = command.exe /\ c.launch = command.launch /\ c.force = command.force
        /\ c.activated = command.activated /\ c.reading = command.reading
    BY <1>3, <2>6 DEF SameAim, Same, SameNotes
  <2>8. StepFits(c)
    BY <1>2, <1>3, <2>6, <2>7 DEF StepFits, Undoing, Stopping
  <2>9. RollbackFits(c, world')
    <3>1. /\ world'.definition = c.exe /\ c.incomplete = ~c.halted
          /\ ~Linux => c.activated /\ c.launch
          /\ c.activated
      BY <1>3, <2>3, <2>4, <2>6, <2>7
    <3>2. c.halted =>
              /\ Linux => world'.proc = None /\ ~world'.login
              /\ Darwin => world'.proc = None /\ world'.unit = None
              /\ Windows => ~Running(world')
      BY <2>1, <2>2, <2>5, <2>6
    <3>3. Windows /\ (c.reading.installed \/ c.reading.foreign) => c.reading.active # "unknown"
      BY <1>6, <2>7 DEF Had
    <3>4. QED
      BY <2>6, <3>1, <3>2, <3>3 DEF RollbackFits
  <2>10. InstallFits(c, world') /\ UninstallFits(c, world')
    BY <2>6, <2>7 DEF InstallFits, UninstallFits, Changing
  <2>11. QED
    BY <1>2, <1>4, <2>1, <2>3, <2>4, <2>6, <2>8, <2>9, <2>10, Proceeds DEF SameNotes, Operating, Undoing
<1>7. QED
  BY <1>5, <1>6

\* A rollback that goes on with step, or ends.
LEMMA UndoingIsGood ==
    ASSUME IInv, command # None, command.step \in Undoing, NEW step, NEW incomplete \in BOOLEAN,
           UndoTo(step, incomplete), step \in Undoing \cup {"end"},
           UNCHANGED <<platform, config, wizard>>,
           world' \in Worlds, Sound(world'), faults' \in 0..MaxFaults, Recalls, RemovesStopped,
           step \in {"undoReload", "undoEnable"} => Linux,
           missed' \/ world'.definition \in {command.found.definition, command.exe, Garbled},
           step = "end" /\ ~incomplete => Restores,
           step # "end" =>
               LET c == [command EXCEPT !.step = step, !.incomplete = incomplete]
               IN  SameAim(c) /\ SameNotes(c) /\ c.step = step /\ c.halted = command.halted
                   /\ c.incomplete = incomplete => RollbackFits(c, world')
    PROVE  Good
<1>1. command \in Commands /\ StepFits(command)
  BY DEF IInv, TypeOK, Fits
<1>2. command.op = "install" /\ command.caller \in {"cli", "setup"}
  BY <1>1 DEF StepFits
<1>3. command.step \in Operating \ {"status"}
  BY DEF Operating, Undoing
<1>4. CASE step = "end"
  <2> DEFINE outcome == IF incomplete THEN "unrestored" ELSE "restored"
  <2>1. Finish(outcome)
    BY <1>4 DEF UndoTo
  <2>2. outcome \in Outcomes \ {"done", "absent"} /\ (outcome = "restored" => ~incomplete)
    BY DEF Outcomes
  <2> HIDE DEF outcome
  <2>3. command.step # "status"
    BY DEF Undoing
  <2>4. Ended(outcome)
    BY <1>4, <2>2, <2>3 DEF Ended
  <2>5. QED
    BY <1>3, <2>1, <2>2, <2>4, FinishIsGood
<1>5. CASE step # "end"
  <2> DEFINE c == [command EXCEPT !.step = step, !.incomplete = incomplete]
  <2>1. Set(c) /\ step \in Undoing
    BY <1>5 DEF UndoTo
  <2>2. SameAim(c) /\ SameNotes(c) /\ c.step = step /\ c.halted = command.halted
        /\ c.incomplete = incomplete
    <3>1. step \in Steps
      BY <2>1 DEF Steps, Undoing
    <3>2. QED
      BY <1>1, <3>1, StepIncomplete
  <2>3. RollbackFits(c, world')
    BY <1>5, <2>2
  <2> HIDE DEF c
  <2>4. c.op = "install" /\ c.caller = command.caller /\ c.force = command.force
    BY <1>2, <2>2 DEF SameAim, Same
  <2>5. StepFits(c)
    BY <1>1, <1>2, <2>1, <2>2, <2>4 DEF StepFits, Undoing, Stopping
  <2>6. InstallFits(c, world') /\ UninstallFits(c, world')
    BY <2>1, <2>2, <2>4 DEF InstallFits, UninstallFits, Changing, Undoing
  <2>7. QED
    BY <1>3, <2>1, <2>2, <2>3, <2>5, <2>6, Proceeds DEF SameNotes, Operating
<1>6. QED
  BY <1>4, <1>5

LEMMA UndoWriteIsGood ==
    ASSUME IInv, UndoWrite
    PROVE  Good
<1>1. At("undoWrite")
  BY DEF UndoWrite
<1>2. /\ command # None /\ command \in Commands /\ command.step = "undoWrite"
      /\ command.exe \in Exes /\ command.found \in Worlds /\ Sound(command.found)
      /\ platform \in Platforms /\ world \in Worlds /\ Sound(world)
      /\ faults \in 0..MaxFaults /\ missed \in BOOLEAN
      /\ StepFits(command) /\ ReadingFits(command, missed) /\ RollbackFits(command, world)
  BY <1>1, AtAStep
<1>3. command.op = "install" /\ command.caller \in {"cli", "setup"}
  BY <1>2 DEF StepFits, Undoing
<1>4. /\ world.definition = command.exe /\ command.incomplete = ~command.halted
      /\ ~Linux => command.activated /\ command.launch
      /\ ~command.activated => /\ command.halted /\ SameDaemon(world, command.found)
                               /\ world.login = command.found.login
      /\ command.activated /\ command.halted =>
           /\ Linux => world.proc = None /\ ~world.login
           /\ Darwin => world.proc = None /\ world.unit = None
           /\ Windows => ~Running(world)
      /\ Windows /\ (command.reading.installed \/ command.reading.foreign) =>
           command.reading.active # "unknown"
  BY <1>2 DEF RollbackFits
<1>5. /\ ReadingOf(command.reading, command.found, command.exe)
      /\ Misses(command.found, command.reading) => Windows /\ missed
      /\ Windows /\ command.launch /\ (command.reading.installed \/ command.reading.foreign) =>
           /\ command.reading.active \in {Known(Running(command.found)), "unknown"}
           /\ command.found.definition = None => command.reading.active = "unknown"
  BY <1>2, <1>3 DEF ReadingFits, Undoing
<1>6. command.step \in Operating \ {"status"} /\ command.step \in Undoing
      /\ command.halted \in BOOLEAN /\ command.incomplete \in BOOLEAN
  BY <1>2 DEF Operating, Undoing, Commands
<1>7. CASE Darwin /\ ~command.halted /\ ~Had
  <2>1. Finish("unrestored") /\ UNCHANGED <<platform, world, config, wizard, faults, missed>>
    BY <1>7 DEF UndoWrite
  <2>2. Ended("unrestored")
    BY <1>2, <1>4, <2>1 DEF Ended
  <2>3. QED
    BY <1>2, <1>6, <2>1, <2>2, FinishIsGood, KeptIsNotRemoved DEF Outcomes, Recalls
<1>8. CASE ~(Darwin /\ ~command.halted /\ ~Had)
  <2>1. PICK r \in IF ~Windows THEN WriteDefinition(world, command.found.definition)
                   ELSE IF Had THEN TaskCreate(world, command.found.definition, command.found.login)
                   ELSE TaskDelete(world) :
           /\ Fault(r.faults) /\ world' = r.world /\ missed' = (missed \/ r.missed)
           /\ UNCHANGED <<platform, config, wizard>>
           /\ AfterUndoWrite(r.ok)
    BY <1>8 DEF UndoWrite, Try
  <2>2. command.found.definition \in Exes \cup {None, Garbled} /\ command.found.login \in BOOLEAN
    BY <1>2, WorldParts
  <2>h. Windows /\ Had => command.found.definition \in Exes
    BY <1>2, <1>4, <1>5, <2>2, SystemIs DEF Had, Sound
  <2>n. Windows /\ ~Had => command.found.definition = None \/ missed
    BY <1>5 DEF Had, Misses
  <2>3. /\ r.ok \in BOOLEAN /\ r.faults \in Nat
        /\ r.world \in Worlds /\ Sound(r.world)
        /\ ~Windows => /\ SameDaemon(r.world, world) /\ r.world.unit = world.unit
                       /\ r.world.login = world.login
        /\ Windows /\ ~Running(world) => ~Running(r.world)
        /\ Windows /\ r.ok /\ Had => r.world.login = command.found.login
        /\ r.ok => r.world.definition = command.found.definition \/ (Windows /\ ~Had /\ missed)
        /\ missed \/ r.world.definition \in {world.definition, command.found.definition, Garbled}
        /\ Windows /\ ~Running(world) /\ r.world.definition = None => r.world.proc = None
    <3>1. CASE ~Windows
      <4>1. r \in WriteDefinition(world, command.found.definition)
        BY <2>1, <3>1
      <4>2. QED
        BY <1>2, <2>2, <3>1, <4>1, Writes
    <3>2. CASE Windows /\ Had
      <4>1. r \in TaskCreate(world, command.found.definition, command.found.login)
        BY <2>1, <3>2
      <4>2. world.definition # None
        BY <1>2, <1>4, NamesDiffer
      <4>3. /\ r.ok \in BOOLEAN /\ r.faults \in Nat
            /\ r.world \in Worlds /\ SameDaemon(r.world, world) /\ Sound(r.world)
            /\ r.world.definition \in {world.definition, command.found.definition}
            /\ r.ok => /\ r.world.definition = command.found.definition
                       /\ r.world.login = command.found.login
        <5>1. \A d \in Exes, on \in BOOLEAN : \A q \in TaskCreate(world, d, on) :
                 /\ q.ok \in BOOLEAN /\ q.faults \in Nat
                 /\ q.world \in Worlds /\ Sound(q.world)
                 /\ world.definition # None => SameDaemon(q.world, world)
                 /\ q.world.definition \in {world.definition, d}
                 /\ q.ok => q.world.definition = d /\ q.world.login = on
          BY <1>2, <3>2, Tasks
        <5>2. QED
          BY <2>2, <2>h, <3>2, <4>1, <4>2, <5>1
      <4>4. QED
        BY <2>h, <3>2, <4>2, <4>3, NamesDiffer DEF SameDaemon, Running
    <3>3. CASE Windows /\ ~Had
      <4>1. r \in TaskDelete(world)
        BY <2>1, <3>3
      <4>2. /\ r.ok \in BOOLEAN /\ r.faults \in Nat
            /\ r.world \in Worlds /\ Sound(r.world)
            /\ r.world.definition \in {world.definition, None}
            /\ r.ok => r.world.definition = None
            /\ ~Running(world) /\ r.world # world => r.world.proc = None
        BY <1>2, <3>3, <4>1, Tasks, Zenon
      <4>3. world.definition # None
        BY <1>2, <1>4, NamesDiffer
      <4>4. QED
        BY <2>n, <3>3, <4>2, <4>3 DEF Running
    <3>4. QED
      BY <3>1, <3>2, <3>3
  <2>4. world' \in Worlds /\ Sound(world') /\ faults' \in 0..MaxFaults /\ Recalls
    BY <1>2, <2>1, <2>3, Faulted, Recalled
  <2>5. RemovesStopped
    <3>1. CASE command.activated /\ command.halted
      <4>1. world'.definition = None => world'.proc = None
        BY <1>2, <1>4, <2>1, <2>3, <3>1, SystemIs DEF SameDaemon
      <4>2. QED
        BY <4>1 DEF RemovesStopped
    <3>2. CASE ~command.activated
      BY <1>3, <3>2 DEF RemovesStopped
    <3>3. CASE ~command.halted
      BY <1>4, <3>3 DEF RemovesStopped
    <3>4. QED
      BY <3>1, <3>2, <3>3
  <2> DEFINE incomplete == command.incomplete \/ ~r.ok
                           \/ (Darwin /\ Had /\ command.reading.active = "unknown")
             starts == \/ Darwin /\ r.ok /\ command.halted /\ Had /\ WasOn("active")
                       \/ Windows /\ ~incomplete /\ Had /\ WasOn("active")
             step == CASE Linux /\ r.ok -> "undoReload"
                       [] Darwin /\ r.ok /\ command.halted /\ Had /\ WasOn("active") -> "undoStart"
                       [] Windows /\ ~incomplete /\ Had /\ WasOn("active") -> "undoStart"
                       [] OTHER -> "end"
  <2>6. UndoTo(step, incomplete) /\ incomplete \in BOOLEAN
    BY <2>1 DEF AfterUndoWrite
  <2>7. step = IF Linux /\ r.ok THEN "undoReload" ELSE IF starts THEN "undoStart" ELSE "end"
    <3> HIDE DEF incomplete
    <3>1. CASE Linux /\ r.ok
      BY <1>2, <3>1, SystemIs
    <3>2. CASE Darwin /\ r.ok /\ command.halted /\ Had /\ WasOn("active")
      BY <1>2, <3>2, SystemIs
    <3>3. CASE Windows /\ ~incomplete /\ Had /\ WasOn("active")
      BY <1>2, <3>3, SystemIs
    <3>4. CASE ~(Linux /\ r.ok) /\ ~starts
      BY <3>4, Zenon
    <3>5. QED
      BY <3>1, <3>2, <3>3, <3>4
  <2> HIDE DEF step
  <2>8. ASSUME step = "end", ~incomplete
        PROVE  Restores
    <3> SUFFICES ASSUME ~missed' PROVE Restores
      BY DEF Restores
    <3>0. ~missed
      BY <2>4 DEF Recalls
    <3>1. r.ok /\ command.halted /\ ~Linux /\ ~starts /\ command.activated /\ command.launch
      BY <1>4, <1>6, <2>7, <2>8
    <3>2. ~Running(world')
      BY <1>2, <1>4, <2>1, <2>3, <3>1, SystemIs DEF SameDaemon, Running
    <3>3. world'.definition = command.found.definition
          /\ (Windows /\ Had => world'.login = command.found.login)
      BY <2>1, <2>3, <3>0, <3>1
    <3>4. Had /\ (~command.reading.foreign \/ Windows) => ~Running(command.found)
      <4>1. CASE Darwin
        BY <1>2, <1>5, <2>8, <3>0, <3>1, <4>1, SystemIs
           DEF WasOn, ReadingOf, Known, Sound, Running
      <4>2. CASE Windows
        BY <1>4, <1>5, <2>8, <3>1, <4>2 DEF WasOn, Known, Had
      <4>3. QED
        BY <1>2, <3>1, <4>1, <4>2, SystemIs
    <3>5. QED
      BY <1>2, <2>n, <3>0, <3>1, <3>2, <3>3, <3>4, SystemIs DEF Restores, Had
  <2>9. ASSUME NEW c, SameAim(c), SameNotes(c), c.step = step, step # "end",
               c.halted = command.halted, c.incomplete = incomplete
        PROVE  RollbackFits(c, world')
    <3>1. /\ c.found = command.found /\ c.launch = command.launch
          /\ c.activated = command.activated /\ c.reading = command.reading
      BY <2>9 DEF SameAim, Same, SameNotes
    <3>2. CASE step = "undoReload"
      <4>1. Linux /\ r.ok
        BY <2>7, <3>2
      <4>2. world'.definition = c.found.definition
        BY <1>2, <2>1, <2>3, <3>1, <4>1, SystemIs
      <4>3. ~c.halted => c.incomplete
        BY <1>4, <2>9
      <4>4. ~c.activated => c.halted /\ SameDaemon(world', c.found) /\ world'.login = c.found.login
        BY <1>2, <1>4, <2>1, <2>3, <2>9, <3>1, <4>1, SystemIs DEF SameDaemon
      <4>5. c.activated /\ c.halted => world'.proc = None /\ ~world'.login
        BY <1>2, <1>4, <2>1, <2>3, <2>9, <3>1, <4>1, SystemIs DEF SameDaemon
      <4>6. QED
        BY <2>9, <3>2, <4>2, <4>3, <4>4, <4>5 DEF RollbackFits
    <3>3. CASE step = "undoStart"
      <4>1. starts /\ ~Linux
        BY <1>2, <2>7, <3>3, SystemIs
      <4>2. r.ok /\ command.halted /\ Had /\ WasOn("active") /\ command.activated /\ command.launch
        BY <1>4, <1>6, <4>1
      <4>3. Darwin => world'.proc = None /\ world'.unit = None
        BY <1>2, <1>4, <2>1, <2>3, <4>2, SystemIs DEF SameDaemon
      <4>4. Windows => ~Running(world') /\ world'.login = c.found.login
        BY <1>4, <2>1, <2>3, <3>1, <4>2
      <4>5. world'.definition = c.found.definition /\ c.found.definition # None
        BY <1>2, <2>1, <2>3, <2>h, <3>1, <4>1, <4>2, NamesDiffer, SystemIs DEF Had
      <4>6. QED
        BY <2>9, <3>1, <3>3, <4>1, <4>2, <4>3, <4>4, <4>5 DEF RollbackFits, WasOn
    <3>4. QED
      BY <2>7, <2>9, <3>2, <3>3
  <2>10. /\ step \in Undoing \cup {"end"} /\ (step \in {"undoReload", "undoEnable"} => Linux)
         /\ missed' \/ world'.definition \in {command.found.definition, command.exe, Garbled}
    BY <1>4, <2>1, <2>3, <2>4, <2>7 DEF Recalls, Undoing
  <2> HIDE DEF incomplete
  <2>11. QED
    BY <1>2, <1>6, <2>1, <2>4, <2>5, <2>6, <2>8, <2>9, <2>10, UndoingIsGood
<1>9. QED
  BY <1>7, <1>8

LEMMA UndoReloadIsGood ==
    ASSUME IInv, UndoReload
    PROVE  Good
<1>1. At("undoReload")
  BY DEF UndoReload
<1>2. /\ command # None /\ command \in Commands /\ command.step = "undoReload"
      /\ command.found \in Worlds /\ Sound(command.found)
      /\ platform \in Platforms /\ world \in Worlds /\ Sound(world)
      /\ faults \in 0..MaxFaults /\ missed \in BOOLEAN
      /\ StepFits(command) /\ ReadingFits(command, missed) /\ RollbackFits(command, world)
  BY <1>1, AtAStep
<1>3. Linux /\ ~Darwin /\ ~Windows /\ command.op = "install"
  BY <1>2, SystemIs DEF StepFits, Undoing
<1>4. /\ world.definition = command.found.definition
      /\ ~command.halted => command.incomplete
      /\ ~command.activated => /\ command.halted /\ SameDaemon(world, command.found)
                               /\ world.login = command.found.login
      /\ command.activated /\ command.halted => world.proc = None /\ ~world.login
  BY <1>2 DEF RollbackFits
<1>5. /\ ReadingOf(command.reading, command.found, command.exe)
      /\ ~Misses(command.found, command.reading)
  BY <1>2, <1>3 DEF ReadingFits, Undoing
<1>6. /\ command.halted \in BOOLEAN /\ command.incomplete \in BOOLEAN
      /\ command.reading.login \in Aspects /\ command.reading.active \in Aspects
  BY <1>2 DEF Commands, Statuses
<1> DEFINE touched == command.activated /\ Had
           unknown == touched /\ "unknown" \in {command.reading.login, command.reading.active}
           step(ok) == IF ~touched \/ ~ok \/ ~command.halted THEN "end"
                       ELSE IF WasOn("login") THEN "undoEnable" ELSE AfterUndoEnable
<1>7. PICK r \in SystemdReload(world) :
         /\ Fault(r.faults) /\ world' = r.world /\ missed' = (missed \/ r.missed)
         /\ UNCHANGED <<platform, config, wizard>>
         /\ UndoTo(step(r.ok), command.incomplete \/ ~r.ok \/ unknown)
  BY DEF UndoReload, Try
<1>8. /\ Keeps(r, world) /\ SameDaemon(r.world, world) /\ r.world.login = world.login
      /\ r.ok => r.world.unit = world.definition
  BY <1>2, <1>3, <1>7, Systemd
<1>9. /\ world' \in Worlds /\ Sound(world') /\ world'.definition = world.definition
      /\ faults' \in 0..MaxFaults /\ Recalls /\ RemovesStopped
  BY <1>2, <1>7, <1>8, Faulted, Recalled, KeptIsNotRemoved DEF Keeps, SameDefinition
<1> DEFINE s == step(r.ok)
           incomplete == command.incomplete \/ ~r.ok \/ unknown
<1>10. UndoTo(s, incomplete) /\ incomplete \in BOOLEAN
  BY <1>7
<1>11. /\ s \in {"undoEnable", "undoStart", "end"}
       /\ s # "end" => touched /\ r.ok /\ command.halted
       /\ s = "undoEnable" => command.reading.login = "on"
       /\ s = "undoStart" => command.reading.active = "on" /\ command.reading.login # "on"
       /\ s = "end" => \/ ~touched \/ ~r.ok \/ ~command.halted
                       \/ command.reading.active # "on" /\ command.reading.login # "on"
  BY DEF AfterUndoEnable, WasOn
<1> HIDE DEF step
<1>12. ASSUME s = "end", ~incomplete
       PROVE  Restores
  <2>1. r.ok /\ command.halted
    BY <1>4, <1>12
  <2>2. world'.login = world.login /\ world'.definition = command.found.definition
        /\ SameDaemon(world', world)
    BY <1>4, <1>7, <1>8, <1>9
  <2>3. CASE ~command.activated
    BY <1>4, <2>2, <2>3 DEF Restores, SameDaemon, Running
  <2>4. CASE command.activated /\ ~Had
    BY <1>3, <1>4, <2>1, <2>2, <2>4 DEF Restores, SameDaemon, Running, Had
  <2>5. CASE command.activated /\ Had
    <3>1. command.reading.active = "off" /\ command.reading.login = "off"
      BY <1>6, <1>11, <1>12, <2>1, <2>5 DEF Aspects
    <3>2. ~command.reading.foreign => ~command.found.login /\ ~Running(command.found)
      BY <1>3, <1>5, <3>1 DEF ReadingOf, Known
    <3>3. command.found.login \in BOOLEAN /\ world'.login \in BOOLEAN
      BY <1>2, <1>9, WorldParts
    <3>4. world'.proc = None /\ ~world'.login
      BY <1>4, <2>1, <2>2, <2>5 DEF SameDaemon
    <3>5. QED
      BY <1>3, <2>2, <2>5, <3>2, <3>3, <3>4 DEF Restores, Running, Had
  <2>6. QED
    BY <2>3, <2>4, <2>5
<1>13. ASSUME NEW c, SameAim(c), SameNotes(c), c.step = s, s # "end",
              c.halted = command.halted, c.incomplete = incomplete
       PROVE  RollbackFits(c, world')
  <2>1. /\ c.found = command.found /\ c.launch = command.launch
        /\ c.activated = command.activated /\ c.reading = command.reading
    BY <1>13 DEF SameAim, Same, SameNotes
  <2>2. /\ command.activated /\ Had /\ r.ok /\ command.halted
        /\ c.found.definition # None
    BY <1>3, <1>11, <1>13, <2>1 DEF Had
  <2>3. /\ world'.definition = c.found.definition /\ world'.unit = c.found.definition
        /\ world'.proc = None /\ ~world'.login
    BY <1>4, <1>7, <1>8, <1>9, <2>1, <2>2 DEF SameDaemon
  <2>4. ~incomplete => command.reading.active # "unknown" /\ command.reading.login # "unknown"
    BY <2>2
  <2>5. CASE s = "undoEnable"
    BY <1>11, <1>13, <2>1, <2>2, <2>3, <2>4, <2>5 DEF RollbackFits
  <2>6. CASE s = "undoStart"
    <3>1. ~c.incomplete /\ ~c.reading.foreign => world'.login = c.found.login
      <4>1. SUFFICES ASSUME ~incomplete, ~command.reading.foreign
                     PROVE  world'.login = c.found.login
        BY <1>13, <2>1
      <4>2. command.reading.login = "off"
        BY <1>6, <1>11, <2>4, <2>6, <4>1 DEF Aspects
      <4>3. ~command.found.login
        BY <1>5, <4>1, <4>2 DEF ReadingOf, Known
      <4>4. command.found.login \in BOOLEAN /\ world'.login \in BOOLEAN
        BY <1>2, <1>9, WorldParts
      <4>5. QED
        BY <2>1, <2>3, <4>3, <4>4
    <3>2. QED
      BY <1>3, <1>11, <1>13, <2>1, <2>2, <2>3, <2>6, <3>1 DEF RollbackFits
  <2>7. QED
    BY <1>11, <1>13, <2>5, <2>6
<1>14. s \in Undoing \cup {"end"} /\ command.step \in Undoing
  BY <1>2, <1>11 DEF Undoing
<1> HIDE DEF s, incomplete
<1>15. QED
  BY <1>2, <1>3, <1>4, <1>7, <1>9, <1>10, <1>12, <1>13, <1>14, UndoingIsGood

LEMMA UndoEnableIsGood ==
    ASSUME IInv, UndoEnable
    PROVE  Good
<1>1. At("undoEnable")
  BY DEF UndoEnable
<1>2. /\ command # None /\ command \in Commands /\ command.step = "undoEnable"
      /\ command.found \in Worlds /\ Sound(command.found)
      /\ platform \in Platforms /\ world \in Worlds /\ Sound(world)
      /\ faults \in 0..MaxFaults /\ missed \in BOOLEAN
      /\ StepFits(command) /\ ReadingFits(command, missed) /\ RollbackFits(command, world)
  BY <1>1, AtAStep
<1>3. Linux /\ ~Darwin /\ ~Windows /\ command.op = "install"
  BY <1>2, SystemIs DEF StepFits, Undoing
<1>4. /\ world.definition = command.found.definition /\ world.unit = command.found.definition
      /\ world.proc = None
      /\ command.found.definition # None /\ command.reading.login = "on"
      /\ ~command.incomplete => command.reading.active # "unknown"
  BY <1>2 DEF RollbackFits
<1>5. /\ ReadingOf(command.reading, command.found, command.exe)
      /\ ~Misses(command.found, command.reading)
  BY <1>2, <1>3 DEF ReadingFits, Undoing
<1>6. /\ command.incomplete \in BOOLEAN /\ command.reading.active \in Aspects
      /\ command.found.login \in BOOLEAN
  BY <1>2, WorldParts DEF Commands, Statuses
<1>7. PICK r \in SystemdEnable(world) :
         /\ Fault(r.faults) /\ world' = r.world /\ missed' = (missed \/ r.missed)
         /\ UNCHANGED <<platform, config, wizard>>
         /\ UndoTo(AfterUndoEnable, command.incomplete \/ ~r.ok)
  BY DEF UndoEnable, Try
<1>8. /\ Keeps(r, world) /\ SameDaemon(r.world, world) /\ r.world.unit = world.unit
      /\ r.ok => r.world.login
  BY <1>2, <1>3, <1>7, Systemd
<1>9. /\ world' \in Worlds /\ Sound(world') /\ world'.definition = world.definition
      /\ faults' \in 0..MaxFaults /\ Recalls /\ RemovesStopped
  BY <1>2, <1>7, <1>8, Faulted, Recalled, KeptIsNotRemoved DEF Keeps, SameDefinition
<1> DEFINE s == AfterUndoEnable
           incomplete == command.incomplete \/ ~r.ok
<1>10. UndoTo(s, incomplete) /\ incomplete \in BOOLEAN
  BY <1>7
<1>11. s = IF command.reading.active = "on" THEN "undoStart" ELSE "end"
  BY DEF AfterUndoEnable, WasOn
<1> HIDE DEF s
<1>12. ~incomplete /\ ~command.reading.foreign => world'.login = command.found.login
  <2>1. ~command.reading.foreign => command.found.login
    BY <1>4, <1>5 DEF ReadingOf, Known
  <2>2. world'.login \in BOOLEAN
    BY <1>9, WorldParts
  <2>3. QED
    BY <1>6, <1>7, <1>8, <2>1, <2>2
<1>13. world'.proc = None
  BY <1>4, <1>7, <1>8 DEF SameDaemon
<1>14. ASSUME s = "end", ~incomplete
       PROVE  Restores
  <2>1. command.reading.active = "off"
    BY <1>4, <1>6, <1>11, <1>14 DEF Aspects
  <2>2. ~command.reading.foreign => ~Running(command.found)
    BY <1>3, <1>5, <2>1 DEF ReadingOf, Known
  <2>3. QED
    BY <1>3, <1>4, <1>9, <1>12, <1>13, <1>14, <2>2 DEF Restores, Running
<1>15. ASSUME NEW c, SameAim(c), SameNotes(c), c.step = s, s # "end",
              c.halted = command.halted, c.incomplete = incomplete
       PROVE  RollbackFits(c, world')
  <2>1. c.found = command.found /\ c.launch = command.launch /\ c.reading = command.reading
    BY <1>15 DEF SameAim, Same, SameNotes
  <2>2. world'.unit = world.unit /\ command.reading.active = "on" /\ s = "undoStart"
    BY <1>7, <1>8, <1>11, <1>15
  <2>3. QED
    BY <1>3, <1>4, <1>9, <1>12, <1>13, <1>15, <2>1, <2>2 DEF RollbackFits
<1>16. s \in Undoing \cup {"end"} /\ s # "undoReload" /\ command.step \in Undoing
  BY <1>2, <1>11 DEF Undoing
<1> HIDE DEF incomplete
<1>17. QED
  BY <1>2, <1>3, <1>4, <1>7, <1>9, <1>10, <1>14, <1>15, <1>16, UndoingIsGood

LEMMA UndoStartIsGood ==
    ASSUME IInv, UndoStart
    PROVE  Good
<1>1. At("undoStart")
  BY DEF UndoStart
<1>2. /\ command # None /\ command \in Commands /\ command.step = "undoStart"
      /\ command.found \in Worlds /\ Sound(command.found)
      /\ platform \in Platforms /\ world \in Worlds /\ Sound(world)
      /\ faults \in 0..MaxFaults /\ missed \in BOOLEAN
      /\ StepFits(command) /\ ReadingFits(command, missed) /\ RollbackFits(command, world)
  BY <1>1, AtAStep
<1>3. command.op = "install"
  BY <1>2 DEF StepFits, Undoing
<1>4. /\ world.definition = command.found.definition /\ command.found.definition # None
      /\ command.reading.active = "on"
      /\ Linux => /\ world.unit = command.found.definition /\ world.proc = None
                  /\ ~command.incomplete /\ ~command.reading.foreign =>
                       world.login = command.found.login
      /\ Darwin => world.proc = None /\ world.unit = None
      /\ Windows => command.launch /\ ~Running(world) /\ world.login = command.found.login
  BY <1>2 DEF RollbackFits
<1>5. /\ ReadingOf(command.reading, command.found, command.exe)
      /\ Misses(command.found, command.reading) => Windows /\ missed
      /\ Windows /\ command.launch /\ (command.reading.installed \/ command.reading.foreign) =>
           command.reading.active \in {Known(Running(command.found)), "unknown"}
  BY <1>2, <1>3 DEF ReadingFits, Undoing
<1>6. command.incomplete \in BOOLEAN
  BY <1>2 DEF Commands
<1>7. PICK r \in IF Linux THEN SystemdStart(world) ELSE Launch(world) :
         /\ Fault(r.faults) /\ world' = r.world /\ missed' = (missed \/ r.missed)
         /\ UNCHANGED <<platform, config, wizard>>
         /\ UndoTo("end", command.incomplete \/ ~r.ok)
  BY DEF UndoStart, Try
<1>8. /\ Keeps(r, world) /\ (r.ok => Running(r.world) \/ (Windows /\ r.missed))
      /\ ~Darwin => r.world.login = world.login
  <2>1. CASE Linux
    BY <1>2, <1>7, <2>1, Systemd
  <2>2. CASE Darwin
    BY <1>2, <1>4, <1>7, <2>2, Launches, SystemIs
  <2>3. CASE Windows
    <3>1. world.unit \in Exes
      BY <1>2, <1>4, <2>3, WorldParts DEF Sound
    <3>2. r \in Launch(world)
      BY <1>2, <1>7, <2>3, SystemIs
    <3>3. QED
      BY <1>2, <2>3, <3>1, <3>2, Launches
  <2>4. QED
    BY <1>2, <2>1, <2>2, <2>3, SystemIs
<1>9. /\ world' \in Worlds /\ Sound(world') /\ world'.definition = world.definition
      /\ faults' \in 0..MaxFaults /\ RemovesStopped
      /\ Recalls /\ (r.missed => missed')
  BY <1>2, <1>7, <1>8, Faulted, Recalled, KeptIsNotRemoved DEF Keeps, SameDefinition
<1> DEFINE incomplete == command.incomplete \/ ~r.ok
<1>10. UndoTo("end", incomplete) /\ incomplete \in BOOLEAN
  BY <1>7
<1>11. ASSUME ~incomplete
       PROVE  Restores
  <2> SUFFICES ASSUME ~missed' PROVE Restores
    BY DEF Restores
  <2>0. ~missed /\ ~Misses(command.found, command.reading)
    BY <1>5, <1>9 DEF Recalls
  <2>1. Running(world') /\ (~Darwin => world'.login = world.login)
    BY <1>7, <1>8, <1>9, <1>11
  <2>2. ~command.reading.foreign \/ Windows =>
            Running(command.found) \/ (Darwin /\ command.found.unit # None)
    <3>1. CASE Windows
      BY <1>4, <1>5, <2>0, <3>1 DEF Known, Misses
    <3>2. CASE Darwin
      BY <1>2, <1>4, <1>5, <2>0, <3>2, SystemIs DEF ReadingOf, Known
    <3>3. CASE Linux
      BY <1>2, <1>4, <1>5, <2>0, <3>3, SystemIs DEF ReadingOf, Known
    <3>4. QED
      BY <1>2, <3>1, <3>2, <3>3, SystemIs
  <2>3. ~Darwin /\ (~command.reading.foreign \/ Windows) => world'.login = command.found.login
    BY <1>2, <1>4, <1>11, <2>1, SystemIs
  <2>4. QED
    BY <1>4, <1>9, <2>1, <2>2, <2>3 DEF Restores
<1>12. command.step \in Undoing
  BY <1>2 DEF Undoing
<1> HIDE DEF incomplete
<1>13. QED
  BY <1>2, <1>4, <1>7, <1>9, <1>10, <1>11, <1>12, UndoingIsGood

-----------------------------------------------------------------------------
(* The commands, setup and what happens between them.                        *)

LEMMA IsTyped ==
    ASSUME IInv
    PROVE  /\ platform \in Platforms /\ world \in Worlds /\ Sound(world)
           /\ config \in Documents \cup {None, Garbled} /\ wizard \in Documents \cup {None}
           /\ faults \in 0..MaxFaults /\ 0 \in 0..MaxFaults /\ missed \in BOOLEAN
BY MaxFaultsAssumption DEF IInv, TypeOK

LEMMA BegunIs ==
    ASSUME IInv, NEW caller \in {"cli", "all", "setup"},
           NEW op \in {"install", "uninstall", "disable", "enable", "none"},
           NEW exe \in Exes, NEW force \in BOOLEAN, NEW step \in Steps
    PROVE  LET c == Begun(caller, op, exe, force, step)
           IN  /\ c \in Commands /\ c.caller = caller /\ c.op = op /\ c.exe = exe /\ c.force = force
               /\ c.launch /\ c.step = step /\ c.found = world /\ ~c.activated /\ c.halted
               /\ ~c.incomplete
<1>1. world \in Worlds
  BY IsTyped
<1>2. NoReading \in Statuses
  BY DEF NoReading, Statuses, Aspects
<1>3. QED
  BY <1>1, <1>2 DEF Begun, Commands

LEMMA StartsAreGood ==
    ASSUME IInv, Idle, NEW caller \in {"cli", "all"},
           NEW op \in {"install", "uninstall", "disable", "enable"},
           NEW exe \in Exes, NEW force \in BOOLEAN, NEW step \in {"status", "stopFirst"},
           step = "stopFirst" \/ caller = "all" => op = "uninstall",
           Starts(Begun(caller, op, exe, force, step)),
           UNCHANGED <<platform, world, config, wizard>>
    PROVE  Good
<1> DEFINE c == Begun(caller, op, exe, force, step)
<1>1. /\ c \in Commands /\ c.caller = caller /\ c.op = op /\ c.exe = exe /\ c.force = force
      /\ c.launch /\ c.step = step /\ c.found = world /\ ~c.activated /\ c.halted /\ ~c.incomplete
  <2>1. step \in Steps
    BY DEF Steps
  <2>2. QED
    BY <2>1, BegunIs
<1>2. Set(c) /\ faults' = 0 /\ missed' = FALSE
  BY DEF Starts, Set
<1> HIDE DEF c
<1>3. StepFits(c)
  BY <1>1 DEF StepFits, Undoing, Stopping
<1>4. InstallFits(c, world')
  BY <1>1 DEF InstallFits, Changing
<1>5. /\ ReadingFits(c, missed') /\ RollbackFits(c, world') /\ UninstallFits(c, world')
      /\ SetupFits(c, world', config', missed')
  BY <1>1 DEF ReadingFits, RollbackFits, UninstallFits, SetupFits, Changing, Undoing
<1>6. RemovesStopped
  BY KeptIsNotRemoved
<1>7. QED
  BY <1>1, <1>2, <1>3, <1>4, <1>5, <1>6, IsTyped, GoesOn DEF Fits

LEMMA StopDaemonIsGood ==
    ASSUME IInv, StopDaemon
    PROVE  Good
<1> DEFINE killed == IF Darwin /\ world.unit # None /\ world.proc # None
                     THEN [world EXCEPT !.waiting = TRUE] ELSE Halted(world)
<1>1. PICK step \in {"stop", "stopFirst", "stopAgain"} : At(step)
  BY DEF StopDaemon
<1>2. PICK r \in Attempt(TRUE, <<world, killed>>) :
         /\ Fault(r.faults) /\ world' = r.world /\ missed' = (missed \/ r.missed)
         /\ UNCHANGED <<platform, config, wizard>>
         /\ IF ~r.ok THEN Ends("failed")
            ELSE CASE At("stopFirst") -> To("status")
                   [] At("stopAgain") -> To("files")
                   [] OTHER -> Ends("stopped")
  BY DEF StopDaemon, Try
<1>3. /\ command # None /\ command \in Commands /\ command.step = step
      /\ platform \in Platforms /\ world \in Worlds /\ Sound(world)
      /\ faults \in 0..MaxFaults /\ missed \in BOOLEAN
      /\ config \in Documents \cup {None, Garbled} /\ wizard \in Documents \cup {None}
      /\ StepFits(command) /\ Sound(command.found)
  BY <1>1, AtAStep
<1>4. killed \in Worlds /\ Sound(killed) /\ killed.definition = world.definition
  <2>1. CASE Darwin /\ world.unit # None /\ world.proc # None
    <3>1. killed = [world EXCEPT !.waiting = TRUE]
      BY <2>1
    <3>2. /\ killed \in Worlds /\ killed.definition = world.definition /\ killed.unit = world.unit
          /\ killed.proc = world.proc
      BY <1>3, <3>1 DEF Worlds
    <3>3. QED
      BY <1>3, <2>1, <3>2, SystemIs DEF Sound
  <2>2. CASE ~(Darwin /\ world.unit # None /\ world.proc # None)
    BY <1>3, <2>2, Changes DEF Sound, SameDefinition
  <2>3. QED
    BY <2>1, <2>2
<1> HIDE DEF killed
<1>5. r.ok \in BOOLEAN /\ r.faults \in Nat /\ r.world \in {world, killed}
  BY <1>2, Attempt2
<1>6. /\ world' \in Worlds /\ Sound(world') /\ faults' \in 0..MaxFaults /\ Recalls /\ RemovesStopped
      /\ config' \in Documents \cup {None, Garbled} /\ wizard' \in Documents \cup {None}
  BY <1>2, <1>3, <1>4, <1>5, Faulted, Recalled, KeptIsNotRemoved
<1>7. ASSUME NEW outcome \in {"failed", "stopped"}, Ends(outcome)
      PROVE  Good
  <2>1. command' = None /\ report' = outcome
    BY <1>7 DEF Ends
  <2>2. IInv' /\ Restores /\ AppliesBoth
    BY <1>2, <1>3, <1>6, <2>1, IsOver, Quiet DEF Recalls
  <2>3. QED
    BY <1>6, <2>1, <2>2 DEF Good, Reports, Outcomes
<1>8. ASSUME NEW s \in {"status", "files"}, To(s)
      PROVE  Good
  <2> DEFINE c == [command EXCEPT !.step = s]
  <2>1. Set(c)
    BY <1>8 DEF To
  <2>2. SameAim(c) /\ c.step = s
    BY <1>3, StepTo DEF Steps
  <2> HIDE DEF c
  <2>3. /\ c \in Commands /\ c.op = command.op /\ c.caller = command.caller /\ c.force = command.force
        /\ c.found = command.found /\ c.launch = command.launch
    BY <2>2 DEF SameAim, Same
  <2>4. command.op # "install" /\ command.op # "none" /\ command.caller \in {"cli", "all"}
    BY <1>3 DEF StepFits, Stopping
  <2>5. StepFits(c)
    BY <1>3, <2>2, <2>3, <2>4 DEF StepFits, Undoing, Stopping
  <2>6. Fits(c, world', config', missed')
    BY <2>2, <2>3, <2>4, <2>5
       DEF Fits, ReadingFits, InstallFits, RollbackFits, UninstallFits, SetupFits
  <2>7. QED
    BY <1>2, <1>3, <1>6, <2>1, <2>3, <2>6, GoesOn DEF Recalls
<1>9. CASE ~r.ok
  BY <1>2, <1>7, <1>9
<1>10. CASE r.ok
  <2>1. CASE At("stopFirst")
    <3>1. ~At("stopAgain")
      BY <2>1 DEF At
    <3>2. QED
      BY <1>2, <1>8, <1>10, <2>1, <3>1
  <2>2. CASE At("stopAgain")
    <3>1. ~At("stopFirst")
      BY <2>2 DEF At
    <3>2. QED
      BY <1>2, <1>8, <1>10, <2>2, <3>1
  <2>3. CASE ~At("stopFirst") /\ ~At("stopAgain")
    BY <1>2, <1>7, <1>10, <2>3
  <2>4. QED
    BY <2>1, <2>2, <2>3
<1>11. QED
  BY <1>5, <1>9, <1>10

LEMMA RemoveFilesIsGood ==
    ASSUME IInv, RemoveFiles
    PROVE  Good
<1>1. PICK outcome \in {"removed", "failed"} :
         Ends(outcome) /\ config' \in {config, None} /\ (Fault(1) \/ UNCHANGED faults)
  BY DEF RemoveFiles
<1>2. UNCHANGED platform /\ UNCHANGED world /\ UNCHANGED wizard /\ UNCHANGED missed
  BY DEF RemoveFiles
<1>3. faults' \in 0..MaxFaults
  BY <1>1, IsTyped, Faulted, Recalled
<1>4. command' = None /\ report' = outcome
  BY <1>1 DEF Ends
<1>5. IInv' /\ Restores /\ AppliesBoth /\ RemovesStopped
  BY <1>1, <1>2, <1>3, <1>4, IsTyped, IsOver, Quiet, KeptIsNotRemoved
<1>6. QED
  BY <1>4, <1>5 DEF Good, Reports, Outcomes

LEMMA WizardIsGood ==
    ASSUME IInv, OpenWizard \/ CloseWizard
    PROVE  Good
<1>1. /\ Idle /\ report' = None /\ UNCHANGED <<platform, world, config, command, faults, missed>>
  BY DEF OpenWizard, CloseWizard
<1>2. wizard' \in Documents \cup {None}
  <2>1. [login |-> TRUE, value |-> Default] \in Documents
    BY ValuesAssumption DEF Documents
  <2>2. QED
    BY <2>1, IsTyped DEF OpenWizard, CloseWizard
<1>3. command' = None
  BY <1>1 DEF Idle
<1>4. IInv' /\ Restores /\ AppliesBoth /\ RemovesStopped
  BY <1>1, <1>2, <1>3, IsTyped, IsOver, Quiet, KeptIsNotRemoved, ReportsAssumption DEF Reports, Outcomes
<1>5. QED
  BY <1>1, <1>4 DEF Good, Reports, Outcomes

LEMMA ApplyIsGood ==
    ASSUME IInv, NEW exe \in Exes, NEW desired \in Documents, Apply(exe, desired)
    PROVE  Good
<1>1. PICK s \in Readings(world, exe), known \in {Running(world), TRUE} :
        \E present \in {SaysInstalled(s.reading)} :
           /\ s.faults <= MaxFaults /\ faults' = s.faults /\ missed' = Misses(world, s.reading)
           /\ command' = [Begun("setup", IF desired.login THEN "install"
                                         ELSE IF present THEN "uninstall" ELSE "none",
                                exe, FALSE, "save")
                          EXCEPT !.original = wizard, !.desired = desired, !.present = present,
                                 !.misread = Misread(world, exe, s.reading),
                                 !.launch = ~desired.login \/ ~known]
  BY DEF Apply
<1>2. /\ Idle /\ wizard # None /\ wizard' = None /\ report' = None
      /\ UNCHANGED <<platform, world, config>>
  BY DEF Apply
<1> DEFINE present == SaysInstalled(s.reading)
           misread == Misread(world, exe, s.reading)
           launch == ~desired.login \/ ~known
           op == IF desired.login THEN "install" ELSE IF present THEN "uninstall" ELSE "none"
           b == Begun("setup", op, exe, FALSE, "save")
           c == [b EXCEPT !.original = wizard, !.desired = desired, !.present = present,
                          !.misread = misread, !.launch = launch]
<1>3. /\ command' = c /\ faults' = s.faults /\ s.faults <= MaxFaults
      /\ missed' = Misses(world, s.reading)
  BY <1>1
<1>4. /\ present \in BOOLEAN /\ misread \in BOOLEAN /\ launch \in BOOLEAN
      /\ missed' \in BOOLEAN
      /\ ~present /\ ~misread /\ ~missed' => world.definition # exe
  <2>1. s.reading \in Statuses /\ exe # None
    BY IsTyped, StatusesAre, NamesDiffer
  <2>2. QED
    BY <1>3, <2>1 DEF SaysInstalled, Misread, Misses, Statuses
<1>5. /\ op \in {"install", "uninstall", "none"}
      /\ op = "install" <=> desired.login
      /\ op = "uninstall" => present
      /\ op = "none" => ~present
  OBVIOUS
<1> HIDE DEF present, misread, launch, op
<1>6. /\ b \in Commands /\ b.caller = "setup" /\ b.op = op /\ b.exe = exe /\ b.force = FALSE
      /\ b.step = "save" /\ b.found = world /\ ~b.activated /\ b.halted /\ ~b.incomplete
  <2>1. "save" \in Steps
    BY DEF Steps
  <2>2. NoReading \in Statuses
    BY DEF NoReading, Statuses, Aspects
  <2>3. QED
    BY <1>5, <2>1, <2>2, IsTyped DEF Begun, Commands
<1> HIDE DEF b
<1>7. wizard \in Documents \cup {None}
  BY IsTyped
<1>8. /\ c \in Commands /\ c.caller = "setup" /\ c.op = op /\ c.exe = exe /\ c.force = FALSE
      /\ c.step = "save" /\ c.found = world /\ ~c.activated /\ c.halted /\ ~c.incomplete
      /\ c.desired = desired /\ c.present = present /\ c.misread = misread
  <2>1. c \in Commands
    BY <1>4, <1>6, <1>7 DEF Commands
  <2>2. /\ c.caller = "setup" /\ c.op = op /\ c.exe = exe /\ c.force = FALSE
        /\ c.step = "save" /\ c.found = world /\ ~c.activated /\ c.halted /\ ~c.incomplete
    BY <1>6 DEF Commands
  <2>3. c.desired = desired /\ c.present = present /\ c.misread = misread
    BY <1>6 DEF Commands
  <2>4. QED
    BY <2>1, <2>2, <2>3
<1> HIDE DEF c
<1>9. StepFits(c)
  BY <1>5, <1>8 DEF StepFits, Undoing, Stopping
<1>10. SetupFits(c, world', config', missed')
  BY <1>2, <1>4, <1>5, <1>8 DEF SetupFits, Fresh, Operating, Changing, Undoing
<1>11. /\ ReadingFits(c, missed') /\ InstallFits(c, world') /\ RollbackFits(c, world')
       /\ UninstallFits(c, world')
  BY <1>2, <1>8 DEF ReadingFits, InstallFits, RollbackFits, UninstallFits, Changing, Undoing
<1>12. s.faults \in 0..MaxFaults
  <2>1. s.faults \in Nat
    BY IsTyped, StatusesAre
  <2>2. QED
    BY <1>3, <2>1, MaxFaultsAssumption
<1>13. RemovesStopped
  BY <1>2, KeptIsNotRemoved
<1>14. Set(c)
  BY <1>2, <1>3 DEF Set
<1>15. QED
  BY <1>2, <1>3, <1>4, <1>8, <1>9, <1>10, <1>11, <1>12, <1>13, <1>14, IsTyped, GoesOn DEF Fits

LEMMA SaveIsGood ==
    ASSUME IInv, Save
    PROVE  Good
<1>1. At("save") /\ UNCHANGED <<platform, world, missed>>
  BY DEF Save
<1>2. /\ command # None /\ command \in Commands /\ command.step = "save"
      /\ platform \in Platforms /\ world \in Worlds /\ Sound(world)
      /\ faults \in 0..MaxFaults /\ missed \in BOOLEAN
      /\ config \in Documents \cup {None, Garbled} /\ wizard \in Documents \cup {None}
      /\ StepFits(command) /\ InstallFits(command, world) /\ SetupFits(command, world, config, missed)
      /\ Sound(command.found)
  BY <1>1, AtAStep
<1>3. /\ command.caller = "setup" /\ command.desired \in Documents \cup {None}
      /\ command.original \in Documents \cup {None}
  BY <1>2 DEF StepFits, Commands
<1>4. RemovesStopped /\ UNCHANGED platform /\ UNCHANGED world /\ UNCHANGED missed
  BY <1>1, KeptIsNotRemoved
<1>5. CASE config' = command.desired /\ UNCHANGED faults /\ UNCHANGED wizard
           /\ command.op = "none" /\ Ends("applied")
  <2>1. command' = None /\ report' = "applied"
    BY <1>5 DEF Ends
  <2>2. IInv'
    BY <1>1, <1>2, <1>3, <1>4, <1>5, <2>1, IsOver
  <2>3. Restores /\ AppliesBoth
    BY <1>2, <1>3, <1>4, <1>5, <2>1 DEF SetupFits, Restores, AppliesBoth
  <2>4. QED
    BY <1>4, <2>1, <2>2, <2>3 DEF Good, Reports, Outcomes
<1>6. CASE config' = command.desired /\ UNCHANGED faults /\ UNCHANGED wizard
           /\ command.op # "none" /\ To("status")
  <2> DEFINE c == [command EXCEPT !.step = "status"]
  <2>1. Set(c)
    BY <1>6 DEF To
  <2>2. /\ SameAim(c) /\ SameNotes(c) /\ c.step = "status"
        /\ c.halted = command.halted /\ c.incomplete = command.incomplete
    BY <1>2, StepTo DEF Steps
  <2> HIDE DEF c
  <2>3. /\ c \in Commands /\ c.op = command.op /\ c.caller = "setup" /\ c.force = command.force
        /\ c.found = command.found /\ c.launch = command.launch /\ c.exe = command.exe
        /\ c.present = command.present /\ c.desired = command.desired
        /\ c.misread = command.misread /\ c.activated = command.activated
    BY <1>3, <2>2 DEF SameAim, Same, SameNotes
  <2>4. StepFits(c)
    BY <1>2, <1>6, <2>2, <2>3 DEF StepFits, Undoing, Stopping
  <2>5. SetupFits(c, world', config', missed')
    BY <1>2, <1>3, <1>4, <1>6, <2>2, <2>3 DEF SetupFits, Fresh
  <2>6. InstallFits(c, world')
    BY <1>2, <1>4, <2>2, <2>3 DEF InstallFits, Changing
  <2>7. ReadingFits(c, missed') /\ RollbackFits(c, world') /\ UninstallFits(c, world')
    BY <2>2, <2>3 DEF ReadingFits, RollbackFits, UninstallFits, Changing, Undoing
  <2>8. QED
    BY <1>2, <1>3, <1>4, <1>6, <2>1, <2>3, <2>4, <2>5, <2>6, <2>7, GoesOn DEF Fits
<1>7. CASE Fault(1) /\ Ends("failed") /\ wizard' = command.original /\ UNCHANGED config
  <2>1. command' = None /\ report' = "failed" /\ faults' \in 0..MaxFaults
    BY <1>2, <1>7, Faulted, Recalled DEF Ends
  <2>2. IInv' /\ Restores /\ AppliesBoth
    BY <1>2, <1>3, <1>4, <1>7, <2>1, IsOver, Quiet
  <2>3. QED
    BY <1>4, <2>1, <2>2 DEF Good, Reports, Outcomes
<1>8. QED
  BY <1>5, <1>6, <1>7 DEF Save

LEMMA CompensateIsGood ==
    ASSUME IInv, Compensate
    PROVE  Good
<1>1. At("compensate") /\ UNCHANGED <<platform, world, config, wizard>>
  BY DEF Compensate
<1>2. /\ command # None /\ command \in Commands /\ command.step = "compensate"
      /\ platform \in Platforms /\ world \in Worlds /\ Sound(world)
      /\ faults \in 0..MaxFaults /\ missed \in BOOLEAN
      /\ config \in Documents \cup {None, Garbled} /\ wizard \in Documents \cup {None}
      /\ StepFits(command) /\ SetupFits(command, world, config, missed) /\ Sound(command.found)
  BY <1>1, AtAStep
<1>3. command.caller = "setup" /\ command.op \in {"install", "uninstall"} /\ ~command.force
  BY <1>2 DEF StepFits, Commands
<1>4. UNCHANGED platform /\ UNCHANGED world /\ UNCHANGED config /\ UNCHANGED wizard /\ RemovesStopped
  BY <1>1, KeptIsNotRemoved
<1>5. PICK s \in Readings(world, command.exe) :
         /\ Fault(s.faults) /\ missed' = (missed \/ Misses(world, s.reading))
         /\ IF command.op = "install" /\ ~command.present /\ SaysInstalled(s.reading)
            THEN Set([command EXCEPT !.caller = "compensation", !.op = "uninstall", !.step = "status"])
            ELSE Set([command EXCEPT !.step = "unsave",
                                     !.misread = @ \/ Misread(world, command.exe, s.reading)])
  BY DEF Compensate
<1> /\ command.exe \in Exes /\ s.faults \in Nat
    /\ s.reading \in Statuses /\ ReadingOf(s.reading, world, command.exe)
  BY <1>2, <1>5, StatusesAre DEF Commands
<1>6. /\ faults' \in 0..MaxFaults /\ missed' \in BOOLEAN /\ (missed => missed')
      /\ Misses(world, s.reading) => missed'
  BY <1>2, <1>5, Faulted, Recalled DEF Recalls
<1> DEFINE misread == command.misread \/ Misread(world, command.exe, s.reading)
<1>7. CASE command.op = "install" /\ ~command.present /\ SaysInstalled(s.reading)
  <2> DEFINE c == [command EXCEPT !.caller = "compensation", !.op = "uninstall", !.step = "status"]
  <2>1. Set(c)
    BY <1>5, <1>7
  <2>2. /\ c \in Commands /\ c.op = "uninstall" /\ c.caller = "compensation" /\ c.step = "status"
        /\ c.found = command.found /\ c.present = command.present /\ c.misread = command.misread
    BY <1>2 DEF Commands, Steps
  <2> HIDE DEF c
  <2>3. StepFits(c)
    BY <2>2 DEF StepFits, Undoing, Stopping
  <2>4. Fresh(c, missed') => c.found.definition = None
    BY <1>2, <1>3, <1>6, <1>7, <2>2 DEF SetupFits, Fresh, SaysInstalled, ReadingOf
  <2>5. Fits(c, world', config', missed')
    BY <2>2, <2>3, <2>4 DEF Fits, ReadingFits, InstallFits, RollbackFits, UninstallFits, SetupFits
  <2>6. QED
    BY <1>2, <1>4, <1>6, <2>1, <2>2, <2>5, GoesOn
<1>8. CASE ~(command.op = "install" /\ ~command.present /\ SaysInstalled(s.reading))
  <2> DEFINE c == [command EXCEPT !.step = "unsave", !.misread = misread]
  <2>1. Set(c)
    BY <1>5, <1>8
  <2>2. misread \in BOOLEAN /\ (~misread => ~command.misread /\ ~Misread(world, command.exe, s.reading))
    BY <1>2 DEF Commands, Misread
  <2> HIDE DEF misread
  <2>3. /\ c \in Commands /\ c.op = command.op /\ c.caller = "setup" /\ c.step = "unsave"
        /\ c.found = command.found /\ c.present = command.present /\ c.misread = misread
        /\ c.exe = command.exe /\ c.desired = command.desired /\ c.force = command.force
    BY <1>2, <1>3, <2>2 DEF Commands, Steps
  <2> HIDE DEF c
  <2>4. StepFits(c)
    BY <1>3, <2>3 DEF StepFits, Undoing, Stopping
  <2>5. Fresh(c, missed') => world.definition \in {c.found.definition, Garbled}
    <3>1. SUFFICES ASSUME ~command.present, ~command.misread, ~missed',
                          ~Misread(world, command.exe, s.reading)
                   PROVE  world.definition \in {c.found.definition, Garbled}
      BY <2>2, <2>3 DEF Fresh
    <3>2. command.op = "install"
      BY <1>2, <1>3, <3>1 DEF SetupFits
    <3>3. world.definition # command.exe
      BY <1>6, <1>8, <3>1, <3>2, NamesDiffer DEF SaysInstalled, Misread, Misses, Statuses
    <3>4. QED
      BY <1>2, <1>3, <1>6, <2>3, <3>1, <3>2, <3>3 DEF SetupFits
  <2>6. SetupFits(c, world', config', missed')
    BY <1>2, <1>3, <1>4, <1>6, <2>2, <2>3, <2>5 DEF SetupFits, Fresh, Operating, Changing, Undoing
  <2>7. Fits(c, world', config', missed')
    BY <2>3, <2>4, <2>6 DEF Fits, ReadingFits, InstallFits, RollbackFits, UninstallFits, Changing, Undoing
  <2>8. QED
    BY <1>2, <1>4, <1>6, <2>1, <2>3, <2>7, GoesOn
<1>9. QED
  BY <1>7, <1>8

LEMMA UnsaveIsGood ==
    ASSUME IInv, Unsave
    PROVE  Good
<1>1. At("unsave") /\ UNCHANGED <<platform, world, missed>> /\ wizard' = command.original
  BY DEF Unsave
<1>2. /\ command # None /\ command \in Commands /\ command.step = "unsave"
      /\ platform \in Platforms /\ world \in Worlds /\ Sound(world)
      /\ faults \in 0..MaxFaults /\ missed \in BOOLEAN
      /\ config \in Documents \cup {None, Garbled} /\ SetupFits(command, world, config, missed)
  BY <1>1, AtAStep
<1>3. command.original \in Documents \cup {None}
  BY <1>2 DEF Commands
<1>4. RemovesStopped /\ UNCHANGED platform /\ UNCHANGED world /\ UNCHANGED missed
  BY <1>1, KeptIsNotRemoved
<1>5. PICK outcome \in {"incomplete", "undone"} :
         /\ Ends(outcome) /\ config' \in {config, command.original}
         /\ outcome = "undone" => config' = command.original /\ ~command.incomplete
         /\ Fault(1) \/ UNCHANGED faults
  BY DEF Unsave
<1>6. command' = None /\ report' = outcome /\ faults' \in 0..MaxFaults
  BY <1>2, <1>5, Faulted, Recalled DEF Ends
<1>7. IInv'
  BY <1>1, <1>2, <1>3, <1>4, <1>5, <1>6, IsOver
<1>8. Restores /\ AppliesBoth
  BY <1>2, <1>4, <1>5, <1>6 DEF SetupFits, Fresh, Restores, AppliesBoth
<1>9. QED
  BY <1>4, <1>6, <1>7, <1>8 DEF Good, Reports, Outcomes

LEMMA InterruptIsGood ==
    ASSUME IInv, Interrupt
    PROVE  Good
<1>1. command' = None /\ report' = "interrupted" /\ UNCHANGED <<platform, world, config, wizard, faults, missed>>
  BY DEF Interrupt, Ends
<1>2. IInv' /\ Restores /\ AppliesBoth /\ RemovesStopped
  BY <1>1, IsTyped, IsOver, Quiet, KeptIsNotRemoved
<1>3. QED
  BY <1>1, <1>2 DEF Good, Reports, Outcomes

LEMMA EnvironmentIsGood ==
    ASSUME IInv, Environment
    PROVE  Good
<1>1. /\ platform \in Platforms /\ world \in Worlds /\ Sound(world)
      /\ world.definition \in Exes \cup {None, Garbled} /\ world.proc \in Exes \cup {None}
      /\ world.unit \in Exes \cup {None, Garbled} /\ world.login \in BOOLEAN
  BY IsTyped, WorldParts
<1>2. ASSUME NEW w, Service(w), SameDefinition(w, world), Sound(w)
      PROVE  Good
  <2>1. /\ world' = w /\ report' = None /\ UNCHANGED <<platform, config, wizard, faults, missed>>
        /\ command' = None
    BY <1>2 DEF Service, Idle
  <2>2. IInv' /\ Restores /\ AppliesBoth /\ RemovesStopped
    BY <1>2, <2>1, IsTyped, IsOver, Quiet, KeptIsNotRemoved, ReportsAssumption
       DEF Reports, Outcomes, SameDefinition
  <2>3. QED
    BY <2>1, <2>2 DEF Good, Reports, Outcomes
<1>3. CASE Crash
  <2> DEFINE w == [world EXCEPT !.waiting = TRUE]
  <2>1. SameDefinition(w, world) /\ w.proc = world.proc /\ w.unit = world.unit
    BY <1>1 DEF Worlds, SameDefinition
  <2>2. Running(world) /\ Service(w)
    BY <1>3 DEF Crash
  <2> HIDE DEF w
  <2>3. Sound(w)
    BY <1>1, <2>1, <2>2 DEF Sound, SameDefinition, Running
  <2>4. QED
    BY <1>2, <2>1, <2>2, <2>3
<1>4. CASE Relaunch /\ world.unit \in Exes
  <2>1. Service(Started(world))
    BY <1>4 DEF Relaunch
  <2>2. SameDefinition(Started(world), world) /\ Started(world).unit = world.unit
        /\ Running(Started(world))
    BY <1>1, <1>4, StartsRun
  <2>3. Sound(Started(world))
    BY <1>1, <1>4, <2>2, NamesDiffer DEF Sound, SameDefinition, Running
  <2>4. QED
    BY <1>2, <2>1, <2>2, <2>3
<1>5. CASE Relaunch /\ world.unit \notin Exes
  <2>1. Service(Halted(world))
    BY <1>5 DEF Relaunch
  <2>2. SameDefinition(Halted(world), world) /\ Sound(Halted(world))
    BY <1>1, Changes DEF Sound, SameDefinition
  <2>3. QED
    BY <1>2, <2>1, <2>2
<1>6. CASE Login
  <2> DEFINE unit == IF Darwin /\ ~world.login THEN None ELSE world.definition
             proc == IF world.login /\ world.definition \in Exes THEN world.definition ELSE None
             w == [world EXCEPT !.unit = unit, !.proc = proc, !.waiting = FALSE]
  <2>1. Service(w)
    BY <1>6 DEF Login
  <2>2. unit \in Exes \cup {None, Garbled} /\ proc \in Exes \cup {None}
    BY <1>1
  <2>3. /\ Darwin /\ unit = None => proc = None
        /\ Windows => unit = world.definition
    BY <1>1, NamesDiffer, SystemIs
  <2> HIDE DEF unit, proc
  <2>4. /\ SameDefinition(w, world) /\ w.unit = unit /\ w.proc = proc /\ ~w.waiting
    BY <1>1, <2>2 DEF Worlds, SameDefinition
  <2> HIDE DEF w
  <2>5. Sound(w)
    BY <1>1, <2>3, <2>4 DEF Sound, SameDefinition
  <2>6. QED
    BY <1>2, <2>1, <2>4, <2>5
<1>7. QED
  BY <1>3, <1>4, <1>5, <1>6 DEF Environment, Relaunch

-----------------------------------------------------------------------------
(* The theorems.                                                             *)

LEMMA InitIsTyped == Init => IInv
<1>1. SUFFICES ASSUME Init PROVE IInv
  OBVIOUS
<1>2. /\ platform \in Platforms /\ config = None /\ wizard = None /\ command = None /\ faults = 0
      /\ missed = FALSE
      /\ world = [definition |-> None, unit |-> None, login |-> Darwin, proc |-> None,
                  waiting |-> FALSE]
  BY <1>1 DEF Init
<1>3. Darwin \in BOOLEAN
  BY DEF Darwin
<1>4. world \in Worlds
  BY <1>2, <1>3 DEF Worlds
<1>5. Sound(world)
  BY <1>2, NamesDiffer DEF Sound
<1>6. QED
  <2>1. 0 \in 0..MaxFaults /\ FALSE \in BOOLEAN
    BY MaxFaultsAssumption
  <2>2. TypeOK
    BY <1>2, <1>4, <2>1 DEF TypeOK
  <2>3. QED
    BY <1>2, <1>5, <2>2 DEF IInv

LEMMA StepsAreGood ==
    ASSUME IInv, Next
    PROVE  Good
<1>1. CASE Operate
  BY <1>1, CheckStatusIsGood, UnloadIsGood, WriteIsGood, ReloadIsGood, ActivateIsGood, HaltIsGood,
     ChangeIsGood, RemoveIsGood DEF Operate
<1>2. CASE Rollback
  BY <1>2, UndoHaltIsGood, UndoWriteIsGood, UndoReloadIsGood, UndoEnableIsGood, UndoStartIsGood
     DEF Rollback
<1>3. CASE Run
  <2>1. ASSUME NEW op \in {"install", "uninstall", "disable", "enable"}, NEW exe \in Exes,
               NEW force \in BOOLEAN, RunAutostart(op, exe, force)
        PROVE  Good
    BY <2>1, StartsAreGood DEF RunAutostart
  <2>2. ASSUME NEW exe \in Exes, NEW force \in BOOLEAN, RunUninstallAll(exe, force)
        PROVE  Good
    BY <2>2, StartsAreGood DEF RunUninstallAll
  <2>3. QED
    BY <1>3, <2>1, <2>2, StopDaemonIsGood, RemoveFilesIsGood DEF Run
<1>4. CASE Setup
  BY <1>4, WizardIsGood, SaveIsGood, CompensateIsGood, UnsaveIsGood, ApplyIsGood DEF Setup
<1>5. CASE Interrupt
  BY <1>5, InterruptIsGood
<1>6. CASE Environment
  BY <1>6, EnvironmentIsGood
<1>7. QED
  BY <1>1, <1>2, <1>3, <1>4, <1>5, <1>6 DEF Next

LEMMA StutterKeeps ==
    ASSUME IInv, UNCHANGED vars
    PROVE  IInv'
<1>1. /\ platform' = platform /\ world' = world /\ config' = config /\ wizard' = wizard
      /\ command' = command /\ faults' = faults /\ missed' = missed
  BY DEF vars
<1>2. QED
  BY <1>1, Primed DEF IInv, TypeOK

(* What the service managers keep sound, and what a command under way knows  *)
(* of the service and the document, holds in every state.                    *)
THEOREM IInvHolds == Spec => []IInv
<1>1. IInv /\ [Next]_vars => IInv'
  BY StepsAreGood, StutterKeeps DEF Good
<1>2. QED
  BY InitIsTyped, <1>1, PTL DEF Spec

(* Every variable has its type, for any installations, documents and number  *)
(* of failures.                                                              *)
THEOREM TypeCorrect == Spec => []TypeOK
<1>1. IInv => TypeOK
  BY DEF IInv
<1>2. QED
  BY IInvHolds, <1>1, PTL

(* A rollback that reports nothing left the service as it found it           *)
(* (rollbackInstall and restoreDefinition), on every platform and wherever   *)
(* the commands of the service managers fail, unless a failed query made a   *)
(* task look absent (taskExists): what Restores leaves out is proved of no   *)
(* rollback.                                                                 *)
THEOREM RollbackIsExact == Spec => RollbackRestores
<1>1. IInv /\ [Next]_vars => [Restores]_vars
  BY StepsAreGood DEF Good
<1>2. QED
  BY IInvHolds, <1>1, PTL DEF Spec, RollbackRestores

(* Setup applies the document and autostart together, or neither of them     *)
(* (applySetup and its compensation), unless a status could not be read or a *)
(* failed query made a task look absent.                                     *)
THEOREM SetupIsWhole == Spec => SetupIsAtomic
<1>1. IInv /\ [Next]_vars => [AppliesBoth]_vars
  BY StepsAreGood DEF Good
<1>2. QED
  BY IInvHolds, <1>1, PTL DEF Spec, SetupIsAtomic

(* A definition is removed only when what it started has stopped, or the     *)
(* failure to stop it is reported (Uninstall and the rollbacks).             *)
THEOREM RemovalIsLast == Spec => NothingIsOrphaned
<1>1. IInv /\ [Next]_vars => [RemovesStopped]_vars
  BY StepsAreGood DEF Good
<1>2. QED
  BY IInvHolds, <1>1, PTL DEF Spec, NothingIsOrphaned
=============================================================================
