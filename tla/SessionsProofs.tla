--------------------------- MODULE SessionsProofs ---------------------------
(***************************************************************************)
(* Proofs about the sessions shown, for every finite set of instances,     *)
(* every assignment of process ids and tools, and all settings and bounds. *)
(*                                                                         *)
(* The elapsed timer continues because what is kept of a session agrees    *)
(* with what is owed to it, in memory and in the file; it is never that of *)
(* another because an episode of a known instance starts when the instance *)
(* had begun, and an instance begins once.                                 *)
(***************************************************************************)
EXTENDS Sessions, FiniteSetTheorems, TLAPS

\* A process that has an id is one of its instances, and has begun.
AliveHaveBegun ==
    \A q \in Pids : alive[q] # None => Pid[alive[q]] = q /\ born[alive[q]] # 0

\* Nothing has begun or is dated in the future.
NothingIsAhead ==
    /\ now # 0
    /\ \A i \in Instances : born[i] <= now
    /\ run # None => run <= now

\* No episode started before its instance, in memory or in the file.
Own(e) ==
    \A k \in DOMAIN e : IdentityKnown(k) => born[k.id] # 0 /\ e[k].since >= born[k.id]

EpisodesAreOwn == Own(episodes) /\ (disk # Unreadable => Own(disk))

\* What this daemon keeps of a session without identity it has seen itself.
UnknownsAreOfThisRun ==
    run # None /\ ~loaded =>
        \A k \in DOMAIN episodes : ~IdentityKnown(k) => episodes[k].since >= run

\* A file that cannot be loaded is not written.
UnreadableIsNotSaved == disk = Unreadable => ~saving

\* What is shown began when its instance had, and by a daemon that runs.
ShownHasBegun ==
    shown # None => run # None /\ (IdentityKnown(shown.key) => born[shown.key.id] # 0)

\* The starts that are owed are those of the episodes of known instances, and
\* those of the file, unless its last change was lost.
OwedIsKept ==
    /\ \A k \in DOMAIN owed : IdentityKnown(k)
    /\ run # None =>
          /\ \A k \in DOMAIN owed : k \in DOMAIN episodes /\ owed[k] = episodes[k].since
          /\ ~loaded => \A k \in DOMAIN episodes : IdentityKnown(k) => k \in DOMAIN owed
    /\ ~lost /\ disk # Unreadable =>
          \A k \in DOMAIN owed \cap DOMAIN disk : owed[k] = disk[k].since

\* A challenge that has begun is that of the instance found better last.
ChallengesAreCurrent ==
    \A t \in Tools : challenge[t].count > 0 => winner[t].better = challenge[t].key

Inv ==
    /\ AliveHaveBegun /\ NothingIsAhead /\ EpisodesAreOwn /\ UnknownsAreOfThisRun
    /\ UnreadableIsNotSaved /\ ShownHasBegun /\ OwedIsKept /\ ChallengesAreCurrent
    /\ AnchorIsOwn /\ ShownIsMine

IInv == TypeOK /\ Inv

-----------------------------------------------------------------------------
(* ToolChoices from finite sets.                                                 *)

\* Every nonempty set of finite sets has a least element.
LEMMA LeastSubset ==
    ASSUME NEW S, IsFiniteSet(S), NEW Bad \in SUBSET SUBSET S, Bad # {}
    PROVE  \E T \in Bad : \A U \in Bad : U \subseteq T => U = T
<1>1. Bad \subseteq FiniteSubsetsOf(S)
  BY FS_Subset DEF FiniteSubsetsOf
<1>2. IsWellFoundedOn(StrictSubsetOrdering(S), FiniteSubsetsOf(S))
  BY FS_StrictSubsetOrderingWellFounded
<1>3. PICK T \in Bad : \A U \in Bad : <<U, T>> \notin StrictSubsetOrdering(S)
  BY <1>1, <1>2, WFMin
<1>4. ASSUME NEW U \in Bad, U \subseteq T, U # T
      PROVE  FALSE
  <2>1. <<U, T>> \in StrictSubsetOrdering(S)
    BY <1>4 DEF StrictSubsetOrdering
  <2>2. QED
    BY <1>3, <2>1
<1>5. QED
  BY <1>3, <1>4

\* A total transitive relation on a finite set has a first element.
LEMMA FirstExists ==
    ASSUME NEW S, IsFiniteSet(S), S # {}, NEW R,
           \A x, y \in S : x # y => <<x, y>> \in R \/ <<y, x>> \in R,
           \A x, y, z \in S : <<x, y>> \in R /\ <<y, z>> \in R => <<x, z>> \in R
    PROVE  \E x \in S : \A y \in S \ {x} : <<x, y>> \in R
<1> DEFINE HasFirst(T) == \E x \in T : \A y \in T \ {x} : <<x, y>> \in R
           Bad == {T \in SUBSET S : T # {} /\ ~HasFirst(T)}
<1>1. ASSUME Bad # {} PROVE FALSE
  <2>1. Bad \in SUBSET SUBSET S
    OBVIOUS
  <2>2. PICK T \in Bad : \A U \in Bad : U \subseteq T => U = T
    <3> HIDE DEF Bad
    <3>1. QED
      BY <1>1, <2>1, LeastSubset
  <2>3. T \subseteq S /\ T # {} /\ ~HasFirst(T)
    BY <2>2
  <2>4. PICK x \in T : TRUE
    BY <2>3
  <2> DEFINE U == T \ {x}
  <2>5. U \subseteq T /\ U # T /\ U \subseteq S
    BY <2>3, <2>4
  <2>6. U \notin Bad
    BY <2>2, <2>5
  <2>7. U = {} \/ HasFirst(U)
    BY <2>5, <2>6
  <2>8. CASE U = {}
    <3>1. \A y \in T \ {x} : <<x, y>> \in R
      BY <2>8
    <3>2. QED
      BY <2>3, <2>4, <3>1
  <2>9. CASE HasFirst(U)
    <3>1. PICK u \in U : \A y \in U \ {u} : <<u, y>> \in R
      BY <2>9
    <3>2. u \in S /\ x \in S /\ u # x
      BY <2>3, <2>4, <3>1
    <3>3. CASE <<u, x>> \in R
      <4>1. \A y \in T \ {u} : <<u, y>> \in R
        BY <3>1, <3>3
      <4>2. QED
        BY <2>3, <3>1, <4>1
    <3>4. CASE <<x, u>> \in R
      <4>1. \A y \in T \ {x} : <<x, y>> \in R
        BY <2>3, <3>1, <3>2, <3>4
      <4>2. QED
        BY <2>3, <2>4, <4>1
    <3>5. QED
      BY <3>2, <3>3, <3>4
  <2>10. QED
    BY <2>7, <2>8, <2>9
<1>2. S \in SUBSET S
  OBVIOUS
<1>3. QED
  BY <1>1, <1>2

LEMMA NamesAreFinite == IsFiniteSet(Pids) /\ IsFiniteSet(Tools)
<1>1. [i \in Instances |-> Pid[i]] \in Surjection(Instances, Pids)
  BY DEF Surjection, Pids
<1>2. [i \in Instances |-> Tool[i]] \in Surjection(Instances, Tools)
  BY DEF Surjection, Tools
<1>3. IsFiniteSet(Instances)
  BY InstancesAssumption
<1>4. QED
  BY <1>1, <1>2, <1>3, FS_Surjection

LEMMA NamesAreNumbers ==
    /\ Pids \subseteq Nat \ {0} /\ Tools \subseteq Nat /\ None \notin Pids
    /\ \A t \in Tools : Priority[t] \in Nat
BY InstancesAssumption DEF Pids, Tools

LEMMA MaxPid ==
    ASSUME Pids # {}
    PROVE  Max(Pids) \in Pids /\ \A q \in Pids : q <= Max(Pids)
<1> DEFINE R == {r \in Pids \X Pids : r[1] >= r[2]}
<1>1. \A p, q \in Pids : <<p, q>> \in R <=> p >= q
  OBVIOUS
<1>2. \A p, q \in Pids : p # q => <<p, q>> \in R \/ <<q, p>> \in R
  BY <1>1, NamesAreNumbers
<1>3. \A p, q, r \in Pids : <<p, q>> \in R /\ <<q, r>> \in R => <<p, r>> \in R
  BY <1>1, NamesAreNumbers
<1> HIDE DEF R
<1>4. PICK p \in Pids : \A q \in Pids \ {p} : <<p, q>> \in R
  BY <1>2, <1>3, NamesAreFinite, FirstExists
<1>5. ASSUME NEW q \in Pids PROVE p >= q
  <2>1. CASE q = p
    BY <2>1, NamesAreNumbers
  <2>2. CASE q # p
    <3>1. <<p, q>> \in R
      BY <1>4, <2>2
    <3>2. QED
      BY <1>1, <3>1
  <2>3. QED
    BY <2>1, <2>2
<1>6. Max(Pids) \in Pids /\ \A q \in Pids : Max(Pids) >= q
  BY <1>4, <1>5 DEF Max
<1>7. QED
  BY <1>6, NamesAreNumbers

\* The best of the sessions of a tool is one of them.
LEMMA BestIsOneOfThem ==
    ASSUME NEW views, views # {}, \A v \in views : v.key.pid \in Pids
    PROVE  BestInstance(views) \in views
<1> DEFINE Next1(q, best) == IF Takers(views, q, best) = {} THEN best
                             ELSE CHOOSE v \in Takers(views, q, best) : TRUE
           max == Max(Pids)
           Follows(g, n) == g = [q \in 0 .. n |-> IF q = 0 THEN None ELSE Next1(q, g[q - 1])]
           upTo == CHOOSE g : Follows(g, max)
           Found(g, q) == /\ g[q] \in views \cup {None}
                          /\ \A v \in views : v.key.pid <= q => g[q] \in views
<1>1. /\ max \in Nat /\ Pids \subseteq Nat \ {0}
      /\ \A v \in views : v.key.pid \in Nat \ {0} /\ v.key.pid <= max
  BY MaxPid, NamesAreNumbers
<1>2. ASSUME NEW q, NEW best \in views \cup {None}
      PROVE  /\ Next1(q, best) \in views \cup {None}
             /\ best \in views => Next1(q, best) \in views
             /\ \A v \in views : v.key.pid = q => Next1(q, best) \in views
  <2>1. Takers(views, q, best) \subseteq views
    BY DEF Takers
  <2>2. ASSUME best = None, NEW v \in views, v.key.pid = q
        PROVE  v \in Takers(views, q, best)
    BY <2>2 DEF Takers
  <2>3. QED
    BY <2>1, <2>2
<1>3. BestInstance(views) = upTo[max]
  BY DEF BestInstance
<1> HIDE DEF Next1, max
<1>4. \E g : Follows(g, max)
  <2> DEFINE Bad == {T \in SUBSET (0 .. max) :
                        \E n \in 0 .. max : T = 0 .. n /\ ~\E g : Follows(g, n)}
  <2>1. ASSUME Bad # {} PROVE FALSE
    <3>1. IsFiniteSet(0 .. max) /\ Bad \in SUBSET SUBSET (0 .. max)
      BY <1>1, FS_Interval
    <3>2. PICK T \in Bad : \A U \in Bad : U \subseteq T => U = T
      <4> DEFINE S == 0 .. max
      <4>1. IsFiniteSet(S) /\ Bad \in SUBSET SUBSET S
        BY <3>1
      <4> HIDE DEF Bad, S
      <4>2. QED
        BY <2>1, <4>1, LeastSubset
    <3>3. PICK n \in 0 .. max : T = 0 .. n /\ ~\E g : Follows(g, n)
      BY <3>2
    <3>4. CASE n = 0
      <4>1. Follows([q \in 0 .. 0 |-> None], 0)
        OBVIOUS
      <4>2. QED
        BY <3>3, <3>4, <4>1
    <3>5. CASE n # 0
      <4>1. n - 1 \in 0 .. max /\ n \in Nat
        BY <1>1, <3>3, <3>5
      <4>2. 0 .. (n - 1) \subseteq 0 .. n /\ 0 .. (n - 1) # 0 .. n
        <5>1. n \in 0 .. n /\ n \notin 0 .. (n - 1)
          BY <4>1
        <5>2. 0 .. (n - 1) \subseteq 0 .. n
          BY <4>1
        <5>3. QED
          BY <5>1, <5>2
      <4>3. 0 .. (n - 1) \notin Bad
        BY <3>2, <3>3, <4>2
      <4>4. 0 .. (n - 1) \in SUBSET (0 .. max)
        BY <1>1, <4>1
      <4>5. PICK g : Follows(g, n - 1)
        BY <4>1, <4>3, <4>4
      <4> DEFINE h == [q \in 0 .. n |-> IF q = n THEN Next1(n, g[n - 1]) ELSE g[q]]
      <4>6. ASSUME NEW q \in 0 .. n
            PROVE  h[q] = IF q = 0 THEN None ELSE Next1(q, h[q - 1])
        <5>1. CASE q = n
          <6>1. h[n - 1] = g[n - 1]
            BY <3>5, <4>1
          <6>2. QED
            BY <3>5, <4>1, <5>1, <6>1
        <5>2. CASE q # n
          <6>1. q \in 0 .. (n - 1) /\ q - 1 # n
            BY <4>1, <5>2
          <6>2. h[q] = g[q] /\ (q # 0 => h[q - 1] = g[q - 1])
            BY <4>1, <5>2, <6>1
          <6>3. g[q] = IF q = 0 THEN None ELSE Next1(q, g[q - 1])
            BY <4>5, <6>1
          <6>4. QED
            BY <6>2, <6>3
        <5>3. QED
          BY <5>1, <5>2
      <4>7. h = [q \in 0 .. n |-> h[q]]
        OBVIOUS
      <4>8. Follows(h, n)
        <5> HIDE DEF h
        <5>1. QED
          BY <4>6, <4>7
      <4>9. QED
        BY <3>3, <4>8
    <3>6. QED
      BY <3>4, <3>5
  <2>2. 0 .. max \in SUBSET (0 .. max) /\ max \in 0 .. max
    BY <1>1
  <2>3. QED
    BY <2>1, <2>2
<1>5. Follows(upTo, max)
  BY <1>4
<1> HIDE DEF upTo
<1>6. /\ upTo[0] = None
      /\ \A q \in 1 .. max : upTo[q] = Next1(q, upTo[q - 1])
  <2>1. \A q \in 0 .. max : upTo[q] = IF q = 0 THEN None ELSE Next1(q, upTo[q - 1])
    BY <1>5
  <2>2. 0 \in 0 .. max /\ 1 .. max \subseteq 0 .. max
    BY <1>1
  <2>3. QED
    BY <2>1, <2>2
<1>7. \A q \in 0 .. max : Found(upTo, q)
  <2> DEFINE Bad == {T \in SUBSET (0 .. max) : \E n \in 0 .. max : T = 0 .. n /\ ~Found(upTo, n)}
  <2>1. ASSUME Bad # {} PROVE FALSE
    <3>1. IsFiniteSet(0 .. max) /\ Bad \in SUBSET SUBSET (0 .. max)
      BY <1>1, FS_Interval
    <3>2. PICK T \in Bad : \A U \in Bad : U \subseteq T => U = T
      <4> DEFINE S == 0 .. max
      <4>1. IsFiniteSet(S) /\ Bad \in SUBSET SUBSET S
        BY <3>1
      <4> HIDE DEF Bad, S
      <4>2. QED
        BY <2>1, <4>1, LeastSubset
    <3>3. PICK n \in 0 .. max : T = 0 .. n /\ ~Found(upTo, n)
      BY <3>2
    <3>4. n # 0
      BY <1>1, <1>6, <3>3
    <3>5. n - 1 \in 0 .. max /\ n \in Nat /\ n \in 1 .. max
      BY <1>1, <3>3, <3>4
    <3>6. 0 .. (n - 1) \subseteq 0 .. n /\ 0 .. (n - 1) # 0 .. n
      <4>1. n \in 0 .. n /\ n \notin 0 .. (n - 1)
        BY <3>5
      <4>2. 0 .. (n - 1) \subseteq 0 .. n
        BY <3>5
      <4>3. QED
        BY <4>1, <4>2
    <3>7. 0 .. (n - 1) \notin Bad
      BY <3>2, <3>3, <3>6
    <3>8. 0 .. (n - 1) \in SUBSET (0 .. max)
      BY <1>1, <3>5
    <3>9. Found(upTo, n - 1)
      BY <3>5, <3>7, <3>8
    <3>10. upTo[n] = Next1(n, upTo[n - 1])
      BY <1>6, <3>5
    <3>11. ASSUME NEW v \in views, v.key.pid <= n
           PROVE  upTo[n] \in views
      <4>1. CASE v.key.pid = n
        BY <1>2, <3>9, <3>10, <4>1
      <4>2. CASE v.key.pid # n
        <5>1. v.key.pid <= n - 1
          BY <1>1, <3>5, <3>11, <4>2
        <5>2. QED
          BY <1>2, <3>9, <3>10, <5>1
      <4>3. QED
        BY <4>1, <4>2
    <3>12. QED
      BY <1>2, <3>3, <3>9, <3>10, <3>11
  <2>2. ASSUME NEW n \in 0 .. max PROVE Found(upTo, n)
    <3>1. 0 .. n \in SUBSET (0 .. max)
      BY <1>1
    <3>2. QED
      BY <2>1, <3>1
  <2>3. QED
    BY <2>2
<1>8. PICK v \in views : TRUE
  OBVIOUS
<1>9. max \in 0 .. max /\ v.key.pid <= max
  BY <1>1
<1>10. upTo[max] \in views
  BY <1>7, <1>8, <1>9
<1>11. QED
  BY <1>3, <1>10

-----------------------------------------------------------------------------
(* The choice of the session to show.                                        *)

\* What the choice among the tools needs: a finite set of candidates, at most
\* one for each tool, with numbers to compare.
AreCandidates(those) ==
    /\ IsFiniteSet(those)
    /\ \A c \in those :
          c.tool \in Tools /\ c.since \in Nat /\ c.created \in Nat /\ c.activity \in Nat
    /\ \A c, d \in those : c.tool = d.tool => c = d

LEMMA MostActiveIsOne ==
    ASSUME NEW those, AreCandidates(those), NEW S \in SUBSET those, S # {}
    PROVE  First(S, MoreActive) \in S
<1> DEFINE R == {p \in S \X S : MoreActive(p[1], p[2])}
<1>1. \A c, d \in S : <<c, d>> \in R <=> MoreActive(c, d)
  OBVIOUS
<1>2. \A c \in S : /\ c.tool \in Nat /\ c.since \in Nat /\ c.created \in Nat /\ c.activity \in Nat
                   /\ Priority[c.tool] \in Nat
  BY NamesAreNumbers DEF AreCandidates
<1>3. \A c, d \in S : c # d => c.tool # d.tool
  BY DEF AreCandidates
<1>4. IsFiniteSet(S)
  BY FS_Subset DEF AreCandidates
<1> HIDE DEF R
<1>5. \A c, d \in S : c # d => MoreActive(c, d) \/ MoreActive(d, c)
  BY <1>2, <1>3 DEF MoreActive
<1>6. \A c, d, e \in S : MoreActive(c, d) /\ MoreActive(d, e) => MoreActive(c, e)
  BY <1>2 DEF MoreActive
<1>7. \E c \in S : \A d \in S \ {c} : <<c, d>> \in R
  <2>1. \A c, d \in S : c # d => <<c, d>> \in R \/ <<d, c>> \in R
    BY <1>1, <1>5
  <2>2. \A c, d, e \in S : <<c, d>> \in R /\ <<d, e>> \in R => <<c, e>> \in R
    BY <1>1, <1>6
  <2>3. QED
    BY <1>4, <2>1, <2>2, FirstExists
<1>8. \E c \in S : \A d \in S \ {c} : MoreActive(c, d)
  BY <1>1, <1>7
<1>9. QED
  BY <1>8 DEF First

LEMMA BestCandidateIsOne ==
    ASSUME NEW those, AreCandidates(those), NEW S \in SUBSET those, S # {}
    PROVE  First(S, BetterCandidate) \in S
<1> DEFINE R == {p \in S \X S : BetterCandidate(p[1], p[2])}
<1>1. \A c, d \in S : <<c, d>> \in R <=> BetterCandidate(c, d)
  OBVIOUS
<1>2. \A c \in S : /\ c.tool \in Nat /\ c.since \in Nat /\ c.created \in Nat
                   /\ Priority[c.tool] \in Nat
  BY NamesAreNumbers DEF AreCandidates
<1>3. \A c, d \in S : c # d => c.tool # d.tool
  BY DEF AreCandidates
<1>4. IsFiniteSet(S)
  BY FS_Subset DEF AreCandidates
<1> HIDE DEF R
<1>5. \A c, d \in S : c # d => BetterCandidate(c, d) \/ BetterCandidate(d, c)
  BY <1>2, <1>3 DEF BetterCandidate
<1>6. \A c, d, e \in S : BetterCandidate(c, d) /\ BetterCandidate(d, e) => BetterCandidate(c, e)
  BY <1>2 DEF BetterCandidate
<1>7. \E c \in S : \A d \in S \ {c} : <<c, d>> \in R
  <2>1. \A c, d \in S : c # d => <<c, d>> \in R \/ <<d, c>> \in R
    BY <1>1, <1>5
  <2>2. \A c, d, e \in S : <<c, d>> \in R /\ <<d, e>> \in R => <<c, e>> \in R
    BY <1>1, <1>6
  <2>3. QED
    BY <1>4, <2>1, <2>2, FirstExists
<1>8. \E c \in S : \A d \in S \ {c} : BetterCandidate(c, d)
  BY <1>1, <1>7
<1>9. QED
  BY <1>8 DEF First

\* The session featured is one of the candidates.
LEMMA FeaturedIsOne ==
    ASSUME NEW those, AreCandidates(those), those # {}, NEW since
    PROVE  SelectFeatured(those, since) \in those
<1>1. \A t : Of(t, those) \in SUBSET those
  BY DEF Of
<1> DEFINE others == those \ Of(previous, those)
<1>2. others \in SUBSET those
  OBVIOUS
<1>3. CASE Of(config.pin, those) # {}
  <2>1. SelectFeatured(those, since) = First(Of(config.pin, those), BetterCandidate)
    BY <1>3 DEF SelectFeatured
  <2>2. QED
    BY <1>1, <1>3, <2>1, BestCandidateIsOne
<1>4. CASE Of(config.pin, those) = {} /\ Of(previous, those) = {}
  <2>1. SelectFeatured(those, since) = First(those, BetterCandidate)
    BY <1>4 DEF SelectFeatured
  <2>2. QED
    BY <2>1, BestCandidateIsOne
<1>5. CASE Of(config.pin, those) = {} /\ Of(previous, those) # {}
  <2>1. \/ SelectFeatured(those, since) = First(Of(previous, those), BetterCandidate)
        \/ others # {} /\ SelectFeatured(those, since) = First(others, MoreActive)
    BY <1>5 DEF SelectFeatured
  <2>2. First(Of(previous, those), BetterCandidate) \in Of(previous, those)
    BY <1>1, <1>5, BestCandidateIsOne
  <2>3. others # {} => First(others, MoreActive) \in others
    <3> HIDE DEF others
    <3>1. QED
      BY <1>2, MostActiveIsOne
  <2>4. QED
    BY <1>1, <1>2, <2>1, <2>2, <2>3
<1>6. QED
  BY <1>3, <1>4, <1>5

\* What a tool's choice is: one of its sessions, another than the selected one
\* only if that one is gone or after a challenge.
LEMMA SelectedIsOne ==
    ASSUME NEW t \in Tools, challenge[t].count \in Nat,
           NEW views, NEW best \in views,
           NEW c, c = SelectInstance(t, views, best)
    PROVE  /\ c.tool = t /\ c.pick \in views /\ c.among = {v.key : v \in views}
           /\ c.work = Work(views) /\ c.challenge.count \in Nat
           /\ c.challenge.count > 0 => c.better = c.challenge.key
           /\ selected[t] \in c.among /\ c.pick.key # selected[t] =>
                 /\ c.better = c.pick.key
                 /\ challenge[t].count > 0 /\ challenge[t].key = c.pick.key
<1> DEFINE current == {v \in views : v.key = selected[t]}
           better == \A v \in current : best.key # v.key /\ ClearlyBetter(best, v)
           count == 1 + IF challenge[t].key = best.key THEN challenge[t].count ELSE 0
<1>1. /\ c.tool = t /\ c.among = {v.key : v \in views} /\ c.work = Work(views)
      /\ c.pick = IF better /\ (current = {} \/ count >= Confirmations) THEN best
                  ELSE CHOOSE v \in current : TRUE
      /\ c.challenge = IF current = {} THEN NoChallenge
                       ELSE IF ~better THEN Unchallenged(t)
                       ELSE IF count >= Confirmations THEN NoChallenge
                       ELSE [key |-> best.key, count |-> count]
      /\ c.better = IF better /\ current # {} THEN best.key ELSE None
  BY DEF SelectInstance
<1>2. current \subseteq views /\ \A v \in current : v.key = selected[t]
  OBVIOUS
<1>3. ~better => current # {}
  OBVIOUS
<1>4. selected[t] \in {v.key : v \in views} => current # {}
  OBVIOUS
<1>5. count \in Nat /\ (count >= Confirmations => challenge[t].count > 0 /\ challenge[t].key = best.key)
  BY DEF Confirmations
<1> HIDE DEF current, better, count
<1>6. c.pick = best \/ (current # {} /\ c.pick \in current)
  BY <1>1, <1>3
<1>7. c.pick \in views
  BY <1>2, <1>6
<1>8. c.challenge.count \in Nat /\ (c.challenge.count > 0 => c.better = c.challenge.key)
  <2>1. CASE current = {} \/ ~better \/ count >= Confirmations
    BY <1>1, <2>1 DEF NoChallenge, Unchallenged
  <2>2. CASE current # {} /\ better /\ ~(count >= Confirmations)
    BY <1>1, <1>5, <2>2
  <2>3. QED
    BY <2>1, <2>2
<1>9. ASSUME selected[t] \in c.among, c.pick.key # selected[t]
      PROVE  /\ c.better = c.pick.key
             /\ challenge[t].count > 0 /\ challenge[t].key = c.pick.key
  <2>1. current # {}
    BY <1>1, <1>4, <1>9
  <2>2. c.pick \notin current
    BY <1>2, <1>9
  <2>3. better /\ count >= Confirmations /\ c.pick = best
    BY <1>1, <2>1, <2>2
  <2>4. QED
    BY <1>1, <1>5, <2>1, <2>3
<1>10. QED
  BY <1>1, <1>7, <1>8, <1>9


-----------------------------------------------------------------------------
(* What a scan finds.                                                        *)

LEMMA TypeParts ==
    ASSUME TypeOK
    PROVE  /\ now \in Nat /\ run \in Nat \cup {None}
           /\ alive \in [Pids -> Instances \cup {None}] /\ born \in [Instances -> Nat]
           /\ DOMAIN episodes \subseteq Keys /\ loaded \in BOOLEAN /\ saving \in BOOLEAN
           /\ \A k \in DOMAIN episodes :
                 episodes[k] \in Episodes /\ episodes[k].since \in Nat /\ episodes[k].last \in Nat
           /\ \A t \in Tools : challenge[t].count \in Nat
BY DEF TypeOK, IsEpisodes, Episodes

LEMMA NoneIsNobody == None \notin Instances /\ None \notin Pids
BY InstancesAssumption

LEMMA InstanceNames ==
    ASSUME NEW i \in Instances
    PROVE  i \in Nat \ {0} /\ Pid[i] \in Pids /\ Tool[i] \in Tools
BY InstancesAssumption DEF Pids, Tools

LEMMA KeyParts ==
    ASSUME NEW k \in Keys
    PROVE  /\ k.tool \in Tools /\ k.pid \in Pids
           /\ IdentityKnown(k) => k.id \in Instances
<1>1. PICK i \in Instances, j \in Instances \cup {None} :
          k = [tool |-> Tool[i], pid |-> Pid[i], id |-> j]
  BY DEF Keys
<1>2. k.tool = Tool[i] /\ k.pid = Pid[i] /\ k.id = j
  BY <1>1
<1>3. QED
  BY <1>2, InstanceNames DEF IdentityKnown

\* An id that changes hands in a scan had a process, and gets a new one.
LEMMA TurnParts ==
    ASSUME NEW turn \in Turns
    PROVE  \/ turn = NoTurn /\ turn.pid = None
           \/ /\ turn.pid \in Pids /\ alive[turn.pid] # None /\ turn.after \in 1 .. 2
              /\ turn.next # None => turn.next \in Instances /\ Pid[turn.next] = turn.pid
                                     /\ born[turn.next] = 0
BY DEF Turns, NoTurn, NextOf

\* The instances that begin in a scan, and the others.
BornIn(turn) ==
    born' = IF turn.pid = None \/ turn.next = None THEN born ELSE [born EXCEPT ![turn.next] = now]

LEMMA BirthsInScan ==
    ASSUME TypeOK, AliveHaveBegun, NothingIsAhead, NEW turn \in Turns, BornIn(turn)
    PROVE  /\ born' \in [Instances -> Nat]
           /\ \A i \in Instances : born'[i] <= now /\ (born[i] # 0 => born'[i] = born[i])
           /\ turn.pid # None /\ turn.next # None => born'[turn.next] = now /\ born'[turn.next] # 0
<1>1. now \in Nat /\ now # 0 /\ born \in [Instances -> Nat] /\ \A i \in Instances : born[i] <= now
  BY TypeParts DEF NothingIsAhead
<1>2. CASE turn.pid = None \/ turn.next = None
  BY <1>1, <1>2 DEF BornIn
<1>3. CASE ~(turn.pid = None \/ turn.next = None)
  <2>1. turn.next \in Instances /\ born[turn.next] = 0
    BY <1>3, TurnParts
  <2>2. born' = [born EXCEPT ![turn.next] = now]
    BY <1>3 DEF BornIn
  <2>3. QED
    BY <1>1, <2>1, <2>2
<1>4. QED
  BY <1>2, <1>3

\* What is known of a session of this user.
Sighting(v) ==
    /\ v.key \in Keys /\ v.tool = v.key.tool /\ v.atime \in Nat /\ v.created \in Nat
    /\ IdentityKnown(v.key) => born'[v.key.id] # 0
    /\ v.named \notin Unknown => v.named \notin Foreign /\ v.cwd = v.named

LEMMA SeeParts ==
    ASSUME NEW q, NEW turn, NEW look
    PROVE  LET v == See(q, turn, look)
               k == EpisodeKey(q, turn)
           IN /\ v.key = k /\ v.tool = k.tool /\ v.named = Named(q)
              /\ v.cwd = IF Accepted(q, turn) THEN Enriched(q, turn) ELSE None
              /\ v.created = IF ~IdentityKnown(k) THEN 0
                             ELSE IF born[k.id] = 0 THEN now ELSE born[k.id]
              /\ v.atime = CASE look.tty = "typed" -> now
                             [] look.tty \in {"quiet", "front"} ->
                                  IF k \in DOMAIN episodes /\ episodes[k].last # 0
                                  THEN episodes[k].last ELSE born[Named(q)]
                             [] OTHER -> 0
BY DEF See

LEMMA TimeChoice ==
    ASSUME NEW tty, NEW a \in Nat, NEW b \in Nat
    PROVE  (CASE tty = "typed" -> a [] tty \in {"quiet", "front"} -> b [] OTHER -> 0) \in Nat
<1>1. CASE tty = "typed"
  BY <1>1
<1>2. CASE tty = "quiet"
  BY <1>2
<1>3. CASE tty = "front"
  BY <1>3
<1>4. CASE tty \notin {"typed", "quiet", "front"}
  BY <1>4
<1>5. QED
  BY <1>1, <1>2, <1>3, <1>4

\* What is seen of a process of this user is its own, though its id may change
\* hands between the looks.
LEMMA SeenIsSighted ==
    ASSUME TypeOK, AliveHaveBegun, NothingIsAhead, NEW turn \in Turns, BornIn(turn),
           NEW q \in Pids, alive[q] # None, Owned(q, turn), NEW look
    PROVE  Sighting(See(q, turn, look))
<1> DEFINE v == See(q, turn, look)
           k == EpisodeKey(q, turn)
<1>1. /\ alive[q] \in Instances /\ Pid[alive[q]] = q /\ born[alive[q]] # 0
      /\ born[alive[q]] \in Nat /\ now \in Nat
  BY TypeParts DEF AliveHaveBegun
<1>2. \A look2 : \/ Occupant(q, turn, look2) = alive[q]
                 \/ q = turn.pid /\ turn.pid # None /\ Occupant(q, turn, look2) = turn.next
  BY NoneIsNobody DEF Occupant
<1>3. q = turn.pid => /\ turn.after \in 1 .. 2
                      /\ turn.next # None => turn.next \in Instances /\ born[turn.next] = 0
  BY TurnParts, NoneIsNobody
<1>4. /\ \A i \in Instances : born[i] # 0 => born'[i] = born[i]
      /\ born \in [Instances -> Nat]
      /\ turn.pid # None /\ turn.next # None => born'[turn.next] = now /\ born'[turn.next] # 0
  BY BirthsInScan, TypeParts
<1>5. Identity(q, turn) \in {alive[q], Enriched(q, turn), None}
  BY DEF Identity, Named
<1>6. /\ Identity(q, turn) \in Instances \cup {None}
      /\ Identity(q, turn) # None => born'[Identity(q, turn)] # 0
  <2>1. CASE Identity(q, turn) = alive[q]
    BY <1>1, <1>4, <2>1
  <2>2. CASE Identity(q, turn) = Enriched(q, turn)
    <3>1. CASE Enriched(q, turn) = alive[q]
      BY <1>1, <1>4, <2>2, <3>1
    <3>2. CASE q = turn.pid /\ turn.pid # None /\ Enriched(q, turn) = turn.next
      BY <1>3, <1>4, <2>2, <3>2
    <3>3. QED
      BY <1>2, <3>1, <3>2 DEF Enriched
  <2>3. CASE Identity(q, turn) = None
    BY <2>3
  <2>4. QED
    BY <1>5, <2>1, <2>2, <2>3
<1>7. k = [tool |-> Tool[alive[q]], pid |-> Pid[alive[q]], id |-> Identity(q, turn)]
  BY <1>1 DEF EpisodeKey, Named
<1>8. k \in Keys /\ k.id = Identity(q, turn)
  BY <1>1, <1>6, <1>7 DEF Keys
<1>9. v.key \in Keys /\ v.tool = v.key.tool /\ (IdentityKnown(v.key) => born'[v.key.id] # 0)
  BY <1>6, <1>8, SeeParts DEF IdentityKnown
<1>10. v.created \in Nat
  <2>1. IdentityKnown(k) => born[k.id] \in Nat
    BY <1>4, <1>6, <1>8 DEF IdentityKnown
  <2>2. v.created = IF ~IdentityKnown(k) THEN 0
                    ELSE IF born[k.id] = 0 THEN now ELSE born[k.id]
    BY SeeParts
  <2> HIDE DEF v, k
  <2>3. QED
    BY <1>1, <2>1, <2>2
<1>11. v.atime \in Nat
  <2> DEFINE last == IF k \in DOMAIN episodes /\ episodes[k].last # 0
                     THEN episodes[k].last ELSE born[Named(q)]
  <2>1. last \in Nat
    BY <1>1, TypeParts DEF Named
  <2>2. v.atime = CASE look.tty = "typed" -> now
                    [] look.tty \in {"quiet", "front"} -> last
                    [] OTHER -> 0
    BY SeeParts
  <2> HIDE DEF last, v, k
  <2>3. QED
    BY <1>1, <2>1, <2>2, TimeChoice
<1>12. ASSUME v.named \notin Unknown PROVE v.named \notin Foreign /\ v.cwd = v.named
  <2>1. v.named = alive[q] /\ Identity(q, turn) = alive[q]
    BY <1>12, SeeParts DEF Identity, Named
  <2>2. Occupant(q, turn, 3) = alive[q] /\ alive[q] \notin Foreign
    BY <1>1, <2>1, NoneIsNobody DEF Owned
  <2>3. q # turn.pid
    <3>1. ASSUME q = turn.pid PROVE FALSE
      <4>1. Occupant(q, turn, 3) = turn.next
        BY <1>3, <3>1 DEF Occupant
      <4>2. turn.next = alive[q]
        BY <2>2, <4>1
      <4>3. QED
        BY <1>1, <1>3, <3>1, <4>2, NoneIsNobody
    <3>2. QED
      BY <3>1
  <2>4. Enriched(q, turn) = alive[q]
    BY <2>3 DEF Enriched, Occupant
  <2>5. Accepted(q, turn)
    BY <1>1, <2>4, NoneIsNobody DEF Accepted, Named
  <2>6. QED
    BY <2>1, <2>2, <2>4, <2>5, SeeParts
<1> HIDE DEF v
<1>13. Sighting(v)
  BY <1>9, <1>10, <1>11, <1>12 DEF Sighting
<1>14. QED
  BY <1>13 DEF v


-----------------------------------------------------------------------------
(* The parts of a scan.                                                      *)

Mine(turn, looks) == {p \in DOMAIN looks : Tool[alive[p]] \notin config.disabled /\ Owned(p, turn)}
Seen(turn, looks) == {See(q, turn, looks[q]) : q \in Mine(turn, looks)}
Featured(turn, looks) == {v \in Seen(turn, looks) : PresenceEligible(v)}
Collected(turn, looks) ==
    Featured(turn, looks) \cup {v \in Seen(turn, looks) : InactiveCollectionEligible(v)}
ChoiceOf(t, featured) == SelectInstance(t, Of(t, featured), BestInstance(Of(t, featured)))
ToolChoices(turn, looks) ==
    {ChoiceOf(t, Featured(turn, looks)) : t \in {v.tool : v \in Featured(turn, looks)}}

Processes == {q \in Pids : alive[q] # None}

LEMMA ScanParts ==
    ASSUME NEW turn, NEW looks, NEW saved, Scan(turn, looks, saved)
    PROVE  /\ run # None
           /\ KeepEpisodes(Collected(turn, looks), saved)
           /\ SelectInstances(ToolChoices(turn, looks))
           /\ Feature({Candidate(c) : c \in ToolChoices(turn, looks)})
           /\ BornIn(turn)
           /\ alive' = IF turn.pid = None THEN alive ELSE [alive EXCEPT ![turn.pid] = turn.next]
           /\ now' = now + 1 /\ UNCHANGED <<config, run, saving>>
<1>0. PICK seen \in {Seen(turn, looks)} :
         \E featured \in {{v \in seen : PresenceEligible(v)}} :
         \E choices \in {{SelectInstance(t, Of(t, featured), BestInstance(Of(t, featured))) :
                             t \in {v.tool : v \in featured}}} :
            /\ KeepEpisodes(featured \cup {v \in seen : InactiveCollectionEligible(v)}, saved)
            /\ SelectInstances(choices)
            /\ Feature({Candidate(c) : c \in choices})
  BY DEF Scan, Mine, Seen
<1>1. PICK featured \in {Featured(turn, looks)} :
         \E choices \in {{SelectInstance(t, Of(t, featured), BestInstance(Of(t, featured))) :
                             t \in {v.tool : v \in featured}}} :
            /\ KeepEpisodes(featured \cup {v \in Seen(turn, looks) : InactiveCollectionEligible(v)}, saved)
            /\ SelectInstances(choices)
            /\ Feature({Candidate(c) : c \in choices})
  <2>1. seen = Seen(turn, looks)
    BY <1>0
  <2>2. QED
    BY <1>0, <2>1 DEF Featured
<1>2. featured = Featured(turn, looks)
  BY <1>1
<1>3. PICK choices \in {ToolChoices(turn, looks)} :
            /\ KeepEpisodes(Collected(turn, looks), saved)
            /\ SelectInstances(choices)
            /\ Feature({Candidate(c) : c \in choices})
  BY <1>1, <1>2 DEF Collected, ToolChoices, ChoiceOf
<1>4. run # None /\ now' = now + 1 /\ UNCHANGED <<config, run, saving>>
  BY DEF Scan
<1>5. /\ BornIn(turn)
      /\ alive' = IF turn.pid = None THEN alive ELSE [alive EXCEPT ![turn.pid] = turn.next]
  BY DEF Scan, BornIn
<1>6. QED
  BY <1>3, <1>4, <1>5

LEMMA CollectedIsSighted ==
    ASSUME TypeOK, AliveHaveBegun, NothingIsAhead, NEW turn \in Turns, BornIn(turn),
           NEW looks, DOMAIN looks = Processes, NEW v \in Collected(turn, looks)
    PROVE  Sighting(v)
<1>1. v \in Seen(turn, looks)
  BY DEF Collected, Featured
<1>2. PICK q \in Mine(turn, looks) : v = See(q, turn, looks[q])
  BY <1>1 DEF Seen
<1>3. q \in Pids /\ alive[q] # None /\ Owned(q, turn)
  BY DEF Mine, Processes
<1>4. QED
  BY <1>2, <1>3, SeenIsSighted

LEMMA SightingParts ==
    ASSUME NEW v, Sighting(v)
    PROVE  v.tool \in Tools /\ v.key.pid \in Pids /\ v.created \in Nat
BY KeyParts DEF Sighting

LEMMA FeaturedIsFinite ==
    ASSUME NEW turn, NEW looks, DOMAIN looks = Processes
    PROVE  IsFiniteSet(Featured(turn, looks))
<1> DEFINE M == Mine(turn, looks)
           f == [q \in M |-> See(q, turn, looks[q])]
<1>1. M \subseteq Pids
  BY DEF Mine, Processes
<1>2. IsFiniteSet(M)
  BY <1>1, NamesAreFinite, FS_Subset
<1>3. f \in Surjection(M, Seen(turn, looks))
  BY DEF Surjection, Seen
<1> HIDE DEF M, f
<1>4. IsFiniteSet(Seen(turn, looks))
  BY <1>2, <1>3, FS_Surjection
<1>5. QED
  BY <1>4, FS_Subset DEF Featured

\* The choice made for a tool.
Choice(c, t, featured) ==
    /\ t \in Tools /\ c = ChoiceOf(t, featured) /\ c.tool = t
    /\ c.pick \in Of(t, featured) /\ c.among = {v.key : v \in Of(t, featured)}
    /\ c.work = Work(Of(t, featured)) /\ c.challenge.count \in Nat
    /\ c.challenge.count > 0 => c.better = c.challenge.key
    /\ selected[t] \in c.among /\ c.pick.key # selected[t] =>
          /\ c.better = c.pick.key
          /\ challenge[t].count > 0 /\ challenge[t].key = c.pick.key

LEMMA ChoicesAreMade ==
    ASSUME TypeOK, AliveHaveBegun, NothingIsAhead, NEW turn \in Turns, BornIn(turn),
           NEW looks, DOMAIN looks = Processes, NEW c \in ToolChoices(turn, looks)
    PROVE  Choice(c, c.tool, Featured(turn, looks))
<1> DEFINE featured == Featured(turn, looks)
<1>1. PICK u \in featured : c = ChoiceOf(u.tool, featured)
  BY DEF ToolChoices
<1>2. \A v \in featured : Sighting(v)
  BY CollectedIsSighted DEF Collected
<1> DEFINE t == u.tool
           views == Of(t, featured)
<1>3. /\ t \in Tools /\ u \in views /\ views \subseteq featured
      /\ \A v \in views : v.key.pid \in Pids
  BY <1>1, <1>2, SightingParts DEF Of
<1>4. BestInstance(views) \in views
  <2> HIDE DEF views
  <2>1. QED
    BY <1>3, BestIsOneOfThem
<1>5. c = SelectInstance(t, views, BestInstance(views))
  BY <1>1 DEF ChoiceOf
<1>6. challenge[t].count \in Nat
  BY <1>3, TypeParts
<1>7. c = ChoiceOf(t, featured)
  BY <1>1
<1> HIDE DEF views, t, featured
<1>8. /\ c.tool = t /\ c.pick \in views /\ c.among = {v.key : v \in views}
      /\ c.work = Work(views) /\ c.challenge.count \in Nat
      /\ c.challenge.count > 0 => c.better = c.challenge.key
      /\ selected[t] \in c.among /\ c.pick.key # selected[t] =>
            /\ c.better = c.pick.key
            /\ challenge[t].count > 0 /\ challenge[t].key = c.pick.key
  BY <1>3, <1>4, <1>5, <1>6, SelectedIsOne
<1>9. Choice(c, t, featured)
  BY <1>3, <1>7, <1>8 DEF Choice, views
<1>10. QED
  BY <1>8, <1>9 DEF featured

LEMMA ScanCandidates ==
    ASSUME TypeOK, AliveHaveBegun, NothingIsAhead, NEW turn \in Turns, BornIn(turn),
           NEW looks, DOMAIN looks = Processes
    PROVE  AreCandidates({Candidate(c) : c \in ToolChoices(turn, looks)})
<1> DEFINE featured == Featured(turn, looks)
           choices == ToolChoices(turn, looks)
           those == {Candidate(c) : c \in choices}
           made == [t \in {v.tool : v \in featured} |-> Candidate(ChoiceOf(t, featured))]
<1>1. \A v \in featured : Sighting(v) /\ v.tool \in Tools
  BY CollectedIsSighted, SightingParts DEF Collected
<1>2. IsFiniteSet(those)
  <2>1. made \in Surjection({v.tool : v \in featured}, those)
    BY DEF Surjection, ToolChoices
  <2>2. {v.tool : v \in featured} \subseteq Tools
    BY <1>1
  <2>3. IsFiniteSet({v.tool : v \in featured})
    BY <2>2, NamesAreFinite, FS_Subset
  <2> DEFINE tools == {v.tool : v \in featured}
  <2>4. IsFiniteSet(tools) /\ made \in Surjection(tools, those)
    BY <2>1, <2>3
  <2> HIDE DEF tools, those, made
  <2>5. QED
    BY <2>4, FS_Surjection
<1>3. \A c \in choices : Choice(c, c.tool, featured)
  BY ChoicesAreMade
<1>4. ASSUME NEW c \in choices
      PROVE  /\ c.tool \in Tools /\ Anchor(c.pick.key) \in Nat /\ c.pick.created \in Nat
             /\ c.work \in Nat
  <2>1. c.tool \in Tools /\ c.pick \in featured /\ c.work = Work(Of(c.tool, featured))
    BY <1>3 DEF Choice, Of
  <2>2. Anchor(c.pick.key) \in Nat
    BY TypeParts DEF Anchor
  <2>3. c.pick.created \in Nat
    BY <1>1, <2>1, SightingParts
  <2>4. Work(Of(c.tool, featured)) \in Nat
    <3> DEFINE busy == {v \in Of(c.tool, featured) :
                          IF previous = None THEN v.total > 0 ELSE v.activity > 0}
    <3>1. busy \subseteq featured
      BY DEF Of
    <3>2. IsFiniteSet(busy)
      BY <3>1, FeaturedIsFinite, FS_Subset
    <3>3. Work(Of(c.tool, featured)) = Unit * Cardinality(busy)
      BY DEF Work
    <3> HIDE DEF busy
    <3>4. Cardinality(busy) \in Nat
      BY <3>2, FS_CardinalityType
    <3>5. QED
      BY <3>3, <3>4 DEF Unit
  <2>5. QED
    BY <2>1, <2>2, <2>3, <2>4
<1>5. \A c \in choices : LET d == Candidate(c) IN
         d.tool = c.tool /\ d.since = Anchor(c.pick.key) /\ d.created = c.pick.created /\ d.activity = c.work
  BY DEF Candidate
<1>6. \A c, d \in choices : c.tool = d.tool => c = d
  BY <1>3 DEF Choice
<1> HIDE DEF choices
<1>7. \A c \in those : c.tool \in Tools /\ c.since \in Nat /\ c.created \in Nat /\ c.activity \in Nat
  BY <1>4, <1>5
<1>8. \A c, d \in those : c.tool = d.tool => c = d
  BY <1>5, <1>6
<1>9. QED
  BY <1>2, <1>7, <1>8 DEF AreCandidates, choices

\* What is shown after a scan is of a session the scan collected.
LEMMA ShownIsCollected ==
    ASSUME TypeOK, AliveHaveBegun, NothingIsAhead, NEW turn \in Turns, BornIn(turn),
           NEW looks, DOMAIN looks = Processes,
           Feature({Candidate(c) : c \in ToolChoices(turn, looks)}), shown' # None
    PROVE  \E v \in Collected(turn, looks) :
              /\ shown'.key = v.key /\ shown'.named = v.named /\ shown'.cwd = v.cwd
              /\ shown'.since = Anchor(v.key)
<1> DEFINE those == {Candidate(c) : c \in ToolChoices(turn, looks)}
<1>1. AreCandidates(those)
  BY ScanCandidates
<1>2. those # {} /\ shown' = SelectFeatured(those, idle')
  <2> HIDE DEF those
  <2>1. Feature(those)
    BY DEF those
  <2>2. QED
    BY <2>1 DEF Feature
<1>3. shown' \in those
  <2> HIDE DEF those
  <2>1. QED
    BY <1>1, <1>2, FeaturedIsOne
<1>4. PICK c \in ToolChoices(turn, looks) : shown' = Candidate(c)
  BY <1>3
<1>5. Choice(c, c.tool, Featured(turn, looks))
  BY ChoicesAreMade
<1>6. c.pick \in Collected(turn, looks)
  BY <1>5 DEF Choice, Of, Collected
<1>7. /\ shown'.key = c.pick.key /\ shown'.named = c.pick.named /\ shown'.cwd = c.pick.cwd
      /\ shown'.since = Anchor(c.pick.key)
  BY <1>4 DEF Candidate
<1>8. QED
  BY <1>6, <1>7


\* What a scan keeps of the sessions it collected: each goes on since when it
\* was present, and the file is written or, when nothing began or ended, as it was.
LEMMA EpisodesKept ==
    ASSUME TypeOK, NEW kept, \A v \in kept : v.key \in Keys /\ v.atime \in Nat,
           NEW saved, KeepEpisodes(kept, saved)
    PROVE  /\ IsEpisodes(episodes') /\ DOMAIN episodes' = {v.key : v \in kept}
           /\ \A k \in DOMAIN episodes' : episodes'[k].since = Anchor(k)
           /\ loaded' = FALSE
           /\ owed' = [k \in {l \in DOMAIN episodes' : IdentityKnown(l)} |-> episodes'[k].since]
           /\ disk' = disk \/ (saving /\ disk' = episodes')
           /\ lost' \in BOOLEAN
           /\ ~lost' /\ disk' # episodes' =>
                 disk' = disk /\ ~lost /\ \A k \in DOMAIN episodes' : ~loaded /\ k \in DOMAIN episodes
<1> DEFINE changed == (\E v \in kept : Changed(v)) \/ DOMAIN episodes \ {v.key : v \in kept} # {}
<1>1. /\ episodes' = [k \in {v.key : v \in kept} |-> Observe(ByKey(k, kept))]
      /\ loaded' = FALSE
      /\ owed' = [k \in {l \in DOMAIN episodes' : IdentityKnown(l)} |-> episodes'[k].since]
  BY DEF KeepEpisodes
<1>2. /\ disk' = disk \/ (saving /\ disk' = episodes')
      /\ lost' = IF changed THEN ~(saving /\ saved) ELSE lost
      /\ IF changed /\ saving /\ saved THEN disk' = episodes' ELSE disk' = disk
  BY DEF KeepEpisodes
<1>3. DOMAIN episodes' = {v.key : v \in kept}
  BY <1>1
<1>4. ASSUME NEW k \in DOMAIN episodes'
      PROVE  /\ k \in Keys /\ episodes'[k] \in Episodes /\ episodes'[k].since = Anchor(k)
             /\ ~changed => ~loaded /\ k \in DOMAIN episodes
  <2> DEFINE v == ByKey(k, kept)
  <2>1. v \in kept /\ v.key = k
    BY <1>3 DEF ByKey
  <2>2. episodes'[k] = Observe(v)
    BY <1>1, <1>3
  <2>3. v.atime \in Nat /\ k \in Keys
    BY <2>1
  <2>4. Anchor(k) \in Nat
    BY TypeParts DEF Anchor
  <2> HIDE DEF v
  <2>5. ~changed => ~Changed(v)
    BY <2>1
  <2>6. Observe(v).since = Anchor(k) /\ Observe(v) \in Episodes
    <3> DEFINE last == IF v.atime # 0 THEN v.atime
                       ELSE IF ~loaded /\ v.key \in DOMAIN episodes THEN episodes[v.key].last ELSE 0
    <3>1. last \in Nat
      BY <2>3, TypeParts
    <3>2. Observe(v) = [since |-> Anchor(k), last |-> last]
      BY <2>1 DEF Observe
    <3> HIDE DEF last
    <3>3. QED
      BY <2>4, <3>1, <3>2 DEF Episodes
  <2>7. QED
    BY <2>1, <2>2, <2>3, <2>5, <2>6 DEF Changed
<1>5. IsEpisodes(episodes')
  <2>1. episodes' = [k \in DOMAIN episodes' |-> episodes'[k]]
    BY <1>1
  <2>2. QED
    BY <1>4, <2>1 DEF IsEpisodes
<1> HIDE DEF changed
<1>6. lost' \in BOOLEAN
  BY <1>2 DEF TypeOK
<1>7. ASSUME ~lost', disk' # episodes'
      PROVE  disk' = disk /\ ~lost /\ ~changed
  BY <1>2, <1>7
<1>8. QED
  BY <1>1, <1>2, <1>3, <1>4, <1>5, <1>6, <1>7

\* What a scan records of each tool.
LEMMA InstancesSelected ==
    ASSUME NEW choices, SelectInstances(choices), NEW t \in Tools
    PROVE  \/ selected'[t] = None /\ challenge'[t] = NoChallenge /\ winner'[t] = NoWinner
           \/ \E c \in choices :
                 /\ c.tool = t /\ selected'[t] = c.pick.key /\ challenge'[t] = c.challenge
                 /\ winner'[t] = [among |-> c.among, better |-> c.better]
<1>1. CASE Of(t, choices) = {}
  BY <1>1 DEF SelectInstances
<1>2. CASE Of(t, choices) # {}
  <2> DEFINE c == CHOOSE d \in Of(t, choices) : TRUE
  <2>1. c \in Of(t, choices)
    BY <1>2
  <2>2. c \in choices /\ c.tool = t
    BY <2>1 DEF Of
  <2>3. /\ selected'[t] = c.pick.key /\ challenge'[t] = c.challenge
        /\ winner'[t] = [among |-> c.among, better |-> c.better]
    BY <1>2 DEF SelectInstances
  <2> HIDE DEF c
  <2>4. QED
    BY <2>2, <2>3
<1>3. QED
  BY <1>1, <1>2

-----------------------------------------------------------------------------
(* A scan keeps the invariant.                                               *)

LEMMA ScanKeepsTypes ==
    ASSUME IInv, NEW turn \in Turns, NEW looks, DOMAIN looks = Processes, NEW saved,
           Scan(turn, looks, saved)
    PROVE  TypeOK'
<1> USE DEF IInv, Inv
<1>1. /\ KeepEpisodes(Collected(turn, looks), saved) /\ BornIn(turn)
      /\ SelectInstances(ToolChoices(turn, looks))
      /\ Feature({Candidate(c) : c \in ToolChoices(turn, looks)})
      /\ alive' = IF turn.pid = None THEN alive ELSE [alive EXCEPT ![turn.pid] = turn.next]
      /\ now' = now + 1 /\ UNCHANGED <<run, saving>>
  BY ScanParts
<1>2. \A v \in Collected(turn, looks) : v.key \in Keys /\ v.atime \in Nat
  BY <1>1, CollectedIsSighted DEF Sighting
<1>3. /\ IsEpisodes(episodes') /\ loaded' = FALSE /\ lost' \in BOOLEAN
      /\ owed' = [k \in {l \in DOMAIN episodes' : IdentityKnown(l)} |-> episodes'[k].since]
      /\ disk' = disk \/ disk' = episodes'
  BY <1>1, <1>2, EpisodesKept
<1>4. DOMAIN owed' \subseteq Keys /\ owed' \in [DOMAIN owed' -> Nat]
  <2>1. \A k \in DOMAIN episodes' : k \in Keys /\ episodes'[k].since \in Nat
    BY <1>3 DEF IsEpisodes, Episodes
  <2>2. QED
    BY <1>3, <2>1
<1>5. disk' # Unreadable => IsEpisodes(disk')
  BY <1>3 DEF TypeOK, IsEpisodes
<1>6. now' \in Nat /\ run' \in Nat \cup {None} /\ saving' \in BOOLEAN
  BY <1>1, TypeParts
<1>7. alive' \in [Pids -> Instances \cup {None}] /\ born' \in [Instances -> Nat]
  <2>1. alive' \in [Pids -> Instances \cup {None}]
    BY <1>1, TurnParts, TypeParts
  <2>2. QED
    BY <1>1, <2>1, BirthsInScan
<1>8. DOMAIN selected' = Tools /\ DOMAIN challenge' = Tools /\ DOMAIN winner' = Tools
  BY <1>1 DEF SelectInstances
<1>9. ASSUME NEW t \in Tools PROVE challenge'[t].count \in Nat
  <2>1. CASE challenge'[t] = NoChallenge
    BY <2>1 DEF NoChallenge
  <2>2. ASSUME NEW c \in ToolChoices(turn, looks), challenge'[t] = c.challenge
        PROVE  challenge'[t].count \in Nat
    BY <1>1, <2>2, ChoicesAreMade DEF Choice
  <2>3. QED
    BY <1>1, <2>1, <2>2, InstancesSelected
<1>10. ASSUME shown' # None PROVE shown'.key \in Keys
  <2>1. PICK v \in Collected(turn, looks) : shown'.key = v.key
    BY <1>1, <1>10, ShownIsCollected
  <2>2. QED
    BY <1>2, <2>1
<1>11. QED
  BY <1>3, <1>4, <1>5, <1>6, <1>7, <1>8, <1>9, <1>10 DEF TypeOK

LEMMA ScanKeepsBirths ==
    ASSUME IInv, NEW turn \in Turns, NEW looks, DOMAIN looks = Processes, NEW saved,
           Scan(turn, looks, saved)
    PROVE  AliveHaveBegun' /\ NothingIsAhead'
<1> USE DEF IInv, Inv
<1>1. /\ BornIn(turn) /\ now' = now + 1 /\ run' = run
      /\ alive' = IF turn.pid = None THEN alive ELSE [alive EXCEPT ![turn.pid] = turn.next]
  BY ScanParts
<1>2. /\ now \in Nat /\ run \in Nat \cup {None} /\ alive \in [Pids -> Instances \cup {None}]
      /\ born \in [Instances -> Nat] /\ born' \in [Instances -> Nat]
      /\ \A i \in Instances : born'[i] <= now /\ (born[i] # 0 => born'[i] = born[i])
      /\ turn.pid # None /\ turn.next # None => born'[turn.next] # 0
  BY <1>1, TypeParts, BirthsInScan
<1>3. NothingIsAhead'
  BY <1>1, <1>2 DEF NothingIsAhead
<1>4. ASSUME NEW q \in Pids, alive'[q] # None
      PROVE  Pid[alive'[q]] = q /\ born'[alive'[q]] # 0
  <2>1. CASE turn.pid # None /\ q = turn.pid
    BY <1>1, <1>2, <1>4, <2>1, TurnParts
  <2>2. CASE ~(turn.pid # None /\ q = turn.pid)
    <3>1. alive'[q] = alive[q]
      BY <1>1, <1>2, <2>2
    <3>2. alive[q] \in Instances /\ Pid[alive[q]] = q /\ born[alive[q]] # 0
      BY <1>2, <1>4, <3>1 DEF AliveHaveBegun
    <3>3. QED
      BY <1>2, <3>1, <3>2
  <2>3. QED
    BY <2>1, <2>2
<1>5. QED
  BY <1>3, <1>4 DEF AliveHaveBegun

\* The start of what a scan collects is not before its instance began.
LEMMA AnchorsAreOwn ==
    ASSUME IInv, NEW turn \in Turns, BornIn(turn), run # None, NEW k \in Keys,
           IdentityKnown(k) => born'[k.id] # 0
    PROVE  /\ IdentityKnown(k) => Anchor(k) >= born'[k.id]
           /\ ~IdentityKnown(k) => Anchor(k) >= run
<1> USE DEF IInv, Inv
<1>1. /\ now \in Nat /\ run \in Nat /\ run <= now
      /\ \A i \in Instances : born'[i] \in Nat /\ born'[i] <= now
                              /\ (born[i] # 0 => born'[i] = born[i])
  BY TypeParts, BirthsInScan DEF NothingIsAhead
<1>2. IdentityKnown(k) => k.id \in Instances
  BY KeyParts
<1>3. CASE Anchor(k) = now
  BY <1>1, <1>2, <1>3
<1>4. CASE k \in DOMAIN episodes /\ (loaded => IdentityKnown(k)) /\ Anchor(k) = episodes[k].since
  BY <1>1, <1>2, <1>4 DEF EpisodesAreOwn, Own, UnknownsAreOfThisRun
<1>5. QED
  BY <1>3, <1>4 DEF Anchor

LEMMA ScanKeepsEpisodes ==
    ASSUME IInv, NEW turn \in Turns, NEW looks, DOMAIN looks = Processes, NEW saved,
           Scan(turn, looks, saved)
    PROVE  EpisodesAreOwn' /\ UnknownsAreOfThisRun' /\ UnreadableIsNotSaved' /\ OwedIsKept'
<1> USE DEF IInv, Inv
<1>1. /\ KeepEpisodes(Collected(turn, looks), saved) /\ BornIn(turn) /\ run # None
      /\ run' = run /\ saving' = saving
  BY ScanParts
<1>2. \A v \in Collected(turn, looks) :
         v.key \in Keys /\ v.atime \in Nat /\ (IdentityKnown(v.key) => born'[v.key.id] # 0)
  BY <1>1, CollectedIsSighted DEF Sighting
<1>3. /\ IsEpisodes(episodes') /\ DOMAIN episodes' = {v.key : v \in Collected(turn, looks)}
      /\ \A k \in DOMAIN episodes' : episodes'[k].since = Anchor(k)
      /\ loaded' = FALSE
      /\ owed' = [k \in {l \in DOMAIN episodes' : IdentityKnown(l)} |-> episodes'[k].since]
      /\ disk' = disk \/ (saving /\ disk' = episodes')
      /\ ~lost' /\ disk' # episodes' =>
            disk' = disk /\ ~lost /\ \A k \in DOMAIN episodes' : ~loaded /\ k \in DOMAIN episodes
  BY <1>1, <1>2, EpisodesKept
<1>4. ASSUME NEW k \in DOMAIN episodes'
      PROVE  /\ IdentityKnown(k) => born'[k.id] # 0 /\ episodes'[k].since >= born'[k.id]
             /\ ~IdentityKnown(k) => episodes'[k].since >= run
  <2>1. k \in Keys /\ (IdentityKnown(k) => born'[k.id] # 0)
    BY <1>2, <1>3
  <2>2. QED
    BY <1>1, <1>3, <2>1, AnchorsAreOwn
<1>5. EpisodesAreOwn'
  <2>1. Own(episodes)'
    BY <1>4 DEF Own, IdentityKnown
  <2>2. CASE disk' = disk
    <3>1. \A i \in Instances : born[i] # 0 => born'[i] = born[i]
      BY <1>1, BirthsInScan
    <3>2. disk # Unreadable => \A k \in DOMAIN disk : k \in Keys /\ (IdentityKnown(k) => k.id \in Instances)
      BY KeyParts DEF TypeOK, IsEpisodes
    <3>3. disk # Unreadable => Own(disk)
      BY DEF EpisodesAreOwn
    <3>4. disk # Unreadable => Own(disk)'
      BY <2>2, <3>1, <3>2, <3>3 DEF Own
    <3>5. QED
      BY <2>1, <2>2, <3>4 DEF EpisodesAreOwn
  <2>3. CASE disk' = episodes'
    BY <2>1, <2>3 DEF EpisodesAreOwn, Own
  <2>4. QED
    BY <1>3, <2>2, <2>3
<1>6. UnknownsAreOfThisRun'
  BY <1>1, <1>4 DEF UnknownsAreOfThisRun
<1>7. UnreadableIsNotSaved'
  <2>1. episodes' # Unreadable
    BY <1>3, UnreadableAssumption DEF IsEpisodes
  <2>2. QED
    BY <1>1, <1>3, <2>1 DEF UnreadableIsNotSaved
<1>8. OwedIsKept'
  <2>1. \A k \in DOMAIN owed' : IdentityKnown(k) /\ k \in DOMAIN episodes' /\ owed'[k] = episodes'[k].since
    BY <1>3
  <2>2. \A k \in DOMAIN episodes' : IdentityKnown(k) => k \in DOMAIN owed'
    BY <1>3
  <2>3. ASSUME ~lost', disk' # Unreadable, NEW k \in DOMAIN owed', k \in DOMAIN disk'
        PROVE  owed'[k] = disk'[k].since
    <3>1. CASE disk' = episodes'
      BY <2>1, <2>3, <3>1
    <3>2. CASE disk' # episodes'
      <4>1. disk' = disk /\ ~lost /\ ~loaded /\ k \in DOMAIN episodes
        BY <1>3, <2>1, <2>3, <3>2
      <4>2. k \in DOMAIN owed /\ owed[k] = episodes[k].since
        BY <1>1, <2>1, <2>3, <4>1 DEF OwedIsKept
      <4>3. owed[k] = disk[k].since
        BY <2>3, <4>1, <4>2 DEF OwedIsKept
      <4>4. episodes'[k].since = episodes[k].since
        BY <1>3, <2>1, <4>1 DEF Anchor
      <4>5. QED
        BY <2>1, <2>3, <4>1, <4>2, <4>3, <4>4
    <3>3. QED
      BY <3>1, <3>2
  <2>4. QED
    BY <2>1, <2>2, <2>3 DEF OwedIsKept
<1>9. QED
  BY <1>5, <1>6, <1>7, <1>8

LEMMA ScanKeepsShown ==
    ASSUME IInv, NEW turn \in Turns, NEW looks, DOMAIN looks = Processes, NEW saved,
           Scan(turn, looks, saved)
    PROVE  ShownHasBegun' /\ ChallengesAreCurrent' /\ AnchorIsOwn' /\ ShownIsMine'
<1> USE DEF IInv, Inv
<1>1. /\ BornIn(turn) /\ run # None /\ run' = run
      /\ SelectInstances(ToolChoices(turn, looks))
      /\ Feature({Candidate(c) : c \in ToolChoices(turn, looks)})
  BY ScanParts
<1>2. ASSUME shown' # None
      PROVE  /\ IdentityKnown(shown'.key) => born'[shown'.key.id] # 0
             /\ IdentityKnown(shown'.key) => shown'.since >= born'[shown'.key.id]
             /\ ~IdentityKnown(shown'.key) => shown'.since >= run
             /\ shown'.named \notin Unknown =>
                   shown'.named \notin Foreign /\ shown'.cwd = shown'.named
  <2>1. PICK v \in Collected(turn, looks) :
           /\ shown'.key = v.key /\ shown'.named = v.named /\ shown'.cwd = v.cwd
           /\ shown'.since = Anchor(v.key)
    BY <1>1, <1>2, ShownIsCollected
  <2>2. Sighting(v)
    BY <1>1, CollectedIsSighted
  <2>3. v.key \in Keys /\ (IdentityKnown(v.key) => born'[v.key.id] # 0)
    BY <2>2 DEF Sighting
  <2>4. /\ IdentityKnown(v.key) => Anchor(v.key) >= born'[v.key.id]
        /\ ~IdentityKnown(v.key) => Anchor(v.key) >= run
    BY <1>1, <2>3, AnchorsAreOwn
  <2>5. QED
    BY <2>1, <2>2, <2>3, <2>4 DEF Sighting
<1>3. ShownHasBegun' /\ AnchorIsOwn' /\ ShownIsMine'
  BY <1>1, <1>2 DEF ShownHasBegun, AnchorIsOwn, ShownIsMine, IdentityKnown
<1>4. ASSUME NEW t \in Tools, challenge'[t].count > 0
      PROVE  winner'[t].better = challenge'[t].key
  <2>1. challenge'[t] # NoChallenge
    BY <1>4 DEF NoChallenge
  <2>2. PICK c \in ToolChoices(turn, looks) :
           /\ challenge'[t] = c.challenge
           /\ winner'[t] = [among |-> c.among, better |-> c.better]
    BY <1>1, <2>1, InstancesSelected
  <2>3. c.challenge.count > 0 => c.better = c.challenge.key
    BY <1>1, ChoicesAreMade DEF Choice
  <2>4. QED
    BY <1>4, <2>2, <2>3
<1>5. QED
  BY <1>3, <1>4 DEF ChallengesAreCurrent

LEMMA ScanKeepsIInv ==
    ASSUME IInv, NEW turn \in Turns, NEW looks, DOMAIN looks = Processes, NEW saved,
           Scan(turn, looks, saved)
    PROVE  IInv'
BY ScanKeepsTypes, ScanKeepsBirths, ScanKeepsEpisodes, ScanKeepsShown DEF IInv, Inv


-----------------------------------------------------------------------------
(* The other actions.                                                        *)

LEMMA EmptyParts == DOMAIN Empty = {} /\ IsEpisodes(Empty) /\ Own(Empty)
BY DEF Empty, IsEpisodes, Own

LEMMA EarliestIsFirst ==
    ASSUME NEW q \in Pids
    PROVE  Earliest(q) \in Instances /\ Pid[Earliest(q)] = q
<1> DEFINE S == {i \in Instances : Pid[i] = q}
           R == {r \in S \X S : r[1] <= r[2]}
<1>1. S # {} /\ IsFiniteSet(S) /\ S \subseteq Nat
  BY InstancesAssumption, FS_Subset DEF Pids
<1>2. \A i, j \in S : <<i, j>> \in R <=> i <= j
  OBVIOUS
<1> HIDE DEF R
<1>3. \E i \in S : \A j \in S \ {i} : <<i, j>> \in R
  <2> HIDE DEF S
  <2>1. \A i, j \in S : i # j => <<i, j>> \in R \/ <<j, i>> \in R
    BY <1>1, <1>2
  <2>2. \A i, j, l \in S : <<i, j>> \in R /\ <<j, l>> \in R => <<i, l>> \in R
    BY <1>1, <1>2
  <2>3. S # {} /\ IsFiniteSet(S)
    BY <1>1
  <2>4. QED
    BY <2>1, <2>2, <2>3, FirstExists
<1>4. \E i \in S : \A j \in S : i <= j
  <2> HIDE DEF S
  <2>1. PICK i \in S : \A j \in S \ {i} : <<i, j>> \in R
    BY <1>3
  <2>2. ASSUME NEW j \in S PROVE i <= j
    <3>1. CASE j = i
      BY <1>1, <3>1
    <3>2. CASE j # i
      <4>1. <<i, j>> \in R
        BY <2>1, <3>2
      <4>2. QED
        BY <1>2, <4>1
    <3>3. QED
      BY <3>1, <3>2
  <2>3. QED
    BY <2>2
<1>5. \E i \in Instances : Pid[i] = q /\ \A j \in Instances : Pid[j] = q => i <= j
  BY <1>4
<1>6. QED
  BY <1>5 DEF Earliest

LEMMA InitIInv == Init => IInv
<1> SUFFICES ASSUME Init
             PROVE  IInv
  OBVIOUS
<1>1. /\ now = 1 /\ run = None /\ alive = [q \in Pids |-> Earliest(q)]
      /\ born = [i \in Instances |-> IF \E q \in Pids : i = Earliest(q) THEN now ELSE 0]
      /\ episodes = Empty /\ loaded = TRUE /\ saving = FALSE
      /\ disk \in {Empty, Unreadable} /\ shown = None /\ owed = Empty /\ lost = FALSE
      /\ selected = [t \in Tools |-> None] /\ challenge = [t \in Tools |-> NoChallenge]
      /\ winner = [t \in Tools |-> NoWinner]
  BY DEF Init, PerTool
<1>2. \A q \in Pids : Earliest(q) \in Instances /\ Pid[Earliest(q)] = q
  BY EarliestIsFirst
<1>3. TypeOK
  <2>1. alive \in [Pids -> Instances \cup {None}] /\ born \in [Instances -> Nat]
    BY <1>1, <1>2
  <2>2. DOMAIN owed \subseteq Keys /\ owed \in [DOMAIN owed -> Nat]
    BY <1>1 DEF Empty
  <2>3. \A t \in Tools : challenge[t].count \in Nat
    BY <1>1 DEF NoChallenge
  <2>4. QED
    BY <1>1, <2>1, <2>2, <2>3, EmptyParts DEF TypeOK
<1>4. AliveHaveBegun /\ NothingIsAhead
  BY <1>1, <1>2 DEF AliveHaveBegun, NothingIsAhead
<1>5. EpisodesAreOwn /\ UnknownsAreOfThisRun /\ UnreadableIsNotSaved /\ OwedIsKept
  BY <1>1, EmptyParts DEF EpisodesAreOwn, UnknownsAreOfThisRun, UnreadableIsNotSaved, OwedIsKept
<1>6. ShownHasBegun /\ ChallengesAreCurrent /\ AnchorIsOwn /\ ShownIsMine
  BY <1>1 DEF ShownHasBegun, ChallengesAreCurrent, NoChallenge, AnchorIsOwn, ShownIsMine
<1>7. QED
  BY <1>3, <1>4, <1>5, <1>6 DEF IInv, Inv

\* What the invariant reads.
Read == <<now, alive, born, run, selected, challenge, episodes, loaded, saving, disk, shown,
          owed, lost, winner>>

LEMMA UnreadKeepsIInv == IInv /\ UNCHANGED Read => IInv'
<1> SUFFICES ASSUME IInv, UNCHANGED Read
             PROVE  IInv'
  OBVIOUS
<1> USE DEF Read, IInv, Inv
<1>1. TypeOK'
  BY DEF TypeOK, IsEpisodes
<1>2. AliveHaveBegun' /\ NothingIsAhead' /\ EpisodesAreOwn' /\ UnknownsAreOfThisRun'
  BY DEF AliveHaveBegun, NothingIsAhead, EpisodesAreOwn, Own, UnknownsAreOfThisRun
<1>3. UnreadableIsNotSaved' /\ ShownHasBegun' /\ OwedIsKept' /\ ChallengesAreCurrent'
  BY DEF UnreadableIsNotSaved, ShownHasBegun, OwedIsKept, ChallengesAreCurrent
<1>4. AnchorIsOwn' /\ ShownIsMine'
  BY DEF AnchorIsOwn, ShownIsMine
<1>5. QED
  BY <1>1, <1>2, <1>3, <1>4

LEMMA TurnKeepsIInv ==
    ASSUME IInv, NEW q \in Pids, Turn(q)
    PROVE  IInv'
<1> USE DEF IInv, Inv
<1>1. UNCHANGED <<now, run, selected, challenge, episodes, loaded, saving, disk, shown, owed,
                  lost, winner>>
  BY DEF Turn, selector, store, history
<1>2. /\ now \in Nat /\ now # 0 /\ alive \in [Pids -> Instances \cup {None}]
      /\ born \in [Instances -> Nat] /\ \A i \in Instances : born[i] <= now
  BY TypeParts DEF NothingIsAhead
<1>3. \/ alive' = [alive EXCEPT ![q] = None] /\ born' = born
      \/ \E i \in Instances : /\ Pid[i] = q /\ born[i] = 0
                              /\ alive' = [alive EXCEPT ![q] = i] /\ born' = [born EXCEPT ![i] = now]
  BY DEF Turn, NextOf
<1>4. /\ alive' \in [Pids -> Instances \cup {None}] /\ born' \in [Instances -> Nat]
      /\ \A i \in Instances : born'[i] <= now /\ (born[i] # 0 => born'[i] = born[i])
  BY <1>2, <1>3
<1>5. AliveHaveBegun'
  <2>1. ASSUME NEW p \in Pids, alive'[p] # None
        PROVE  Pid[alive'[p]] = p /\ born'[alive'[p]] # 0
    <3>1. CASE p = q
      BY <1>2, <1>3, <2>1, <3>1
    <3>2. CASE p # q
      <4>1. alive'[p] = alive[p]
        BY <1>2, <1>3, <3>2
      <4>2. alive[p] \in Instances /\ Pid[alive[p]] = p /\ born[alive[p]] # 0
        BY <1>2, <2>1, <4>1 DEF AliveHaveBegun
      <4>3. QED
        BY <1>4, <4>1, <4>2
    <3>3. QED
      BY <3>1, <3>2
  <2>2. QED
    BY <2>1 DEF AliveHaveBegun
<1>6. NothingIsAhead'
  BY <1>1, <1>2, <1>4 DEF NothingIsAhead
<1>7. EpisodesAreOwn'
  <2>1. \A k \in Keys : IdentityKnown(k) => k.id \in Instances
    BY KeyParts
  <2>2. /\ DOMAIN episodes \subseteq Keys
        /\ disk # Unreadable => DOMAIN disk \subseteq Keys
    BY DEF TypeOK, IsEpisodes
  <2>3. Own(episodes)' /\ (disk # Unreadable => Own(disk)')
    BY <1>1, <1>4, <2>1, <2>2 DEF EpisodesAreOwn, Own
  <2>4. QED
    BY <1>1, <2>3 DEF EpisodesAreOwn
<1>8. ShownHasBegun' /\ AnchorIsOwn'
  <2>1. CASE shown = None
    BY <1>1, <2>1 DEF ShownHasBegun, AnchorIsOwn
  <2>2. CASE shown # None
    <3>1. IdentityKnown(shown.key) => born[shown.key.id] # 0 /\ shown.key.id \in Instances
      BY <2>2, KeyParts DEF ShownHasBegun, TypeOK
    <3>2. QED
      BY <1>1, <1>4, <2>2, <3>1 DEF ShownHasBegun, AnchorIsOwn
  <2>3. QED
    BY <2>1, <2>2
<1>9. /\ UnknownsAreOfThisRun' /\ UnreadableIsNotSaved' /\ OwedIsKept' /\ ChallengesAreCurrent'
      /\ ShownIsMine'
  BY <1>1 DEF UnknownsAreOfThisRun, UnreadableIsNotSaved, OwedIsKept, ChallengesAreCurrent,
              ShownIsMine
<1>10. TypeOK'
  BY <1>1, <1>4 DEF TypeOK, IsEpisodes
<1>11. QED
  BY <1>5, <1>6, <1>7, <1>8, <1>9, <1>10

LEMMA StartKeepsIInv ==
    ASSUME IInv, StartDaemon
    PROVE  IInv'
<1> USE DEF IInv, Inv
<1> DEFINE file == IF disk = Unreadable THEN Empty ELSE disk
<1>1. /\ run = None /\ run' = now /\ loaded' = TRUE /\ saving' = (disk # Unreadable)
      /\ owed' = IF lost THEN Empty ELSE Only(owed, DOMAIN episodes')
      /\ lost' = FALSE
      /\ UNCHANGED <<now, alive, born, selected, challenge, disk, shown, winner>>
  BY DEF StartDaemon, MayWrite, processes, selector
<1>2. PICK keys \in SUBSET DOMAIN file :
         episodes' = IF disk = Unreadable THEN Empty ELSE Only(disk, keys)
  BY DEF StartDaemon, Kept
<1>3. /\ DOMAIN episodes' \subseteq DOMAIN file
      /\ \A k \in DOMAIN episodes' : episodes'[k] = file[k] /\ disk # Unreadable
      /\ episodes' = [k \in DOMAIN episodes' |-> episodes'[k]]
  <2>1. CASE disk = Unreadable
    BY <1>2, <2>1, EmptyParts DEF Empty
  <2>2. CASE disk # Unreadable
    BY <1>2, <2>2 DEF Only
  <2>3. QED
    BY <2>1, <2>2
<1>4. IsEpisodes(file) /\ Own(file)
  BY EmptyParts DEF TypeOK, EpisodesAreOwn
<1> HIDE DEF file
<1>5. IsEpisodes(episodes') /\ Own(episodes)'
  BY <1>1, <1>3, <1>4 DEF IsEpisodes, Own
<1>6. /\ DOMAIN owed' \subseteq DOMAIN owed \cap DOMAIN episodes'
      /\ \A k \in DOMAIN owed' : ~lost /\ owed'[k] = owed[k]
      /\ owed' = [k \in DOMAIN owed' |-> owed'[k]]
  BY <1>1, EmptyParts DEF Only, Empty
<1>7. shown = None
  BY <1>1 DEF ShownHasBegun
<1>8. TypeOK'
  <2>1. DOMAIN owed' \subseteq Keys /\ owed' \in [DOMAIN owed' -> Nat]
    BY <1>6 DEF TypeOK
  <2>2. run' \in Nat \cup {None} /\ saving' \in BOOLEAN /\ loaded' \in BOOLEAN /\ lost' \in BOOLEAN
    BY <1>1, TypeParts
  <2>3. QED
    BY <1>1, <1>5, <2>1, <2>2 DEF TypeOK, IsEpisodes
<1>9. AliveHaveBegun' /\ NothingIsAhead'
  BY <1>1, TypeParts DEF AliveHaveBegun, NothingIsAhead
<1>10. EpisodesAreOwn'
  BY <1>1, <1>5 DEF EpisodesAreOwn, Own
<1>11. UnknownsAreOfThisRun' /\ UnreadableIsNotSaved'
  BY <1>1 DEF UnknownsAreOfThisRun, UnreadableIsNotSaved
<1>12. OwedIsKept'
  <2>1. ASSUME NEW k \in DOMAIN owed'
        PROVE  /\ IdentityKnown(k) /\ k \in DOMAIN episodes' /\ owed'[k] = episodes'[k].since
               /\ disk # Unreadable /\ k \in DOMAIN disk /\ owed'[k] = disk[k].since
    BY <1>3, <1>6 DEF OwedIsKept, file
  <2>2. QED
    BY <1>1, <2>1 DEF OwedIsKept
<1>13. ShownHasBegun' /\ AnchorIsOwn' /\ ShownIsMine' /\ ChallengesAreCurrent'
  BY <1>1, <1>7 DEF ShownHasBegun, AnchorIsOwn, ShownIsMine, ChallengesAreCurrent
<1>14. QED
  BY <1>8, <1>9, <1>10, <1>11, <1>12, <1>13

\* The daemon ends; the file is as it was, or the episodes were saved.
LEMMA ForgetKeepsIInv ==
    ASSUME IInv, run # None, Forget,
           \/ disk' = disk /\ lost' = lost
           \/ saving /\ disk' = episodes /\ lost' = FALSE
    PROVE  IInv'
<1> USE DEF IInv, Inv
<1>1. /\ run' = None /\ episodes' = Empty /\ loaded' = TRUE /\ saving' = FALSE /\ shown' = None
      /\ selected' = [t \in Tools |-> None] /\ challenge' = [t \in Tools |-> NoChallenge]
      /\ winner' = [t \in Tools |-> NoWinner]
      /\ UNCHANGED <<now, alive, born, owed>>
  BY DEF Forget, PerTool
<1>2. TypeOK'
  <2>1. disk' # Unreadable => IsEpisodes(disk')
    BY DEF TypeOK
  <2>2. lost' \in BOOLEAN
    BY DEF TypeOK
  <2>3. \A t \in Tools : challenge'[t].count \in Nat
    BY <1>1 DEF NoChallenge
  <2>4. QED
    BY <1>1, <2>1, <2>2, <2>3, EmptyParts DEF TypeOK
<1>3. AliveHaveBegun' /\ NothingIsAhead'
  BY <1>1 DEF AliveHaveBegun, NothingIsAhead
<1>4. EpisodesAreOwn'
  <2>1. disk' # Unreadable => Own(disk)'
    BY <1>1 DEF EpisodesAreOwn, Own
  <2>2. QED
    BY <1>1, <2>1, EmptyParts DEF EpisodesAreOwn, Own
<1>5. UnknownsAreOfThisRun' /\ UnreadableIsNotSaved'
  BY <1>1 DEF UnknownsAreOfThisRun, UnreadableIsNotSaved
<1>6. OwedIsKept'
  BY <1>1 DEF OwedIsKept
<1>7. ShownHasBegun' /\ AnchorIsOwn' /\ ShownIsMine' /\ ChallengesAreCurrent'
  BY <1>1 DEF ShownHasBegun, AnchorIsOwn, ShownIsMine, ChallengesAreCurrent, NoChallenge
<1>8. QED
  BY <1>2, <1>3, <1>4, <1>5, <1>6, <1>7

-----------------------------------------------------------------------------
(* Every step keeps the invariant.                                           *)

LEMMA NextIsOneOf ==
    ASSUME Next
    PROVE  \/ \E turn \in Turns, saved \in BOOLEAN :
                 \E looks : DOMAIN looks = Processes /\ Scan(turn, looks, saved)
           \/ \E q \in Pids : Turn(q)
           \/ StartDaemon \/ StopDaemon \/ Crash
           \/ \E c \in Configs : Reconfigure(c)
<1>1. ASSUME NEW looks \in [Processes -> {l \in Looks : ~Failed(l)}], Scan(NoTurn, looks, TRUE)
      PROVE  \E turn \in Turns, saved \in BOOLEAN :
                \E ls : DOMAIN ls = Processes /\ Scan(turn, ls, saved)
  <2>1. NoTurn \in Turns /\ DOMAIN looks = Processes
    BY DEF Turns
  <2>2. QED
    BY <1>1, <2>1
<1>2. QED
  BY <1>1 DEF Next, Processes

LEMMA NextIInv == IInv /\ [Next]_vars => IInv'
<1> SUFFICES ASSUME IInv, [Next]_vars
             PROVE  IInv'
  OBVIOUS
<1>1. CASE UNCHANGED vars
  <2>1. UNCHANGED Read
    BY <1>1 DEF vars, processes, selector, store, history, Read
  <2>2. QED
    BY <2>1, UnreadKeepsIInv
<1>2. ASSUME NEW turn \in Turns, NEW saved \in BOOLEAN, NEW looks, DOMAIN looks = Processes,
             Scan(turn, looks, saved)
      PROVE  IInv'
  BY <1>2, ScanKeepsIInv
<1>3. ASSUME NEW q \in Pids, Turn(q)
      PROVE  IInv'
  BY <1>3, TurnKeepsIInv
<1>4. CASE StartDaemon
  BY <1>4, StartKeepsIInv
<1>5. CASE StopDaemon
  BY <1>5, ForgetKeepsIInv DEF StopDaemon
<1>6. CASE Crash
  BY <1>6, ForgetKeepsIInv DEF Crash
<1>7. ASSUME NEW c \in Configs, Reconfigure(c)
      PROVE  IInv'
  <2>1. UNCHANGED Read
    BY <1>7 DEF Reconfigure, processes, selector, store, history, Read
  <2>2. QED
    BY <2>1, UnreadKeepsIInv
<1>8. QED
  BY <1>1, <1>2, <1>3, <1>4, <1>5, <1>6, <1>7, NextIsOneOf

LEMMA IInvHolds == Spec => []IInv
BY InitIInv, NextIInv, PTL DEF Spec

\* All but scans and the end of the daemon leave the choices alone.
LEMMA ChoicesStay ==
    ASSUME [Next]_vars
    PROVE  \/ \E turn \in Turns, saved \in BOOLEAN :
                 \E looks : DOMAIN looks = Processes /\ Scan(turn, looks, saved)
           \/ Forget
           \/ selected' = selected
<1>1. ASSUME NEW q \in Pids, Turn(q) PROVE selected' = selected
  BY <1>1 DEF Turn, selector
<1>2. StartDaemon => selected' = selected
  BY DEF StartDaemon, selector
<1>3. StopDaemon \/ Crash => Forget
  BY DEF StopDaemon, Crash
<1>4. ASSUME NEW c \in Configs, Reconfigure(c) PROVE selected' = selected
  BY <1>4 DEF Reconfigure, selector
<1>5. UNCHANGED vars => selected' = selected
  BY DEF vars, selector
<1>6. QED
  BY <1>1, <1>2, <1>3, <1>4, <1>5, NextIsOneOf

\* All but scans and starts of the daemon leave what is owed alone.
LEMMA OwedStays ==
    ASSUME [Next]_vars
    PROVE  \/ \E turn \in Turns, saved \in BOOLEAN :
                 \E looks : DOMAIN looks = Processes /\ Scan(turn, looks, saved)
           \/ StartDaemon
           \/ owed' = owed
<1>1. ASSUME NEW q \in Pids, Turn(q) PROVE owed' = owed
  BY <1>1 DEF Turn, history
<1>2. StopDaemon \/ Crash => owed' = owed
  BY DEF StopDaemon, Crash, Forget
<1>3. ASSUME NEW c \in Configs, Reconfigure(c) PROVE owed' = owed
  BY <1>3 DEF Reconfigure, history
<1>4. UNCHANGED vars => owed' = owed
  BY DEF vars, history
<1>5. QED
  BY <1>1, <1>2, <1>3, <1>4, NextIsOneOf

-----------------------------------------------------------------------------
\* Whatever the properties read keeps its type.
THEOREM TypeCorrect == Spec => []TypeOK
<1>1. IInv => TypeOK
  BY DEF IInv
<1>2. QED
  BY IInvHolds, <1>1, PTL

\* No session is ever shown with the start of another.
THEOREM AnchorsStayOwn == Spec => []AnchorIsOwn
<1>1. IInv => AnchorIsOwn
  BY DEF IInv, Inv
<1>2. QED
  BY IInvHolds, <1>1, PTL

\* Nothing of another user is ever shown, however ids change hands in a scan.
THEOREM ShownStaysMine == Spec => []ShownIsMine
<1>1. IInv => ShownIsMine
  BY DEF IInv, Inv
<1>2. QED
  BY IInvHolds, <1>1, PTL

\* The elapsed timer of a known instance goes on across scans, restarts and
\* crashes, unless its last change could not be saved.
THEOREM TimersContinue == Spec => TimerContinues
<1>1. ASSUME IInv, [Next]_vars
      PROVE  [\A k \in DOMAIN owed \cap DOMAIN owed' : owed'[k] = owed[k]]_vars
  <2> SUFFICES ASSUME NEW k \in DOMAIN owed \cap DOMAIN owed'
               PROVE  owed'[k] = owed[k]
    OBVIOUS
  <2> USE <1>1 DEF IInv, Inv
  <2>1. ASSUME NEW turn \in Turns, NEW saved \in BOOLEAN, NEW looks, DOMAIN looks = Processes,
               Scan(turn, looks, saved)
        PROVE  owed'[k] = owed[k]
    <3>1. KeepEpisodes(Collected(turn, looks), saved) /\ BornIn(turn) /\ run # None
      BY <2>1, ScanParts
    <3>2. \A v \in Collected(turn, looks) : v.key \in Keys /\ v.atime \in Nat
      BY <2>1, <3>1, CollectedIsSighted DEF Sighting
    <3>3. /\ \A l \in DOMAIN episodes' : episodes'[l].since = Anchor(l)
          /\ owed' = [l \in {m \in DOMAIN episodes' : IdentityKnown(m)} |-> episodes'[l].since]
      BY <3>1, <3>2, EpisodesKept
    <3>4. k \in DOMAIN episodes' /\ owed'[k] = Anchor(k)
      BY <3>3
    <3>5. k \in DOMAIN episodes /\ owed[k] = episodes[k].since /\ IdentityKnown(k)
      BY <3>1 DEF OwedIsKept
    <3>6. QED
      BY <3>4, <3>5 DEF Anchor
  <2>2. CASE StartDaemon
    BY <2>2 DEF StartDaemon, Only, Empty
  <2>3. QED
    BY <2>1, <2>2, OwedStays
<1>2. QED
  BY IInvHolds, <1>1, PTL DEF Spec, TimerContinues

\* Another instance of a tool takes the place of one that is still there only
\* after it was clearly better in two scans in a row.
THEOREM SwitchesStayConfirmed == Spec => SwitchesAreConfirmed
<1>1. ASSUME IInv, [Next]_vars
      PROVE  [\A t \in Tools :
          selected[t] \in winner'[t].among /\ selected'[t] # selected[t]
            => winner[t].better = selected'[t] /\ winner'[t].better = selected'[t]]_vars
  <2> SUFFICES ASSUME NEW t \in Tools, selected[t] \in winner'[t].among, selected'[t] # selected[t]
               PROVE  winner[t].better = selected'[t] /\ winner'[t].better = selected'[t]
    OBVIOUS
  <2> USE <1>1 DEF IInv, Inv
  <2>1. winner'[t] # NoWinner
    BY DEF NoWinner
  <2>2. ~Forget
    BY <2>1 DEF Forget, PerTool
  <2>3. PICK turn \in Turns, saved \in BOOLEAN :
           \E looks : DOMAIN looks = Processes /\ Scan(turn, looks, saved)
    BY <2>2, ChoicesStay
  <2>4. PICK looks : DOMAIN looks = Processes /\ Scan(turn, looks, saved)
    BY <2>3
  <2>5. BornIn(turn) /\ SelectInstances(ToolChoices(turn, looks))
    BY <2>4, ScanParts
  <2>6. PICK c \in ToolChoices(turn, looks) :
           /\ c.tool = t /\ selected'[t] = c.pick.key
           /\ winner'[t] = [among |-> c.among, better |-> c.better]
    BY <2>1, <2>5, InstancesSelected
  <2>7. Choice(c, t, Featured(turn, looks))
    BY <2>4, <2>5, <2>6, ChoicesAreMade
  <2>8. /\ c.better = c.pick.key
        /\ challenge[t].count > 0 /\ challenge[t].key = c.pick.key
    BY <2>6, <2>7 DEF Choice
  <2>9. QED
    BY <2>6, <2>8 DEF ChallengesAreCurrent
<1>2. QED
  BY IInvHolds, <1>1, PTL DEF Spec, SwitchesAreConfirmed

\* A file that could not be loaded is never overwritten.
THEOREM UnreadableStaysKept == Spec => UnreadableIsKept
<1>1. ASSUME IInv, [Next]_vars
      PROVE  [disk = Unreadable => disk' = Unreadable]_vars
  <2> SUFFICES ASSUME disk = Unreadable
               PROVE  disk' = disk
    OBVIOUS
  <2> USE <1>1 DEF IInv, Inv
  <2>1. ~saving
    BY DEF UnreadableIsNotSaved
  <2>2. ASSUME NEW turn \in Turns, NEW saved \in BOOLEAN, NEW looks, DOMAIN looks = Processes,
               Scan(turn, looks, saved)
        PROVE  disk' = disk
    BY <2>1, <2>2, ScanParts DEF KeepEpisodes
  <2>3. ASSUME NEW q \in Pids, Turn(q) PROVE disk' = disk
    BY <2>3 DEF Turn
  <2>4. StartDaemon \/ StopDaemon \/ Crash => disk' = disk
    BY <2>1 DEF StartDaemon, StopDaemon, Crash
  <2>5. ASSUME NEW c \in Configs, Reconfigure(c) PROVE disk' = disk
    BY <2>5 DEF Reconfigure
  <2>6. UNCHANGED vars => disk' = disk
    BY DEF vars
  <2>7. QED
    BY <2>2, <2>3, <2>4, <2>5, <2>6, NextIsOneOf
<1>2. QED
  BY IInvHolds, <1>1, PTL DEF Spec, UnreadableIsKept

=============================================================================
