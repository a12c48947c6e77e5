----------------------------- MODULE MCUpdates -----------------------------
(***************************************************************************)
(* Two daemons in turn and one command, over two releases, the second a    *)
(* prerelease of the next minor version.                                   *)
(***************************************************************************)
EXTENDS Updates, TLC

CONSTANTS d1, d2, c1

Symmetry == Permutations({d1, d2})

(* Nothing is claimed once two processes hold the lock. *)
Unforced == ~forced

MCReleases ==
    << [core |-> <<1, 9, 0>>, pre |-> <<>>],
       [core |-> <<1, 10, 0>>, pre |-> << [numeric |-> FALSE, rank |-> 1] >>] >>

MCInstalls == { {"linux"} }

(* Versions that differ in one respect each. *)
Identifiers == [numeric : BOOLEAN, rank : 1 .. 2]
Versions ==
    [core : {<<1, 9, 0>>, <<1, 10, 0>>},
     pre : {<<>>} \cup {<<i>> : i \in Identifiers} \cup {<<i, j>> : i, j \in Identifiers}]

(* The precedence of versions is a strict total order. *)
ASSUME PrecedenceIsTotal ==
    \A v, w \in Versions :
        /\ IsNewer(v, w) => ~IsNewer(w, v) /\ ~SameVersion(v, w)
        /\ v # w => IsNewer(v, w) \/ IsNewer(w, v)
        /\ \A u \in Versions : IsNewer(u, v) /\ IsNewer(v, w) => IsNewer(u, w)

\* How an installation is recognised and replaced, for every way it may fail.
Installing == INSTANCE Installations
ASSUME Installing!TagsAreReadBack(7)
ASSUME Installing!OwnerDecides
ASSUME Installing!NothingUncheckedIsInstalled
ASSUME Installing!UpdateIsHonest
ASSUME Installing!FrontEndsAreUsable
============================================================================
