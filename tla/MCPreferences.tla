--------------------------- MODULE MCPreferences ---------------------------
(* Two installations on each platform and a value besides start_at_login.    *)
EXTENDS Preferences, TLC

CONSTANTS on, off

Symmetry == Permutations(Exes)
MCFallback == [login |-> TRUE, value |-> off]
=============================================================================
