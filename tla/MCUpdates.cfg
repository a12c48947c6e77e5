SPECIFICATION Spec
CONSTANTS
    d1 = d1
    d2 = d2
    c1 = c1
    None = None
    Dead = Dead
    Daemons = {d1, d2}
    Runs = {c1}
    Releases <- MCReleases
    Installs <- MCInstalls
    Lifetime = 1
    Horizon = 1
SYMMETRY Symmetry
CONSTRAINT Unforced
\* Every process may have ended.
CHECK_DEADLOCK FALSE
INVARIANTS
    LookupsAreRare
    NoticeIsTrue
PROPERTIES
    AttemptIsKept
