\* Two sessions, two messages; no symmetry, for liveness.
CONSTANTS Sessions = {s1, s2}
          Objects = {m1, m2}
          None = None
SPECIFICATION FairSpec
INVARIANTS TypeOK HolderHasEntry
PROPERTIES OnlyHolderReleases LocksReleased
CHECK_DEADLOCK FALSE
