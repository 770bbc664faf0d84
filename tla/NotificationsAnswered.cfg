\* One session, two connections; no symmetry, for liveness.
CONSTANTS Sessions = {s1}
          Conns = {c1, c2}
          Workers = {w1}
          Producers = {p1, p2}
          None = None
          MaxNotes = 1
          Stops = TRUE
SPECIFICATION FairSpec
PROPERTY Answered
CHECK_DEADLOCK FALSE
