\* Two sessions of a group, two connections; the server may stop.
CONSTANTS Sessions = {s1, s2}
          Conns = {c1, c2}
          Workers = {w1}
          Producers = {p1}
          None = None
          MaxNotes = 2
          Stops = TRUE
SPECIFICATION Spec
SYMMETRY Symmetry
INVARIANTS TypeOK NoLostWakeup OneHolder
PROPERTY ContractHolds
CHECK_DEADLOCK FALSE
