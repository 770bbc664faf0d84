\* Two connections, one or two worker threads and more by the watchdog; one SIGHUP.
CONSTANTS Conns = {c1, c2}
          PrioConns = {}
          Workers = {w1, w2}
          Prio = Prio
          Notifier = Notifier
          None = None
          Counts = {1, 2}
          MaxHups = 1
          HupHosts = {"other"}
          Spurious = {w1, w2}
          Stops = FALSE
SPECIFICATION Spec
SYMMETRY Symmetry
INVARIANTS TypeOK EventsHold NotStranded EnoughThreads
PROPERTY ContractHolds
CHECK_DEADLOCK FALSE
