\* A worker and the priority worker serve a connection each; the server may
\* be stopped at any moment; no SIGHUP.
CONSTANTS Conns = {c1, c2}
          PrioConns = {c2}
          Workers = {w1}
          Prio = Prio
          Notifier = Notifier
          None = None
          Counts = {1}
          MaxHups = 0
          HupHosts = {}
          Spurious = {w1}
          Stops = TRUE
SPECIFICATION FairSpec
INVARIANT StoppedClean
PROPERTIES Served ServerStops
CHECK_DEADLOCK FALSE
