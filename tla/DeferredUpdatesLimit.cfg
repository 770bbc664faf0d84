\* One call that writes, and no reader; no symmetry, for liveness.
\* When all calls are made and few updates are deferred there is nothing to do.
SPECIFICATION UnreadSpec
CONSTANTS
  Folders = {f1, f2}
  Messages = {m1, m2}
  Workers = {w1}
  Thread = thread
  Admin = admin
  Reader = reader
  None = None
  Gone = Gone
  MaxDeferred = 2
  MaxDeferredFolder = 2
  MaxWrites = 2
PROPERTY KeptBelow
CHECK_DEADLOCK FALSE
