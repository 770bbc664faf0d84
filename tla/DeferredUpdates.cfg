\* Two calls that write at once, the purge thread, an administrator and a reader.
SPECIFICATION Spec
CONSTANTS
  Folders = {f1, f2}
  Messages = {m1, m2}
  Workers = {w1, w2}
  Thread = thread
  Admin = admin
  Reader = reader
  None = None
  Gone = Gone
  MaxDeferred = 2
  MaxDeferredFolder = 2
  MaxWrites = 2
SYMMETRY Symmetry
INVARIANTS TypeOK AtHome  
