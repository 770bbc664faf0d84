SPECIFICATION Spec
CONSTANTS
  Workers = {w1, w2}
  Slots = {s1, s2}
  First = 2
  MaxInstance = 3
  MaxOps = 2
  MaxBegins = 3
  MaxCrashes = 1
SYMMETRY Symmetry
INVARIANTS
  TypeOK
  FileThere
  NothingLeft
\* the transactions are counted: the last one ends and nothing follows
CHECK_DEADLOCK FALSE
