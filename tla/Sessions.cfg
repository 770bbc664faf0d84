\* Two sessions of one group id or of groups of their own; no symmetry, for
\* liveness.
CONSTANTS
  Workers = {w1, w2}
  Notifier = notifier
  Cleaner = cleaner
  Main = main
  Sids = {s1, s2}
  Gids = {g1}
  OwnGroup = own
  None = none
  TestProtocol = TRUE
SPECIFICATION FairSpec
INVARIANTS
  TypeOK
  SafeDelete
  OneDeleter
  MembersAlive
  NoOrphanLeft
PROPERTIES
  ContractHolds
  EventuallyDeleted
CHECK_DEADLOCK FALSE
