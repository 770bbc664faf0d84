SPECIFICATION Spec
CONSTANTS
  Block = 2
  FirstImap = 3
  MaxId = 8
INVARIANT TypeOK
PROPERTIES SourceKeysReserved ImapUidsReserved
