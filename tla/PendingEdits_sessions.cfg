CONSTANTS
  Targets <- Edited
  Kind <- KindOf
  Table <- TableOf
  Values <- ValuesOf
  ForeignKeys <- Keys
  MaxIds = 2
  MaxHistory = 2
  MaxApplies = 2
  MaxSessions = 2
SPECIFICATION EditsSpec
CHECK_DEADLOCK FALSE
INVARIANTS EditsTypeOK OnePerCell DraftIsCurrent SentInOrder
PROPERTY NothingUnrecoverable
