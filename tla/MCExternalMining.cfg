SPECIFICATION FairSpec
CONSTANTS
  MaxTemplates = 2
  MaxTips = 3
  MaxFlips = 2
INVARIANTS
  SlotOwned
  ReadyCurrent
PROPERTIES
  ImplementsAttempt
  SlotFreed
CHECK_DEADLOCK FALSE
