CONSTANTS
  MaxTips = 2
  MaxEvents = 3
SPECIFICATION FairSpec
INVARIANTS
  TemplateInvalidated
  AdmissionNoticed
PROPERTIES
  CommitsCurrent
  ImplementsAttempt
  StopExits
  ReadyMines
CHECK_DEADLOCK FALSE
