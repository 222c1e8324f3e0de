\* A client of a telemetry read or of a listener, and its child.
SPECIFICATION FairSpec
CONSTANTS
  PipeSize = 2
  MaxChatter = 4
CHECK_DEADLOCK FALSE
INVARIANTS
  TypeOK
  AnswersItsOwn
  WaitIsWoken
PROPERTIES
  RefinesCall
  RequestEnds
