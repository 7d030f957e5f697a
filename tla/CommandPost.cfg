SPECIFICATION Spec
CONSTANT MaxCmd = 4
INVARIANTS
  TypeOK
  InputIntact
  AnswerIsMine
PROPERTIES
  UsableAgain
  RefinesService
CHECK_DEADLOCK FALSE
