SPECIFICATION Spec
INVARIANTS
  TreeExact
  HandlesExact
  ProcessesExact
  SocketsExact
PROPERTY
  PathsStable
CHECK_DEADLOCK FALSE
