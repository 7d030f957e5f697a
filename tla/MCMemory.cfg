SPECIFICATION Spec
INVARIANTS
  
  
  
  QueuesIntact
  ReportsItsRequest
PROPERTIES
  FramesPromised
  ImplementsChannel
CHECK_DEADLOCK FALSE
