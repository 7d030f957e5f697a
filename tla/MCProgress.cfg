SPECIFICATION Spec
PROPERTIES
  GarbageCollected
  CallsReturn
  RingsMoveOn
  
CHECK_DEADLOCK FALSE
