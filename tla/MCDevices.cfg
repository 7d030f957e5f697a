SPECIFICATION Spec
INVARIANTS
  
  
  
  NicExact
  
CHECK_DEADLOCK FALSE
