SPECIFICATION Spec
INVARIANTS
  WindowsExact
  
CHECK_DEADLOCK FALSE
