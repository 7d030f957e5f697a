SPECIFICATION Spec
CONSTANTS
  Waiters = {w1, w2}
  Notifiers = {n1}
  Core = {c1, c2}
  Home <- EveryCoreWaits
  MaxQueue = 2
INVARIANTS
  HolderRuns

  
