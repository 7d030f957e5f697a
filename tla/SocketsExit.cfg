SPECIFICATION ExitSpec
INVARIANT
  PollAvoidsDeadlock
CHECK_DEADLOCK FALSE
