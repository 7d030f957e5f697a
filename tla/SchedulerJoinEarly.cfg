CONSTANTS
    NCores = 2
    Boot = b
    Thread = {b, t1, t2}
    Idle = idle
    InboxCap = 4
    DrainMax = 2
    RqWrap = 16
    Sleeper = {b, t1, t2}
    Joiner = {b, t1, t2}
    Killable = {}
    JoinEarly = TRUE
SPECIFICATION Spec
PROPERTIES JoinWaits
