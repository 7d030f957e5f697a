CONSTANTS
    NCores = 2
    Boot = b
    Thread = {b, t1, t2}
    Idle = idle
    InboxCap = 2
    DrainMax = 1
    RqWrap = 4
    Sleeper = {t1}
    Joiner = {b, t1}
    Killable = {t1}
    JoinEarly = FALSE
SPECIFICATION Spec
INVARIANTS TypeOK JoinerHasWaker NeverTwice
PROPERTIES JoinWaits
CHECK_DEADLOCK FALSE
CONSTRAINTS Healthy LightTraffic
