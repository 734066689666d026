\* One slot and the button; the kernel keeps two frames, the user makes three
\* changes in one session, the process is started once and may be killed once.
CONSTANTS
    s1 = s1
    Slots = {s1}
    Places = {1}
    QueueMax = 2
    MaxReports = 3
    MaxSessions = 1
    MaxOpens = 1
    MaxCrashes = 1
SPECIFICATION FairSpec
INVARIANTS
    TypeOK
    ShownOnce
    MirrorInStep
    TwinInStep
PROPERTY
    Settles
CHECK_DEADLOCK FALSE
