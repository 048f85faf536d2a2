\* Loop: the controller's constants; one second bounds a write, three a reload.
\* Probe: a budget of six ticks, a TCP reply in two reads.
\* Heartbeat: the chart's probe settings, the controller's limits, the loop's
\* bound, one reboot.
CONSTANTS
    Poll = 5
    Request = 1
    Io = 1
    Reload = 3
    Target = 12
    Budget = 6
    Reads = 2
    Delays = {0, 1, 2, 4, 6}
    LiveMaxAge = 15
    BeatGap <- MaxGap
    Period = 10
    Threshold = 3
    WallSteps <- MCWallSteps
    Uptimes = {2, 12}
    Downtimes = {0, 20}
    MaxWallSteps = 2
    MaxReboots = 1
    MaxAge = 60
SPECIFICATION MCSpec
INVARIANTS
    LoopTypeOK
    TransitionInTime
    BeatInTime
    ProbeInTime
    EachHasItsShare
    VerdictIsRight
    FreshIsRecent
    RestartsTheStuck
PROPERTY ProbeReturns
