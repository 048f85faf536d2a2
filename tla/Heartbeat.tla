------------------------------ MODULE Heartbeat ------------------------------
(* check_live and the kubelet's liveness probe against the heartbeat file,   *)
(* with both of its clocks.  The file's content is the monotonic time of the *)
(* write, its modification time the wall time: a node reboot restarts the    *)
(* first, an adjustment moves the second.  Ages are whole seconds since the  *)
(* last heartbeat as the two clocks and as a perfect clock (trueAge) see it. *)
(*                                                                           *)
(* A running controller writes at least every BeatGap seconds, which is      *)
(* LoopTiming's BeatInTime; a stuck one never does.                          *)
EXTENDS Integers

CONSTANTS
    LiveMaxAge,        \* LIVE_MAX_AGE_SECONDS
    BeatGap,           \* longest time between heartbeats of a running loop
    Period,            \* periodSeconds of the liveness probe
    Threshold,         \* failureThreshold of the liveness probe
    WallSteps,         \* adjustments of the wall clock
    Uptimes,           \* monotonic times a heartbeat may carry into a reboot
    Downtimes,         \* seconds a reboot takes
    MaxWallSteps,      \* bound on adjustments
    MaxReboots,        \* bound on reboots
    MaxAge             \* bound on an age

ASSUME HeartbeatAssumption ==
    /\ LiveMaxAge \in Nat /\ BeatGap \in Nat
    /\ Period \in Nat /\ Threshold \in Nat \ {0}
    /\ MaxWallSteps \in Nat /\ MaxReboots \in Nat /\ MaxAge \in Nat
    /\ WallSteps \subseteq Int
    /\ Uptimes \subseteq Nat \ {0}
    /\ Downtimes \subseteq Nat

VARIABLES
    stuck,                     \* the controller has stopped working
    trueAge, monoAge, wallAge,
    quiet,                     \* seconds since the controller started or beat
    sinceProbe, misses,        \* the kubelet: time to the next probe, failures in a row
    stepped, rebooted,         \* since the last heartbeat
    wallSteps, reboots

ages    == <<trueAge, monoAge, wallAge>>
kubelet == <<sinceProbe, misses>>
history == <<stepped, rebooted, wallSteps, reboots>>
beatVars == <<stuck, ages, quiet, kubelet, history>>

BeatInit ==
    /\ stuck = FALSE
    /\ trueAge = 0 /\ monoAge = 0 /\ wallAge = 0
    /\ quiet = 0
    /\ sinceProbe \in 0 .. Period
    /\ misses = 0
    /\ stepped = FALSE /\ rebooted = FALSE
    /\ wallSteps = 0 /\ reboots = 0

\* Mutants of Fresh: one clock only, or the poll period as the limit.
FreshByWall      == wallAge \in -1 .. LiveMaxAge
FreshByMonotonic == monoAge \in -1 .. LiveMaxAge
FreshWithinPoll  == monoAge \in -1 .. LiveMaxAge \div 3 /\ wallAge \in -1 .. LiveMaxAge \div 3

\* check_live on the heartbeat's two ages.
Fresh == monoAge \in -1 .. LiveMaxAge /\ wallAge \in -1 .. LiveMaxAge

Beat ==
    /\ ~stuck
    /\ misses < Threshold
    /\ trueAge' = 0 /\ monoAge' = 0 /\ wallAge' = 0
    /\ quiet' = 0
    /\ stepped' = FALSE /\ rebooted' = FALSE
    /\ UNCHANGED <<stuck, kubelet, wallSteps, reboots>>

GetsStuck ==
    /\ ~stuck
    /\ stuck' = TRUE
    /\ UNCHANGED <<ages, quiet, kubelet, history>>

LivenessProbe ==
    /\ sinceProbe = Period
    /\ misses < Threshold
    /\ sinceProbe' = 0
    /\ misses' = IF Fresh THEN 0 ELSE misses + 1
    /\ UNCHANGED <<stuck, ages, quiet, history>>

\* Threshold failures in a row: the kubelet restarts the container, which
\* finds the old heartbeat and writes a new one after its first publish.
Restart ==
    /\ misses = Threshold
    /\ misses' = 0
    /\ sinceProbe' = 0
    /\ stuck' = FALSE
    /\ quiet' = 0
    /\ UNCHANGED <<ages, history>>

WallClockSteps ==
    /\ wallSteps < MaxWallSteps
    /\ \E s \in WallSteps : wallAge' = wallAge + s
    /\ stepped' = TRUE
    /\ wallSteps' = wallSteps + 1
    /\ UNCHANGED <<stuck, trueAge, monoAge, quiet, kubelet, rebooted, reboots>>

\* The heartbeat file outlives the reboot; the clock in it does not.  The new
\* process may get stuck before its first heartbeat.
Reboot ==
    /\ reboots < MaxReboots
    /\ \E d \in Downtimes, u \in Uptimes :
         /\ trueAge' = trueAge + d
         /\ wallAge' = wallAge + d
         /\ monoAge' = -u
    /\ rebooted' = TRUE
    /\ reboots' = reboots + 1
    /\ stuck' = FALSE
    /\ quiet' = 0
    /\ sinceProbe' = 0
    /\ misses' = 0
    /\ UNCHANGED <<stepped, wallSteps>>

\* Ages stop being told apart at MaxAge, far beyond what Fresh accepts.
Older(age) == IF age < MaxAge THEN age + 1 ELSE age

BeatTick ==
    /\ ~stuck => quiet < BeatGap
    /\ sinceProbe < Period
    /\ misses < Threshold
    /\ trueAge' = Older(trueAge)
    /\ monoAge' = Older(monoAge)
    /\ wallAge' = Older(wallAge)
    /\ quiet' = Older(quiet)
    /\ sinceProbe' = sinceProbe + 1
    /\ UNCHANGED <<stuck, misses, history>>

BeatNext == \/ Beat \/ GetsStuck \/ LivenessProbe \/ Restart
        \/ WallClockSteps \/ Reboot \/ BeatTick

BeatSpec == BeatInit /\ [][BeatNext]_beatVars

-----------------------------------------------------------------------------
(* Properties *)

HeartbeatTypeOK ==
    /\ stuck \in BOOLEAN /\ stepped \in BOOLEAN /\ rebooted \in BOOLEAN
    /\ trueAge \in Nat /\ quiet \in Nat
    /\ monoAge \in Int /\ wallAge \in Int
    /\ sinceProbe \in 0 .. Period
    /\ misses \in 0 .. Threshold
    /\ wallSteps \in 0 .. MaxWallSteps
    /\ reboots \in 0 .. MaxReboots

\* A heartbeat check_live accepts is no older than LiveMaxAge: a wall-clock
\* adjustment alone cannot make a stale one fresh, nor can a reboot alone.
FreshIsRecent == Fresh => trueAge <= LiveMaxAge \/ (stepped /\ rebooted)

\* A stuck controller is restarted within LiveMaxAge and Threshold periods of
\* its last heartbeat, however the wall clock moves.
StuckIsRestarted ==
    stuck /\ ~(stepped /\ rebooted) => quiet <= LiveMaxAge + Threshold * Period

\* A working controller is never restarted over its heartbeat: it takes
\* Threshold adjustments of the wall clock, one before each probe.
WorkingIsLeftAlone == ~stuck => misses < Threshold

\* The kubelet restarts the stuck, in time, and nobody else.
RestartsTheStuck == StuckIsRestarted /\ WorkingIsLeftAlone
=============================================================================
