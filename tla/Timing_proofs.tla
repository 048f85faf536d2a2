---------------------------- MODULE Timing_proofs ----------------------------
(* The controller's three clocks, for every choice of the constants: the     *)
(* loop's heartbeat and its reaction to tailscaled are on time, check_live   *)
(* and the kubelet restart a stuck controller and no other, and the probe    *)
(* keeps its budget and gives the right verdict.                             *)
EXTENDS LoopTiming, MagicProbe, Heartbeat, TLAPS

-----------------------------------------------------------------------------
(* LoopTiming: heartbeats *)

\* The heartbeat's age is at most the sleep before the cycle and the cycle so
\* far; the cycle so far is at most the bounds of the calls it has made.
Cycle ==
    /\ pc = "fetch" =>
         /\ spent <= Request /\ elapsed = spent /\ gap <= Poll + elapsed
    /\ pc = "probe" =>
         /\ spent <= Request /\ elapsed <= Request + spent /\ gap <= Poll + elapsed
    /\ pc = "publish" =>
         /\ spent <= Io /\ elapsed <= 2 * Request + spent /\ gap <= Poll + elapsed
    /\ pc = "beat" =>
         /\ spent <= Io /\ elapsed <= 2 * Request + Io + spent /\ gap <= Poll + elapsed
    /\ pc = "sleep" =>
         /\ elapsed <= Poll \/ elapsed <= 2 * Request + 2 * Io
         /\ gap <= Poll
         /\ elapsed <= Poll => gap <= elapsed

TInv == LoopTypeOK /\ Cycle

LEMMA TimingInit == LoopInit => TInv
  <1> SUFFICES ASSUME LoopInit PROVE TInv
    OBVIOUS
  <1>1. /\ up \in BOOLEAN /\ asked \in BOOLEAN /\ want \in BOOLEAN
        /\ corefile \in BOOLEAN /\ served \in BOOLEAN
    BY DEF LoopInit
  <1>2. LoopTypeOK
    BY <1>1, TimingAssumption DEF LoopInit, LoopTypeOK, MaxGap
  <1>3. Cycle
    BY TimingAssumption DEF LoopInit, Cycle
  <1> QED BY <1>2, <1>3 DEF TInv

LEMMA TimingNext == TInv /\ [LoopNext]_timeVars => TInv'
  <1> SUFFICES ASSUME TInv, [LoopNext]_timeVars PROVE TInv'
    OBVIOUS
  <1> USE TimingAssumption DEF TInv, LoopTypeOK, Cycle, MaxGap, loop, data, since, Begin
  <1>1. CASE FetchEnds
    <2>1. PICK seen \in {asked, up} :
            IF seen THEN Begin("probe") /\ UNCHANGED want
                    ELSE Begin("publish") /\ want' = FALSE
      BY <1>1 DEF FetchEnds
    <2>2. want' \in BOOLEAN /\ asked' \in BOOLEAN /\ up' \in BOOLEAN
          /\ corefile' \in BOOLEAN /\ served' \in BOOLEAN
      BY <1>1, <2>1 DEF FetchEnds
    <2>3. LoopTypeOK'
      BY <1>1, <2>1, <2>2 DEF FetchEnds
    <2>4. Cycle'
      BY <1>1, <2>1 DEF FetchEnds
    <2> QED BY <2>3, <2>4
  <1>2. CASE ProbeEnds
    BY <1>2 DEF ProbeEnds
  <1>3. CASE PublishEnds
    BY <1>3 DEF PublishEnds
  <1>4. CASE BeatEnds
    BY <1>4 DEF BeatEnds
  <1>5. CASE SleepEnds
    BY <1>5 DEF SleepEnds, SleepOver
  <1>6. CASE CoreDNSReloads
    BY <1>6 DEF CoreDNSReloads
  <1>7. CASE TailscaleFlips
    BY <1>7 DEF TailscaleFlips
  <1>8. CASE LoopTick
    BY <1>8 DEF LoopTick, MayWait, SleepOver
  <1>9. CASE UNCHANGED timeVars
    BY <1>9 DEF timeVars
  <1> QED BY <1>1, <1>2, <1>3, <1>4, <1>5, <1>6, <1>7, <1>8, <1>9 DEF LoopNext

\* Counters stay in range; no cycle lasts longer than MaxGap.
THEOREM LoopTypes == LoopSpec => []LoopTypeOK
  <1>1. TInv => LoopTypeOK
    BY DEF TInv
  <1> QED BY <1>1, TimingInit, TimingNext, PTL DEF LoopSpec

\* A loop that is not stuck beats at least every MaxGap seconds.
THEOREM BeatsInTime == LoopSpec => []BeatInTime
  <1>1. TInv => BeatInTime
    BY TimingAssumption DEF TInv, LoopTypeOK, Cycle, BeatInTime, MaxGap
  <1> QED BY <1>1, TimingInit, TimingNext, PTL DEF LoopSpec

-----------------------------------------------------------------------------
(* LoopTiming: transitions *)

\* The longest pass of the loop, and how long a change may stay unserved: the
\* rest of the pass that missed it, a pass up to its Corefile, and a reload.
LongestPass == IF Poll >= 2 * Request + 2 * Io THEN Poll ELSE 2 * Request + 2 * Io
ToCorefile  == LongestPass + 2 * Request + Io

\* This pass of the loop decides, or has decided, according to tailscaled now.
Current ==
    /\ pc \in {"fetch", "probe"} => asked = up
    /\ pc = "publish" => want = up
    /\ pc \in {"beat", "sleep"} => corefile = up

\* How old the last change of tailscaled can be at most, as long as the pass,
\* the Corefile or CoreDNS does not follow it.
Following ==
    /\ sinceReload <= Reload
    /\ ~Current => sinceFlip <= elapsed
    /\ corefile # up => sinceFlip <= LongestPass + elapsed
    /\ corefile # up /\ pc \in {"beat", "sleep"} => sinceFlip <= elapsed
    /\ served # up => sinceFlip <= ToCorefile + sinceReload

FollowInv == TInv /\ Following

LEMMA PassBounds ==
  ASSUME TInv
  PROVE  /\ LongestPass \in Nat /\ ToCorefile \in Nat
         /\ elapsed <= LongestPass
         /\ pc \in {"fetch", "probe", "publish"} => elapsed <= 2 * Request + Io
  BY TimingAssumption DEF TInv, LoopTypeOK, Cycle, LongestPass, ToCorefile

LEMMA FollowNext == FollowInv /\ [LoopNext]_timeVars => FollowInv'
  <1> SUFFICES ASSUME FollowInv, [LoopNext]_timeVars PROVE Following'
    BY TimingNext DEF FollowInv
  <1>0. /\ LongestPass \in Nat /\ ToCorefile \in Nat
        /\ elapsed \in Nat /\ elapsed <= LongestPass
        /\ pc \in {"fetch", "probe", "publish"} => elapsed <= 2 * Request + Io
        /\ ToCorefile = LongestPass + 2 * Request + Io
        /\ sinceFlip \in Nat /\ sinceReload \in Nat /\ Target \in Nat
        /\ Reload \in Nat /\ Request \in Nat /\ Io \in Nat
        /\ up \in BOOLEAN /\ asked \in BOOLEAN /\ want \in BOOLEAN
        /\ corefile \in BOOLEAN /\ served \in BOOLEAN
        /\ pc \in {"fetch", "probe", "publish", "beat", "sleep"}
    BY PassBounds, TimingAssumption DEF FollowInv, TInv, LoopTypeOK, MaxGap, ToCorefile
  <1>a. UNCHANGED <<LongestPass, ToCorefile>>
    BY DEF LongestPass, ToCorefile
  <1> USE DEF FollowInv, Following, Current, Begin, loop, data, since
  <1> HIDE DEF LongestPass, ToCorefile
  <1>1. CASE FetchEnds
    <2>1. PICK seen \in {asked, up} :
            IF seen THEN Begin("probe") /\ UNCHANGED want
                    ELSE Begin("publish") /\ want' = FALSE
      BY <1>1 DEF FetchEnds
    <2> QED BY <1>0, <1>a, <1>1, <2>1 DEF FetchEnds
  <1>2. CASE ProbeEnds
    BY <1>0, <1>a, <1>2 DEF ProbeEnds
  <1>3. CASE PublishEnds
    BY <1>0, <1>a, <1>3 DEF PublishEnds
  <1>4. CASE BeatEnds
    BY <1>0, <1>a, <1>4 DEF BeatEnds
  <1>5. CASE SleepEnds
    BY <1>0, <1>a, <1>5 DEF SleepEnds
  <1>6. CASE CoreDNSReloads
    BY <1>0, <1>a, <1>6 DEF CoreDNSReloads
  <1>7. CASE TailscaleFlips
    BY <1>0, <1>a, <1>7 DEF TailscaleFlips
  <1>8. CASE LoopTick
    BY <1>0, <1>a, <1>8 DEF LoopTick, MayWait
  <1>9. CASE UNCHANGED timeVars
    BY <1>0, <1>a, <1>9 DEF timeVars
  <1> QED BY <1>1, <1>2, <1>3, <1>4, <1>5, <1>6, <1>7, <1>8, <1>9 DEF LoopNext

\* With any poll period and any bounds on requests, writes and reloads that
\* leave room for one missed pass, CoreDNS follows tailscaled within Target.
\* The chart's settings leave one second of the documented twelve.
THEOREM FollowsInTime ==
  ASSUME ToCorefile + Reload <= Target
  PROVE  LoopSpec => []TransitionInTime
  <1>1. LoopInit => FollowInv
    BY TimingInit, TimingAssumption
       DEF LoopInit, FollowInv, Following, Current, ToCorefile, LongestPass
  <1>2. FollowInv => TransitionInTime
    BY PassBounds, TimingAssumption
       DEF FollowInv, TInv, LoopTypeOK, Following, TransitionInTime
  <1> QED BY <1>1, <1>2, FollowNext, PTL DEF LoopSpec

-----------------------------------------------------------------------------
(* Heartbeat: accepted heartbeats *)

\* Each clock is right until the event that disturbs it.
ClocksAgree == /\ ~rebooted => monoAge = trueAge
               /\ ~stepped => wallAge = trueAge

HInv == HeartbeatTypeOK /\ ClocksAgree

LEMMA HeartbeatInit == BeatInit => HInv
  <1> SUFFICES ASSUME BeatInit PROVE HInv
    OBVIOUS
  <1>1. stuck \in BOOLEAN /\ stepped \in BOOLEAN /\ rebooted \in BOOLEAN
    BY DEF BeatInit
  <1>2. HeartbeatTypeOK
    BY <1>1, HeartbeatAssumption DEF BeatInit, HeartbeatTypeOK
  <1>3. ClocksAgree
    BY DEF BeatInit, ClocksAgree
  <1> QED BY <1>2, <1>3 DEF HInv

LEMMA HeartbeatNext == HInv /\ [BeatNext]_beatVars => HInv'
  <1> SUFFICES ASSUME HInv, [BeatNext]_beatVars PROVE HInv'
    OBVIOUS
  <1> USE HeartbeatAssumption DEF HInv, HeartbeatTypeOK, ClocksAgree, ages, kubelet, history
  <1>1. CASE Beat
    <2>1. stuck' \in BOOLEAN /\ stepped' \in BOOLEAN /\ rebooted' \in BOOLEAN
      BY <1>1 DEF Beat
    <2>2. ClocksAgree'
      BY <1>1 DEF Beat
    <2> QED BY <1>1, <2>1, <2>2 DEF Beat
  <1>2. CASE GetsStuck
    BY <1>2 DEF GetsStuck
  <1>3. CASE LivenessProbe
    BY <1>3 DEF LivenessProbe
  <1>4. CASE Restart
    <2>1. stuck' \in BOOLEAN /\ stepped' \in BOOLEAN /\ rebooted' \in BOOLEAN
      BY <1>4 DEF Restart
    <2>2. ClocksAgree'
      BY <1>4 DEF Restart
    <2> QED BY <1>4, <2>1, <2>2 DEF Restart
  <1>5. CASE WallClockSteps
    <2>1. PICK s \in WallSteps : wallAge' = wallAge + s
      BY <1>5 DEF WallClockSteps
    <2> QED BY <1>5, <2>1 DEF WallClockSteps
  <1>6. CASE Reboot
    <2>1. PICK d \in Downtimes, u \in Uptimes : /\ trueAge' = trueAge + d
                                                /\ wallAge' = wallAge + d
                                                /\ monoAge' = -u
      BY <1>6 DEF Reboot
    <2>2. stuck' \in BOOLEAN /\ stepped' \in BOOLEAN /\ rebooted' \in BOOLEAN
      BY <1>6 DEF Reboot
    <2>3. trueAge' \in Nat /\ wallAge' \in Int /\ monoAge' \in Int /\ quiet' \in Nat
      BY <1>6, <2>1 DEF Reboot
    <2>4. sinceProbe' \in 0 .. Period /\ misses' \in 0 .. Threshold
          /\ wallSteps' \in 0 .. MaxWallSteps /\ reboots' \in 0 .. MaxReboots
      BY <1>6 DEF Reboot
    <2>5. ClocksAgree'
      BY <1>6, <2>1 DEF Reboot
    <2> QED BY <2>2, <2>3, <2>4, <2>5
  <1>7. CASE BeatTick
    BY <1>7 DEF BeatTick, Older
  <1>8. CASE UNCHANGED beatVars
    BY <1>8 DEF beatVars
  <1> QED BY <1>1, <1>2, <1>3, <1>4, <1>5, <1>6, <1>7, <1>8 DEF BeatNext

\* Ages and counters keep their types.
THEOREM HeartbeatTypes == BeatSpec => []HeartbeatTypeOK
  <1>1. HInv => HeartbeatTypeOK
    BY DEF HInv
  <1> QED BY <1>1, HeartbeatInit, HeartbeatNext, PTL DEF BeatSpec

\* A heartbeat check_live accepts is recent unless both clocks were disturbed
\* since it was written.
THEOREM AcceptedIsRecent == BeatSpec => []FreshIsRecent
  <1>1. HInv => FreshIsRecent
    BY HeartbeatAssumption DEF HInv, HeartbeatTypeOK, ClocksAgree, FreshIsRecent, Fresh
  <1> QED BY <1>1, HeartbeatInit, HeartbeatNext, PTL DEF BeatSpec

-----------------------------------------------------------------------------
(* Heartbeat: restarts *)

\* The settings under which the kubelet's probe tells stuck from working: a
\* working loop beats between two probes and within LIVE_MAX_AGE, and the
\* operator does not set the clock as often as the probe may fail.
ProbeSettings ==
    /\ BeatGap <= LiveMaxAge
    /\ BeatGap < Period
    /\ BeatGap <= MaxAge
    /\ MaxWallSteps < Threshold

\* A stuck controller: one clock still tells the age of its last heartbeat,
\* and every Period beyond LiveMaxAge has been counted as a miss.
StuckIsCounted ==
    /\ quiet <= trueAge
    /\ misses = Threshold => sinceProbe = 0
    /\ stuck /\ ~(stepped /\ rebooted) =>
         quiet <= LiveMaxAge + misses * Period + sinceProbe

\* A working one: what it wrote after the last probe looks old only if the
\* wall clock was set since then, and each miss has its own such step.
WorkingIsFresh ==
    /\ ~stuck => quiet <= BeatGap /\ misses <= wallSteps
    /\ ~stuck /\ quiet < sinceProbe =>
         /\ monoAge = quiet
         /\ ~stepped => wallAge = quiet
         /\ stepped => misses < wallSteps

RInv == HInv /\ StuckIsCounted /\ WorkingIsFresh

LEMMA Misses == ASSUME NEW m \in Nat, NEW p \in Nat
                PROVE  /\ m * p \in Nat
                       /\ (m + 1) * p = m * p + p
                       /\ 0 * p = 0
  OBVIOUS

LEMMA MoreMisses == ASSUME NEW m \in Nat, NEW n \in Nat, m <= n, NEW p \in Nat
                    PROVE  m * p <= n * p
  <1>1. PICK k \in Nat : n = m + k
    <2>1. n - m \in Nat /\ n = m + (n - m)
      OBVIOUS
    <2> QED BY <2>1
  <1>2. n * p = m * p + k * p /\ k * p \in Nat /\ m * p \in Nat
    BY <1>1
  <1> QED BY <1>2

LEMMA RestartNext == ProbeSettings /\ RInv /\ [BeatNext]_beatVars => RInv'
  <1> SUFFICES ASSUME ProbeSettings, RInv, [BeatNext]_beatVars
               PROVE  StuckIsCounted' /\ WorkingIsFresh'
    BY HeartbeatNext DEF RInv
  <1>0. /\ stuck \in BOOLEAN /\ stepped \in BOOLEAN /\ rebooted \in BOOLEAN
        /\ trueAge \in Nat /\ quiet \in Nat /\ monoAge \in Int /\ wallAge \in Int
        /\ sinceProbe \in Nat /\ sinceProbe <= Period
        /\ misses \in Nat /\ misses <= Threshold /\ wallSteps \in Nat
        /\ LiveMaxAge \in Nat /\ BeatGap \in Nat /\ Period \in Nat /\ Threshold \in Nat
        /\ MaxAge \in Nat
        /\ misses * Period \in Nat
    BY HeartbeatAssumption, Misses DEF RInv, HInv, HeartbeatTypeOK
  <1> USE <1>0 DEF RInv, HInv, ClocksAgree, StuckIsCounted, WorkingIsFresh, ProbeSettings,
                   ages, kubelet, history
  <1>1. CASE Beat
    BY <1>1 DEF Beat
  <1>2. CASE GetsStuck
    BY <1>2 DEF GetsStuck
  <1>3. CASE LivenessProbe
    <2>1. (misses + 1) * Period = misses * Period + Period
      BY Misses
    <2>2. misses' = misses + 1 => misses' * Period = misses * Period + Period
      BY <2>1
    <2>3. StuckIsCounted'
      <3>1. CASE Fresh
        <4>1. ~(stepped /\ rebooted) => quiet <= LiveMaxAge
          BY <3>1 DEF Fresh
        <4>2. misses' = 0 /\ sinceProbe' = 0 /\ 0 * Period = 0
          BY <1>3, <3>1, Misses DEF LivenessProbe
        <4> QED BY <1>3, <4>1, <4>2, HeartbeatAssumption DEF LivenessProbe
      <3>2. CASE ~Fresh
        BY <1>3, <2>2, <3>2 DEF LivenessProbe
      <3> QED BY <3>1, <3>2
    <2>4. WorkingIsFresh'
      <3>1. CASE ~stuck
        <4>1. quiet < sinceProbe
          BY <1>3, <3>1 DEF LivenessProbe
        <4>2. ~Fresh => misses < wallSteps
          BY <3>1, <4>1 DEF Fresh
        <4> QED BY <1>3, <4>2 DEF LivenessProbe
      <3>2. CASE stuck
        BY <1>3, <3>2 DEF LivenessProbe
      <3> QED BY <3>1, <3>2
    <2> QED BY <2>3, <2>4
  <1>4. CASE Restart
    BY <1>4, HeartbeatAssumption DEF Restart
  <1>5. CASE WallClockSteps
    BY <1>5 DEF WallClockSteps
  <1>6. CASE Reboot
    <2>1. PICK d \in Downtimes : trueAge' = trueAge + d
      BY <1>6 DEF Reboot
    <2>2. d \in Nat
      BY HeartbeatAssumption
    <2>3. /\ stuck' = FALSE /\ quiet' = 0 /\ sinceProbe' = 0 /\ misses' = 0
          /\ wallSteps' = wallSteps
      BY <1>6 DEF Reboot
    <2> QED BY <2>1, <2>2, <2>3
  <1>7. CASE BeatTick
    <2>1. misses' = misses /\ misses' * Period = misses * Period
      BY <1>7 DEF BeatTick
    <2>2. StuckIsCounted'
      BY <1>7, <2>1 DEF BeatTick, Older
    <2>3. WorkingIsFresh'
      BY <1>7 DEF BeatTick, Older
    <2> QED BY <2>2, <2>3
  <1>8. CASE UNCHANGED beatVars
    BY <1>8 DEF beatVars
  <1> QED BY <1>1, <1>2, <1>3, <1>4, <1>5, <1>6, <1>7, <1>8 DEF BeatNext

\* With the chart's probe settings, or any like them, the kubelet restarts a
\* stuck controller in time and a working one never, whatever happens to
\* either clock alone.
THEOREM OnlyTheStuckRestart ==
  ASSUME ProbeSettings
  PROVE  BeatSpec => []RestartsTheStuck
  <1>1. BeatInit => RInv
    <2>1. BeatInit => StuckIsCounted /\ WorkingIsFresh
      BY HeartbeatAssumption DEF BeatInit, StuckIsCounted, WorkingIsFresh, ProbeSettings
    <2> QED BY <2>1, HeartbeatInit DEF RInv
  <1>2. RInv => RestartsTheStuck
    <2> SUFFICES ASSUME RInv PROVE RestartsTheStuck
      OBVIOUS
    <2>0. /\ misses \in Nat /\ Threshold \in Nat /\ Period \in Nat /\ LiveMaxAge \in Nat
          /\ sinceProbe \in 0 .. Period /\ misses <= Threshold /\ quiet \in Nat
          /\ wallSteps \in 0 .. MaxWallSteps /\ MaxWallSteps \in Nat
      BY HeartbeatAssumption DEF RInv, HInv, HeartbeatTypeOK
    <2>1. misses * Period + sinceProbe <= Threshold * Period
      <3>1. CASE misses = Threshold
        BY <2>0, <3>1, Misses DEF RInv, StuckIsCounted
      <3>2. CASE misses < Threshold
        <4>1. misses + 1 \in Nat /\ misses + 1 <= Threshold
          BY <2>0, <3>2
        <4>2. (misses + 1) * Period <= Threshold * Period
          BY <2>0, <4>1, MoreMisses
        <4>3. (misses + 1) * Period = misses * Period + Period
          BY <2>0, Misses
        <4>4. misses * Period \in Nat /\ Threshold * Period \in Nat
          BY <2>0, Misses
        <4> QED BY <2>0, <4>2, <4>3, <4>4
      <3> QED BY <2>0, <3>1, <3>2
    <2>2. misses * Period \in Nat /\ Threshold * Period \in Nat
      BY <2>0, Misses
    <2>3. StuckIsRestarted
      BY <2>0, <2>1, <2>2 DEF RInv, StuckIsCounted, StuckIsRestarted
    <2>4. WorkingIsLeftAlone
      BY <2>0 DEF RInv, WorkingIsFresh, WorkingIsLeftAlone, ProbeSettings
    <2> QED BY <2>3, <2>4 DEF RestartsTheStuck
  <1> QED BY <1>1, <1>2, RestartNext, PTL DEF BeatSpec

-----------------------------------------------------------------------------
(* MagicProbe: budget and shares *)

\* What the clock and the deadline are while the families are asked in turn.
Deadlines ==
    /\ clock <= Budget
    /\ limit <= Budget
    /\ phase \in {"udp", "tcp"} => index <= Len(order) /\ clock <= limit
    /\ phase = "ask" => Len(askedAt) = index - 1
    /\ phase \in {"udp", "tcp"} => Len(askedAt) = index
    /\ index = 1 /\ phase = "ask" => clock = 0
    /\ index = 1 /\ phase \in {"udp", "tcp"} => limit = Budget \div Len(order)
    /\ index = 2 /\ phase = "ask" => clock <= Budget \div Len(order)

PInv == ProbeTypeOK /\ Deadlines /\ EachHasItsShare

LEMMA Shares == ASSUME NEW b \in Nat
                PROVE  /\ b \div 1 = b
                       /\ b \div 2 \in Nat
                       /\ (b \div 2) + (b \div 2) <= b
  OBVIOUS

LEMMA OneOrTwo == ASSUME order \in Orders
                  PROVE  Len(order) \in 1 .. 2
  BY DEF Orders

LEMMA Position == ASSUME NEW n \in 1 .. 2, NEW i \in 1 .. n + 1, i <= n
                  PROVE  i \in 1 .. 2 /\ (i = n \/ (i = 1 /\ n = 2))
  OBVIOUS

LEMMA StartsRight == ProbeInit => PInv
  <1> SUFFICES ASSUME ProbeInit PROVE PInv
    OBVIOUS
  <1>1. ProbeTypeOK
    BY OneOrTwo, ProbeAssumption DEF ProbeInit, ProbeTypeOK
  <1>2. Deadlines
    BY ProbeAssumption DEF ProbeInit, Deadlines
  <1>3. EachHasItsShare
    BY DEF ProbeInit, EachHasItsShare
  <1> QED BY <1>1, <1>2, <1>3 DEF PInv

\* Going on to the next family leaves the bounds and the history alone.
LEMMA NextFamilyKeeps ==
  ASSUME PInv, NextFamily, phase \in {"udp", "tcp"},
         UNCHANGED <<setting, clock, askedAt>>
  PROVE  PInv'
  <1> USE DEF PInv, NextFamily, setting
  <1>0. Len(order) \in 1 .. 2
    BY OneOrTwo DEF ProbeTypeOK
  <1>1. ProbeTypeOK'
    BY <1>0 DEF ProbeTypeOK, Deadlines
  <1>2. Deadlines'
    BY <1>0 DEF Deadlines, ProbeTypeOK
  <1>3. EachHasItsShare'
    BY DEF EachHasItsShare
  <1> QED BY <1>1, <1>2, <1>3

\* So does ending the probe ...
LEMMA FinishKeeps ==
  ASSUME PInv, NEW v \in {"yes", "no"}, Finish(v), UNCHANGED <<setting, clock, askedAt>>
  PROVE  PInv'
  <1> USE DEF PInv, Finish, setting
  <1>1. ProbeTypeOK'
    BY DEF ProbeTypeOK
  <1>2. Deadlines'
    BY DEF Deadlines
  <1>3. EachHasItsShare'
    BY DEF EachHasItsShare
  <1> QED BY <1>1, <1>2, <1>3

\* ... and another system call for the same family.
LEMMA GoOnKeeps ==
  ASSUME PInv, NEW n \in 0 .. Reads, GoOn("tcp", n), phase \in {"udp", "tcp"},
         UNCHANGED <<setting, clock, askedAt>>
  PROVE  PInv'
  <1>1. CASE NextFamily
    BY <1>1, NextFamilyKeeps
  <1>2. CASE /\ clock < limit
             /\ phase' = "tcp" /\ waited' = 0 /\ reads' = n
             /\ UNCHANGED <<index, limit, verdict>>
    <2> USE <1>2 DEF PInv, setting
    <2>1. ProbeTypeOK'
      BY DEF ProbeTypeOK
    <2>2. Deadlines'
      BY DEF Deadlines
    <2>3. EachHasItsShare'
      BY DEF EachHasItsShare
    <2> QED BY <2>1, <2>2, <2>3
  <1> QED BY <1>1, <1>2 DEF GoOn

LEMMA ConcludeKeeps ==
  ASSUME PInv, NEW r, Conclude(r), phase \in {"udp", "tcp"},
         UNCHANGED <<setting, clock, askedAt>>
  PROVE  PInv'
  BY NextFamilyKeeps, FinishKeeps DEF Conclude

\* The step that reads the clock and sets the deadline.
LEMMA AskKeeps == ASSUME PInv, Ask PROVE PInv'
  <1> USE DEF PInv, Ask, setting
  <1>a. Len(order) \in 1 .. 2
    BY OneOrTwo DEF ProbeTypeOK
  <1>0. /\ Len(order) \in 1 .. 2
        /\ Budget \div 1 = Budget
        /\ Budget \div 2 \in Nat
        /\ (Budget \div 2) + (Budget \div 2) <= Budget
    BY <1>a, Shares, ProbeAssumption
  <1>b. /\ index \in 1 .. 2 /\ (index = Len(order) \/ (index = 1 /\ Len(order) = 2))
        /\ clock \in Nat /\ Budget \in Nat
        /\ askedAt \in Seq(Nat)
    <2>1. index \in 1 .. Len(order) + 1 /\ index <= Len(order)
      BY DEF ProbeTypeOK
    <2>2. index \in 1 .. 2 /\ (index = Len(order) \/ (index = 1 /\ Len(order) = 2))
      BY <1>a, <2>1, Position
    <2>3. clock \in Nat /\ Budget \in Nat /\ askedAt \in Seq(Nat)
      BY ProbeAssumption DEF ProbeTypeOK
    <2> QED BY <2>2, <2>3
  <1>1. /\ index \in 1 .. 2
        /\ Len(askedAt) = index - 1
        /\ clock \in Nat /\ clock <= Budget /\ Budget \in Nat
        /\ askedAt \in Seq(Nat)
    BY <1>b DEF Deadlines
  <1>2. /\ askedAt' \in Seq(Nat)
        /\ Len(askedAt') = index
        /\ askedAt'[index] = clock
        /\ \A i \in 1 .. index - 1 : askedAt'[i] = askedAt[i]
    BY <1>1
  <1>3. /\ limit' \in Nat /\ limit' <= Budget
        /\ index = 1 => limit' = Budget \div Len(order)
    <2>1. CASE index = Len(order)
      <3>1. Len(order) + 1 - index = 1
        BY <2>1, <1>0
      <3>2. limit' = clock + (Budget - clock) \div 1
        BY <3>1 DEF Limit
      <3>3. limit' = Budget
        BY <3>2, <1>1, Shares
      <3> QED BY <3>3, <2>1, <1>0, <1>1
    <2>2. CASE index = 1 /\ Len(order) = 2
      <3>1. clock = 0
        BY <2>2 DEF Deadlines
      <3>2. limit' = clock + (Budget - clock) \div 2
        BY <2>2 DEF Limit
      <3>3. limit' = Budget \div 2
        BY <3>1, <3>2, <1>0, <1>1
      <3> QED BY <3>3, <2>2, <1>0, <1>1
    <2> QED BY <2>1, <2>2, <1>b
  <1>4. clock + Budget \div Len(order) <= Budget
    <2>1. CASE index = 1
      BY <2>1, <1>0, <1>1 DEF Deadlines
    <2>2. CASE index = 2
      <3>1. Len(order) = 2
        BY <2>2, <1>b
      <3> QED BY <2>2, <3>1, <1>0, <1>1 DEF Deadlines
    <2> QED BY <2>1, <2>2, <1>1
  <1>5. EachHasItsShare'
    <2> SUFFICES ASSUME NEW i \in 1 .. index
                 PROVE  i <= Len(order) /\ askedAt'[i] + Budget \div Len(order) <= Budget
      BY <1>2 DEF EachHasItsShare
    <2>1. CASE i = index
      BY <2>1, <1>2, <1>4
    <2>2. CASE i \in 1 .. index - 1
      BY <2>2, <1>1, <1>2 DEF EachHasItsShare
    <2> QED BY <2>1, <2>2, <1>1
  <1>6. ProbeTypeOK'
    BY <1>0, <1>1, <1>2, <1>3 DEF ProbeTypeOK
  <1>7. Deadlines'
    BY <1>0, <1>1, <1>2, <1>3 DEF Deadlines
  <1> QED BY <1>5, <1>6, <1>7

LEMMA StepsRight == PInv /\ [ProbeNext]_probeVars => PInv'
  <1> SUFFICES ASSUME PInv, [ProbeNext]_probeVars PROVE PInv'
    OBVIOUS
  <1>1. CASE Ask
    BY <1>1, AskKeeps
  <1>2. CASE UdpReply
    <2>1. 0 \in 0 .. Reads /\ phase \in {"udp", "tcp"}
      BY <1>2, ProbeAssumption DEF UdpReply
    <2> QED BY <1>2, <2>1, GoOnKeeps, ConcludeKeeps DEF UdpReply
  <1>3. CASE TcpRead
    <2>1. phase \in {"udp", "tcp"}
      BY <1>3 DEF TcpRead
    <2>2. CASE reads + 1 < Reads /\ GoOn("tcp", reads + 1)
      <3>1. reads + 1 \in 0 .. Reads
        BY <2>2, ProbeAssumption DEF PInv, ProbeTypeOK
      <3> QED BY <1>3, <2>1, <2>2, <3>1, GoOnKeeps DEF TcpRead
    <2>3. CASE Conclude(Now.tcp)
      BY <1>3, <2>1, <2>3, ConcludeKeeps DEF TcpRead
    <2> QED BY <1>3, <2>2, <2>3 DEF TcpRead
  <1>4. CASE Expire
    BY <1>4, NextFamilyKeeps DEF Expire
  <1>5. CASE AllAsked
    BY <1>5, FinishKeeps DEF AllAsked
  <1>6. CASE ProbeTick
    <2> USE <1>6 DEF ProbeTick, PInv, setting
    <2>1. ProbeTypeOK'
      BY DEF ProbeTypeOK
    <2>2. Deadlines'
      BY ProbeAssumption DEF Deadlines, ProbeTypeOK
    <2>3. EachHasItsShare'
      BY DEF EachHasItsShare
    <2> QED BY <2>1, <2>2, <2>3
  <1>7. CASE UNCHANGED probeVars
    BY <1>7 DEF probeVars, setting, attempt, PInv, ProbeTypeOK, Deadlines, EachHasItsShare
  <1> QED BY <1>1, <1>2, <1>3, <1>4, <1>5, <1>6, <1>7 DEF ProbeNext

\* The probe's invariant holds in every behaviour.
THEOREM ProbeInductive == ProbeSpec => []PInv
  BY StartsRight, StepsRight, PTL DEF ProbeSpec

\* The probe's variables keep their types.
THEOREM ProbeTypes == ProbeSpec => []ProbeTypeOK
  <1>1. PInv => ProbeTypeOK
    BY DEF PInv
  <1> QED BY <1>1, ProbeInductive, PTL

\* The probe takes no more than its budget, for every budget, reply and delay.
THEOREM ProbeEndsInTime == ProbeSpec => []ProbeInTime
  <1>1. PInv => ProbeInTime
    BY DEF PInv, Deadlines, ProbeInTime
  <1> QED BY <1>1, ProbeInductive, PTL

\* No family is asked with less than its share of the budget left.
THEOREM FamiliesHaveShares == ProbeSpec => []EachHasItsShare
  <1>1. PInv => EachHasItsShare
    BY DEF PInv
  <1> QED BY <1>1, ProbeInductive, PTL

-----------------------------------------------------------------------------
(* MagicProbe: the verdict *)

FairShare == Budget \div Len(order)

\* Passing over f misses no proof that came within its share.
NothingMissed(f) == ~(Proves(f) /\ Needs(f) < FairShare)

\* The attempt for the family being asked: since when, and what it waits for.
Attempt ==
    /\ phase \in {"udp", "tcp"} => askedAt[index] + FairShare <= limit
    /\ phase = "udp" =>
         /\ clock = askedAt[index] + waited
         /\ Now.udp # "none" => waited <= Now.delay
    /\ phase = "tcp" =>
         /\ Now.udp = "truncated"
         /\ reads < Reads
         /\ clock = askedAt[index] + Now.delay + reads * Now.delay + waited
         /\ Now.tcp # "none" => waited <= Now.delay

VerdictSoFar ==
    /\ verdict = "yes" => \E i \in 1 .. Len(order) : Proves(order[i])
    /\ phase # "done" => \A i \in 1 .. Len(order) : i < index => NothingMissed(order[i])
    /\ verdict = "no" => \A i \in 1 .. Len(order) : NothingMissed(order[i])
    /\ phase # "done" => verdict = "none"

VInv == PInv /\ Attempt /\ VerdictSoFar

LEMMA ProbeTyping ==
  ASSUME PInv
  PROVE  /\ Len(order) \in 1 .. 2 /\ index \in 1 .. Len(order) + 1
         /\ \A i \in 1 .. Len(order) : /\ order[i] \in Families
                                       /\ server[order[i]].udp \in Replies
                                       /\ server[order[i]].tcp \in Replies
                                       /\ server[order[i]].delay \in Nat
         /\ clock \in Nat /\ limit \in Nat /\ waited \in Nat /\ reads \in Nat
         /\ Reads \in Nat /\ Reads # 0
         /\ FairShare \in Nat
         /\ phase \in {"ask", "udp", "tcp", "done"}
         /\ phase \in {"udp", "tcp"} => /\ index \in 1 .. Len(order)
                                        /\ Len(askedAt) = index
                                        /\ askedAt[index] \in Nat
  <1>1. Len(order) \in 1 .. 2 /\ \A i \in 1 .. Len(order) : order[i] \in Families
    BY DEF PInv, ProbeTypeOK, Orders, Families
  <1>2. \A f \in Families : /\ server[f].udp \in Replies /\ server[f].tcp \in Replies
                            /\ server[f].delay \in Nat
    BY ProbeAssumption DEF PInv, ProbeTypeOK, Servers
  <1>3. FairShare \in Nat
    BY <1>1, ProbeAssumption DEF FairShare
  <1>4. phase \in {"udp", "tcp"} => /\ index \in 1 .. Len(order)
                                    /\ Len(askedAt) = index
                                    /\ askedAt[index] \in Nat
    BY <1>1 DEF PInv, ProbeTypeOK, Deadlines
  <1> QED BY <1>1, <1>2, <1>3, <1>4, ProbeAssumption DEF PInv, ProbeTypeOK

\* A server's needs, in the order in which the attempt spends them.
LEMMA NeedsOf ==
  ASSUME NEW f, server[f].delay \in Nat, Reads \in Nat
  PROVE  /\ server[f].udp = "expected" => Needs(f) = server[f].delay
         /\ server[f].udp # "expected" =>
              Needs(f) = server[f].delay + Reads * server[f].delay
         /\ Needs(f) \in Nat
  <1>1. server[f].delay * (1 + Reads) = server[f].delay + Reads * server[f].delay
        /\ Reads * server[f].delay \in Nat
    OBVIOUS
  <1> QED BY <1>1 DEF Needs

LEMMA MoreReads ==
  ASSUME NEW r \in Nat, NEW n \in Nat, r < n, NEW d \in Nat
  PROVE  r * d + d <= n * d /\ r * d \in Nat /\ n * d \in Nat
  <1>1. (r + 1) * d <= n * d
    BY MoreMisses
  <1>2. (r + 1) * d = r * d + d
    BY Misses
  <1> QED BY <1>1, <1>2

\* The attempt has lasted for at least a share of the budget when its deadline
\* has passed, so a family that is given up then needed that long.
LEMMA GivenUpInTime ==
  ASSUME VInv, phase \in {"udp", "tcp"}, clock >= limit
  PROVE  NothingMissed(order[index])
  <1> DEFINE f == order[index]
  <1>0. /\ server[f].delay \in Nat /\ server[f].udp \in Replies
        /\ server[f].tcp \in Replies /\ Reads \in Nat /\ Now = server[f]
        /\ clock \in Nat /\ limit \in Nat /\ waited \in Nat /\ reads \in Nat
        /\ askedAt[index] \in Nat /\ FairShare \in Nat
    BY ProbeTyping DEF VInv, Now
  <1>1. CASE phase = "udp"
    <2>1. Proves(f) => FairShare <= server[f].delay
      BY <1>0, <1>1 DEF VInv, Attempt, Proves
    <2>2. server[f].delay <= Needs(f)
      BY <1>0, NeedsOf, Misses
    <2> QED BY <1>0, <2>1, <2>2, NeedsOf DEF NothingMissed
  <1>2. CASE phase = "tcp"
    <2>1. Proves(f) => FairShare <= server[f].delay + reads * server[f].delay + server[f].delay
      <3>1. reads * server[f].delay \in Nat
        BY <1>0, Misses
      <3> QED BY <1>0, <1>2, <3>1 DEF VInv, Attempt, Proves
    <2>2. reads * server[f].delay + server[f].delay <= Reads * server[f].delay
      BY <1>0, <1>2, MoreReads DEF VInv, Attempt
    <2>3. Needs(f) = server[f].delay + Reads * server[f].delay
      BY <1>0, <1>2, NeedsOf DEF VInv, Attempt
    <2>4. reads * server[f].delay \in Nat /\ Reads * server[f].delay \in Nat
      BY <1>0, Misses
    <2> QED BY <1>0, <2>1, <2>2, <2>3, <2>4 DEF NothingMissed
  <1> QED BY <1>1, <1>2

LEMMA NextFamilyRight ==
  ASSUME VInv, NextFamily, phase \in {"udp", "tcp"}, UNCHANGED <<setting, clock, askedAt>>,
         NothingMissed(order[index])
  PROVE  VInv'
  <1>1. PInv'
    BY NextFamilyKeeps DEF VInv
  <1>2. Attempt'
    BY DEF NextFamily, Attempt
  <1>3. VerdictSoFar'
    <2>0. /\ order' = order
          /\ \A f : NothingMissed(f)' <=> NothingMissed(f)
      BY DEF setting, NothingMissed, Proves, Needs, FairShare
    <2>1. verdict' = "none" /\ index' = index + 1
      BY DEF VInv, VerdictSoFar, NextFamily
    <2>2. ASSUME NEW i \in 1 .. Len(order), i < index + 1
          PROVE  NothingMissed(order[i])
      <3>1. i < index \/ i = index
        BY <2>2, ProbeTyping DEF VInv
      <3> QED BY <3>1, <2>2 DEF VInv, VerdictSoFar
    <2> QED BY <2>0, <2>1, <2>2 DEF VerdictSoFar
  <1> QED BY <1>1, <1>2, <1>3 DEF VInv

LEMMA FinishRight ==
  ASSUME VInv, NEW v \in {"yes", "no"}, Finish(v), UNCHANGED <<setting, clock, askedAt>>,
         v = "yes" => \E i \in 1 .. Len(order) : Proves(order[i]),
         v = "no" => \A i \in 1 .. Len(order) : NothingMissed(order[i])
  PROVE  VInv'
  <1>1. PInv'
    BY FinishKeeps DEF VInv
  <1>2. Attempt'
    BY DEF Finish, Attempt
  <1>3. VerdictSoFar'
    BY DEF VerdictSoFar, Finish, setting, NothingMissed, Proves, Needs, FairShare
  <1> QED BY <1>1, <1>2, <1>3 DEF VInv

LEMMA ConcludeRight ==
  ASSUME VInv, phase \in {"udp", "tcp"}, UNCHANGED <<setting, clock, askedAt>>,
         phase = "udp" => Conclude(Now.udp) /\ Now.udp # "truncated",
         phase = "tcp" => Conclude(Now.tcp)
  PROVE  VInv'
  <1>0. /\ index \in 1 .. Len(order) /\ Now = server[order[index]]
        /\ phase = "tcp" => Now.udp = "truncated"
    BY ProbeTyping DEF VInv, Now, Attempt
  <1>1. CASE Finish("yes") /\ Proves(order[index])
    BY <1>0, <1>1, FinishRight
  <1>2. CASE NextFamily /\ NothingMissed(order[index])
    BY <1>2, NextFamilyRight
  <1> QED BY <1>0, <1>1, <1>2 DEF Conclude, Proves, NothingMissed

LEMMA AskRight == ASSUME VInv, Ask PROVE VInv'
  <1>1. PInv'
    BY AskKeeps DEF VInv
  <1>2. clock + FairShare <= limit'
    <2>0. /\ Len(order) \in 1 .. 2 /\ index \in 1 .. 2
          /\ index = Len(order) \/ (index = 1 /\ Len(order) = 2)
          /\ clock \in Nat /\ Budget \in Nat
          /\ Len(askedAt) = index - 1 /\ askedAt \in Seq(Nat)
      BY ProbeTyping, Position, ProbeAssumption DEF VInv, PInv, ProbeTypeOK, Deadlines, Ask
    <2>1. CASE index = Len(order)
      <3>1. Len(order) + 1 - index = 1
        BY <2>0, <2>1
      <3>2. limit' = clock + (Budget - clock) \div 1
        BY <3>1 DEF Ask, Limit
      <3>3. limit' = Budget
        BY <2>0, <3>2 DEF VInv, PInv, Deadlines
      <3>4. askedAt'[index] = clock /\ Len(askedAt') = index
        BY <2>0 DEF Ask
      <3>5. clock + Budget \div Len(order) <= Budget
        BY <1>1, <2>0, <3>4 DEF PInv, EachHasItsShare, Ask, setting
      <3> QED BY <3>3, <3>5 DEF FairShare
    <2>2. CASE index = 1 /\ Len(order) = 2
      <3>1. clock = 0
        BY <2>2 DEF VInv, PInv, Deadlines, Ask
      <3>2. limit' = 0 + (Budget - 0) \div 2
        BY <2>2, <3>1 DEF Ask, Limit
      <3> QED BY <2>0, <2>2, <3>1, <3>2 DEF FairShare
    <2> QED BY <2>0, <2>1, <2>2
  <1>3. index \in 1 .. Len(order) /\ Len(askedAt) = index - 1 /\ askedAt \in Seq(Nat)
        /\ clock \in Nat
    BY ProbeTyping DEF VInv, PInv, ProbeTypeOK, Deadlines, Ask
  <1>4. askedAt'[index] = clock
    BY <1>3 DEF Ask
  <1>5. Attempt'
    <2>1. phase' \in {"udp", "ask"} /\ waited' = 0 /\ clock' = clock
      BY DEF Ask
    <2>2. phase' = "udp" => index' = index
      BY DEF Ask
    <2>3. FairShare' = FairShare
      BY DEF Ask, setting, FairShare
    <2>4. phase' = "udp" => Now'.delay \in Nat
      <3>1. server[order[index]].delay \in Nat
        BY <1>3, ProbeTyping DEF VInv
      <3> QED BY <2>2, <3>1 DEF Ask, setting, Now
    <2> QED BY <1>2, <1>3, <1>4, <2>1, <2>2, <2>3, <2>4 DEF Attempt
  <1>6. clock >= limit' => NothingMissed(order[index])
    <2>1. server[order[index]].delay \in Nat /\ Reads \in Nat /\ FairShare \in Nat
          /\ limit' \in Nat
      BY <1>1, <1>3, ProbeTyping DEF VInv, PInv, ProbeTypeOK
    <2>2. Needs(order[index]) \in Nat
      BY <2>1, NeedsOf
    <2> QED BY <1>2, <1>3, <2>1, <2>2 DEF NothingMissed
  <1>7. VerdictSoFar'
    <2>0. /\ order' = order
          /\ \A f : NothingMissed(f)' <=> NothingMissed(f)
      BY DEF Ask, setting, NothingMissed, Proves, Needs, FairShare
    <2>1. /\ verdict' = "none" /\ phase # "done"
          /\ index' = index \/ (index' = index + 1 /\ clock >= limit')
      BY DEF VInv, VerdictSoFar, Ask
    <2>2. ASSUME NEW i \in 1 .. Len(order), i < index'
          PROVE  NothingMissed(order[i])
      <3>1. i < index \/ (i = index /\ clock >= limit')
        BY <1>3, <2>1, <2>2
      <3> QED BY <1>6, <2>1, <2>2, <3>1 DEF VInv, VerdictSoFar
    <2> QED BY <2>0, <2>1, <2>2 DEF VerdictSoFar
  <1> QED BY <1>1, <1>5, <1>7 DEF VInv

LEMMA GoOnRight ==
  ASSUME VInv, NEW n \in 0 .. Reads, GoOn("tcp", n), phase \in {"udp", "tcp"},
         UNCHANGED <<setting, clock, askedAt>>, n < Reads, Now.udp = "truncated",
         clock = askedAt[index] + Now.delay + n * Now.delay
  PROVE  VInv'
  <1>1. CASE clock >= limit /\ NextFamily
    BY <1>1, GivenUpInTime, NextFamilyRight
  <1>2. CASE /\ clock < limit
             /\ phase' = "tcp" /\ waited' = 0 /\ reads' = n
             /\ UNCHANGED <<index, limit, verdict>>
    <2>1. PInv'
      BY GoOnKeeps DEF VInv
    <2>2. Now' = Now /\ FairShare' = FairShare /\ Now.delay \in Nat /\ n * Now.delay \in Nat
          /\ askedAt[index] \in Nat
      BY <1>2, ProbeTyping, Misses DEF VInv, Now, FairShare, setting
    <2>3. Attempt'
      BY <1>2, <2>2 DEF VInv, Attempt
    <2>4. VerdictSoFar'
      BY <1>2 DEF VInv, VerdictSoFar, setting, NothingMissed, Proves, Needs, FairShare
    <2> QED BY <2>1, <2>3, <2>4 DEF VInv
  <1> QED BY <1>1, <1>2 DEF GoOn

LEMMA OneTick == ASSUME NEW a \in Nat, NEW d \in Nat, NEW r \in Nat, NEW w \in Nat
                 PROVE  (a + d + r + w) + 1 = a + d + r + (w + 1)
  OBVIOUS

LEMMA VerdictNext == VInv /\ [ProbeNext]_probeVars => VInv'
  <1> SUFFICES ASSUME VInv, [ProbeNext]_probeVars PROVE VInv'
    OBVIOUS
  <1>0. /\ phase \in {"udp", "tcp"} => /\ index \in 1 .. Len(order)
                                       /\ Now.delay \in Nat /\ askedAt[index] \in Nat
        /\ reads \in Nat /\ waited \in Nat /\ Reads \in Nat /\ Reads # 0
    BY ProbeTyping DEF VInv, Now
  <1>1. CASE Ask
    BY <1>1, AskRight
  <1>2. CASE UdpReply
    <2>1. CASE Now.udp = "truncated" /\ GoOn("tcp", 0)
      <3>1. 0 * Now.delay = 0 /\ 0 \in 0 .. Reads /\ 0 < Reads
        BY <1>0, <1>2, Misses DEF UdpReply
      <3>2. clock = askedAt[index] + Now.delay + 0 * Now.delay
        BY <1>0, <1>2, <3>1 DEF UdpReply, VInv, Attempt
      <3> QED BY <1>2, <2>1, <3>1, <3>2, GoOnRight DEF UdpReply
    <2>2. CASE Now.udp \in {"expected", "other"} /\ Conclude(Now.udp)
      BY <1>2, <2>2, ConcludeRight DEF UdpReply
    <2> QED BY <1>2, <2>1, <2>2 DEF UdpReply
  <1>3. CASE TcpRead
    <2>1. CASE reads + 1 < Reads /\ GoOn("tcp", reads + 1)
      <3>1. (reads + 1) * Now.delay = reads * Now.delay + Now.delay
            /\ reads * Now.delay \in Nat
        BY <1>0, <1>3, Misses DEF TcpRead
      <3>2. clock = askedAt[index] + Now.delay + (reads + 1) * Now.delay
        BY <1>0, <1>3, <3>1 DEF TcpRead, VInv, Attempt
      <3>3. reads + 1 \in 0 .. Reads
        BY <1>0, <2>1
      <3>4. Now.udp = "truncated"
        BY <1>3 DEF TcpRead, VInv, Attempt
      <3> QED BY <1>3, <2>1, <3>2, <3>3, <3>4, GoOnRight DEF TcpRead
    <2>2. CASE Conclude(Now.tcp)
      BY <1>3, <2>2, ConcludeRight DEF TcpRead
    <2> QED BY <1>3, <2>1, <2>2 DEF TcpRead
  <1>4. CASE Expire
    BY <1>4, GivenUpInTime, NextFamilyRight DEF Expire
  <1>5. CASE AllAsked
    <2>1. \A i \in 1 .. Len(order) : NothingMissed(order[i])
      BY <1>5, ProbeTyping DEF AllAsked, VInv, VerdictSoFar
    <2> QED BY <1>5, <2>1, FinishRight DEF AllAsked
  <1>6. CASE ProbeTick
    <2>1. PInv'
      BY <1>6, StepsRight DEF VInv, ProbeNext
    <2>2. Now' = Now /\ FairShare' = FairShare
      BY <1>6 DEF ProbeTick, Now, FairShare, setting
    <2>3. Attempt'
      <3>1. phase = "tcp" => reads * Now.delay \in Nat
        BY <1>0, Misses
      <3>2. /\ phase' = phase /\ index' = index /\ limit' = limit /\ reads' = reads
            /\ askedAt' = askedAt /\ clock' = clock + 1 /\ waited' = waited + 1
            /\ waited < Now.delay \/ Awaited = "none"
        BY <1>6 DEF ProbeTick
      <3>3. clock \in Nat
        BY ProbeTyping DEF VInv
      <3>4. CASE phase = "udp"
        <4>1. Now.udp # "none" => waited + 1 <= Now.delay
          BY <1>0, <3>2, <3>4 DEF Awaited
        <4> QED BY <1>0, <2>2, <3>2, <3>3, <3>4, <4>1 DEF VInv, Attempt
      <3>5. CASE phase = "tcp"
        <4>1. Now.tcp # "none" => waited + 1 <= Now.delay
          BY <1>0, <3>2, <3>5 DEF Awaited
        <4>2. /\ askedAt[index] + FairShare <= limit
              /\ Now.udp = "truncated" /\ reads < Reads
              /\ clock = askedAt[index] + Now.delay + reads * Now.delay + waited
          BY <3>5 DEF VInv, Attempt
        <4>3. clock + 1 = askedAt[index] + Now.delay + reads * Now.delay + (waited + 1)
          <5>1. askedAt[index] \in Nat /\ Now.delay \in Nat /\ reads * Now.delay \in Nat
                /\ waited \in Nat
            BY <1>0, <3>1, <3>5
          <5> QED BY <4>2, <5>1, OneTick
        <4> QED BY <2>2, <3>2, <3>5, <4>1, <4>2, <4>3 DEF Attempt
      <3> QED BY <1>6, <3>4, <3>5 DEF ProbeTick
    <2>4. VerdictSoFar'
      BY <1>6 DEF ProbeTick, VInv, VerdictSoFar, setting, NothingMissed, Proves, Needs,
                  FairShare
    <2> QED BY <2>1, <2>3, <2>4 DEF VInv
  <1>7. CASE UNCHANGED probeVars
    <2>1. PInv'
      BY <1>7, StepsRight DEF VInv
    <2> QED BY <1>7, <2>1 DEF probeVars, setting, attempt, VInv, Attempt, VerdictSoFar,
                   NothingMissed, Proves, Needs, FairShare, Now
  <1> QED BY <1>1, <1>2, <1>3, <1>4, <1>5, <1>6, <1>7 DEF ProbeNext

\* For every budget, number of reads and server: the probe succeeds only on a
\* proof, and fails only if no family gave one within its share.
THEOREM VerdictsAreRight == ProbeSpec => []VerdictIsRight
  <1>1. ProbeInit => VInv
    <2>1. ProbeInit => Attempt
      BY DEF ProbeInit, Attempt
    <2>2. ProbeInit => VerdictSoFar
      BY OneOrTwo DEF ProbeInit, VerdictSoFar
    <2> QED BY <2>1, <2>2, StartsRight DEF VInv
  <1>2. VInv => VerdictIsRight
    BY DEF VInv, VerdictSoFar, VerdictIsRight, NothingMissed, FairShare
  <1> QED BY <1>1, <1>2, VerdictNext, PTL DEF ProbeSpec
=============================================================================
