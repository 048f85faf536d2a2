----------------------------- MODULE LoopTiming -----------------------------
(* How long the controller's loop takes, in whole seconds: one LocalAPI      *)
(* request and one probe of at most Request seconds each, a Corefile and a   *)
(* heartbeat written in at most Io seconds each, a sleep to the end of the   *)
(* Poll period, and CoreDNS looking at the Corefile at least every Reload    *)
(* seconds.  `up` says whether tailscaled offers MagicDNS; want, corefile    *)
(* and served say what the loop decided, published and CoreDNS runs.         *)
EXTENDS Naturals

CONSTANTS
    Poll,      \* POLL_SECONDS
    Request,   \* REQUEST_SECONDS
    Io,        \* bound on one atomic replacement
    Reload,    \* bound on CoreDNS's reload interval with its jitter
    Target     \* the documented bound on a transition

ASSUME TimingAssumption ==
    /\ Poll \in Nat /\ Request \in Nat /\ Io \in Nat
    /\ Reload \in Nat /\ Target \in Nat

VARIABLES
    pc,        \* what the loop is doing
    elapsed,   \* seconds since `started`
    spent,     \* seconds in the current request or write
    up, asked, want, corefile, served,
    sinceReload,
    sinceFlip, \* seconds since `up` last changed, at most Target + 1
    gap        \* seconds since the last heartbeat

loop  == <<pc, elapsed, spent>>
data  == <<up, asked, want, corefile, served>>
since == <<sinceReload, sinceFlip, gap>>
timeVars == <<loop, data, since>>

MaxGap == Poll + 2 * Request + 2 * Io

LoopInit ==
    /\ pc = "fetch"
    /\ elapsed = 0 /\ spent = 0
    /\ up = FALSE /\ asked = FALSE
    /\ want = FALSE /\ corefile = FALSE /\ served = FALSE
    /\ sinceReload = 0 /\ sinceFlip = 0 /\ gap = 0

\* The next call starts now, and sees tailscaled at some moment until it ends.
Begin(l) == pc' = l /\ spent' = 0 /\ asked' = up

\* A good status leads to the probe, anything else to cluster-only routing.
FetchEnds ==
    /\ pc = "fetch"
    /\ \E seen \in {asked, up} :
         IF seen THEN Begin("probe") /\ UNCHANGED want
                 ELSE Begin("publish") /\ want' = FALSE
    /\ UNCHANGED <<elapsed, up, corefile, served, since>>

ProbeEnds ==
    /\ pc = "probe"
    /\ want' \in {asked, up}
    /\ Begin("publish")
    /\ UNCHANGED <<elapsed, up, corefile, served, since>>

PublishEnds ==
    /\ pc = "publish"
    /\ corefile' = want
    /\ Begin("beat")
    /\ UNCHANGED <<elapsed, up, want, served, since>>

\* Mutant of BeatEnds: a heartbeat only when the Corefile is active.
BeatWhenActive ==
    /\ pc = "beat"
    /\ gap' = IF want THEN 0 ELSE gap
    /\ Begin("sleep")
    /\ UNCHANGED <<elapsed, up, want, corefile, served, sinceReload, sinceFlip>>

BeatEnds ==
    /\ pc = "beat"
    /\ gap' = 0
    /\ Begin("sleep")
    /\ UNCHANGED <<elapsed, up, want, corefile, served, sinceReload, sinceFlip>>

\* Mutant of SleepOver: the time the work took is not taken off the sleep.
SleepWholePoll == spent >= Poll

\* sleep(max(0, Poll - elapsed)) is over.
SleepOver == elapsed >= Poll

SleepEnds ==
    /\ pc = "sleep"
    /\ SleepOver
    /\ Begin("fetch")
    /\ elapsed' = 0
    /\ UNCHANGED <<up, want, corefile, served, since>>

CoreDNSReloads ==
    /\ sinceReload > 0
    /\ served' = corefile
    /\ sinceReload' = 0
    /\ UNCHANGED <<loop, up, asked, want, corefile, sinceFlip, gap>>

TailscaleFlips ==
    /\ up' = ~up
    /\ sinceFlip' = 0
    /\ UNCHANGED <<loop, asked, want, corefile, served, sinceReload, gap>>

\* Mutant of MayWait: a request without a deadline.
MayWaitLong ==
    /\ pc \in {"fetch", "probe"} => spent < 5 * Request
    /\ pc \in {"publish", "beat"} => spent < Io
    /\ pc = "sleep" => ~SleepOver
    /\ sinceReload < Reload

\* Time passes unless something has used up its bound.
MayWait ==
    /\ pc \in {"fetch", "probe"} => spent < Request
    /\ pc \in {"publish", "beat"} => spent < Io
    /\ pc = "sleep" => ~SleepOver
    /\ sinceReload < Reload

LoopTick ==
    /\ MayWait
    /\ elapsed' = elapsed + 1
    /\ spent' = spent + 1
    /\ sinceReload' = sinceReload + 1
    /\ sinceFlip' = IF sinceFlip > Target THEN sinceFlip ELSE sinceFlip + 1
    /\ gap' = gap + 1
    /\ UNCHANGED <<pc, data>>

LoopNext == \/ FetchEnds \/ ProbeEnds \/ PublishEnds \/ BeatEnds \/ SleepEnds
        \/ CoreDNSReloads \/ TailscaleFlips \/ LoopTick

LoopSpec == LoopInit /\ [][LoopNext]_timeVars

-----------------------------------------------------------------------------
(* Properties *)

LoopTypeOK ==
    /\ pc \in {"fetch", "probe", "publish", "beat", "sleep"}
    /\ elapsed \in 0 .. MaxGap
    /\ {spent, sinceReload, gap} \subseteq Nat
    /\ sinceFlip \in 0 .. Target + 1
    /\ up \in BOOLEAN /\ asked \in BOOLEAN /\ want \in BOOLEAN
    /\ corefile \in BOOLEAN /\ served \in BOOLEAN

\* After tailscaled changed for the last time, CoreDNS serves the matching
\* configuration within Target seconds, wherever in the loop the change fell.
TransitionInTime == sinceFlip > Target => served = up

\* A loop that is not stuck writes its heartbeat at least every MaxGap
\* seconds, however tailscaled behaves.
BeatInTime == gap <= MaxGap
=============================================================================
