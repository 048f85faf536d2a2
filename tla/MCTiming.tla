------------------------------ MODULE MCTiming ------------------------------
(* The controller's three clocks: the loop's pass, the probe's budget within *)
(* it, and the kubelet's liveness probe behind it.  What one proves is a     *)
(* constant of the next (the probe takes at most Request, a heartbeat comes  *)
(* at least every MaxGap seconds); beyond that they share no state, so a     *)
(* behaviour runs one of them, clockwork, while the others stand still.      *)
EXTENDS LoopTiming, MagicProbe, Heartbeat

VARIABLE clockwork

mcVars == <<clockwork, timeVars, probeVars, beatVars>>

ProbeStands ==
    /\ order = <<"A">>
    /\ server = [f \in Families |-> [udp |-> "none", tcp |-> "none", delay |-> 0]]
    /\ ProbeInit

BeatStands == sinceProbe = 0 /\ BeatInit

MCInit ==
    \/ clockwork = "loop" /\ LoopInit /\ ProbeStands /\ BeatStands
    \/ clockwork = "probe" /\ LoopInit /\ ProbeInit /\ BeatStands
    \/ clockwork = "beat" /\ LoopInit /\ ProbeStands /\ BeatInit

RunsLoop  == clockwork = "loop"  /\ LoopNext  /\ UNCHANGED <<clockwork, probeVars, beatVars>>
RunsProbe == clockwork = "probe" /\ ProbeNext /\ UNCHANGED <<clockwork, timeVars, beatVars>>
RunsBeat  == clockwork = "beat"  /\ BeatNext  /\ UNCHANGED <<clockwork, timeVars, probeVars>>

\* The probe has returned; the loop and the kubelet never end.
ProbeOver == clockwork = "probe" /\ phase = "done" /\ UNCHANGED mcVars

MCNext == RunsLoop \/ RunsProbe \/ RunsBeat \/ ProbeOver

\* Fairness as in MagicProbe: time passes and the process runs.
MCSpec == MCInit /\ [][MCNext]_mcVars /\ WF_mcVars(RunsProbe)

\* The probe returns, whatever the server does.
ProbeReturns == clockwork = "probe" => Returns

MCWallSteps == {-10, 20}
=============================================================================
