------------------------------- MODULE PodDns -------------------------------
(* The DNS path of one Pod: the controller of DnsController, CoreDNS reading *)
(* the Corefile it publishes, the tailscaled it asks, and the kubelet that   *)
(* starts the sidecars of statefulset.yaml one after the other.              *)
EXTENDS DnsController, Naturals

CONSTANTS
    TailscaleStates,   \* [status, api, dns, healthy]: what tailscaled is and answers
    MaxFaults          \* bound on crashes, failed steps and power losses

VARIABLES
    ts,        \* tailscaled now
    served,    \* the configuration CoreDNS runs, Nothing while it is down
    stage,     \* how far the kubelet is in the sidecar order
    mounted,   \* the client file the workload's /etc/resolv.conf mount names
    proved,    \* every discovery whose probe ever succeeded (history)
    reached,   \* the sidecars that were ready since the Pod last started (history)
    faults     \* faults so far

pod     == <<ts, served, stage, mounted, proved, reached, faults>>
podVars == <<vars, pod>>

ASSUME PodAssumption ==
    /\ TailscaleStates \subseteq [status : StatusValues, api : BOOLEAN, dns : BOOLEAN,
                                   healthy : BOOLEAN]
    /\ MaxFaults \in Nat

\* The container the kubelet has come to; those before it have passed their
\* startup probes.
Stages == {"controller", "dns", "tailscale", "workload"}

TailscaleRuns == stage \in {"tailscale", "workload"}

\* The sidecars whose startup probe would succeed now: /ready of CoreDNS,
\* /healthz of tailscaled.
ReadySidecars ==
    {x \in {"dns", "tailscale"} :
        \/ x = "dns" /\ served # Nothing
        \/ x = "tailscale" /\ TailscaleRuns /\ ts.healthy}

Remember == reached' = reached \union ReadySidecars'

\* tailscaled answers the LocalAPI in time with a status the parser takes.
Found(t) == t.api /\ Discoverable(t.status)

\* MagicDNS answers d's own name with one of its addresses in time.
Answers(t, d) == t.dns /\ Discoverable(t.status) /\ DiscoveryFromStatus(t.status) = d

PodInit ==
    /\ Init
    /\ ts \in TailscaleStates
    /\ served = Nothing
    /\ stage = "controller"
    /\ mounted = Nothing
    /\ proved = {}
    /\ reached = {}
    /\ faults = 0

-----------------------------------------------------------------------------
(* The controller, asking this tailscaled *)

ControllerWorks(p) == Work(p) /\ UNCHANGED pod

AsksLocalAPI(p) ==
    /\ IF MagicEnabled /\ TailscaleRuns /\ Found(ts) THEN Fetch(p, ts.status) ELSE FetchFails(p)
    /\ UNCHANGED pod

AsksMagicDNS(p) ==
    /\ Probe(p, Answers(ts, found[p]))
    /\ proved' = IF Answers(ts, found[p]) THEN proved \cup {found[p]} ELSE proved
    /\ UNCHANGED <<ts, served, stage, mounted, reached, faults>>

-----------------------------------------------------------------------------
(* The kubelet *)

\* Init containers start in order: CoreDNS once check-startup succeeds ...
StartDns ==
    /\ stage = "controller"
    /\ \E p \in Procs : pc[p] # "down"
    /\ CheckStartup(vis)
    /\ stage' = "dns"
    /\ UNCHANGED <<vars, ts, served, mounted, proved, reached, faults>>

\* Mutant of StartTailscale: does not wait for CoreDNS.
StartTailscaleEarly ==
    /\ stage = "dns"
    /\ stage' = "tailscale"
    /\ UNCHANGED <<vars, ts, served, mounted, proved, faults>>
    /\ Remember

\* ... tailscaled once CoreDNS is ready ...
StartTailscale ==
    /\ stage = "dns"
    /\ "dns" \in ReadySidecars
    /\ stage' = "tailscale"
    /\ UNCHANGED <<vars, ts, served, mounted, proved, faults>>
    /\ Remember

\* Mutant of StartWorkload: does not wait for tailscaled.
StartWorkloadEarly ==
    /\ stage = "tailscale"
    /\ stage' = "workload"
    /\ mounted' = vis.client
    /\ UNCHANGED <<vars, ts, served, proved, reached, faults>>

\* ... and the workload once tailscaled is healthy.  Its /etc/resolv.conf is a
\* subPath mount: it names this file for good.
StartWorkload ==
    /\ stage = "tailscale"
    /\ "tailscale" \in ReadySidecars
    /\ stage' = "workload"
    /\ mounted' = vis.client
    /\ UNCHANGED <<vars, ts, served, proved, reached, faults>>

-----------------------------------------------------------------------------
(* CoreDNS *)

StartCoreDNS ==
    /\ stage # "controller"
    /\ served = Nothing
    /\ vis.corefile \in Corefiles
    /\ served' = vis.corefile
    /\ UNCHANGED <<vars, ts, stage, mounted, proved, faults>>
    /\ Remember

\* The reload plugin; a Corefile it cannot load leaves the old one running.
Reload ==
    /\ served # Nothing
    /\ vis.corefile \in Corefiles \ {served}
    /\ served' = vis.corefile
    /\ UNCHANGED <<vars, ts, stage, mounted, proved, reached, faults>>

-----------------------------------------------------------------------------
(* The environment *)

TailscaleChanges ==
    /\ ts' \in TailscaleStates \ {ts}
    /\ UNCHANGED <<vars, served, stage, mounted, proved, faults>>
    /\ Remember

OneMoreFault == faults < MaxFaults /\ faults' = faults + 1

ControllerFault(p) ==
    /\ OneMoreFault
    /\ Fault(p)
    /\ UNCHANGED <<ts, served, stage, mounted, proved, reached>>

CoreDNSCrash ==
    /\ OneMoreFault
    /\ served # Nothing
    /\ served' = Nothing
    /\ UNCHANGED <<vars, ts, stage, mounted, proved, reached>>

\* Every container of the Pod starts over.
NodeLosesPower ==
    /\ OneMoreFault
    /\ PowerLoss
    /\ served' = Nothing
    /\ stage' = "controller"
    /\ mounted' = Nothing
    /\ reached' = {}
    /\ UNCHANGED <<ts, proved>>

PodNext ==
    \/ \E p \in Procs : \/ ControllerWorks(p) \/ AsksLocalAPI(p)
                        \/ AsksMagicDNS(p) \/ ControllerFault(p)
    \/ StartDns \/ StartTailscale \/ StartWorkload \/ StartCoreDNS \/ Reload
    \/ TailscaleChanges \/ CoreDNSCrash \/ NodeLosesPower

\* The process runs, the kubelet and CoreDNS keep doing their work; neither
\* tailscaled nor any fault has to happen.
PodFairness ==
    /\ \A p \in Procs : WF_podVars(ControllerWorks(p) \/ AsksLocalAPI(p) \/ AsksMagicDNS(p))
    /\ WF_podVars(StartDns)
    /\ WF_podVars(StartTailscale)
    /\ WF_podVars(StartWorkload)
    /\ WF_podVars(StartCoreDNS)
    /\ WF_podVars(Reload)

PodSpec == PodInit /\ [][PodNext]_podVars /\ PodFairness

-----------------------------------------------------------------------------
(* Properties *)

PodTypeOK ==
    /\ TypeOK
    /\ ts \in TailscaleStates
    /\ served \in Corefiles \cup {Nothing}
    /\ stage \in Stages
    /\ mounted \in RawFiles \cup {Nothing}
    /\ proved \subseteq Discoveries
    /\ reached \subseteq {"dns", "tailscale"}
    /\ faults \in 0 .. MaxFaults

\* CoreDNS splits off a MagicDNS zone only for a tailnet whose own name
\* MagicDNS really resolved, upstreams of the retained original, and never a
\* mixture of two discoveries.
ServedIsProved ==
    served # Nothing =>
      /\ vis.original # Absent
      /\ \/ served = ClusterCorefile(vis.original.ns)
         \/ \E d \in proved : served = ActiveCorefile(vis.original.ns, d)

\* The file a workload mounted is still the client file: replacing it would
\* leave running containers with the old inode, deleting it with none.
MountStaysCurrent == mounted # Nothing => mounted = vis.client

\* Behind CoreDNS's gate, in the workload or in the tailscaled it waits for,
\* CoreDNS has answered since the Pod last started and the state it answered
\* from is whole; no workload runs that tailscaled was not healthy before.  A
\* probe looks once: CoreDNS may have crashed again when the workload starts.
WorkloadHasResolver ==
    /\ TailscaleRuns => "dns" \in reached /\ vis.client # Absent /\ CheckStartup(vis)
    /\ stage = "workload" => reached = {"dns", "tailscale"}

\* What a workload may rely on, however the Pod's containers are interleaved.
WorkloadIsServed == PodTypeOK /\ MountStaysCurrent /\ WorkloadHasResolver

\* tailscaled gone or disabled for good, or never resolving again: CoreDNS
\* ends up with the cluster-only configuration and stays there.
FallsBack ==
    (<>[](~Found(ts)) \/ <>[](~ts.dns))
        => <>[](vis.original # Absent /\ served = ClusterCorefile(vis.original.ns))

\* tailscaled answering for one tailnet for good: CoreDNS ends up with that
\* tailnet's configuration, whatever it served before.
Activates ==
    \A t \in TailscaleStates : Found(t) /\ t.dns =>
        (<>[](ts = t) => <>[](/\ vis.original # Absent
                              /\ served = ActiveCorefile(vis.original.ns,
                                                         DiscoveryFromStatus(t.status))))

\* Whatever failed before and whatever tailscaled does, the Pod gets past the
\* gates of managed DNS; and past tailscaled's own when that stays healthy.
WorkloadStarts ==
    /\ <>[]TailscaleRuns
    /\ <>[](ts.healthy) => <>[](stage = "workload")
=============================================================================
