---------------------------- MODULE DnsController ----------------------------
(* charts/gpubox/files/dns-controller.py, the `run` command: one capture of  *)
(* the runtime's resolv.conf into the state directory, the client resolver   *)
(* derived from it, and the loop that publishes a Corefile and a heartbeat.  *)
(*                                                                           *)
(* The state directory is an emptyDir.  `vis` is what every container sees;  *)
(* `durable` is the set of directories a node power loss may leave, from the *)
(* last directory fsync to now: the node's file system is assumed to apply   *)
(* the changes of one directory in order.  A file that was not fsynced       *)
(* before it got its name may come back Torn.                                *)
(*                                                                           *)
(* A process step ends where the code makes a system call others can see or  *)
(* a failure can cut it; temporary files are private, so creating, writing   *)
(* and syncing one is a single step.                                         *)
EXTENDS ResolverData

CONSTANTS
    Procs,          \* `run` processes; more than one shows the races on start
    MagicEnabled,   \* --magicdns-enabled
    Resolv,         \* what /etc/resolv.conf may hold when a process reads it
    Statuses,       \* what the LocalAPI may answer
    Absent,         \* no file of that name
    Torn,           \* a file whose bytes are not what was written
    Beat,           \* a heartbeat
    Nothing         \* an unset local variable

VARIABLES
    vis, durable,   \* the state directory
    pc,             \* where each process stands
    tmp,            \* its temporary file: bytes, and whether they were fsynced
    snap,           \* its ResolverSnapshot
    found,          \* the Discovery it is about to probe
    desired,        \* the Corefile it is about to publish
    booted,         \* it is inside `while True`
    failed          \* publish_corefile raised and `finally` is running

disk  == <<vis, durable>>
local == <<snap, found, desired, booted, failed>>
vars  == <<vis, durable, pc, tmp, local>>

ASSUME ControllerAssumption ==
    /\ MagicEnabled \in BOOLEAN
    /\ Resolv \subseteq RawFiles
    /\ Statuses \subseteq StatusValues
    /\ Absent \notin RawFiles \cup Corefiles \cup {Torn, Beat, Nothing}
    /\ Torn \notin RawFiles \cup Corefiles \cup {Beat, Nothing}
    /\ Beat \notin RawFiles \cup Corefiles
    /\ Nothing \notin RawFiles \cup Corefiles

Content     == RawFiles \cup Corefiles \cup {Absent, Torn, Beat}
Directories == [original : RawFiles \cup {Absent, Torn},
                client   : RawFiles \cup {Absent, Torn},
                corefile : Corefiles \cup {Absent, Torn},
                heartbeat : {Absent, Beat, Torn}]

StartLabels == {"original", "linkOriginal"}
SnapLabels  == {"syncOriginal", "client", "linkClient", "syncClient"}
PublishLabels == {"publish", "replaceCorefile", "syncCorefile"}
BeatLabels    == {"beat", "replaceBeat", "syncBeat"}
LoopLabels    == {"fetch", "probe"}
Labels == {"down"} \cup StartLabels \cup SnapLabels \cup PublishLabels
            \cup BeatLabels \cup LoopLabels

EmptyDir == [original |-> Absent, client |-> Absent,
             corefile |-> Absent, heartbeat |-> Absent]
NoTemp   == [data |-> Nothing, synced |-> FALSE]

Init ==
    /\ vis = EmptyDir
    /\ durable = {EmptyDir}
    /\ pc = [p \in Procs |-> "down"]
    /\ tmp = [p \in Procs |-> NoTemp]
    /\ snap = [p \in Procs |-> Nothing]
    /\ found = [p \in Procs |-> Nothing]
    /\ desired = [p \in Procs |-> Nothing]
    /\ booted = [p \in Procs |-> FALSE]
    /\ failed = [p \in Procs |-> FALSE]

-----------------------------------------------------------------------------
(* File primitives *)

Goto(p, l) == pc' = [pc EXCEPT ![p] = l]

\* An exception nobody catches, or a kill: the process is gone with its memory.
Exit(p) ==
    /\ Goto(p, "down")
    /\ tmp' = [tmp EXCEPT ![p] = NoTemp]
    /\ snap' = [snap EXCEPT ![p] = Nothing]
    /\ found' = [found EXCEPT ![p] = Nothing]
    /\ desired' = [desired EXCEPT ![p] = Nothing]
    /\ booted' = [booted EXCEPT ![p] = FALSE]
    /\ failed' = [failed EXCEPT ![p] = FALSE]

\* Mutant of WriteTemp: no fsync of the file.
WriteTempUnsynced(p, bytes) ==
    tmp' = [tmp EXCEPT ![p] = [data |-> bytes, synced |-> FALSE]]

\* NamedTemporaryFile, fchmod, write, flush, fsync.
WriteTemp(p, bytes) == tmp' = [tmp EXCEPT ![p] = [data |-> bytes, synced |-> TRUE]]

DropTemp(p) == tmp' = [tmp EXCEPT ![p] = NoTemp]

\* What the disk may hold under a name given to a temporary file.
Settles(t) == {t.data} \cup (IF t.synced THEN {} ELSE {Torn})

\* Mutant of FsyncDirectory: nothing is synced.
NoFsyncDirectory == UNCHANGED disk

\* _fsync_directory
FsyncDirectory == durable' = {vis} /\ UNCHANGED vis

-----------------------------------------------------------------------------
(* initialize_state *)

\* Mutant of Start: every start begins from an empty state directory.
StartAfresh(p) ==
    /\ pc[p] = "down"
    /\ vis' = EmptyDir
    /\ durable' = durable \cup {EmptyDir}
    /\ Goto(p, "original")
    /\ UNCHANGED <<tmp, local>>

Start(p) ==
    /\ pc[p] = "down"
    /\ Goto(p, "original")
    /\ UNCHANGED <<disk, tmp, local>>

\* Mutant of UseRetained: a retained original is an error.
RefuseRetained(p) ==
    /\ pc[p] = "original"
    /\ vis.original # Absent
    /\ UNCHANGED disk
    /\ Exit(p)

\* The original exists: it is the one to use, whatever /etc/resolv.conf says.
UseRetained(p) ==
    /\ pc[p] = "original"
    /\ vis.original # Absent
    /\ UNCHANGED disk
    /\ \/ /\ Parses(vis.original)
          /\ snap' = [snap EXCEPT ![p] = vis.original]
          /\ Goto(p, "client")
          /\ UNCHANGED <<tmp, found, desired, booted, failed>>
       \/ ~Parses(vis.original) /\ Exit(p)

Capture(p) ==
    /\ pc[p] = "original"
    /\ vis.original = Absent
    /\ UNCHANGED disk
    /\ \E raw \in Resolv :
         \/ /\ Parses(raw)
            /\ WriteTemp(p, raw)
            /\ Goto(p, "linkOriginal")
            /\ UNCHANGED local
         \/ ~Parses(raw) /\ Exit(p)

\* Mutant of LinkOriginal: renames over a file another process named first.
OverwriteOriginal(p) ==
    /\ pc[p] = "linkOriginal"
    /\ DropTemp(p)
    /\ vis' = [vis EXCEPT !.original = tmp[p].data]
    /\ durable' = durable \cup {[vis EXCEPT !.original = c] : c \in Settles(tmp[p])}
    /\ snap' = [snap EXCEPT ![p] = tmp[p].data]
    /\ Goto(p, "syncOriginal")
    /\ UNCHANGED <<found, desired, booted, failed>>

\* Mutant of LinkOriginal: the loser of the race goes on with its own bytes.
KeepOwnBytes(p) ==
    /\ pc[p] = "linkOriginal"
    /\ DropTemp(p)
    /\ snap' = [snap EXCEPT ![p] = tmp[p].data]
    /\ Goto(p, "syncOriginal")
    /\ UNCHANGED <<found, desired, booted, failed>>
    /\ \/ /\ vis.original = Absent
          /\ vis' = [vis EXCEPT !.original = tmp[p].data]
          /\ durable' = durable \cup {[vis EXCEPT !.original = c] : c \in Settles(tmp[p])}
       \/ vis.original # Absent /\ UNCHANGED disk

\* os.link: the first process to get here names the file; FileExistsError
\* sends the others back to read it.
LinkOriginal(p) ==
    /\ pc[p] = "linkOriginal"
    /\ DropTemp(p)
    /\ \/ /\ vis.original = Absent
          /\ vis' = [vis EXCEPT !.original = tmp[p].data]
          /\ durable' = durable \cup {[vis EXCEPT !.original = c] : c \in Settles(tmp[p])}
          /\ snap' = [snap EXCEPT ![p] = tmp[p].data]
          /\ Goto(p, "syncOriginal")
          /\ UNCHANGED <<found, desired, booted, failed>>
       \/ /\ vis.original # Absent
          /\ Goto(p, "original")
          /\ UNCHANGED <<disk, local>>

\* Mutant of SyncOriginal: publishes before there is a client file.
PublishBeforeClient(p) ==
    /\ pc[p] = "syncOriginal"
    /\ FsyncDirectory
    /\ desired' = [desired EXCEPT ![p] = ClusterCorefile(snap[p].ns)]
    /\ Goto(p, "publish")
    /\ UNCHANGED <<tmp, snap, found, booted, failed>>

SyncOriginal(p) ==
    /\ pc[p] = "syncOriginal"
    /\ FsyncDirectory
    /\ Goto(p, "client")
    /\ UNCHANGED <<tmp, local>>

CheckClient(p) ==
    /\ pc[p] = "client"
    /\ vis.client # Absent
    /\ UNCHANGED disk
    /\ \/ /\ vis.client = MakeClient(snap[p])
          /\ desired' = [desired EXCEPT ![p] = ClusterCorefile(snap[p].ns)]
          /\ Goto(p, "publish")
          /\ UNCHANGED <<tmp, snap, found, booted, failed>>
       \/ vis.client # MakeClient(snap[p]) /\ Exit(p)

CreateClient(p) ==
    /\ pc[p] = "client"
    /\ vis.client = Absent
    /\ WriteTemp(p, MakeClient(snap[p]))
    /\ Goto(p, "linkClient")
    /\ UNCHANGED <<disk, local>>

LinkClient(p) ==
    /\ pc[p] = "linkClient"
    /\ DropTemp(p)
    /\ \/ /\ vis.client = Absent
          /\ vis' = [vis EXCEPT !.client = tmp[p].data]
          /\ durable' = durable \cup {[vis EXCEPT !.client = c] : c \in Settles(tmp[p])}
          /\ Goto(p, "syncClient")
       \/ /\ vis.client # Absent
          /\ Goto(p, "client")
          /\ UNCHANGED disk
    /\ UNCHANGED local

SyncClient(p) ==
    /\ pc[p] = "syncClient"
    /\ FsyncDirectory
    /\ desired' = [desired EXCEPT ![p] = ClusterCorefile(snap[p].ns)]
    /\ Goto(p, "publish")
    /\ UNCHANGED <<tmp, snap, found, booted, failed>>

-----------------------------------------------------------------------------
(* publish_corefile and write_heartbeat *)

\* Mutant of Publish: an existing Corefile is left alone.
PublishOnce(p) ==
    /\ pc[p] = "publish"
    /\ UNCHANGED <<disk, local>>
    /\ \/ /\ vis.corefile # Absent
          /\ Goto(p, "beat")
          /\ UNCHANGED tmp
       \/ /\ vis.corefile = Absent
          /\ WriteTemp(p, desired[p])
          /\ Goto(p, "replaceCorefile")

Publish(p) ==
    /\ pc[p] = "publish"
    /\ UNCHANGED <<disk, local>>
    /\ \/ /\ vis.corefile = desired[p]
          /\ Goto(p, "beat")
          /\ UNCHANGED tmp
       \/ /\ vis.corefile # desired[p]
          /\ WriteTemp(p, desired[p])
          /\ Goto(p, "replaceCorefile")

ReplaceCorefile(p) ==
    /\ pc[p] = "replaceCorefile"
    /\ vis' = [vis EXCEPT !.corefile = tmp[p].data]
    /\ durable' = durable \cup {[vis EXCEPT !.corefile = c] : c \in Settles(tmp[p])}
    /\ DropTemp(p)
    /\ Goto(p, "syncCorefile")
    /\ UNCHANGED local

SyncCorefile(p) ==
    /\ pc[p] = "syncCorefile"
    /\ FsyncDirectory
    /\ Goto(p, "beat")
    /\ UNCHANGED <<tmp, local>>

\* An OSError while publishing, inside the loop: `finally` writes the
\* heartbeat before the error ends the process.
PublishFails(p) ==
    /\ pc[p] \in PublishLabels
    /\ booted[p]
    /\ DropTemp(p)
    /\ failed' = [failed EXCEPT ![p] = TRUE]
    /\ Goto(p, "beat")
    /\ UNCHANGED <<disk, snap, found, desired, booted>>

WriteBeat(p) ==
    /\ pc[p] = "beat"
    /\ WriteTemp(p, Beat)
    /\ Goto(p, "replaceBeat")
    /\ UNCHANGED <<disk, local>>

ReplaceBeat(p) ==
    /\ pc[p] = "replaceBeat"
    /\ vis' = [vis EXCEPT !.heartbeat = tmp[p].data]
    /\ durable' = durable \cup {[vis EXCEPT !.heartbeat = c] : c \in Settles(tmp[p])}
    /\ DropTemp(p)
    /\ Goto(p, "syncBeat")
    /\ UNCHANGED local

SyncBeat(p) ==
    /\ pc[p] = "syncBeat"
    /\ FsyncDirectory
    /\ \/ failed[p] /\ Exit(p)
       \/ /\ ~failed[p]
          /\ Goto(p, "fetch")
          /\ booted' = [booted EXCEPT ![p] = TRUE]
          /\ UNCHANGED <<tmp, snap, found, desired, failed>>

-----------------------------------------------------------------------------
(* The body of `while True`: what to publish *)

\* Mutant of FetchFails: keeps publishing what it published last.
FetchFailsKeepsLast(p) ==
    /\ pc[p] = "fetch"
    /\ Goto(p, "publish")
    /\ UNCHANGED <<disk, tmp, local>>

\* No usable status: disabled, unreachable, late, malformed or not running.
FetchFails(p) ==
    /\ pc[p] = "fetch"
    /\ desired' = [desired EXCEPT ![p] = ClusterCorefile(snap[p].ns)]
    /\ Goto(p, "publish")
    /\ UNCHANGED <<disk, tmp, snap, found, booted, failed>>

Fetch(p, st) ==
    /\ pc[p] = "fetch"
    /\ MagicEnabled
    /\ Discoverable(st)
    /\ found' = [found EXCEPT ![p] = DiscoveryFromStatus(st)]
    /\ Goto(p, "probe")
    /\ UNCHANGED <<disk, tmp, snap, desired, booted, failed>>

\* Mutant of Probe: activates whatever MagicDNS said.
ProbeIgnored(p, answered) ==
    /\ pc[p] = "probe"
    /\ desired' = [desired EXCEPT ![p] = ActiveCorefile(snap[p].ns, found[p])]
    /\ found' = [found EXCEPT ![p] = Nothing]
    /\ Goto(p, "publish")
    /\ UNCHANGED <<disk, tmp, snap, booted, failed>>

Probe(p, answered) ==
    /\ pc[p] = "probe"
    /\ desired' = [desired EXCEPT ![p] =
                     IF answered THEN ActiveCorefile(snap[p].ns, found[p])
                                 ELSE ClusterCorefile(snap[p].ns)]
    /\ found' = [found EXCEPT ![p] = Nothing]
    /\ Goto(p, "publish")
    /\ UNCHANGED <<disk, tmp, snap, booted, failed>>

-----------------------------------------------------------------------------
(* Failures *)

\* A kill, or an error outside the loop's publish: OSError from _create_once,
\* ControllerError from a read, from the first publish or from a heartbeat.
Crash(p) == pc[p] # "down" /\ Exit(p) /\ UNCHANGED disk

\* The node loses power and comes back; the Pod and its emptyDir stay.
PowerLoss ==
    /\ \E d \in durable : vis' = d /\ durable' = {d}
    /\ pc' = [p \in Procs |-> "down"]
    /\ tmp' = [p \in Procs |-> NoTemp]
    /\ snap' = [p \in Procs |-> Nothing]
    /\ found' = [p \in Procs |-> Nothing]
    /\ desired' = [p \in Procs |-> Nothing]
    /\ booted' = [p \in Procs |-> FALSE]
    /\ failed' = [p \in Procs |-> FALSE]

\* Every step of p that ends without the outside world: no LocalAPI, no fault.
Work(p) ==
    \/ Start(p) \/ UseRetained(p) \/ Capture(p) \/ LinkOriginal(p)
    \/ SyncOriginal(p) \/ CheckClient(p) \/ CreateClient(p) \/ LinkClient(p)
    \/ SyncClient(p) \/ Publish(p) \/ ReplaceCorefile(p) \/ SyncCorefile(p)
    \/ WriteBeat(p) \/ ReplaceBeat(p) \/ SyncBeat(p)

Discover(p) ==
    \/ FetchFails(p)
    \/ \E st \in Statuses : Fetch(p, st)
    \/ \E answered \in BOOLEAN : Probe(p, answered)

Fault(p) == PublishFails(p) \/ Crash(p)

Next == (\E p \in Procs : Work(p) \/ Discover(p) \/ Fault(p)) \/ PowerLoss

Spec == Init /\ [][Next]_vars

-----------------------------------------------------------------------------
(* Properties *)

TempFiles == [data : Content \cup {Nothing}, synced : BOOLEAN]

TypeOK ==
    /\ vis \in Directories
    /\ durable \subseteq Directories
    /\ pc \in [Procs -> Labels]
    /\ tmp \in [Procs -> TempFiles]
    /\ snap \in [Procs -> Snapshots \cup {Nothing}]
    /\ found \in [Procs -> Discoveries \cup {Nothing}]
    /\ desired \in [Procs -> Corefiles \cup {Nothing}]
    /\ booted \in [Procs -> BOOLEAN]
    /\ failed \in [Procs -> BOOLEAN]

\* Neither a reader nor a power loss ever sees a file other than as it was
\* written: each is fsynced under a private name and only then linked
\* (_create_once) or renamed (_atomic_replace) into place.
Whole(d) == Torn \notin {d.original, d.client, d.corefile, d.heartbeat}
NeverTorn == \A d \in durable \cup {vis} : Whole(d)

\* The files appear in order and each is derived from the one before, whatever
\* mixture of processes wrote them and wherever a crash or a power loss fell:
\* the client resolver is the retained original with the listener put in, the
\* Corefile is one check_startup accepts for that original, and a heartbeat is
\* there only beside a Corefile.
Layered(d) ==
    /\ d.original # Absent => Parses(d.original)
    /\ d.client # Absent => /\ d.original # Absent
                            /\ d.client = MakeClient(d.original)
    /\ d.corefile # Absent => d.client # Absent /\ ValidCorefile(d.corefile, d.original.ns)
    /\ d.heartbeat # Absent => d.corefile # Absent
LayeredState == \A d \in durable \cup {vis} : Layered(d)

\* A process works from the original that is retained, never from one that
\* another process or an earlier boot replaced, so it cannot refuse its own
\* client file and cannot publish upstreams nobody recorded.
AgreesWithRetained ==
    \A p \in Procs : snap[p] # Nothing =>
        /\ vis.original = snap[p]
        /\ desired[p] # Nothing => ValidCorefile(desired[p], vis.original.ns)

\* Once a process polls, the original and the client file survive a power
\* loss, even when an earlier process died between naming and syncing them.
Settled ==
    /\ vis.client # Absent
    /\ \A d \in durable : d.original = vis.original /\ d.client = vis.client
SettledWhenPolling == \A p \in Procs : booted[p] => Settled

\* CoreDNS is never told to forward to itself: the original's nameservers
\* exclude the listener and the MagicDNS resolvers, so no published Corefile
\* sends a query in a circle.
NoForwardingLoop ==
    \A d \in durable \cup {vis} : d.corefile # Absent => d.corefile # Torn /\ LoopFree(d.corefile)

\* The retained files are written once: they are never replaced by other
\* bytes, and can be lost only to a power loss before they were settled.
RetainedOnce ==
    [][/\ vis.original # Absent =>
            vis'.original = vis.original \/ (~Settled /\ vis'.original = Absent)
       /\ vis.client # Absent =>
            vis'.client = vis.client \/ (~Settled /\ vis'.client = Absent)]_vars

\* check_startup, the probe that gates CoreDNS and every workload container,
\* holds from the first poll on: in what is visible and in whatever a power
\* loss would leave, so the restarted Pod finds a state it accepts.
CheckStartup(d) ==
    /\ Parses(d.original)
    /\ d.client = MakeClient(d.original)
    /\ ValidCorefile(d.corefile, d.original.ns)
StartupWhenPolling ==
    \A p \in Procs : booted[p] => \A d \in durable \cup {vis} : CheckStartup(d)

\* The controller implements the promise of RetainedResolver.
Retained == INSTANCE RetainedResolver WITH
    original <- vis.original, client <- vis.client,
    corefile <- vis.corefile, settled <- Settled
KeepsPromise == Retained!Promise
=============================================================================
