---------------------------- MODULE PodDns_proofs ----------------------------
(* The DNS controller for every set of processes, every content of           *)
(* /etc/resolv.conf and every LocalAPI answer; and the Pod's DNS path around *)
(* it, for any tailscaled and any number of faults: what CoreDNS serves was  *)
(* proved and belongs to the retained original, and no workload loses its    *)
(* resolver.  The second part adds what CoreDNS and the kubelet rely on to   *)
(* the controller's invariant.                                               *)
EXTENDS PodDns, TLAPS

-----------------------------------------------------------------------------
(* Facts about the data *)

LEMMA ClientIsRaw == ASSUME NEW raw \in RawFiles
                     PROVE  MakeClient(raw) \in RawFiles
  BY DEF MakeClient, RawFiles, Addr

LEMMA ParsedNs == ASSUME NEW raw, Parses(raw)
                  PROVE  raw \in RawFiles /\ raw.ns \in Seq(Usable) /\ raw.ns # << >>
  BY DEF Parses, RawFiles, Members, Addr

LEMMA ClusterIsCorefile == ASSUME NEW ns \in Seq(Usable)
                           PROVE  ClusterCorefile(ns) \in Corefiles
  BY DEF ClusterCorefile, Corefiles, Addr

LEMMA ActiveIsCorefile == ASSUME NEW ns \in Seq(Usable), NEW d \in Discoveries
                          PROVE  ActiveCorefile(ns, d) \in Corefiles
  <1>1. d.suffix \in Suffixes /\ d.self \in Names /\ d.magic \in Addr
    BY DEF Discoveries, Addr
  <1>2. <<d.magic>> \o ns \in Seq(Addr) /\ ns \in Seq(Addr)
    BY <1>1 DEF Addr
  <1> QED BY <1>1, <1>2 DEF ActiveCorefile, Corefiles

LEMMA ValidIsCorefile == ASSUME NEW ns \in Seq(Usable), NEW c, ValidCorefile(c, ns)
                         PROVE  c \in Corefiles
  BY ClusterIsCorefile, ActiveIsCorefile DEF ValidCorefile

LEMMA SoundStatus == ASSUME NEW st \in StatusValues, Discoverable(st)
                     PROVE  SoundDiscovery(DiscoveryFromStatus(st))
  BY DEF Discoverable, SoundDiscovery, DiscoveryFromStatus, Discoveries, Magic

LEMMA ValidIsLoopFree == ASSUME NEW ns \in Seq(Usable), NEW c, ValidCorefile(c, ns)
                         PROVE  LoopFree(c)
  <1>0. Members(ns) \subseteq Usable
    BY DEF Members
  <1>1. CASE c = ClusterCorefile(ns)
    BY <1>0, <1>1, ResolverDataAssumption DEF ClusterCorefile, LoopFree, Members
  <1>2. CASE \E d \in Discoveries : SoundDiscovery(d) /\ c = ActiveCorefile(ns, d)
    <2>1. PICK d \in Discoveries : c = ActiveCorefile(ns, d)
      BY <1>2
    <2>2. c.up = ns /\ c.zoneUp = <<d.magic>> \o ns /\ d.magic \in Magic
      BY <2>1 DEF ActiveCorefile, Discoveries
    <2>3. \A i \in DOMAIN c.zoneUp : i # 1 => c.zoneUp[i] \in Usable
      BY <2>2
    <2>4. c.zoneUp[1] = d.magic
      BY <2>2
    <2> QED BY <1>0, <2>2, <2>3, <2>4, ResolverDataAssumption DEF LoopFree, Members
  <1> QED BY <1>1, <1>2 DEF ValidCorefile

-----------------------------------------------------------------------------
(* The inductive invariant *)

DirOK(d) == d \in Directories /\ Whole(d) /\ Layered(d)

\* A directory a power loss may leave has the retained files of now or none.
Past(d) == d.original \in {Absent, vis.original} /\ d.client \in {Absent, vis.client}

DiskOK == vis \in durable /\ \A d \in durable : DirOK(d) /\ Past(d)

\* The state no power loss can take back.
Rooted == \A d \in durable : /\ d.original = vis.original
                             /\ d.client = vis.client
                             /\ d.client # Absent
                             /\ d.corefile # Absent

HasTemp(p, bytes) == tmp[p] = [data |-> bytes, synced |-> TRUE]

\* What a process knows at each of its labels.
ProcOK(p) ==
    /\ pc[p] \in {"down", "original", "linkOriginal"} =>
         /\ snap[p] = Nothing
         /\ desired[p] = Nothing
         /\ booted[p] = FALSE
         /\ failed[p] = FALSE
    /\ pc[p] = "linkOriginal" => tmp[p].data \in Snapshots /\ tmp[p].synced
    /\ pc[p] \notin {"down", "original", "linkOriginal"} =>
         /\ snap[p] \in Snapshots
         /\ vis.original = snap[p]
    /\ pc[p] \in {"syncOriginal", "client", "linkClient", "syncClient"} =>
         /\ desired[p] = Nothing
         /\ booted[p] = FALSE
         /\ failed[p] = FALSE
    /\ pc[p] = "linkClient" => HasTemp(p, MakeClient(snap[p]))
    /\ pc[p] = "syncClient" => vis.client # Absent
    /\ pc[p] \in PublishLabels \cup BeatLabels \cup LoopLabels =>
         /\ vis.client # Absent
         /\ desired[p] # Nothing
         /\ ValidCorefile(desired[p], snap[p].ns)
    /\ pc[p] = "replaceCorefile" => HasTemp(p, desired[p])
    /\ pc[p] \in {"syncCorefile"} \cup BeatLabels \cup LoopLabels => vis.corefile # Absent
    /\ pc[p] = "replaceBeat" => HasTemp(p, Beat)
    /\ pc[p] \in LoopLabels => booted[p]
    /\ pc[p] = "probe" => SoundDiscovery(found[p])
    /\ booted[p] => Rooted

LocalsOK ==
    /\ pc \in [Procs -> Labels]
    /\ tmp \in [Procs -> TempFiles]
    /\ snap \in [Procs -> Snapshots \cup {Nothing}]
    /\ found \in [Procs -> Discoveries \cup {Nothing}]
    /\ desired \in [Procs -> Corefiles \cup {Nothing}]
    /\ booted \in [Procs -> BOOLEAN]
    /\ failed \in [Procs -> BOOLEAN]

IInv == LocalsOK /\ DiskOK /\ \A p \in Procs : ProcOK(p)

\* What no step of a process takes away from another.
Keeps == /\ vis.original # Absent => vis'.original = vis.original
         /\ vis.client # Absent => vis'.client = vis.client
         /\ vis.corefile # Absent => vis'.corefile # Absent
         /\ Rooted => Rooted'

SameLocals(q) == /\ pc'[q] = pc[q]
                 /\ tmp'[q] = tmp[q]
                 /\ snap'[q] = snap[q]
                 /\ found'[q] = found[q]
                 /\ desired'[q] = desired[q]
                 /\ booted'[q] = booted[q]
                 /\ failed'[q] = failed[q]

LEMMA SnapshotsAreFiles == /\ Absent \notin Snapshots
                           /\ Nothing \notin Snapshots
                           /\ Torn \notin Snapshots
                           /\ Snapshots \subseteq RawFiles
                           /\ \A raw : raw \in Snapshots <=> Parses(raw)
  BY ControllerAssumption DEF Snapshots, Parses

LEMMA TypesApart == /\ NoTemp \in TempFiles
                    /\ Nothing \notin Corefiles
                    /\ Absent \notin Corefiles
                    /\ Torn \notin Corefiles
                    /\ Absent # Torn /\ Absent # Beat /\ Absent # Nothing
                    /\ Torn # Beat /\ Torn # Nothing
                    /\ Absent \notin RawFiles /\ Torn \notin RawFiles
  BY ControllerAssumption DEF NoTemp, TempFiles

LEMMA OtherProcess ==
  ASSUME IInv, Keeps, NEW q \in Procs, SameLocals(q)
  PROVE  ProcOK(q)'
  <1>1. ProcOK(q) /\ pc[q] \in Labels
    BY DEF IInv, LocalsOK
  <1>2. snap[q] \in Snapshots /\ vis.original = snap[q] => vis'.original = snap[q]
    BY SnapshotsAreFiles DEF Keeps
  <1> QED BY <1>1, <1>2 DEF ProcOK, Keeps, SameLocals, HasTemp, BeatLabels, LoopLabels

LEMMA Assemble ==
  ASSUME IInv, NEW p \in Procs, LocalsOK', DiskOK', Keeps, ProcOK(p)',
         \A q \in Procs \ {p} : SameLocals(q)
  PROVE  IInv'
  <1>1. \A q \in Procs : ProcOK(q)'
    BY OtherProcess
  <1> QED BY <1>1 DEF IInv

LEMMA QuietDisk ==
  ASSUME IInv, UNCHANGED disk
  PROVE  DiskOK' /\ Keeps
  BY DEF IInv, disk, DiskOK, Past, Keeps, Rooted

LEMMA SyncDisk ==
  ASSUME IInv, FsyncDirectory
  PROVE  /\ DiskOK'
         /\ Keeps
         /\ vis' = vis
         /\ vis.client # Absent /\ vis.corefile # Absent => Rooted'
  BY DEF IInv, FsyncDirectory, DiskOK, Past, Keeps, Rooted

LEMMA ExitSafe ==
  ASSUME IInv, NEW p \in Procs, Exit(p)
  PROVE  LocalsOK' /\ ProcOK(p)' /\ \A q \in Procs \ {p} : SameLocals(q)
  <1> USE DEF Exit, Goto
  <1>1. LocalsOK'
    BY TypesApart DEF IInv, LocalsOK, Labels
  <1>2. ProcOK(p)'
    BY DEF IInv, LocalsOK, ProcOK, PublishLabels, BeatLabels, LoopLabels
  <1>3. \A q \in Procs \ {p} : SameLocals(q)
    BY DEF IInv, LocalsOK, SameLocals
  <1> QED BY <1>1, <1>2, <1>3

-----------------------------------------------------------------------------
(* Every step of a process preserves the invariant *)

LEMMA StartSafe == ASSUME IInv, NEW p \in Procs, Start(p) PROVE IInv'
  <1> USE DEF Start, Goto, local
  <1>1. LocalsOK'
    BY DEF IInv, LocalsOK, Labels, StartLabels
  <1>2. DiskOK' /\ Keeps
    BY QuietDisk
  <1>3. ProcOK(p)'
    BY DEF IInv, LocalsOK, ProcOK, PublishLabels, BeatLabels, LoopLabels
  <1>4. \A q \in Procs \ {p} : SameLocals(q)
    BY DEF IInv, LocalsOK, SameLocals
  <1> QED BY <1>1, <1>2, <1>3, <1>4, Assemble

LEMMA UseRetainedSafe == ASSUME IInv, NEW p \in Procs, UseRetained(p) PROVE IInv'
  <1>1. DiskOK' /\ Keeps
    BY QuietDisk DEF UseRetained
  <1>2. CASE Exit(p)
    BY <1>1, <1>2, ExitSafe, Assemble
  <1>3. CASE ~Exit(p)
    <2> USE <1>3 DEF UseRetained, Goto
    <2>1. vis.original \in Snapshots
      BY SnapshotsAreFiles
    <2>2. LocalsOK'
      BY <2>1 DEF IInv, LocalsOK, Labels, SnapLabels
    <2>3. ProcOK(p)'
      BY <2>1 DEF IInv, LocalsOK, ProcOK, disk, PublishLabels, BeatLabels, LoopLabels
    <2>4. \A q \in Procs \ {p} : SameLocals(q)
      BY DEF IInv, LocalsOK, SameLocals
    <2> QED BY <1>1, <2>2, <2>3, <2>4, Assemble
  <1> QED BY <1>2, <1>3

LEMMA CaptureSafe == ASSUME IInv, NEW p \in Procs, Capture(p) PROVE IInv'
  <1>1. DiskOK' /\ Keeps
    BY QuietDisk DEF Capture
  <1>2. CASE Exit(p)
    BY <1>1, <1>2, ExitSafe, Assemble
  <1>3. CASE ~Exit(p)
    <2>1. PICK raw \in Resolv : Parses(raw) /\ WriteTemp(p, raw) /\ Goto(p, "linkOriginal")
                                /\ UNCHANGED local
      BY <1>3 DEF Capture
    <2>2. raw \in Snapshots /\ raw \in Content
      BY <2>1, SnapshotsAreFiles DEF Content
    <2> USE <2>1, <2>2 DEF Capture, Goto, WriteTemp, local
    <2>3. LocalsOK'
      BY DEF IInv, LocalsOK, Labels, StartLabels, TempFiles
    <2>4. ProcOK(p)'
      BY DEF IInv, LocalsOK, ProcOK, PublishLabels, BeatLabels, LoopLabels
    <2>5. \A q \in Procs \ {p} : SameLocals(q)
      BY DEF IInv, LocalsOK, SameLocals
    <2> QED BY <1>1, <2>3, <2>4, <2>5, Assemble
  <1> QED BY <1>2, <1>3

\* Naming a synced temporary file adds exactly the new directory to what a
\* power loss may leave.
LEMMA SettlesSynced == ASSUME NEW t, t.synced = TRUE PROVE Settles(t) = {t.data}
  BY DEF Settles

LEMMA LinkOriginalSafe == ASSUME IInv, NEW p \in Procs, LinkOriginal(p) PROVE IInv'
  <1> USE DEF Goto, DropTemp
  <1>1. CASE vis.original = Absent /\ vis' = [vis EXCEPT !.original = tmp[p].data]
    <2> USE <1>1 DEF LinkOriginal
    <2>1. tmp[p].data \in Snapshots /\ tmp[p].synced = TRUE
      BY DEF IInv, LocalsOK, TempFiles, ProcOK
    <2>2. vis \in Directories /\ Whole(vis) /\ Layered(vis)
      BY DEF IInv, DiskOK, DirOK
    <2>3. vis.client = Absent /\ vis.corefile = Absent /\ vis.heartbeat = Absent
      BY <2>2 DEF Layered
    <2>4. DirOK(vis')
      BY <2>1, <2>2, <2>3, SnapshotsAreFiles, TypesApart DEF DirOK, Directories, Whole, Layered
    <2>5. durable' = durable \cup {vis'}
      <3>1. Settles(tmp[p]) = {tmp[p].data}
        BY <2>1, SettlesSynced
      <3>2. {[vis EXCEPT !.original = c] : c \in {tmp[p].data}} = {vis'}
        OBVIOUS
      <3> QED BY <3>1, <3>2, TypesApart, <2>1, SnapshotsAreFiles
    <2>6. DiskOK'
      BY <2>2, <2>4, <2>5 DEF IInv, DiskOK, Past, Directories
    <2>7. Keeps
      BY <2>2, <2>3 DEF Keeps, Directories, Rooted, IInv, DiskOK
    <2>8. LocalsOK'
      BY <2>1, TypesApart DEF IInv, LocalsOK, Labels, SnapLabels
    <2>9. ProcOK(p)'
      BY <2>1, <2>2 DEF IInv, LocalsOK, ProcOK, Directories, PublishLabels, BeatLabels, LoopLabels
    <2>10. \A q \in Procs \ {p} : SameLocals(q)
      BY DEF IInv, LocalsOK, SameLocals
    <2> QED BY <2>6, <2>7, <2>8, <2>9, <2>10, Assemble
  <1>2. CASE vis.original # Absent
    <2> USE <1>2 DEF LinkOriginal, local
    <2>1. LocalsOK'
      BY TypesApart DEF IInv, LocalsOK, Labels, StartLabels
    <2>2. DiskOK' /\ Keeps
      BY QuietDisk
    <2>3. ProcOK(p)'
      BY DEF IInv, LocalsOK, ProcOK, PublishLabels, BeatLabels, LoopLabels
    <2>4. \A q \in Procs \ {p} : SameLocals(q)
      BY DEF IInv, LocalsOK, SameLocals
    <2> QED BY <2>1, <2>2, <2>3, <2>4, Assemble
  <1> QED BY <1>1, <1>2 DEF LinkOriginal

LEMMA SyncOriginalSafe == ASSUME IInv, NEW p \in Procs, SyncOriginal(p) PROVE IInv'
  <1> USE DEF SyncOriginal, Goto, local
  <1>1. LocalsOK'
    BY DEF IInv, LocalsOK, Labels, SnapLabels
  <1>2. DiskOK' /\ Keeps /\ vis' = vis
    BY SyncDisk
  <1>3. ProcOK(p)'
    BY <1>2 DEF IInv, LocalsOK, ProcOK, PublishLabels, BeatLabels, LoopLabels
  <1>4. \A q \in Procs \ {p} : SameLocals(q)
    BY DEF IInv, LocalsOK, SameLocals
  <1> QED BY <1>1, <1>2, <1>3, <1>4, Assemble

LEMMA CheckClientSafe == ASSUME IInv, NEW p \in Procs, CheckClient(p) PROVE IInv'
  <1>0. DiskOK' /\ Keeps
    BY QuietDisk DEF CheckClient
  <1>a. CASE Exit(p)
    BY <1>0, <1>a, ExitSafe, Assemble
  <1>b. CASE ~Exit(p)
    <2> USE <1>b DEF CheckClient, Goto
    <2>1. snap[p] \in Snapshots /\ snap[p].ns \in Seq(Usable)
      BY ParsedNs, SnapshotsAreFiles DEF IInv, ProcOK
    <2>2. ClusterCorefile(snap[p].ns) \in Corefiles
      BY <2>1, ClusterIsCorefile
    <2>3. LocalsOK'
      BY <2>2 DEF IInv, LocalsOK, Labels, PublishLabels
    <2>4. ProcOK(p)'
      BY <2>1, <2>2, TypesApart
         DEF IInv, LocalsOK, ProcOK, disk, ValidCorefile, PublishLabels, BeatLabels, LoopLabels
    <2>5. \A q \in Procs \ {p} : SameLocals(q)
      BY DEF IInv, LocalsOK, SameLocals
    <2> QED BY <1>0, <2>3, <2>4, <2>5, Assemble
  <1> QED BY <1>a, <1>b

LEMMA CreateClientSafe == ASSUME IInv, NEW p \in Procs, CreateClient(p) PROVE IInv'
  <1> USE DEF CreateClient, Goto, WriteTemp, local
  <1>0. snap[p] \in Snapshots /\ MakeClient(snap[p]) \in RawFiles
    BY ClientIsRaw, SnapshotsAreFiles DEF IInv, ProcOK
  <1>1. LocalsOK'
    BY <1>0 DEF IInv, LocalsOK, Labels, SnapLabels, TempFiles, Content
  <1>2. DiskOK' /\ Keeps
    BY QuietDisk
  <1>3. ProcOK(p)'
    BY <1>0 DEF IInv, LocalsOK, ProcOK, HasTemp, disk, PublishLabels, BeatLabels, LoopLabels
  <1>4. \A q \in Procs \ {p} : SameLocals(q)
    BY DEF IInv, LocalsOK, SameLocals
  <1> QED BY <1>1, <1>2, <1>3, <1>4, Assemble

LEMMA LinkClientSafe == ASSUME IInv, NEW p \in Procs, LinkClient(p) PROVE IInv'
  <1> USE DEF Goto, DropTemp
  <1>0. /\ snap[p] \in Snapshots
        /\ vis.original = snap[p]
        /\ tmp[p].data = MakeClient(snap[p])
        /\ tmp[p].synced = TRUE
        /\ MakeClient(snap[p]) \in RawFiles
    <2>1. /\ snap[p] \in Snapshots
          /\ vis.original = snap[p]
          /\ tmp[p] = [data |-> MakeClient(snap[p]), synced |-> TRUE]
      BY DEF IInv, ProcOK, HasTemp, LinkClient
    <2> QED BY <2>1, ClientIsRaw, SnapshotsAreFiles
  <1>1. CASE vis.client = Absent /\ vis' = [vis EXCEPT !.client = tmp[p].data]
    <2> USE <1>0, <1>1 DEF LinkClient, local
    <2>2. vis \in Directories /\ Whole(vis) /\ Layered(vis)
      BY DEF IInv, DiskOK, DirOK
    <2>3. vis.corefile = Absent /\ vis.heartbeat = Absent
      BY <2>2 DEF Layered
    <2>4. DirOK(vis')
      BY <2>2, <2>3, SnapshotsAreFiles, TypesApart DEF DirOK, Directories, Whole, Layered
    <2>5. durable' = durable \cup {vis'}
      <3>1. Settles(tmp[p]) = {tmp[p].data}
        BY SettlesSynced
      <3>2. {[vis EXCEPT !.client = c] : c \in {tmp[p].data}} = {vis'}
        OBVIOUS
      <3> QED BY <3>1, <3>2
    <2>6. DiskOK'
      BY <2>2, <2>4, <2>5 DEF IInv, DiskOK, Past, Directories
    <2>7. Keeps
      BY <2>2, <2>3 DEF Keeps, Directories, Rooted, IInv, DiskOK
    <2>8. LocalsOK'
      BY TypesApart DEF IInv, LocalsOK, Labels, SnapLabels
    <2>9. ProcOK(p)'
      BY <2>2, TypesApart
         DEF IInv, LocalsOK, ProcOK, Directories, PublishLabels, BeatLabels, LoopLabels
    <2>10. \A q \in Procs \ {p} : SameLocals(q)
      BY DEF IInv, LocalsOK, SameLocals
    <2> QED BY <2>6, <2>7, <2>8, <2>9, <2>10, Assemble
  <1>2. CASE vis.client # Absent
    <2> USE <1>2 DEF LinkClient, local
    <2>1. LocalsOK'
      BY TypesApart DEF IInv, LocalsOK, Labels, SnapLabels
    <2>2. DiskOK' /\ Keeps
      BY QuietDisk
    <2>3. ProcOK(p)'
      BY <1>0 DEF IInv, LocalsOK, ProcOK, disk, PublishLabels, BeatLabels, LoopLabels
    <2>4. \A q \in Procs \ {p} : SameLocals(q)
      BY DEF IInv, LocalsOK, SameLocals
    <2> QED BY <2>1, <2>2, <2>3, <2>4, Assemble
  <1> QED BY <1>1, <1>2 DEF LinkClient

LEMMA SyncClientSafe == ASSUME IInv, NEW p \in Procs, SyncClient(p) PROVE IInv'
  <1> USE DEF SyncClient, Goto
  <1>0. /\ snap[p] \in Snapshots
        /\ ClusterCorefile(snap[p].ns) \in Corefiles
    BY ParsedNs, SnapshotsAreFiles, ClusterIsCorefile DEF IInv, ProcOK
  <1>1. LocalsOK'
    BY <1>0 DEF IInv, LocalsOK, Labels, PublishLabels
  <1>2. DiskOK' /\ Keeps /\ vis' = vis
    BY SyncDisk
  <1>3. ProcOK(p)'
    BY <1>0, <1>2, TypesApart
       DEF IInv, LocalsOK, ProcOK, ValidCorefile, PublishLabels, BeatLabels, LoopLabels
  <1>4. \A q \in Procs \ {p} : SameLocals(q)
    BY DEF IInv, LocalsOK, SameLocals
  <1> QED BY <1>1, <1>2, <1>3, <1>4, Assemble

LEMMA PublishSafe == ASSUME IInv, NEW p \in Procs, Publish(p) PROVE IInv'
  <1> USE DEF Publish, Goto, WriteTemp, local
  <1>0. desired[p] \in Corefiles /\ pc[p] \in PublishLabels
    BY DEF IInv, LocalsOK, ProcOK, PublishLabels
  <1>a. [data |-> desired[p], synced |-> TRUE] \in TempFiles
    BY <1>0 DEF TempFiles, Content
  <1>1. LocalsOK'
    BY <1>a DEF IInv, LocalsOK, Labels, PublishLabels, BeatLabels
  <1>2. DiskOK' /\ Keeps
    BY QuietDisk
  <1>3. ProcOK(p)'
    BY <1>0, TypesApart
       DEF IInv, LocalsOK, ProcOK, HasTemp, disk, Rooted, PublishLabels, BeatLabels, LoopLabels
  <1>4. \A q \in Procs \ {p} : SameLocals(q)
    BY DEF IInv, LocalsOK, SameLocals
  <1> QED BY <1>1, <1>2, <1>3, <1>4, Assemble

LEMMA ReplaceCorefileSafe == ASSUME IInv, NEW p \in Procs, ReplaceCorefile(p) PROVE IInv'
  <1> USE DEF ReplaceCorefile, Goto, DropTemp, local
  <1>a. /\ snap[p] \in Snapshots
        /\ vis.original = snap[p]
        /\ vis.client # Absent
        /\ desired[p] \in Corefiles
        /\ ValidCorefile(desired[p], snap[p].ns)
        /\ tmp[p].data = desired[p]
        /\ tmp[p].synced = TRUE
        /\ pc[p] \in PublishLabels
    BY DEF IInv, LocalsOK, ProcOK, HasTemp, PublishLabels
  <1>b. vis \in Directories /\ Whole(vis) /\ Layered(vis)
    BY DEF IInv, DiskOK, DirOK
  <1>c. DirOK(vis')
    BY <1>a, <1>b, SnapshotsAreFiles, TypesApart DEF DirOK, Directories, Whole, Layered
  <1>d. durable' = durable \cup {vis'}
    <2>1. Settles(tmp[p]) = {tmp[p].data}
      BY <1>a, SettlesSynced
    <2>2. {[vis EXCEPT !.corefile = c] : c \in {tmp[p].data}} = {vis'}
      OBVIOUS
    <2> QED BY <2>1, <2>2
  <1>e. DiskOK'
    BY <1>b, <1>c, <1>d DEF IInv, DiskOK, Past, Directories
  <1>f. Keeps
    BY <1>a, <1>b, <1>d, TypesApart DEF Keeps, Directories, Rooted, IInv, DiskOK
  <1>1. LocalsOK'
    BY TypesApart DEF IInv, LocalsOK, Labels, PublishLabels
  <1>2. DiskOK' /\ Keeps
    BY <1>e, <1>f
  <1>3. ProcOK(p)'
    BY <1>a, <1>b, <1>f, TypesApart
       DEF IInv, LocalsOK, ProcOK, Keeps, Directories, PublishLabels, BeatLabels, LoopLabels
  <1>4. \A q \in Procs \ {p} : SameLocals(q)
    BY DEF IInv, LocalsOK, SameLocals
  <1> QED BY <1>1, <1>2, <1>3, <1>4, Assemble

LEMMA SyncCorefileSafe == ASSUME IInv, NEW p \in Procs, SyncCorefile(p) PROVE IInv'
  <1> USE DEF SyncCorefile, Goto, local
  <1>1. LocalsOK'
    BY DEF IInv, LocalsOK, Labels, BeatLabels
  <1>2. DiskOK' /\ Keeps /\ vis' = vis
    BY SyncDisk
  <1>3. ProcOK(p)'
    BY <1>2 DEF IInv, LocalsOK, ProcOK, Keeps, PublishLabels, BeatLabels, LoopLabels
  <1>4. \A q \in Procs \ {p} : SameLocals(q)
    BY DEF IInv, LocalsOK, SameLocals
  <1> QED BY <1>1, <1>2, <1>3, <1>4, Assemble

LEMMA PublishFailsSafe == ASSUME IInv, NEW p \in Procs, PublishFails(p) PROVE IInv'
  <1> USE DEF PublishFails, Goto, DropTemp
  <1>0. Rooted /\ vis.corefile # Absent
    BY DEF IInv, ProcOK, Rooted, DiskOK
  <1>1. LocalsOK'
    BY TypesApart DEF IInv, LocalsOK, Labels, BeatLabels
  <1>2. DiskOK' /\ Keeps
    BY QuietDisk
  <1>3. ProcOK(p)'
    BY <1>0, <1>2 DEF IInv, LocalsOK, ProcOK, Keeps, disk, PublishLabels, BeatLabels, LoopLabels
  <1>4. \A q \in Procs \ {p} : SameLocals(q)
    BY DEF IInv, LocalsOK, SameLocals
  <1> QED BY <1>1, <1>2, <1>3, <1>4, Assemble

LEMMA WriteBeatSafe == ASSUME IInv, NEW p \in Procs, WriteBeat(p) PROVE IInv'
  <1> USE DEF WriteBeat, Goto, WriteTemp, local
  <1>1. LocalsOK'
    BY DEF IInv, LocalsOK, Labels, BeatLabels, TempFiles, Content
  <1>2. DiskOK' /\ Keeps
    BY QuietDisk
  <1>3. ProcOK(p)'
    BY <1>2 DEF IInv, LocalsOK, ProcOK, Keeps, HasTemp, disk, PublishLabels, BeatLabels, LoopLabels
  <1>4. \A q \in Procs \ {p} : SameLocals(q)
    BY DEF IInv, LocalsOK, SameLocals
  <1> QED BY <1>1, <1>2, <1>3, <1>4, Assemble

LEMMA ReplaceBeatSafe == ASSUME IInv, NEW p \in Procs, ReplaceBeat(p) PROVE IInv'
  <1> USE DEF ReplaceBeat, Goto, DropTemp, local
  <1>a. /\ vis.corefile # Absent
        /\ tmp[p].data = Beat
        /\ tmp[p].synced = TRUE
        /\ pc[p] \in BeatLabels
    BY DEF IInv, LocalsOK, ProcOK, HasTemp, BeatLabels
  <1>b. vis \in Directories /\ Whole(vis) /\ Layered(vis)
    BY DEF IInv, DiskOK, DirOK
  <1>c. DirOK(vis')
    BY <1>a, <1>b, TypesApart DEF DirOK, Directories, Whole, Layered
  <1>d. durable' = durable \cup {vis'}
    <2>1. Settles(tmp[p]) = {tmp[p].data}
      BY <1>a, SettlesSynced
    <2>2. {[vis EXCEPT !.heartbeat = c] : c \in {tmp[p].data}} = {vis'}
      OBVIOUS
    <2> QED BY <2>1, <2>2
  <1>e. DiskOK'
    BY <1>b, <1>c, <1>d DEF IInv, DiskOK, Past, Directories
  <1>f. Keeps
    BY <1>a, <1>b, <1>d, TypesApart DEF Keeps, Directories, Rooted, IInv, DiskOK
  <1>1. LocalsOK'
    BY TypesApart DEF IInv, LocalsOK, Labels, BeatLabels
  <1>2. DiskOK' /\ Keeps
    BY <1>e, <1>f
  <1>3. ProcOK(p)'
    BY <1>a, <1>b, <1>f, TypesApart
       DEF IInv, LocalsOK, ProcOK, Keeps, Directories, PublishLabels, BeatLabels, LoopLabels
  <1>4. \A q \in Procs \ {p} : SameLocals(q)
    BY DEF IInv, LocalsOK, SameLocals
  <1> QED BY <1>1, <1>2, <1>3, <1>4, Assemble

LEMMA SyncBeatSafe == ASSUME IInv, NEW p \in Procs, SyncBeat(p) PROVE IInv'
  <1>0. /\ DiskOK' /\ Keeps /\ vis' = vis
        /\ vis.client # Absent /\ vis.corefile # Absent => Rooted'
    BY SyncDisk DEF SyncBeat
  <1>a. CASE Exit(p)
    BY <1>0, <1>a, ExitSafe, Assemble
  <1>b. CASE ~Exit(p)
    <2> USE <1>b DEF SyncBeat, Goto
    <2>1. LocalsOK'
      BY DEF IInv, LocalsOK, Labels, LoopLabels
    <2>2. Rooted'
      BY <1>0 DEF IInv, ProcOK, BeatLabels
    <2>3. ProcOK(p)'
      BY <1>0, <2>2 DEF IInv, LocalsOK, ProcOK, PublishLabels, BeatLabels, LoopLabels
    <2>4. \A q \in Procs \ {p} : SameLocals(q)
      BY DEF IInv, LocalsOK, SameLocals
    <2> QED BY <1>0, <2>1, <2>3, <2>4, Assemble
  <1> QED BY <1>a, <1>b

LEMMA FetchFailsSafe == ASSUME IInv, NEW p \in Procs, FetchFails(p) PROVE IInv'
  <1> USE DEF FetchFails, Goto
  <1>0. /\ snap[p] \in Snapshots
        /\ ClusterCorefile(snap[p].ns) \in Corefiles
        /\ pc[p] \in LoopLabels
    BY ParsedNs, SnapshotsAreFiles, ClusterIsCorefile DEF IInv, ProcOK, LoopLabels
  <1>1. LocalsOK'
    BY <1>0 DEF IInv, LocalsOK, Labels, PublishLabels
  <1>2. DiskOK' /\ Keeps
    BY QuietDisk
  <1>3. ProcOK(p)'
    BY <1>0, <1>2, TypesApart
       DEF IInv, LocalsOK, ProcOK, Keeps, disk, ValidCorefile, PublishLabels, BeatLabels, LoopLabels
  <1>4. \A q \in Procs \ {p} : SameLocals(q)
    BY DEF IInv, LocalsOK, SameLocals
  <1> QED BY <1>1, <1>2, <1>3, <1>4, Assemble

LEMMA FetchSafe == ASSUME IInv, NEW p \in Procs, NEW st \in StatusValues, Fetch(p, st) PROVE IInv'
  <1> USE DEF Fetch, Goto
  <1>0. /\ SoundDiscovery(DiscoveryFromStatus(st))
        /\ DiscoveryFromStatus(st) \in Discoveries
        /\ pc[p] \in LoopLabels
    BY SoundStatus DEF SoundDiscovery, LoopLabels
  <1>1. LocalsOK'
    BY <1>0 DEF IInv, LocalsOK, Labels, LoopLabels
  <1>2. DiskOK' /\ Keeps
    BY QuietDisk
  <1>3. ProcOK(p)'
    BY <1>0, <1>2
       DEF IInv, LocalsOK, ProcOK, Keeps, disk, PublishLabels, BeatLabels, LoopLabels
  <1>4. \A q \in Procs \ {p} : SameLocals(q)
    BY DEF IInv, LocalsOK, SameLocals
  <1> QED BY <1>1, <1>2, <1>3, <1>4, Assemble

LEMMA ProbeSafe == ASSUME IInv, NEW p \in Procs, NEW answered \in BOOLEAN, Probe(p, answered)
                   PROVE  IInv'
  <1> USE DEF Probe, Goto
  <1>0. /\ snap[p] \in Snapshots
        /\ snap[p].ns \in Seq(Usable)
        /\ SoundDiscovery(found[p])
        /\ pc[p] \in LoopLabels
    BY ParsedNs, SnapshotsAreFiles DEF IInv, ProcOK, LoopLabels
  <1>a. /\ desired'[p] \in Corefiles
        /\ ValidCorefile(desired'[p], snap[p].ns)
    BY <1>0, ClusterIsCorefile, ActiveIsCorefile DEF IInv, LocalsOK, SoundDiscovery, ValidCorefile
  <1>1. LocalsOK'
    BY <1>a DEF IInv, LocalsOK, Labels, PublishLabels
  <1>2. DiskOK' /\ Keeps
    BY QuietDisk
  <1>3. ProcOK(p)'
    BY <1>0, <1>a, <1>2, TypesApart
       DEF IInv, LocalsOK, ProcOK, Keeps, disk, PublishLabels, BeatLabels, LoopLabels
  <1>4. \A q \in Procs \ {p} : SameLocals(q)
    BY DEF IInv, LocalsOK, SameLocals
  <1> QED BY <1>1, <1>2, <1>3, <1>4, Assemble

LEMMA CrashSafe == ASSUME IInv, NEW p \in Procs, Crash(p) PROVE IInv'
  BY ExitSafe, QuietDisk, Assemble DEF Crash

LEMMA PowerLossSafe == ASSUME IInv, PowerLoss PROVE IInv'
  <1> USE DEF PowerLoss
  <1>1. LocalsOK'
    BY TypesApart DEF IInv, LocalsOK, Labels
  <1>2. DiskOK'
    BY DEF IInv, DiskOK, Past
  <1>3. \A p \in Procs : ProcOK(p)'
    BY DEF ProcOK, PublishLabels, BeatLabels, LoopLabels
  <1> QED BY <1>1, <1>2, <1>3 DEF IInv

-----------------------------------------------------------------------------
(* Theorems *)

LEMMA InitSafe == Init => IInv
  <1> SUFFICES ASSUME Init PROVE IInv
    OBVIOUS
  <1> USE DEF Init
  <1>1. LocalsOK
    BY TypesApart DEF LocalsOK, Labels
  <1>2. DirOK(EmptyDir)
    BY TypesApart DEF DirOK, EmptyDir, Directories, Whole, Layered
  <1>3. DiskOK
    BY <1>2 DEF DiskOK, Past, EmptyDir
  <1>4. \A p \in Procs : ProcOK(p)
    BY DEF ProcOK, PublishLabels, BeatLabels, LoopLabels
  <1> QED BY <1>1, <1>3, <1>4 DEF IInv

LEMMA NextSafe == IInv /\ [Next]_vars => IInv'
  <1> SUFFICES ASSUME IInv, [Next]_vars PROVE IInv'
    OBVIOUS
  <1>1. ASSUME NEW p \in Procs, Work(p) PROVE IInv'
    BY <1>1, StartSafe, UseRetainedSafe, CaptureSafe, LinkOriginalSafe, SyncOriginalSafe,
       CheckClientSafe, CreateClientSafe, LinkClientSafe, SyncClientSafe, PublishSafe,
       ReplaceCorefileSafe, SyncCorefileSafe, WriteBeatSafe, ReplaceBeatSafe, SyncBeatSafe
       DEF Work
  <1>2. ASSUME NEW p \in Procs, Discover(p) PROVE IInv'
    BY <1>2, FetchFailsSafe, FetchSafe, ProbeSafe, ControllerAssumption DEF Discover
  <1>3. ASSUME NEW p \in Procs, Fault(p) PROVE IInv'
    BY <1>3, PublishFailsSafe, CrashSafe DEF Fault
  <1>4. CASE UNCHANGED vars
    BY <1>4 DEF IInv, LocalsOK, DiskOK, Past, DirOK, ProcOK, HasTemp, Rooted, vars, local
  <1> QED BY <1>1, <1>2, <1>3, <1>4, PowerLossSafe DEF Next

THEOREM Inductive == Spec => []IInv
  BY InitSafe, NextSafe, PTL DEF Spec

LEMMA DirectoryFacts ==
  ASSUME IInv, NEW d \in durable \cup {vis}
  PROVE  /\ d \in durable
         /\ d \in Directories /\ Whole(d) /\ Layered(d)
         /\ d.corefile # Absent => d.original.ns \in Seq(Usable)
  BY ParsedNs DEF IInv, DiskOK, DirOK, Layered

\* Every variable keeps its type, for any set of processes and any inputs.
THEOREM TypeCorrect == Spec => []TypeOK
  <1>1. IInv => TypeOK
    BY DEF IInv, LocalsOK, DiskOK, DirOK, TypeOK
  <1> QED BY <1>1, Inductive, PTL

\* No file of the state directory is ever torn, not even by a power loss.
THEOREM FilesAreWhole == Spec => []NeverTorn
  <1>1. IInv => NeverTorn
    BY DirectoryFacts DEF NeverTorn
  <1> QED BY <1>1, Inductive, PTL

\* Original, client, Corefile and heartbeat appear in that order, each derived
\* from the one before, in the visible directory and in any a power loss leaves.
THEOREM FilesAreLayered == Spec => []LayeredState
  <1>1. IInv => LayeredState
    BY DirectoryFacts DEF LayeredState
  <1> QED BY <1>1, Inductive, PTL

\* Racing or restarted processes all work from the one retained original.
THEOREM ProcessesAgree == Spec => []AgreesWithRetained
  <1>1. IInv => AgreesWithRetained
    <2> SUFFICES ASSUME IInv, NEW p \in Procs, snap[p] # Nothing
                 PROVE  /\ vis.original = snap[p]
                        /\ desired[p] # Nothing => ValidCorefile(desired[p], vis.original.ns)
      BY DEF AgreesWithRetained
    <2>1. pc[p] \in Labels /\ ProcOK(p)
      BY DEF IInv, LocalsOK
    <2> QED BY <2>1 DEF ProcOK, Labels, StartLabels, SnapLabels
  <1> QED BY <1>1, Inductive, PTL

\* Once a process polls, no power loss takes the retained files back.
THEOREM PollingIsSettled == Spec => []SettledWhenPolling
  <1>1. IInv => SettledWhenPolling
    BY DEF IInv, ProcOK, DiskOK, Rooted, SettledWhenPolling, Settled
  <1> QED BY <1>1, Inductive, PTL

\* Once a process polls, check-startup holds and a power loss keeps it so.
THEOREM PollingIsStarted == Spec => []StartupWhenPolling
  <1>1. IInv => StartupWhenPolling
    <2> SUFFICES ASSUME IInv, NEW p \in Procs, booted[p], NEW d \in durable \cup {vis}
                 PROVE  CheckStartup(d)
      BY DEF StartupWhenPolling
    <2>1. d \in durable /\ Layered(d)
      BY DirectoryFacts
    <2>2. d.client # Absent /\ d.corefile # Absent
      BY <2>1 DEF IInv, ProcOK, Rooted
    <2> QED BY <2>1, <2>2 DEF Layered, CheckStartup
  <1> QED BY <1>1, Inductive, PTL

\* No Corefile, published or left by a power loss, sends a query in a circle.
THEOREM NoLoop == Spec => []NoForwardingLoop
  <1>1. IInv => NoForwardingLoop
    BY DirectoryFacts, ValidIsLoopFree DEF NoForwardingLoop, Layered, Whole
  <1> QED BY <1>1, Inductive, PTL

-----------------------------------------------------------------------------
(* The controller implements RetainedResolver, and the retained files are    *)
(* written once.  Both follow from the few ways a step can change the state  *)
(* directory, whoever takes it.                                              *)

Quiet        == UNCHANGED disk
Syncs        == vis' = vis /\ durable' = {vis}
Grows        == durable' = durable \cup {vis'}
NamesOriginal == /\ vis.original = Absent
                 /\ \E c \in Snapshots : vis' = [vis EXCEPT !.original = c]
                 /\ Grows
NamesClient  == /\ vis.client = Absent
                /\ vis.original # Absent
                /\ vis' = [vis EXCEPT !.client = MakeClient(vis.original)]
                /\ Grows
NewCorefile  == /\ vis.client # Absent
                /\ \E p \in Procs : /\ desired[p] # Nothing
                                     /\ snap[p] = vis.original
                                     /\ ValidCorefile(desired[p], vis.original.ns)
                                     /\ vis' = [vis EXCEPT !.corefile = desired[p]]
                /\ Grows
NewHeartbeat == vis' = [vis EXCEPT !.heartbeat = Beat] /\ Grows
Reverts      == vis' \in durable /\ durable' = {vis'}

\* What a process can do to the directory; only a power loss takes back.
ProcessStep == \/ Quiet \/ Syncs \/ NamesOriginal \/ NamesClient
               \/ NewCorefile \/ NewHeartbeat

DirectoryStep == ProcessStep \/ Reverts

LEMMA LinkOriginalStep == ASSUME IInv, NEW p \in Procs, LinkOriginal(p) PROVE ProcessStep
  <1>1. CASE vis.original = Absent
    <2>1. tmp[p].data \in Snapshots /\ tmp[p].synced = TRUE
      BY DEF IInv, LocalsOK, TempFiles, ProcOK, LinkOriginal
    <2>2. Settles(tmp[p]) = {tmp[p].data}
      BY <2>1, SettlesSynced
    <2>3. vis' = [vis EXCEPT !.original = tmp[p].data]
      BY <1>1 DEF LinkOriginal
    <2>4. durable' = durable \cup {[vis EXCEPT !.original = c] : c \in {tmp[p].data}}
      BY <1>1, <2>2 DEF LinkOriginal
    <2>5. Grows
      BY <2>3, <2>4 DEF Grows
    <2> QED BY <1>1, <2>1, <2>3, <2>5 DEF ProcessStep, NamesOriginal
  <1>2. CASE vis.original # Absent
    BY <1>2 DEF LinkOriginal, ProcessStep, Quiet
  <1> QED BY <1>1, <1>2

LEMMA LinkClientStep == ASSUME IInv, NEW p \in Procs, LinkClient(p) PROVE ProcessStep
  <1>1. CASE vis.client = Absent
    <2>1. /\ tmp[p] = [data |-> MakeClient(snap[p]), synced |-> TRUE]
          /\ snap[p] \in Snapshots
          /\ vis.original = snap[p]
      BY DEF IInv, ProcOK, HasTemp, LinkClient
    <2>2. Settles(tmp[p]) = {tmp[p].data}
      BY <2>1, SettlesSynced
    <2>3. vis' = [vis EXCEPT !.client = tmp[p].data]
      BY <1>1 DEF LinkClient
    <2>4. durable' = durable \cup {[vis EXCEPT !.client = c] : c \in {tmp[p].data}}
      BY <1>1, <2>2 DEF LinkClient
    <2>5. Grows
      BY <2>3, <2>4 DEF Grows
    <2> QED BY <1>1, <2>1, <2>3, <2>5, SnapshotsAreFiles DEF ProcessStep, NamesClient
  <1>2. CASE vis.client # Absent
    BY <1>2 DEF LinkClient, ProcessStep, Quiet
  <1> QED BY <1>1, <1>2

LEMMA ReplaceCorefileStep == ASSUME IInv, NEW p \in Procs, ReplaceCorefile(p) PROVE ProcessStep
  <1>1. /\ tmp[p] = [data |-> desired[p], synced |-> TRUE]
        /\ vis.original = snap[p]
        /\ vis.client # Absent
        /\ desired[p] # Nothing
        /\ ValidCorefile(desired[p], snap[p].ns)
    BY DEF IInv, ProcOK, HasTemp, ReplaceCorefile, PublishLabels
  <1>2. Settles(tmp[p]) = {tmp[p].data}
    BY <1>1, SettlesSynced
  <1>3. vis' = [vis EXCEPT !.corefile = tmp[p].data]
    BY DEF ReplaceCorefile
  <1>4. durable' = durable \cup {[vis EXCEPT !.corefile = c] : c \in {tmp[p].data}}
    BY <1>2 DEF ReplaceCorefile
  <1>5. Grows
    BY <1>3, <1>4 DEF Grows
  <1> QED BY <1>1, <1>3, <1>5 DEF ProcessStep, NewCorefile

LEMMA ReplaceBeatStep == ASSUME IInv, NEW p \in Procs, ReplaceBeat(p) PROVE ProcessStep
  <1>1. tmp[p] = [data |-> Beat, synced |-> TRUE]
    BY DEF IInv, ProcOK, HasTemp, ReplaceBeat
  <1>2. Settles(tmp[p]) = {tmp[p].data}
    BY <1>1, SettlesSynced
  <1>3. vis' = [vis EXCEPT !.heartbeat = tmp[p].data]
    BY DEF ReplaceBeat
  <1>4. durable' = durable \cup {[vis EXCEPT !.heartbeat = c] : c \in {tmp[p].data}}
    BY <1>2 DEF ReplaceBeat
  <1>5. Grows
    BY <1>3, <1>4 DEF Grows
  <1> QED BY <1>1, <1>3, <1>5 DEF ProcessStep, NewHeartbeat

LEMMA WorkStep == ASSUME IInv, NEW p \in Procs, Work(p) PROVE ProcessStep
  <1>1. CASE Start(p) \/ UseRetained(p) \/ Capture(p) \/ CheckClient(p)
             \/ CreateClient(p) \/ Publish(p) \/ WriteBeat(p)
    BY <1>1 DEF Start, UseRetained, Capture, CheckClient, CreateClient, Publish, WriteBeat,
                ProcessStep, Quiet
  <1>2. CASE SyncOriginal(p) \/ SyncClient(p) \/ SyncCorefile(p) \/ SyncBeat(p)
    BY <1>2 DEF SyncOriginal, SyncClient, SyncCorefile, SyncBeat, FsyncDirectory,
                ProcessStep, Syncs
  <1> QED BY <1>1, <1>2, LinkOriginalStep, LinkClientStep, ReplaceCorefileStep,
             ReplaceBeatStep DEF Work

LEMMA EveryStep == ASSUME IInv, [Next]_vars PROVE DirectoryStep
  <1>1. ASSUME NEW p \in Procs, Work(p) PROVE DirectoryStep
    BY <1>1, WorkStep DEF DirectoryStep
  <1>2. ASSUME NEW p \in Procs, Discover(p) PROVE DirectoryStep
    BY <1>2 DEF Discover, FetchFails, Fetch, Probe, DirectoryStep, ProcessStep, Quiet
  <1>3. ASSUME NEW p \in Procs, Fault(p) PROVE DirectoryStep
    BY <1>3 DEF Fault, PublishFails, Crash, DirectoryStep, ProcessStep, Quiet
  <1>4. CASE PowerLoss
    BY <1>4 DEF PowerLoss, DirectoryStep, Reverts
  <1>5. CASE UNCHANGED vars
    BY <1>5 DEF vars, DirectoryStep, ProcessStep, Quiet, disk
  <1> QED BY <1>1, <1>2, <1>3, <1>4, <1>5 DEF Next

-----------------------------------------------------------------------------
(* What each kind of step does to the promised state *)

\* The retained files are written once: they are never replaced, and are lost
\* only to a power loss that falls before they are settled.
THEOREM WrittenOnce == Spec => RetainedOnce
  <1> DEFINE Once ==
        /\ vis.original # Absent =>
             vis'.original = vis.original \/ (~Settled /\ vis'.original = Absent)
        /\ vis.client # Absent =>
             vis'.client = vis.client \/ (~Settled /\ vis'.client = Absent)
  <1>1. ASSUME IInv, [Next]_vars PROVE Once
    <2>1. vis \in Directories
      BY <1>1, DirectoryFacts
    <2>2. CASE Reverts
      BY <1>1, <2>2 DEF Reverts, IInv, DiskOK, Past, Settled
    <2>3. CASE ~Reverts
      <3>1. Quiet \/ Syncs \/ NamesOriginal \/ NamesClient \/ NewCorefile \/ NewHeartbeat
        BY <1>1, <2>3, EveryStep DEF DirectoryStep, ProcessStep
      <3> QED BY <2>1, <3>1 DEF Quiet, disk, Syncs, NamesOriginal, NamesClient, NewCorefile,
                                NewHeartbeat, Directories
    <2> QED BY <2>2, <2>3
  <1>2. IInv /\ [Next]_vars => [Once]_vars
    BY <1>1
  <1> HIDE DEF Once
  <1>3. Spec => [][Once]_vars
    BY <1>2, Inductive, PTL DEF Spec
  <1> QED BY <1>3 DEF RetainedOnce, Once

LEMMA SameWords ==
  /\ Retained!Snapshots = Snapshots
  /\ \A raw : Retained!MakeClient(raw) = MakeClient(raw)
  /\ \A c, ns : Retained!ValidCorefile(c, ns) <=> ValidCorefile(c, ns)
  BY DEF Retained!Snapshots, Snapshots, Retained!Parses, Parses, Retained!RawFiles, RawFiles,
         Retained!Addr, Addr, Retained!Magic, Magic, Retained!Members, Members,
         Retained!MakeClient, MakeClient, Retained!ValidCorefile, ValidCorefile,
         Retained!ClusterCorefile, ClusterCorefile, Retained!ActiveCorefile, ActiveCorefile,
         Retained!SoundDiscovery, SoundDiscovery, Retained!Discoveries, Discoveries

LEMMA StepImplements == ASSUME IInv, IInv', [Next]_vars
                        PROVE  [Retained!Step]_(Retained!state)
  <1> USE DEF Retained!Step, Retained!state
  <1>0. /\ vis \in Directories /\ Layered(vis) /\ vis \in durable
        /\ vis' \in durable' /\ vis' \in Directories /\ Layered(vis')
        /\ \A d \in durable : Past(d)
    BY DirectoryFacts DEF IInv, DiskOK, DirOK
  <1>1. CASE Quiet
    BY <1>1 DEF Quiet, disk, Settled
  <1>2. CASE Syncs
    <2>1. vis.client # Absent => Settled'
      BY <1>2 DEF Syncs, Settled
    <2>2. vis.client = Absent => ~Settled /\ ~Settled'
      BY <1>2 DEF Syncs, Settled
    <2> QED BY <1>2, <2>1, <2>2 DEF Syncs, Retained!Settle, Settled
  <1>3. CASE NamesOriginal
    <2>1. vis.client = Absent /\ vis'.client = Absent /\ vis'.corefile = vis.corefile
      BY <1>0, <1>3 DEF NamesOriginal, Layered, Directories
    <2>2. vis'.original \in Snapshots
      BY <1>0, <1>3 DEF NamesOriginal, Directories
    <2>3. ~Settled /\ ~Settled'
      BY <2>1 DEF Settled
    <2>4. Settled' = Settled
      BY <2>3 DEF Settled
    <2>5. vis'.original \in Retained!Snapshots
      BY <2>2, SameWords
    <2>6. Retained!CaptureOriginal
      BY <1>3, <2>1, <2>4, <2>5 DEF NamesOriginal, Retained!CaptureOriginal
    <2> QED BY <2>6
  <1>4. CASE NamesClient
    <2>1. /\ vis'.original = vis.original
          /\ vis'.client = MakeClient(vis.original)
          /\ vis'.corefile = vis.corefile
      BY <1>0, <1>4 DEF NamesClient, Directories
    <2>2. MakeClient(vis.original) # Absent
      BY <1>0, <1>4, ClientIsRaw, TypesApart, ParsedNs DEF NamesClient, Layered
    <2>3. ~Settled /\ ~Settled'
      BY <1>0, <1>4, <2>1, <2>2 DEF NamesClient, Grows, Settled
    <2>4. Settled' = Settled
      BY <2>3 DEF Settled
    <2>5. vis'.client = Retained!MakeClient(vis.original)
      BY <2>1, SameWords
    <2>6. Retained!DeriveClient
      BY <1>4, <2>1, <2>4, <2>5 DEF NamesClient, Retained!DeriveClient
    <2> QED BY <2>6
  <1>5. CASE NewCorefile
    <2>1. /\ vis'.original = vis.original
          /\ vis'.client = vis.client
          /\ ValidCorefile(vis'.corefile, vis.original.ns)
      BY <1>0, <1>5 DEF NewCorefile, Directories
    <2>2. Settled' <=> Settled
      BY <1>0, <1>5, <2>1 DEF NewCorefile, Grows, Settled
    <2> QED BY <1>5, <2>1, <2>2, SameWords DEF NewCorefile, Retained!PublishCorefile
  <1>6. CASE NewHeartbeat
    <2>1. /\ vis'.original = vis.original
          /\ vis'.client = vis.client
          /\ vis'.corefile = vis.corefile
      BY <1>0, <1>6 DEF NewHeartbeat, Directories
    <2>2. Settled' <=> Settled
      BY <1>0, <1>6, <2>1 DEF NewHeartbeat, Grows, Settled
    <2> QED BY <2>1, <2>2
  <1>7. CASE Reverts
    <2>1. /\ vis'.original \in {Absent, vis.original}
          /\ vis'.client \in {Absent, vis.client}
          /\ Settled' <=> vis'.client # Absent
      BY <1>0, <1>7 DEF Reverts, Past, Settled
    <2>2. Settled => vis'.original = vis.original /\ vis'.client = vis.client /\ Settled'
      BY <1>0, <1>7, <2>1 DEF Reverts, Settled
    <2>3. vis'.client # Absent => vis'.original = vis.original /\ vis'.client = vis.client
      BY <1>0, <2>1 DEF Layered
    <2>4. vis'.corefile # Absent => /\ vis'.client # Absent
                                    /\ ValidCorefile(vis'.corefile, vis.original.ns)
      BY <1>0, <2>3 DEF Layered
    <2>5. /\ \/ ~Settled /\ vis'.original = Absent
             \/ vis'.original = vis.original
          /\ \/ ~Settled /\ vis'.client = Absent
             \/ vis'.original = vis.original /\ vis'.client = vis.client
      BY <2>1, <2>2, <2>3
    <2>6. Settled' \in BOOLEAN
      BY DEF Settled
    <2>7. Retained!Lose
      BY <2>1, <2>2, <2>3, <2>4, <2>5, <2>6, SameWords DEF Retained!Lose
    <2> QED BY <2>7
  <1> QED BY EveryStep, <1>1, <1>2, <1>3, <1>4, <1>5, <1>6, <1>7 DEF DirectoryStep, ProcessStep

\* The controller, its races, crashes and power losses included, implements
\* the promise of RetainedResolver: one capture, one derivation, and only
\* whole Corefiles of the captured original after that.
THEOREM Implements == Spec => KeepsPromise
  <1>1. Init => Retained!Start
    BY DEF Init, EmptyDir, Retained!Start, Settled
  <1>2. IInv /\ IInv' /\ [Next]_vars => [Retained!Step]_(Retained!state)
    BY StepImplements
  <1> QED BY <1>1, <1>2, Inductive, PTL DEF Spec, KeepsPromise, Retained!Promise

-----------------------------------------------------------------------------
(* The Pod around the controller: its inductive invariant *)

PodTypes ==
    /\ ts \in TailscaleStates
    /\ served \in Corefiles \cup {Nothing}
    /\ stage \in Stages
    /\ mounted \in RawFiles \cup {Nothing}
    /\ proved \subseteq Discoveries
    /\ reached \subseteq {"dns", "tailscale"}
    /\ faults \in 0 .. MaxFaults

\* A Corefile that only names upstreams of ns and a tailnet that was proved.
Genuine(c, ns) ==
    c = ClusterCorefile(ns) \/ \E d \in proved : c = ActiveCorefile(ns, d)

\* Every Corefile on the disk, and every one about to get there, is genuine.
CorefilesProved ==
    /\ \A d \in durable : d.corefile # Absent => Genuine(d.corefile, d.original.ns)
    /\ \A p \in Procs : desired[p] # Nothing => Genuine(desired[p], snap[p].ns)

\* What the kubelet and CoreDNS were told stays true.
SidecarsOK ==
    /\ stage # "controller" => vis.client # Absent /\ vis.corefile # Absent
    /\ mounted # Nothing => mounted = vis.client /\ vis.client # Absent
    /\ served # Nothing => vis.original # Absent /\ Genuine(served, vis.original.ns)

\* What is ready is remembered, and each gate was passed when it was open.
GatesPassed ==
    /\ ReadySidecars \subseteq reached
    /\ TailscaleRuns => "dns" \in reached
    /\ stage = "workload" => "tailscale" \in reached

PodInv == IInv /\ PodTypes /\ CorefilesProved /\ SidecarsOK /\ GatesPassed

-----------------------------------------------------------------------------
(* What the controller's steps keep *)

LEMMA ProcessKeeps ==
  ASSUME IInv, ProcessStep
  PROVE  /\ vis.original # Absent => vis'.original = vis.original
         /\ vis.client # Absent => vis'.client = vis.client
         /\ vis.corefile # Absent => vis'.corefile # Absent
  <1>1. vis \in Directories
    BY DirectoryFacts
  <1>2. CASE Quiet \/ Syncs
    BY <1>2 DEF Quiet, Syncs, disk
  <1>3. CASE NamesOriginal \/ NamesClient \/ NewHeartbeat
    BY <1>1, <1>3 DEF NamesOriginal, NamesClient, NewHeartbeat, Directories
  <1>4. CASE NewCorefile
    <2>1. PICK p \in Procs : /\ desired[p] # Nothing
                             /\ ValidCorefile(desired[p], vis.original.ns)
                             /\ vis' = [vis EXCEPT !.corefile = desired[p]]
      BY <1>4 DEF NewCorefile
    <2>2. desired[p] # Absent
      BY <2>1, TypesApart DEF IInv, LocalsOK
    <2> QED BY <1>1, <2>1, <2>2 DEF Directories
  <1> QED BY <1>2, <1>3, <1>4 DEF ProcessStep

LEMMA GenuineGrows ==
  ASSUME proved \subseteq proved', NEW c, NEW ns, Genuine(c, ns)
  PROVE  Genuine(c, ns)'
  BY DEF Genuine

\* A step of a process puts nothing on the disk but a Corefile it desired.
LEMMA DiskStaysProved ==
  ASSUME IInv, CorefilesProved, ProcessStep, proved \subseteq proved'
  PROVE  \A d \in durable' : d.corefile # Absent => Genuine(d.corefile, d.original.ns)'
  <1>1. vis \in Directories /\ vis \in durable
    BY DirectoryFacts DEF IInv, DiskOK
  <1>2. \A d \in durable : d.corefile # Absent => Genuine(d.corefile, d.original.ns)'
    BY GenuineGrows DEF CorefilesProved
  <1>3. CASE Quiet \/ Syncs
    BY <1>1, <1>2, <1>3 DEF Quiet, Syncs, disk
  <1>4. CASE NamesOriginal
    <2>1. vis.corefile = Absent
      BY <1>4, DirectoryFacts DEF NamesOriginal, Layered
    <2>2. vis'.corefile = Absent
      BY <1>1, <1>4, <2>1 DEF NamesOriginal, Directories
    <2> QED BY <1>2, <1>4, <2>2 DEF NamesOriginal, Grows
  <1>5. CASE NamesClient \/ NewHeartbeat
    <2>1. vis'.corefile = vis.corefile /\ vis'.original = vis.original
      BY <1>1, <1>5 DEF NamesClient, NewHeartbeat, Directories
    <2> QED BY <1>1, <1>2, <1>5, <2>1 DEF NamesClient, NewHeartbeat, Grows
  <1>6. CASE NewCorefile
    <2>1. PICK p \in Procs : /\ desired[p] # Nothing
                             /\ snap[p] = vis.original
                             /\ vis' = [vis EXCEPT !.corefile = desired[p]]
      BY <1>6 DEF NewCorefile
    <2>2. vis'.corefile = desired[p] /\ vis'.original = snap[p]
      BY <1>1, <2>1 DEF Directories
    <2>3. Genuine(desired[p], snap[p].ns)
      BY <2>1 DEF CorefilesProved
    <2>4. ASSUME NEW d, d = vis'
          PROVE  Genuine(d.corefile, d.original.ns)'
      BY <2>2, <2>3, <2>4 DEF Genuine
    <2>5. \A d \in durable' : d \in durable \/ d = vis'
      BY <1>6 DEF NewCorefile, Grows
    <2> QED BY <1>2, <2>4, <2>5
  <1> QED BY <1>3, <1>4, <1>5, <1>6 DEF ProcessStep

\* CoreDNS and the kubelet notice nothing of a step of a process.
LEMMA SidecarsKeep ==
  ASSUME IInv, SidecarsOK, ProcessStep, proved \subseteq proved',
         UNCHANGED <<served, stage, mounted>>
  PROVE  SidecarsOK'
  <1>1. served # Nothing => Genuine(served, vis.original.ns)'
    BY GenuineGrows, ProcessKeeps DEF SidecarsOK, Genuine
  <1> QED BY <1>1, ProcessKeeps DEF SidecarsOK, Genuine

\* What a step does to the Corefile a process desires: none, the same one, a
\* new one without a tailnet, or one for what it has just found proved.
DesireKept(q) == desired'[q] # Nothing =>
    \/ desired[q] # Nothing /\ desired'[q] = desired[q] /\ snap'[q] = snap[q]
    \/ desired'[q] = ClusterCorefile(snap'[q].ns)

LEMMA DesiresStayProved ==
  ASSUME CorefilesProved, proved \subseteq proved', NEW q \in Procs, DesireKept(q)
  PROVE  desired'[q] # Nothing =>
           \A c, ns : c = desired'[q] /\ ns = snap'[q].ns => Genuine(c, ns)'
  BY DEF DesireKept, CorefilesProved, Genuine

LEMMA OthersDesire ==
  ASSUME NEW p \in Procs, NEW q \in Procs \ {p}, SameLocals(q)
  PROVE  DesireKept(q)
  BY DEF SameLocals, DesireKept

LEMMA WorkDesires ==
  ASSUME IInv, NEW p \in Procs, Work(p) \/ Fault(p) \/ FetchFails(p), NEW q \in Procs
  PROVE  DesireKept(q)
  <1> USE DEF IInv, LocalsOK, DesireKept, local, Goto
  <1>1. CASE Exit(p)
    BY <1>1 DEF Exit
  <1>2. CASE CheckClient(p) \/ SyncClient(p) \/ FetchFails(p)
    BY <1>1, <1>2 DEF CheckClient, SyncClient, FetchFails
  <1>3. CASE UseRetained(p)
    BY <1>1, <1>3 DEF UseRetained, ProcOK
  <1>4. CASE LinkOriginal(p)
    BY <1>4 DEF LinkOriginal, ProcOK
  <1>5. CASE Capture(p) \/ SyncBeat(p) \/ Crash(p)
    BY <1>1, <1>5 DEF Capture, SyncBeat, Crash
  <1>6. CASE Start(p) \/ SyncOriginal(p) \/ CreateClient(p) \/ LinkClient(p) \/ Publish(p)
             \/ ReplaceCorefile(p) \/ SyncCorefile(p) \/ WriteBeat(p) \/ ReplaceBeat(p)
             \/ PublishFails(p)
    BY <1>6 DEF Start, SyncOriginal, CreateClient, LinkClient, Publish, ReplaceCorefile,
                SyncCorefile, WriteBeat, ReplaceBeat, PublishFails
  <1> QED BY <1>2, <1>3, <1>4, <1>5, <1>6 DEF Work, Fault

-----------------------------------------------------------------------------
(* Every step of the Pod preserves the invariant *)

\* A step of a process that asks nobody, or gets no answer, or fails.
LEMMA ProcessSafe ==
  ASSUME PodInv, IInv', NEW p \in Procs, ProcessStep,
         \A q \in Procs : DesireKept(q),
         UNCHANGED <<ts, served, stage, mounted, proved, reached>>, faults' \in 0 .. MaxFaults
  PROVE  PodInv'
  <1>1. PodTypes'
    BY DEF PodInv, PodTypes
  <1>2. CorefilesProved'
    BY DiskStaysProved, DesiresStayProved DEF PodInv, CorefilesProved
  <1>3. SidecarsOK'
    BY SidecarsKeep DEF PodInv
  <1>4. GatesPassed'
    BY DEF PodInv, GatesPassed, ReadySidecars, TailscaleRuns
  <1> QED BY <1>1, <1>2, <1>3, <1>4 DEF PodInv

LEMMA ControllerWorksSafe == ASSUME PodInv, NEW p \in Procs, ControllerWorks(p) PROVE PodInv'
  <1>1. IInv /\ Work(p) /\ faults' \in 0 .. MaxFaults
        /\ UNCHANGED <<ts, served, stage, mounted, proved, reached>>
    BY DEF PodInv, PodTypes, ControllerWorks, pod
  <1>2. IInv'
    BY <1>1, NextSafe DEF Next
  <1>3. \A q \in Procs : DesireKept(q)
    BY <1>1, WorkDesires
  <1> QED BY <1>1, <1>2, <1>3, WorkStep, ProcessSafe

LEMMA ControllerFaultSafe == ASSUME PodInv, NEW p \in Procs, ControllerFault(p) PROVE PodInv'
  <1>1. IInv /\ Fault(p) /\ UNCHANGED <<ts, served, stage, mounted, proved, reached>>
    BY DEF PodInv, ControllerFault
  <1>2. faults' \in 0 .. MaxFaults
    BY PodAssumption DEF PodInv, PodTypes, ControllerFault, OneMoreFault
  <1>3. IInv'
    BY <1>1, NextSafe DEF Next
  <1>4. \A q \in Procs : DesireKept(q)
    BY <1>1, WorkDesires
  <1>5. ProcessStep
    BY <1>1 DEF Fault, PublishFails, Crash, ProcessStep, Quiet
  <1> QED BY <1>1, <1>2, <1>3, <1>4, <1>5, ProcessSafe

LEMMA AsksLocalAPISafe == ASSUME PodInv, NEW p \in Procs, AsksLocalAPI(p) PROVE PodInv'
  <1>1. IInv /\ faults' \in 0 .. MaxFaults
        /\ UNCHANGED <<ts, served, stage, mounted, proved, reached>>
    BY DEF PodInv, PodTypes, AsksLocalAPI, pod
  <1>2. CASE FetchFails(p)
    <2>1. ProcessStep
      BY <1>2 DEF FetchFails, ProcessStep, Quiet
    <2>2. \A q \in Procs : DesireKept(q)
      BY <1>1, <1>2, WorkDesires
    <2> QED BY <1>1, <1>2, <2>1, <2>2, FetchFailsSafe, ProcessSafe
  <1>3. CASE Fetch(p, ts.status)
    <2>1. ts.status \in StatusValues
      BY PodAssumption DEF PodInv, PodTypes
    <2>2. ProcessStep
      BY <1>3 DEF Fetch, ProcessStep, Quiet
    <2>3. \A q \in Procs : DesireKept(q)
      BY <1>3 DEF Fetch, DesireKept
    <2> QED BY <1>1, <1>3, <2>1, <2>2, <2>3, FetchSafe, ProcessSafe
  <1> QED BY <1>2, <1>3 DEF AsksLocalAPI

LEMMA AsksMagicDNSSafe == ASSUME PodInv, NEW p \in Procs, AsksMagicDNS(p) PROVE PodInv'
  <1> DEFINE answered == Answers(ts, found[p])
  <1>1. /\ IInv /\ CorefilesProved /\ SidecarsOK
        /\ Probe(p, answered)
        /\ proved' = IF answered THEN proved \cup {found[p]} ELSE proved
        /\ UNCHANGED <<ts, served, stage, mounted, reached, faults>>
    BY DEF PodInv, AsksMagicDNS
  <1>2. answered \in BOOLEAN
    BY DEF Answers
  <1>3. found[p] \in Discoveries
    BY <1>1 DEF IInv, ProcOK, Probe, SoundDiscovery
  <1>4. proved \subseteq proved'
    BY <1>1
  <1>5. PodTypes'
    BY <1>1, <1>3 DEF PodInv, PodTypes
  <1> HIDE DEF answered
  <1>6. IInv'
    BY <1>1, <1>2, ProbeSafe
  <1>7. ProcessStep
    BY <1>1 DEF Probe, ProcessStep, Quiet
  <1>8. ASSUME NEW q \in Procs, desired'[q] # Nothing
        PROVE  Genuine(desired[q], snap[q].ns)'
    <2>1. CASE q # p
      <3>1. DesireKept(q)
        BY <1>1, <2>1 DEF Probe, DesireKept, IInv, LocalsOK
      <3> QED BY <1>1, <1>4, <1>8, <3>1, DesiresStayProved
    <2>2. CASE q = p /\ answered
      <3>1. desired'[p] = ActiveCorefile(snap'[p].ns, found[p])
        BY <1>1, <2>2 DEF Probe, IInv, LocalsOK
      <3>2. found[p] \in proved'
        BY <1>1, <2>2
      <3> QED BY <2>2, <3>1, <3>2 DEF Genuine
    <2>3. CASE q = p /\ ~answered
      <3>1. desired'[p] = ClusterCorefile(snap'[p].ns)
        BY <1>1, <2>3 DEF Probe, IInv, LocalsOK
      <3> QED BY <2>3, <3>1 DEF Genuine
    <2> QED BY <2>1, <2>2, <2>3
  <1>9. CorefilesProved'
    BY <1>1, <1>4, <1>7, <1>8, DiskStaysProved DEF CorefilesProved
  <1>10. SidecarsOK'
    BY <1>1, <1>4, <1>7, SidecarsKeep
  <1>11. GatesPassed'
    BY <1>1 DEF PodInv, GatesPassed, ReadySidecars, TailscaleRuns
  <1> QED BY <1>5, <1>6, <1>9, <1>10, <1>11 DEF PodInv

\* Steps of the kubelet, CoreDNS and tailscaled leave the controller alone.
LEMMA SidecarSafe ==
  ASSUME PodInv, UNCHANGED <<vars, proved>>, PodTypes', SidecarsOK', GatesPassed'
  PROVE  PodInv'
  <1>1. IInv'
    BY NextSafe DEF PodInv
  <1>2. CorefilesProved'
    BY DEF PodInv, CorefilesProved, Genuine, vars, local
  <1> QED BY <1>1, <1>2 DEF PodInv

LEMMA VisibleFacts ==
  ASSUME PodInv
  PROVE  /\ Layered(vis) /\ Whole(vis) /\ vis \in Directories
         /\ vis.corefile # Absent => Genuine(vis.corefile, vis.original.ns)
         /\ CheckStartup(vis) => vis.client # Absent /\ vis.corefile # Absent
         /\ vis.client # Absent => vis.client \in RawFiles
  <1>1. vis \in durable /\ Layered(vis) /\ Whole(vis) /\ vis \in Directories
    BY DirectoryFacts DEF PodInv
  <1>2. CheckStartup(vis) => vis.client # Absent /\ vis.corefile # Absent
    BY ClientIsRaw, ParsedNs, ValidIsCorefile, TypesApart DEF CheckStartup
  <1>3. vis.client # Absent => vis.client \in RawFiles
    BY <1>1 DEF Whole, Directories
  <1> QED BY <1>1, <1>2, <1>3 DEF PodInv, CorefilesProved

\* A step that remembers what is ready after it; what a later stage needs is
\* remembered or ready.
LEMMA GatesStayPassed ==
  ASSUME PodInv, Remember,
         TailscaleRuns' => TailscaleRuns \/ "dns" \in ReadySidecars,
         stage' = "workload" => stage = "workload"
  PROVE  GatesPassed' /\ reached' \subseteq {"dns", "tailscale"}
  <1>1. ReadySidecars' \subseteq {"dns", "tailscale"}
    BY DEF ReadySidecars
  <1> QED BY <1>1 DEF PodInv, PodTypes, GatesPassed, Remember

LEMMA StartDnsSafe == ASSUME PodInv, StartDns PROVE PodInv'
  <1>1. PodTypes'
    BY DEF PodInv, PodTypes, StartDns, Stages
  <1>2. SidecarsOK'
    BY VisibleFacts DEF PodInv, SidecarsOK, StartDns, vars, Genuine
  <1>3. GatesPassed'
    BY DEF PodInv, GatesPassed, StartDns, ReadySidecars, TailscaleRuns
  <1> QED BY <1>1, <1>2, <1>3, SidecarSafe DEF StartDns

LEMMA StartTailscaleSafe == ASSUME PodInv, StartTailscale PROVE PodInv'
  <1>1. GatesPassed' /\ reached' \subseteq {"dns", "tailscale"}
    BY GatesStayPassed DEF StartTailscale
  <1>2. PodTypes'
    BY <1>1 DEF PodInv, PodTypes, StartTailscale, Stages
  <1>3. SidecarsOK'
    BY DEF PodInv, SidecarsOK, StartTailscale, vars, Genuine
  <1> QED BY <1>1, <1>2, <1>3, SidecarSafe DEF StartTailscale

LEMMA StartWorkloadSafe == ASSUME PodInv, StartWorkload PROVE PodInv'
  <1>1. vis.client # Absent /\ vis.client \in RawFiles
    BY VisibleFacts DEF PodInv, SidecarsOK, StartWorkload
  <1>2. PodTypes'
    BY <1>1 DEF PodInv, PodTypes, StartWorkload, Stages
  <1>3. SidecarsOK'
    BY <1>1 DEF PodInv, SidecarsOK, StartWorkload, vars, Genuine
  <1>4. GatesPassed'
    BY DEF PodInv, GatesPassed, StartWorkload, ReadySidecars, TailscaleRuns
  <1> QED BY <1>2, <1>3, <1>4, SidecarSafe DEF StartWorkload

LEMMA LoadSafe == ASSUME PodInv, StartCoreDNS \/ Reload PROVE PodInv'
  <1>1. /\ vis.corefile \in Corefiles /\ served' = vis.corefile
        /\ UNCHANGED <<vars, ts, stage, mounted, proved, faults>>
    BY DEF StartCoreDNS, Reload
  <1>2. vis.corefile # Absent
    BY <1>1, TypesApart
  <1>3. vis.original # Absent
    BY <1>2, VisibleFacts DEF Layered
  <1>4. GatesPassed' /\ reached' \subseteq {"dns", "tailscale"}
    <2>1. CASE StartCoreDNS
      BY <1>1, <2>1, GatesStayPassed DEF StartCoreDNS, TailscaleRuns
    <2>2. CASE Reload
      BY <2>2 DEF PodInv, PodTypes, GatesPassed, Reload, ReadySidecars, TailscaleRuns
    <2> QED BY <2>1, <2>2
  <1>5. PodTypes'
    BY <1>1, <1>4 DEF PodInv, PodTypes
  <1>6. SidecarsOK'
    BY <1>1, <1>2, <1>3, VisibleFacts DEF PodInv, SidecarsOK, vars, Genuine
  <1> QED BY <1>1, <1>4, <1>5, <1>6, SidecarSafe

LEMMA EnvironmentSafe == ASSUME PodInv, TailscaleChanges \/ CoreDNSCrash PROVE PodInv'
  <1>1. GatesPassed' /\ reached' \subseteq {"dns", "tailscale"}
    <2>1. CASE TailscaleChanges
      BY <2>1, GatesStayPassed DEF TailscaleChanges, TailscaleRuns
    <2>2. CASE CoreDNSCrash
      <3>1. ReadySidecars' \subseteq ReadySidecars
        BY <2>2 DEF CoreDNSCrash, ReadySidecars, TailscaleRuns
      <3> QED BY <2>2, <3>1 DEF PodInv, PodTypes, GatesPassed, CoreDNSCrash, TailscaleRuns
    <2> QED BY <2>1, <2>2
  <1>2. PodTypes'
    BY <1>1, PodAssumption DEF PodInv, PodTypes, TailscaleChanges, CoreDNSCrash, OneMoreFault
  <1>3. SidecarsOK'
    BY DEF PodInv, SidecarsOK, TailscaleChanges, CoreDNSCrash, vars, Genuine
  <1> QED BY <1>1, <1>2, <1>3, SidecarSafe DEF TailscaleChanges, CoreDNSCrash

LEMMA NodeLosesPowerSafe == ASSUME PodInv, NodeLosesPower PROVE PodInv'
  <1>1. IInv'
    BY PowerLossSafe DEF PodInv, NodeLosesPower
  <1>2. PodTypes'
    BY PodAssumption DEF PodInv, PodTypes, NodeLosesPower, OneMoreFault, Stages
  <1>3. CorefilesProved'
    BY DEF PodInv, CorefilesProved, NodeLosesPower, PowerLoss, Genuine
  <1>4. SidecarsOK'
    BY DEF SidecarsOK, NodeLosesPower
  <1>5. GatesPassed'
    BY DEF GatesPassed, NodeLosesPower, ReadySidecars, TailscaleRuns
  <1> QED BY <1>1, <1>2, <1>3, <1>4, <1>5 DEF PodInv

-----------------------------------------------------------------------------
(* Theorems *)

LEMMA PodInitSafe == PodInit => PodInv
  <1> SUFFICES ASSUME PodInit PROVE PodInv
    OBVIOUS
  <1>1. IInv
    BY InitSafe DEF PodInit
  <1>2. PodTypes
    BY PodAssumption DEF PodInit, PodTypes, Stages
  <1>3. CorefilesProved
    BY DEF PodInit, Init, EmptyDir, CorefilesProved
  <1>4. SidecarsOK
    BY DEF PodInit, SidecarsOK
  <1>5. GatesPassed
    BY DEF PodInit, GatesPassed, ReadySidecars, TailscaleRuns
  <1> QED BY <1>1, <1>2, <1>3, <1>4, <1>5 DEF PodInv

LEMMA PodNextSafe == PodInv /\ [PodNext]_podVars => PodInv'
  <1>1. ASSUME PodInv, UNCHANGED podVars PROVE PodInv'
    <2>1. UNCHANGED <<vars, proved>> /\ PodTypes' /\ SidecarsOK' /\ GatesPassed'
      BY <1>1 DEF podVars, pod, vars, PodInv, PodTypes, SidecarsOK, Genuine,
                  GatesPassed, ReadySidecars, TailscaleRuns
    <2> QED BY <1>1, <2>1, SidecarSafe
  <1> QED BY <1>1, ControllerWorksSafe, ControllerFaultSafe, AsksLocalAPISafe,
             AsksMagicDNSSafe, StartDnsSafe, StartTailscaleSafe, StartWorkloadSafe, LoadSafe,
             EnvironmentSafe, NodeLosesPowerSafe DEF PodNext

\* What the Pod relies on is kept by every step of every part of it.
THEOREM PodInductive == PodSpec => []PodInv
  BY PodInitSafe, PodNextSafe, PTL DEF PodSpec

\* CoreDNS serves the cluster's upstreams alone, or with the zone of a tailnet
\* whose own name MagicDNS resolved when it was asked, and always those of the
\* retained original, whoever restarts or fails in between.
THEOREM OnlyProvedIsServed == PodSpec => []ServedIsProved
  <1>1. PodInv => ServedIsProved
    BY DEF PodInv, SidecarsOK, Genuine, ServedIsProved
  <1> QED BY <1>1, PodInductive, PTL

\* No workload starts before CoreDNS and tailscaled were ready; it finds a client
\* file and a state check-startup accepts when it starts and as long as it runs,
\* and its mount is never replaced.
THEOREM WorkloadKeepsResolver == PodSpec => []WorkloadIsServed
  <1>1. PodInv => PodTypeOK
    BY DEF PodInv, PodTypes, PodTypeOK, IInv, LocalsOK, DiskOK, DirOK, TypeOK
  <1>2. PodInv => MountStaysCurrent
    BY DEF PodInv, SidecarsOK, MountStaysCurrent
  <1>3. PodInv => WorkloadHasResolver
    <2>1. PodInv /\ TailscaleRuns => vis.client # Absent /\ CheckStartup(vis)
      BY VisibleFacts DEF PodInv, SidecarsOK, TailscaleRuns, Layered, CheckStartup
    <2>2. PodInv /\ stage = "workload" => reached = {"dns", "tailscale"}
      BY DEF PodInv, PodTypes, GatesPassed, TailscaleRuns
    <2> QED BY <2>1, <2>2 DEF PodInv, GatesPassed, WorkloadHasResolver
  <1>4. PodInv => WorkloadIsServed
    BY <1>1, <1>2, <1>3 DEF WorkloadIsServed
  <1> QED BY <1>4, PodInductive, PTL
=============================================================================
