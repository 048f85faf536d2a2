# gpubox in TLA+

gpubox is a Helm chart and a container image for a remote, privileged
development Pod with an optional identity in a tailnet. Most of the repository
is declarative. The parts that keep state, race, fail half-way and have to
recover are a Python process that owns the Pod's DNS configuration, the kubelet
ordering the chart builds around it, a Go adapter that rewrites SBOM statements
inside BuildKit, a start-up script over a persistent home, and the workflows
that publish images, charts and releases. This directory models them, checks
small instances with TLC and proves the main results for every instance with
TLAPS.

    tlc -config MCDnsController.cfg MCDnsController.tla
    tlapm PodDns_proofs.tla

## 1. Inventory

**DNS controller** (`charts/gpubox/files/dns-controller.py`).
*State*: a directory with `original-resolv.conf`, `client-resolv.conf`,
`Corefile` and `heartbeat` in an emptyDir; in memory a snapshot of the original.
*Operations*: capture once (`initialize_state`, `_create_once`), publish
(`publish_corefile`, `_atomic_replace`), beat, poll (LocalAPI status, MagicDNS
probe, publish, beat, sleep), and the two probe commands `check-startup` and
`check-live`. *Interacts* through files with CoreDNS and every container that
mounts the client resolver, through a Unix socket and UDP/TCP port 53 with
tailscaled, through probes with the kubelet. *Hard*: kills and power losses
between any two system calls, two processes in the directory, a status that is
stale when its probe returns, deadlines that add up, two clocks.
*Correct when*: the original is captured once and everything else derives from
it; no reader sees half a file; what polling relies on survives a power loss;
CoreDNS is never told to ask itself; MagicDNS is used only while it is proved
and again as soon as it is; a stuck process is restarted and a working one is not.

**Pod DNS path** (`templates/statefulset.yaml`, 317-484 and 740-750).
*State*: how far the kubelet is in the order controller, CoreDNS, tailscaled,
workload, which inode the workload's `/etc/resolv.conf` mount names, the
configuration CoreDNS runs. *Correct when*: nothing behind CoreDNS's gate starts
before a resolver has answered, the mount never goes stale, and a gate opens when
what it waits for works.

**Tailscale sidecars** (`statefulset.yaml`, 485-572): the chart gives tailscaled its
place in the order and a startup probe. tailscaled itself is external: it answers
LocalAPI, MagicDNS and the probe or does not, and may change at any time.

**dns-setup** (`statefulset.yaml`, 317-356): copies the controller script into
the Pod and prepares the state directory, once, or again when it was killed or
the sandbox is recreated. *State*: two emptyDir volumes with modes and owners.
*Hard*: root without `CAP_DAC_OVERRIDE` meets what its own last run sealed.
*Correct when*: the next run is never refused, and what runs is whole and sealed.

**Network input** (`dns-controller.py`, 361-617): the HTTP reader of the LocalAPI
and the DNS decoder, over bytes that others choose. *Hard*: a stream in pieces
of any size, compression pointers, CNAME chains in any order.
*Correct when*: what is accepted is what the peer said, a good answer is not
refused, memory is bounded and every input ends.

**Chart rendering** (`statefulset.yaml`, 8-216, `_helpers.tpl`): pure functions
from values to manifests. *Correct when*: no user mount hides a managed path.

**SBOM generator** (`sbom-generator/internal`).
*State*: the `*.spdx.json` statements in BuildKit's scan destination, temporary
files beside them, compacted statements in memory. *Operations*: run the
scanner, compact each statement, write and sync the temporaries, rename.
*Correct when*: a refused statement changes nothing, no statement is ever mixed
or half written, a committed one has no dangling reference.

**Container entrypoint** (`vscode/entrypoint.sh`): idempotent set-up of a
persistent home on every container start. *Hard*: kills half-way.
*Correct when*: the next start repairs what the last one left, host keys stay the
same, and the user's edits are respected.

**Build workflow** (`.github/workflows/build.yml`,
`scripts/chart/reuse_published_archive.py`): detects image changes against a
base commit, builds or reuses an image, publishes the chart to gh-pages.
*Hard*: runs of several refs overlap, are cancelled and run again.
*Correct when*: the referenced image has the release's source, and published
bytes never change.

**Release** (`.github/workflows/release.yml`, `scripts/release/`): collects the
commits since the last release, has highlights written, drafts, verifies,
publishes and polls. *Hard*: a list read page by page while it changes, an API
that lags, operators beside the job. *Correct when*: the notes cover the right
commits and leave nothing out unnoticed, and only a complete draft is published.

**Others**: `instkheaders.sh`, the Containerfile, PATH helpers, `renovate.json`:
no state worth a model.

`PROJECT.json` lists them all with their status, and every hazard at its line.

## 2. Modules

| Module | Models | Kind |
| --- | --- | --- |
| `ResolverData` | resolv.conf, LocalAPI status, discovery, Corefile and the functions on them | data |
| `RetainedResolver` | what the state directory promises its readers | abstract specification |
| `DnsController` | the `run` command of dns-controller.py, any number of processes | component |
| `PodDns` | controller, CoreDNS, tailscaled and kubelet in one Pod; extends `DnsController` | composition |
| `LoopTiming` | how long a pass of the loop takes | component |
| `MagicProbe` | `probe_magicdns` and `_probe_one`: families, fallback to TCP, deadlines | component |
| `Heartbeat` | `check-live` and the liveness probe on two clocks | component |
| `LocalApiFetch` | `fetch_localapi_status`, `_read_chunked_body` over a stream in pieces | component |
| `DnsAnswer` | `_parse_dns_answer`: records and the CNAME chain | component |
| `DnsName` | `_decode_dns_name`, byte by byte | component |
| `SetupGeneration` | the dns-setup container, command by command | component |
| `Entrypoint` | shell hook, host keys and sshd of `entrypoint.sh` over restarts | component |
| `ImageReuse` | the container-image job of build.yml and the registry | component |
| `ChartPages` | the helm-chart job, `reuse_published_archive.py` and gh-pages | component |
| `ReleaseDelta` | `load_release_delta`: previous release and commits | component |
| `PatchBudget` | `curate_commit_payloads`, `truncate_patch` | component |
| `ReleaseBody` | validation of Codex's answer, `build_highlights` | component |
| `ReleasePublish` | the release job's draft, `publish.sh`, `verify_draft.sh` | component |
| `SbomCompact` | `Statement` in internal/compact | data |
| `SbomAdapter` | `Run`, `PrepareFile`, `CommitFiles` | component |
| `Positions` | filtering a sequence by position, for `SbomCompact`, `ReleaseDelta` and `ReleaseBody` | data |
| `Positions_proofs` | what `Positions` gives, for sequences of any length | lemmas |
| `PodDns_proofs` | `DnsController`, and `PodDns` around it | proofs |
| `NetworkInput_proofs` | `LocalApiFetch`, `DnsAnswer`, `DnsName` | proofs |
| `Timing_proofs` | `LoopTiming`, `Heartbeat`, `MagicProbe` | proofs |
| `ContainerStarts_proofs` | `SetupGeneration`, `Entrypoint` | proofs |
| `BuildWorkflow_proofs` | `ImageReuse`, `ChartPages` | proofs |
| `ReleaseWorkflow_proofs` | `ReleaseDelta`, `PatchBudget`, `ReleaseBody`, `ReleasePublish` | proofs |
| `Sbom_proofs` | `SbomCompact`, `SbomAdapter` | proofs |
| `MCTiming` | `LoopTiming`, `MagicProbe`, `Heartbeat` | instance |
| `MCNetworkInput` | `LocalApiFetch`, `DnsAnswer`, `DnsName` | instance |
| `MCContainerStarts` | `SetupGeneration`, `Entrypoint` | instance |
| `MCBuildWorkflow` | `ImageReuse`, `ChartPages` | instance |
| `MCReleaseWorkflow` | `ReleaseDelta`, `PatchBudget`, `ReleaseBody`, `ReleasePublish` | instance |
| `MCDnsController`, `MCPodDns`, `MCSbomAdapter` | the module of that name | instances |

Definitions commented "Mutant of X" are faulty variants of X: putting one in the
place of X must break the property PROJECT.json names, so they show
what each property is able to find.

The first five instances hold several components that share no variable and,
in the code, no state: one variable (`clockwork`, `reader`, `container`, `part`,
`script`) says which of them a behaviour runs, and the others never step.
Interleaving them would multiply states and add no behaviour of any one of them.
Components that do interact are composed for real, in `PodDns`; what one
component establishes for another it does not share state with is a constant
of the other: `BeatGap <- MaxGap` in `MCTiming`.

### 2.1 ResolverData

A resolv.conf is the list of its nameserver addresses and the rest of its bytes,
which no function inspects. Addresses fall into the classes `_usable_ip`
distinguishes: usable (IPv4 or IPv6), the two MagicDNS resolvers, the listener
127.0.0.1, anything else. A Corefile is the variable parts of the two generated
texts; `ValidCorefile` is `_validate_corefile`, which accepts exactly what the
generators produce for the retained nameservers. Length limits and the syntax of
DNS names are abstracted: a name is well formed or `NoName`.

### 2.2 DnsController

| Variable | Code |
| --- | --- |
| `vis` | the state directory as every container sees it |
| `durable` | the directories a power loss may leave: a set |
| `pc` | where each process is between two visible system calls |
| `tmp` | its NamedTemporaryFile and whether it was fsynced |
| `snap`, `found`, `desired` | `snapshot`, `discovery`, `desired` |
| `booted` | the process is inside `while True` |
| `failed` | an exception is on its way through `finally` |

One action is one system call that others can see or that a failure can
separate from the next: `LinkOriginal` is `os.link`, `SyncOriginal` the
directory fsync behind it, `ReplaceCorefile` is `os.replace`. Creating, writing
and fsyncing a private temporary file is one step (`WriteTemp`); its name is
unique, so nothing can see it in between. `PublishFails` is an `OSError` inside the
loop: `finally` still writes the heartbeat, then the process ends. `Crash` is a
kill or any other uncaught exception, at any label. In this module the
LocalAPI may return any member of `Statuses` and the probe may go either way.

*File-system assumption.* `durable` starts over at each directory fsync and gets
every directory state that follows, with the new file torn if it was not synced
before it got its name. So a power loss goes back to some moment since the
last fsync, but the changes of one directory are undone from the end: metadata
of one directory is applied in order, as journalling file systems do. A file
system that may lose an earlier link and keep a later rename could leave a
Corefile without a client file, and then `FilesAreLayered` would not hold.

### 2.3 PodDns

`EXTENDS DnsController`: its actions are composed with the state of the Pod.
Answers of LocalAPI and probe come from `ts`, what tailscaled is *at that step*,
so tailscaled may change between status and probe; before its sidecar is
started it answers nothing. Each start waits for the startup probe of the
container before: `StartDns` for `check-startup` (385-397), `StartTailscale` for
CoreDNS's `/ready` (454-461), `StartWorkload` for tailscaled's `/healthz` (548-558).
The last records which client file the subPath mount names. `ReadySidecars` says whose
probe would succeed now. `Reload` is CoreDNS's reload
plugin: it may run at any time, with a Corefile other than the one it runs.
Two variables are history: `proved`, every discovery whose probe ever succeeded,
and `reached`, the sidecars that were ready since the Pod last started. They are
written where readiness comes about, not where a gate looks at it, so that a
gate that does not look is seen.

The model has the Pod with `tailscale.enabled`; without it the chart renders neither
that container nor its gate.

### 2.4 LoopTiming and Heartbeat

`LoopTiming` counts whole seconds. A request may end at any moment up to its
deadline (`REQUEST_SECONDS`, which covers the whole status request and, split
over the address families, the whole probe), an atomic replacement within `Io`.
A request may see tailscaled as it was when the request began or as it is when
it ends. `Heartbeat` has the kubelet's probe every `Period` seconds,
`Threshold` failures in a row before a restart, and the heartbeat's age on the
monotonic clock, the wall clock and a perfect one. Its `BeatGap` is the bound
`LoopTiming` establishes, 5 + 2*1 + 2*1 = 9 with the chart's settings.

### 2.5 MagicProbe

Time is in ticks of the budget. `server` is chosen at the start: for each family
what the UDP and the TCP reply are and how long each read waits. `Limit` is the
share of the remaining budget (`probe_deadline`), `GoOn` the `_remaining` check
before each further system call, `Expire` a `TimeoutError`. A reply that
arrives at the deadline itself may or may not still be read.
What `_parse_dns_answer` makes of a packet is one of four replies. `LoopTiming`
uses the bound this module establishes: a probe takes one request's time.

### 2.6 SbomCompact and SbomAdapter

A statement is a record of the three lists the code reads. `BadJson` stands
wherever a decoder refuses a value; everything copied unread is left out. Sizes
are counted in list elements. `SbomAdapter` has one step per statement prepared,
per temporary written and per rename, each of which may fail, and `Kill`.
The configuration checks at the start of `Run` end it before anything changes.

### 2.7 LocalApiFetch, DnsAnswer and DnsName

`LocalApiFetch` reads an immutable stream through an index: `got` bytes have been
received, `used` of those behind the headers are parsed. `Read` hands over any
piece up to what the phase asks for (`Cap`), `EndOfStream` and `Expire` are the
two ways it may not come, `Overflow` a limit that is passed before the part has
ended. Header fields are abstracted to the framing they ask for, JSON to whether
the body is an object; chunk sizes, extensions, frames and trailers are read
byte by byte. The reference definition `Dechunked` reads the whole text at once.

`DnsAnswer` has one step per record of a pass over the answer section, and one at
the end of a pass (`PassEnds`), which begins another as long as the last found a
new name. `Chain` is the least set closed under the CNAMEs. What a name's
bytes denote is left to `DnsName`, which follows pointers in packets of any
bytes; `Denoted` is RFC 1035's definition.

### 2.8 SetupGeneration

One action is one command of the script, with the rights it needs: `MayWrite` is
the mode of the code directory, which binds root without `CAP_DAC_OVERRIDE`, and
`chmod` needs ownership of the state directory. `cp` is two steps, so a kill may
leave half a copy. `SetupAgain` is a kill or a recreated sandbox, `SetupPowerLoss` tears
a script that was never synced, `Upgrade` changes the ConfigMap at any time.

### 2.9 Entrypoint

Of the persistent home the model has `.bashrc`, as the number of active and
disabled managed blocks and whether the user refers to the directory himself,
and the host keys. `ssh-keygen` creates a file and then writes it (two steps); it
overwrites none without a terminal, and `errexit` ends the start
(`KeygenRefuses`). Where `mkdir -p` cannot make the key directory, sshd gets keys
that go with the container (`FallBack`). `synced` are the keys the kernel has written back: a power loss
may empty, tear or remove the others.

### 2.10 ImageReuse and ChartPages

`ImageReuse` has the latest run of each ref with its event's commits, and the
package's images, the newest first. `Detect` compares contexts with `Base`, which it
looks up *when it runs*; `Build` pushes and moves tags, `Reuse` takes the newest
image of a release tag among the first `PageSize` versions, or else the image called
latest. A push cancels main's run. `inOrder` and `missed` are
history: the properties hold as long as one release is settled before the next
is tagged, the last release's image is on the first page when it is to be reused,
and no push overtakes the run of the last.

In `ChartPages` an archive is its content and the time it was packaged, so that
each build of one content has other bytes. The concurrency group runs one job and
keeps one waiting; a newer one replaces the waiting one. `Fetch` and `Publish` are
separate steps: the push is refused when the branch has moved.

### 2.11 ReleaseDelta, PatchBudget, ReleaseBody and ReleasePublish

`ReleaseDelta` asks for one page per step while maintainers create, publish and
delete releases. `MaxReleases` bounds the list at the start, whatever the pages
hold, and `MaxCommits` is any integer, as on the command line. `PatchBudget` has one step per file; a patch is its length.
`ReleaseBody` runs Codex's answer through the workflow's two bullet rules
(`Kept`, `Counted`) and the script's own, and groups the changelog's titles one
by one. A highlight is the set of changelog lines it was made from, so that a change told twice
or lost can be seen; its wording is left out. In `ReleasePublish` the API
shows `shown`, which follows `release` by `Propagate`; an asset of the same name is
deleted before it is uploaded again. Nothing excludes anything: the job is run
again and the draft edited while operators are between two calls. `overlapped` is
history: the draft was re-made or edited while it was being published, or the
call began with what the API showed of it before that; `everComplete`, that the
release had all its parts once.

## 3. Runs

| Run | Question | Bounds |
| --- | --- | --- |
| `controller` | two processes in one directory, through every label, failure and power loss | 6 resolv.conf contents, 9 statuses: two tailnets and one status per refusal of `discovery_from_status` |
| `pod` | what CoreDNS serves, what starts when, and where both converge | 2 originals, 5 tailscaled states, 2 faults |
| `timing` | the documented 12 seconds, the probe's budget, restart of a stuck controller and of no other | loop: the code's constants, `Io` = 1, `Reload` = 3; probe: 6 ticks, 2 TCP reads, 5 delays, all replies for each family; heartbeat: the chart's probe settings, 2 clock steps, 1 reboot |
| `network_input` | what is accepted of streams, replies and names, and that reading ends | limits of 4 and 5 bytes, pieces of 1 to 3; 3 names, 3 records in any order; packets of 6 bytes of 6 values, every offset |
| `container_starts` | starts over what a killed one left | setup: 3 kills, 2 script generations; entrypoint: 2 faults, 3 edits, 2 key types |
| `build_workflow` | what is published by runs that overlap, fail and are repeated | image: 2 contexts, 3 releases, 2 further pushes, pages of 2, 1 trouble; chart: 3 jobs, 2 versions, 2 contents, 3 packages, 1 foreign commit |
| `release_workflow` | what the notes are made from and what goes public | delta: 3 tags, 2 pages of 1, 3 commits, 1 change; budget: 5, up to 3 commits; body: changelogs of 5 lines, answers of 4; publish: 2 operators, 2 job runs, 2 faults, 1 edit |
| `sbom` | all-or-nothing on refusals, soundness of what is committed | 2 paths, 14 statements: 4 accepted, one or more per refusal |
| `publish_rerun` | CONTRIBUTING's promise that only what was verified is published | 1 operator, 2 job runs; must be violated |
| `sbom_partial` | the design document's promise for a failing rename | as `sbom`; must be violated |
| `setup_frozen` | the chart README's promise for an upgraded chart | 2 generations, 1 kill; must be violated |
| `reuse_previous` | CONTRIBUTING's promise for changed images | 3 releases, 1 push; must be violated |

Two processes suffice for the races: a process is disturbed only by what a file
holds, which one other process decides. Two originals share a client file and a third has
another, so a wrong winner is seen whether or not the client files differ. Two
tailnets suffice for a mixture of old and new. Two statements are the least for
an order of renames; the first and the last position of a refusal both occur.
Two faults allow one during the recovery from another.

`controller`: `NeverTorn`, `SettledWhenPolling`, `StartupWhenPolling` and
`NoForwardingLoop` hold in every directory a power loss could leave.
`SettledWhenPolling` is worth a note. A process that dies between `os.link` and the
directory fsync leaves a successor that finds the file and skips that fsync.
The successor is safe because writing its first Corefile or heartbeat fsyncs the
same directory before it polls.

Of the race: `LayeredState`, `AgreesWithRetained`, `RetainedOnce`, and
`KeepsPromise`, the refinement of `RetainedResolver` with
`settled <- Settled`.

`pod`: `ServedIsProved` (no mixture of discoveries, only proved ones),
`WorkloadIsServed` (the mount never goes stale; tailscaled and the workload run
only where CoreDNS has been ready and the state it answered from is whole, the
workload only where tailscaled was healthy, too), and three liveness properties:
`FallsBack`, `Activates` and `WorkloadStarts`. A probe looks once: CoreDNS may have
crashed again by the time the next container starts, so the property says that it has
answered since the Pod started, not that it answers now. `WorkloadStarts` has two
parts: whatever tailscaled does, the Pod gets past the gates of managed DNS;
past tailscaled's own it gets when tailscaled stays healthy
(`charts/gpubox/README.md:243`: "Existing Tailscale authentication startup gates
still apply"). *Fairness*: weak, on the
controller's next step (a sidecar with `restartPolicy: Always`, whose requests all
have deadlines), on the kubelet's three starts, on CoreDNS's start and on its reload,
which looks at the file periodically. Nothing else is assumed of tailscaled or of
any fault; `MaxFaults` makes faults finite.

`timing`, the loop: `docs/implementation/automatic-magicdns.md` promises a transition
within 12 seconds. The model has the slowest case: the change falls just after a
request read the old state, the loop sleeps, and the next pass uses up its deadlines.
One second for each atomic replacement and three for a reload with its jitter
(the Corefile says `reload 2s`) are
assumptions, named `Io` and `Reload`.

`timing`, the probe: delays below, at and above a family's share and the whole budget,
and two reads, so that a reply may be cut in the middle. `VerdictIsRight` says a
probe fails only when no family proved the name within its share. `ProbeReturns`
needs weak fairness on the next step: time passes and the process is scheduled;
nothing is assumed of the server.

`timing`, the heartbeat: neither clock is enough alone. After a reboot the monotonic age may be
small or negative, after a wall-clock step the wall age may be anything; the
pair is fooled only when both happened since the last heartbeat, which
the properties exclude by `stepped /\ rebooted`. `RestartsTheStuck` holds for
two wall-clock steps; `Threshold` of them, one before each probe, would restart a
working controller.

`network_input`: `StatusIsRight` compares what was accepted with what the headers
announce of the whole text, for every way of cutting it: bodies with every
single byte replaced or missing, every length around the limits, streams that
end or stall after every byte. A good status is refused only when the deadline
passes or a limit is exceeded. Whether bytes *behind* a body of known length
are refused depends on the piece they arrive in, so the property leaves that
open. `ReplyIsRight` compares with the least closed set of names and with RFC
1035's meaning of a packet. Six bytes hold two pointers that lead to each other,
a label before a pointer back to it, and a name over the limit. `InputIsRead`
assumes that the process runs and time passes, nothing of the peer. Every reader returns, so
deadlock is not checked.

`container_starts`: a second fault may hit the repair of the first.
`EntryIsSafe` has one exception, keys a power loss took before they were on disk,
and says that keys of the container are offered only before the lasting ones;
`StartsComeUp` has one, too: a key file that is empty (`ssh-keygen` will not
overwrite it) or no readable key at all. *Fairness*: the kubelet starts a
container again and its commands run; the user, kills and power losses owe nothing.

`build_workflow`: `ImagesAreCurrent` takes three releases: one that relies on
another one's image which itself relied on a third. Pages of two, for a hundred in the
code, let pushes to main bury a release's image; then another context may be
installed, which `inOrder` leaves out. Jobs, versions and
contents are symmetric; only safety is checked. A job needs its events, of which
there are finitely many, so deadlock is not checked. `PagesAreRight` says that index, branch,
attestations and release agree and that only a changed chart is refused;
`PublishedForGood` is a property of every step.

`release_workflow`: two pages of one with up to three releases and one change, so that the current
release ends a page, begins the next or lies behind the last page that is asked for (five of a
hundred in the code). `PreviousIsRight` is for a list that does not change
during the run, `PreviousWasPublished` for one that does. A patch budget of five is left
over, met exactly and cut, within a commit and across two. For the publication everybody may do
anything at any time. `PublicationIsRight` says what is left of verification then: a release is public
without one of its parts only if the draft was re-made or edited while it was being
published (`OnlyOverlapSpoils`; calls while the job is still uploading, and two
operators at once, do not spoil it), and even then it had been complete
(`PublishedWasComplete`); `publish_rerun` shows that the exception is needed. *Fairness* of `GoesLive`: the API
catches up, a run that has begun goes on, and operators call `publish.sh` until it succeeds.
The scripts end, so deadlock is not checked.

`sbom` (the adapter exits, so deadlock is not checked): `RefusalChangesNothing` and `OutputIsWhole` under every failure;
`CommittedIsSound` and `Repeatable` on the compacted content.

### Findings

`publish_rerun`: `CONTRIBUTING.md:48` says that `publish.sh` "verifies draft state,
required headings, and required assets before publishing as latest". It verifies
what the API shows and then sets `draft=false` by id, whatever has become of the draft
(`publish.sh:195-219`). When the release job is run again in between, it makes the
release a draft again, deletes each asset and uploads it anew (`release.yml:209-220`), and the
release goes public without one. Nothing in either file excludes that.

`sbom_partial`: `docs/superpowers/specs/2026-08-18-compact-image-sbom-generator-design.md:109`
promises that a nonzero exit "leaves no partially replaced output", including
when temporary output cannot be renamed. `CommitFiles` returns after a failing
rename and keeps the earlier ones. Its comment (`compact.go:155-158`) says so;
the design document does not.

`setup_frozen`: `charts/gpubox/README.md:209` says that the controller of an
existing Pod keeps its generation. The kubelet runs dns-setup again when it
recreates the sandbox, and dns-setup copies what the ConfigMap volume shows
by then.

`reuse_previous`: `CONTRIBUTING.md:25` says an image is built when its context
changed since the previous release tag. The job takes the highest *other* tag:
of two releases tagged together each takes the other for its previous one, and
neither is built.

### Noted, without a run

- `unique_shas[-max_commits:]` with `--max-commits 0` is every commit
  (`generate_release_highlights_prompt.py:426`); `Limited` has it.
- A release created between two pages makes the current tag appear twice in the
  list and become its own predecessor (`:217`): `previous # Current` fails in
  `ReleaseDelta`.
- `truncate_patch` adds its mark on top of the budget (`:249`):
  `SpentWithinBudget` allows for one mark.
- With a negative `--max-commits` the slice of `:426` leaves out the oldest commits
  and takes all the others; `Limited` has it, too.
- A release whose image is not among the first hundred versions when it is reused
  (`build.yml:385`) is passed over for the image called latest: without `Buried`
  in `Reuse` `ReleaseIsCurrent` fails.
- An empty host key file is never repaired (`entrypoint.sh:656`): `Wedged`.

## 4. Proofs

Each of these modules extends the component modules it is about and proves their
properties for every value of the constants that the named assumptions allow.
An assumption only tells markers from data (`ControllerAssumption`,
`CompactAssumption`, `PagesAssumption`), types the inputs (`PodAssumption`,
`BudgetAssumption`, `FetchAssumption`, `AnswerAssumption`, `NameAssumption`) or
makes a bound a number. Two theorems have a
further hypothesis, named below. `Positions_proofs` holds
what the others need of sequences: filtering one by position keeps exactly the
entries there, in order (`OrderOfPositions`, `PickedEntries`, `PickedAll`). It
rests on `Smallest`, `CountFromBelow` and `CountingUp`, which replace induction by
the least counterexample.

### PodDns_proofs

For any set of processes, any content of `/etc/resolv.conf` and any statuses,
MagicDNS enabled or not: `TypeCorrect`, `FilesAreWhole`, `FilesAreLayered`,
`ProcessesAgree`, `PollingIsSettled`, `PollingIsStarted`, `NoLoop`.

None of these is inductive alone: that a Corefile a process is about to
rename is valid *for the retained original* needs what the process knows at each
label, and that knowledge stays true only because no other process takes
anything away. `IInv` is

- `LocalsOK`: types, with snapshots that parsed;
- `DiskOK`: every directory a power loss may leave is whole and layered and has the retained
  files of now or none (`Past`);
- `ProcOK(p)`: what p knows at its label: its snapshot is the retained original
  once it has one, `desired` is valid for it, the temporary file holds what
  is about to get a name and is synced, and `booted` implies `Rooted`,
  that no power loss can take back original, client or Corefile.

The proof is assume-guarantee: each action lemma shows `LocalsOK'`, `DiskOK'`,
`ProcOK(p)'` for its own process and `Keeps`, and `OtherProcess` shows once that
`Keeps` preserves what every other process knows. `Keeps` says that a named file
is not renamed away, an existing Corefile stays and `Rooted` stays. A power loss
ends every process, so there only `DiskOK` is left to show.

For the refinement, `DirectoryStep` sorts the steps by what they do to the
directory; `WrittenOnce` and `Implements`: `Spec => KeepsPromise` follow.

The Pod adds to `IInv`: `CorefilesProved`, that every Corefile on disk, after a power
loss too, and every one a process still holds is the fallback or the zone of a
discovery that was proved (`Genuine`), and `SidecarsOK`, what the stages the kubelet
has reached may rely on (`GatesPassed`: who was ready on the way there). `ProcessKeeps` shows that no step of a process disturbs
that; `OnlyProvedIsServed` and `WorkloadKeepsResolver` follow.

### Timing_proofs

- `LoopTypes`, `BeatsInTime`: `Cycle` splits elapsed time over the phases of a pass.
- `FollowsInTime`, for constants with `ToCorefile + Reload <= Target`: `Following` bounds, at each
  phase, the time since tailscaled changed, by the rest of the pass that missed the
  change, one longest pass and the reload. The chart's settings leave one
  second of the documented twelve.
- `HeartbeatTypes`, `AcceptedIsRecent`: `ClocksAgree`, each clock shows true time as long as it
  was not disturbed.
- `OnlyTheStuckRestart`, under `ProbeSettings`: a heartbeat gap fits into the
  accepted age and into a probe's period, and the wall clock is stepped less than
  `Threshold` times. `StuckIsCounted`
  bounds the silence of a stuck controller by the misses counted, `WorkingIsFresh` says
  that each miss of a working one has its own wall-clock step.
- `ProbeEndsInTime`, `FamiliesHaveShares`: `Deadlines` ties the clock at each family's
  turn to the share of the one before it.
- `VerdictsAreRight`: `Attempt` says how far the request in flight got and what it
  has cost, `VerdictSoFar` that no family behind the probe proved the name within
  its share.

### ContainerStarts_proofs

`SetupRunsWhole`: `ScriptReady` and `StateReady` say what each command of dns-setup
finds, whatever was left by a run that was killed: the first one unlocks the directory, and no
command that needs it unlocked comes behind `Seal`. `HomeIsLeftSane`:
`HookedOnce` and `OneBlock` for `.bashrc`; `KeyAtHand`, that a key is only
written to the file just created for it, and `OfferedIsThere`, that a key
clients were offered is there unless a power loss took it. So the directory is there
once a key was offered, and `SpareComeFirst`.

### BuildWorkflow_proofs

`ChartsAgree`: `WorkInHand(j)` is what job j has built, attested and fetched between its
steps, and that the branch has kept all it fetched; `Concluded(j)` is how it ended. One
job at a time is at work (`AloneAtWork`), so a push is refused or extends exactly
what was fetched. `NeverUnpublished` is the action property.

`ReleasesAreCurrent`: as long as releases were tagged in turn (`inOrder`), every
release but the last is settled, and `LastRelease` says that while the last one's run
is on its way the newest release image is its own or its predecessor's, of the same context if it
is to be reused (`ReleasesInOrder`); `MainInOrder` says the same of main. Reuse is right because releases are tagged in order:
the context compared with is that of the release whose image is taken, which
is the newest one listed unless all are buried (`SelectsRelease`).

### ReleaseWorkflow_proofs

- `PromptGetsItsDue`. For the delta: `OnePerTag` and `SeenPublished` for the store, `ListedSoFar` for the
  pages so far, `Collected` for the selection and its commits. For the budget: the
  snippets so far are as many as the shipping files taken so far (`ShippedBefore`),
  and the commits kept as many as have one (`Shown`); both sets are finite, and
  each step adds one member or none.
- `HighlightsTellAll` (`HighlightsAreRight`), for any inputs and any limit. `BodyInv`: `GroupsOK` (a group per
  class, none empty, its titles of that class), `Grouping` (the first `n` titles are in the
  groups), `Summarizing` (`BulletsInOrder`: every bullet tells a class met before
  the groups left; every title is in a group left, told, or `Excused`), and
  `HasHighlights`. `ToldOnce` follows from that order, `LeftOutForCause` from it
  when the bullets are cut to four.
- `OnlyCompleteGoesPublic` (`PublicationIsRight`), without a hypothesis: `PublishBase` is what holds
  always, `Clean` what holds until the draft is re-made or edited during a publication.
  `JobsWork` is what the first run of the job has uploaded at each step, and that a
  later one has a draft to itself. `OperatorsWork` says that GitHub shows no more than there is
  while an operator is at work, so what one verified is there when it publishes. `Remembered` is
  what GitHub shows or an operator has verified: it had been complete.

### Sbom_proofs

Of compaction, for statements of any size: `CompactFields`, `CompactPackages`,
`CompactRelationships` and `CompactTwice`, that a compact statement is accepted
and stays as it is. Of the adapter, `SbomInv`: `PreparedInOrder`, `RenamedInOrder` and
`TempsInOrder` say which prefix of the outputs has been prepared, written and
renamed; every refusal falls before the first rename. `EveryOutputIsWhole`,
`OneRefusalKeepsAll`, `WhatIsCommittedIsSound` and `CompactingTwiceIsHarmless` follow.

### NetworkInput_proofs

The three readers share no state, so `InputInv` is the conjunction of their own
invariants. Two of them are compared with recursive definitions over the bytes.
`CountingUp` says that a set with 0 that goes on up to m holds all of 0 .. m; with it
each of `Lengths`, `Denoted`, `Extent`, `Values`, `TrailersEnd` and `Dechunked` is shown to
satisfy its own equation (`DechunkedIs`), and then its types (`DechunkedTypes`).

- `StatusRight` (`StatusIsRight`). `Parsed`: at every phase the body that the headers
  announce is what is parsed, joined with what the rest of the text carries. The
  text is all that tailscaled sent, so how recv cut it does not matter: a line end
  that has arrived is the text's (`LineNow`). With
  `PhaseOK`, each refusal before the deadline has a `Cause`, `EndedEarly` for one.
- `ReplyRight` (`ReplyIsRight`). For the records: `reachable` is part of the least
  closed set of names, and a pass that found nothing new has `Followed` every
  record, so it is that set. For the bytes: `PassedBy(P)` says that the offsets passed
  lead to each other and to this one and that, unless this one is among them, the labels
  read and what stands here are the name. When a pointer leads back, every offset passed leads to
  one passed, and `CirclesDenoteNothing`. `CallerMovesOn` follows from `Resumes`:
  the first pointer, or the zero byte, stands behind the start.

### Only model-checked

- Liveness (`FallsBack`, `Activates`, `WorkloadStarts`, `ProbeReturns`, `InputIsRead`,
  `StartsComeUp`, `GoesLive`): outside the prover's reach.

## 5. Not modelled, and the plan

Parts of modelled components that are left out:

- `Entrypoint`: creation of directories and files, seeded home directories (a
  partial copy is taken for complete), snippets that are compared and
  rewritten, Podman and device set-up. Of a full home volume only what
  `setup_ssh_host_keys` makes of it (`FallBack`).
- `ImageReuse`: `workflow_dispatch` and the SBOM generator's own image.
- `ChartPages`: the creation of a missing branch, which its fetch under `errexit`
  never reaches.
- `PodDns`: sandbox recreation is in `SetupGeneration` only.
- Release notes: the wording of prompt and body, URL parsing,
  `preview_codex_highlights.sh`, which only calls the other scripts.
- Mount-path rules of the chart: pure functions that the chart's tests render
  rule by rule; nothing of them happens in steps.

Worth doing next: an abstract specification of the release's publication that
`ReleasePublish` implements, as `DnsController` implements `RetainedResolver`.

Left out for good: the wording of logs and of generated text, TLS and tailnet
routing (tailscaled's own), Helm's rendering of values that no rule inspects,
package installation in the image, and Renovate's settings.
