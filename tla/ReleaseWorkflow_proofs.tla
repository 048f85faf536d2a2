----------------------- MODULE ReleaseWorkflow_proofs -----------------------
(* Proofs about the scripts of a release, for any lists of releases, commits *)
(* and files, any operators, and any numbers of runs, edits and faults.      *)
EXTENDS MCReleaseWorkflow, Positions_proofs

-----------------------------------------------------------------------------
(* ReleasePublish: what goes public.                                         *)

\* What holds whatever overlaps: success is real, and what was verified, or is
\* public, had been complete.
Remembered ==
    /\ Live(release) => everLive /\ everComplete
    /\ Live(shown) => everLive
    /\ Complete(release) \/ Complete(shown) => everComplete
    /\ \A o \in Operators : op[o] = "patch" => everComplete

PublishBase == PublishTypeOK /\ SuccessIsReal /\ Remembered

\* What the release job's first run has uploaded, step by step; a later run
\* finds a draft that stays one, for it has the release to itself.
JobsWork ==
    /\ runs = 0 => job = "idle"
    /\ runs <= 1 => /\ job = "create" => release.assets = {} /\ ~release.exists
                    /\ job = "tgz" => release.assets = {}
                    /\ job = "spdx" => release.assets = {"tgz"}
    /\ runs > 1 => /\ Busy => job = "idle"
                   /\ job \in {"tgz", "spdx"} => release.draft

\* GitHub shows less than there is and never more, as long as a draft only grows
\* or somebody is in the script; who is about to publish has a complete release
\* to publish.
OperatorsWork ==
    /\ Busy \/ (runs <= 1 /\ edits = 0) => /\ shown.assets \subseteq release.assets
                                           /\ shown.headings => release.headings
    /\ \A o \in Operators : op[o] = "patch" => Complete(release)

NoRunNoRelease == runs = 0 => release = NoRelease

\* What holds until something overlaps.
Clean == NoRunNoRelease /\ JobsWork /\ OperatorsWork /\ PublishedIsComplete

PublishInv == PublishBase /\ (overlapped \/ Clean)

LEMMA PublishTyping ==
  ASSUME PublishTypeOK
  PROVE  /\ \A r \in {release, shown} : /\ r.exists \in BOOLEAN /\ r.draft \in BOOLEAN
                                        /\ r.headings \in BOOLEAN /\ r.assets \subseteq Assets
         /\ runs \in Nat /\ edits \in Nat /\ faults \in Nat
         /\ \A o \in Operators : attempt[o] \in Nat /\ op[o] \in {"idle", "fetch", "verify", "patch", "poll"}
  BY PublishAssumption DEF PublishTypeOK, Release

-----------------------------------------------------------------------------
(* Whatever overlaps                                                         *)

Steps == {"idle", "fetch", "verify", "patch", "poll"}

\* How the release may be stored anew: what becomes public had been complete.
LEMMA StoreBase ==
  ASSUME PublishBase, NEW r \in Release, Store(r),
         Live(r) => everComplete,
         job' \in {"idle", "create", "tgz", "spdx", "verify"},
         runs' \in 0 .. MaxRuns, edits' \in 0 .. MaxEdits, faults' \in 0 .. MaxFaults,
         op' \in [Operators -> Steps], attempt' \in [Operators -> 0 .. Attempts],
         \A o \in Operators : op'[o] = "patch" => op[o] = "patch",
         result' = result, overlapped' \in BOOLEAN
  PROVE  PublishBase'
  <1>1. /\ release' = r /\ shown' = shown
        /\ everLive' = (everLive \/ Live(r)) /\ everComplete' = (everComplete \/ Complete(r))
    BY DEF Store
  <1>2. PublishTypeOK'
    BY <1>1 DEF PublishBase, PublishTypeOK, Steps
  <1>3. Live(release') <=> Live(r)
    BY <1>1
  <1>4. SuccessIsReal'
    BY <1>1 DEF PublishBase, SuccessIsReal
  <1>5. Remembered'
    BY <1>1 DEF PublishBase, Remembered, Live, Complete
  <1> QED BY <1>2, <1>4, <1>5 DEF PublishBase

\* A step that stores nothing, whatever it lets GitHub show.
LEMMA IdleBase ==
  ASSUME PublishBase, UNCHANGED <<release, everLive, everComplete>>,
         shown' \in {shown, release},
         job' \in {"idle", "create", "tgz", "spdx", "verify"},
         runs' \in 0 .. MaxRuns, edits' \in 0 .. MaxEdits, faults' \in 0 .. MaxFaults,
         op' \in [Operators -> Steps], attempt' \in [Operators -> 0 .. Attempts],
         \A o \in Operators : op'[o] = "patch" => op[o] = "patch" \/ Complete(shown),
         result' \in [Operators -> {"none", "ok", "error"}],
         \A o \in Operators : result'[o] = "ok" => result[o] = "ok" \/ everLive,
         overlapped' \in BOOLEAN
  PROVE  PublishBase'
  <1>1. PublishTypeOK'
    BY DEF PublishBase, PublishTypeOK, Steps
  <1>2. SuccessIsReal'
    BY DEF PublishBase, SuccessIsReal
  <1>3. Remembered'
    BY DEF PublishBase, Remembered, Live, Complete
  <1> QED BY <1>1, <1>2, <1>3 DEF PublishBase

LEMMA JobBase ==
  ASSUME PublishBase,
         Propagate \/ JobStarts \/ JobNext \/ JobFails \/ EditBody
  PROVE  PublishBase' /\ overlapped' \in BOOLEAN /\ (overlapped => overlapped')
  <1>1. /\ PublishTypeOK /\ release \in Release /\ overlapped \in BOOLEAN
        /\ runs \in 0 .. MaxRuns /\ edits \in 0 .. MaxEdits /\ faults \in 0 .. MaxFaults
        /\ MaxRuns \in Nat /\ MaxEdits \in Nat /\ MaxFaults \in Nat
        /\ op \in [Operators -> Steps] /\ attempt \in [Operators -> 0 .. Attempts]
        /\ result \in [Operators -> {"none", "ok", "error"}]
        /\ job \in {"idle", "create", "tgz", "spdx", "verify"}
    BY PublishAssumption DEF PublishBase, PublishTypeOK, Steps
  <1>2. CASE Propagate
    <2>1. /\ UNCHANGED <<release, everLive, everComplete, overlapped, job, runs, edits, faults>>
          /\ op' = op /\ attempt' = attempt /\ result' = result /\ shown' = release
      BY <1>2 DEF Propagate, past, used, desk
    <2> QED BY <1>1, <2>1, IdleBase
  <1>3. CASE JobStarts \/ JobVerifies \/ JobFails
    <2>1. /\ UNCHANGED <<release, shown, everLive, everComplete, edits>>
          /\ op' = op /\ attempt' = attempt /\ result' = result
          /\ job' \in {"idle", "create"} /\ overlapped' \in BOOLEAN
          /\ overlapped => overlapped'
      BY <1>1, <1>3 DEF JobStarts, JobVerifies, JobFails, past, used, desk, Note, Busy
    <2>2. runs' \in 0 .. MaxRuns /\ faults' \in 0 .. MaxFaults
      BY <1>1, <1>3 DEF JobStarts, JobVerifies, JobFails, used
    <2> QED BY <1>1, <2>1, <2>2, IdleBase
  <1>4. CASE CreateOrUpdate \/ EditBody
    <2> DEFINE edited == [release EXCEPT !.headings = ~@]
    <2>1. /\ Updated(release) \in Release /\ edited \in Release
          /\ Updated(release).draft /\ edited.draft = release.draft
      BY <1>1 DEF Updated, Release
    <2> HIDE DEF edited
    <2>2. PICK r \in Release : Store(r) /\ r.draft
      BY <1>4, <2>1 DEF CreateOrUpdate, EditBody, edited
    <2>3. /\ op' = op /\ attempt' = attempt /\ result' = result
          /\ runs' = runs /\ faults' = faults
          /\ job' \in {"idle", "create", "tgz", "spdx", "verify"}
          /\ overlapped' \in BOOLEAN /\ (overlapped => overlapped')
      BY <1>1, <1>4 DEF CreateOrUpdate, EditBody, used, desk, Note, Busy
    <2>4. edits' \in 0 .. MaxEdits
      BY <1>1, <1>4 DEF CreateOrUpdate, EditBody, used
    <2>5. ~Live(r)
      BY <2>2 DEF Live
    <2> QED BY <1>1, <2>2, <2>3, <2>4, <2>5, StoreBase
  <1>5. CASE \E a \in Assets, then \in {"spdx", "verify"} : UploadAsset(a, then)
    <2>1. PICK a \in Assets, then \in {"spdx", "verify"} : UploadAsset(a, then)
      BY <1>5
    <2> DEFINE less == [release EXCEPT !.assets = @ \ {a}]
               more == [release EXCEPT !.assets = @ \union {a}]
    <2>2. /\ less \in Release /\ more \in Release
          /\ \A r \in {less, more} : r.exists = release.exists /\ r.draft = release.draft
      BY <1>1 DEF Release
    <2>3. \/ Store(less) /\ job' = job
          \/ Store(more) /\ job' = then
      BY <2>1 DEF UploadAsset
    <2> HIDE DEF less, more
    <2>4. PICK r \in {less, more} : Store(r) /\ job' \in {job, then}
      BY <2>3
    <2>5. r \in Release /\ (Live(r) => everComplete)
      BY <2>2, <2>4 DEF Live, PublishBase, Remembered
    <2>6. /\ op' = op /\ attempt' = attempt /\ result' = result
          /\ runs' = runs /\ faults' = faults /\ edits' = edits /\ overlapped' = overlapped
      BY <2>1 DEF UploadAsset, used, desk
    <2> QED BY <1>1, <2>4, <2>5, <2>6, StoreBase
  <1> QED BY <1>2, <1>3, <1>4, <1>5 DEF JobNext, Assets

LEMMA OpBase ==
  ASSUME PublishBase, NEW o \in Operators, OpNext(o) \/ PollFails(o) \/ CallFails(o)
  PROVE  PublishBase' /\ overlapped' \in BOOLEAN /\ (overlapped => overlapped')
  <1>1. /\ PublishTypeOK /\ release \in Release /\ overlapped \in BOOLEAN
        /\ runs \in 0 .. MaxRuns /\ edits \in 0 .. MaxEdits /\ faults \in 0 .. MaxFaults
        /\ MaxFaults \in Nat /\ Attempts \in Nat /\ Attempts # 0
        /\ op \in [Operators -> Steps] /\ attempt \in [Operators -> 0 .. Attempts]
        /\ result \in [Operators -> {"none", "ok", "error"}]
        /\ job \in {"idle", "create", "tgz", "spdx", "verify"}
        /\ Live(shown) => everLive
    BY PublishAssumption DEF PublishBase, PublishTypeOK, Steps, Remembered
  <1>2. CASE Patch(o)
    <2> DEFINE public == [release EXCEPT !.draft = FALSE]
    <2>1. /\ public \in Release /\ Store(public) /\ everComplete
      BY <1>1, <1>2 DEF Patch, Release, PublishBase, Remembered
    <2> HIDE DEF public
    <2>2. /\ op' = [op EXCEPT ![o] = "poll"] /\ attempt' = [attempt EXCEPT ![o] = 1]
          /\ result' = result /\ job' = job /\ runs' = runs /\ edits' = edits
          /\ faults' = faults /\ overlapped' = overlapped
      BY <1>2 DEF Patch, used
    <2>3. /\ op' \in [Operators -> Steps] /\ attempt' \in [Operators -> 0 .. Attempts]
          /\ \A q \in Operators : op'[q] = "patch" => op[q] = "patch"
      BY <1>1, <2>2 DEF Steps
    <2> QED BY <1>1, <2>1, <2>2, <2>3, StoreBase
  <1>3. CASE ~Patch(o)
    <2>1. /\ UNCHANGED <<release, shown, everLive, everComplete, job, runs, edits>>
          /\ overlapped' \in BOOLEAN /\ (overlapped => overlapped')
      BY <1>1, <1>3 DEF OpNext, Call, FetchRelease, Verify, Poll, PollFails, CallFails,
                        OpStep, Idly, used, past, Note
    <2>2. faults' \in 0 .. MaxFaults
      <3>1. faults' = faults \/ (faults < MaxFaults /\ faults' = faults + 1)
        BY <1>3 DEF OpNext, Call, FetchRelease, Verify, Poll, PollFails, CallFails,
                    OpStep, Idly, used
      <3> QED BY <1>1, <3>1
    <2>3. \E s \in Steps : /\ op' = [op EXCEPT ![o] = s]
                           /\ s = "patch" => Complete(shown)
      <3>1. op = [op EXCEPT ![o] = op[o]] /\ op[o] \in Steps
        BY <1>1
      <3>2. CASE Poll(o) \/ PollFails(o)
        <4>1. op[o] = "poll" /\ (op' = op \/ op' = [op EXCEPT ![o] = "idle"])
          BY <3>2 DEF Poll, PollFails, OpStep, End
        <4> QED BY <3>1, <4>1 DEF Steps
      <3>3. CASE Verify(o)
        <4>1. op' = [op EXCEPT ![o] = "idle"]
              \/ (op' = [op EXCEPT ![o] = "patch"] /\ Complete(shown))
          BY <3>3 DEF Verify, Go, End, Passes
        <4> QED BY <4>1 DEF Steps
      <3>4. CASE Call(o) \/ FetchRelease(o) \/ CallFails(o)
        <4>1. \/ op' = [op EXCEPT ![o] = "idle"]
              \/ op' = [op EXCEPT ![o] = "fetch"]
              \/ op' = [op EXCEPT ![o] = "verify"]
          BY <3>4 DEF Call, FetchRelease, CallFails, Go, End
        <4> QED BY <4>1 DEF Steps
      <3> QED BY <1>3, <3>2, <3>3, <3>4 DEF OpNext
    <2>4. attempt' \in [Operators -> 0 .. Attempts]
      <3>1. MayPoll(attempt[o]) => [attempt EXCEPT ![o] = @ + 1] \in [Operators -> 0 .. Attempts]
        BY <1>1 DEF MayPoll
      <3> QED BY <1>1, <1>3, <3>1 DEF OpNext, Call, FetchRelease, Verify, Poll, PollFails,
                                      CallFails, Go, End
    <2>5. \/ result' = result
          \/ result' = [result EXCEPT ![o] = "error"]
          \/ result' = [result EXCEPT ![o] = "ok"] /\ everLive
      <3>1. CASE Call(o) \/ Verify(o) \/ PollFails(o) \/ CallFails(o)
        BY <3>1 DEF Call, Verify, PollFails, CallFails, Go, End
      <3>2. CASE FetchRelease(o) \/ Poll(o)
        BY <1>1, <3>2 DEF FetchRelease, Poll, Go, End, Already
      <3> QED BY <1>3, <3>1, <3>2 DEF OpNext
    <2>6. /\ op' \in [Operators -> Steps]
          /\ \A q \in Operators : op'[q] = "patch" => op[q] = "patch" \/ Complete(shown)
      BY <1>1, <2>3
    <2>7. /\ result' \in [Operators -> {"none", "ok", "error"}]
          /\ \A q \in Operators : result'[q] = "ok" => result[q] = "ok" \/ everLive
      BY <1>1, <2>5
    <2> QED BY <1>1, <2>1, <2>2, <2>4, <2>6, <2>7, IdleBase
  <1> QED BY <1>2, <1>3

-----------------------------------------------------------------------------
(* Until something overlaps                                                  *)

LEMMA PropagateClean == ASSUME PublishBase, Clean, Propagate PROVE Clean'
  <1>1. /\ shown' = release /\ release' = release /\ job' = job /\ runs' = runs
        /\ edits' = edits /\ op' = op
    BY DEF Propagate, used, desk
  <1>2. NoRunNoRelease' /\ JobsWork' /\ PublishedIsComplete'
    BY <1>1 DEF Clean, NoRunNoRelease, JobsWork, PublishedIsComplete, Busy, Live, Complete
  <1>3. OperatorsWork'
    BY <1>1 DEF Clean, OperatorsWork, Complete, Busy
  <1> QED BY <1>2, <1>3 DEF Clean

LEMMA JobStartsClean == ASSUME PublishBase, Clean, JobStarts, ~overlapped' PROVE Clean'
  <1>1. /\ job = "idle" /\ job' = "create" /\ runs' = runs + 1
        /\ release' = release /\ shown' = shown /\ edits' = edits /\ op' = op
        /\ runs > 0 => ~Busy
    BY DEF JobStarts, desk, Note
  <1>2. runs \in Nat
    BY PublishTyping DEF PublishBase
  <1>3. Busy' <=> Busy
    BY <1>1 DEF Busy
  <1>4. runs' # 0 /\ (runs' <= 1 => runs = 0 /\ runs <= 1) /\ (runs' > 1 => ~Busy)
    BY <1>1, <1>2
  <1>5. JobsWork' /\ NoRunNoRelease'
    <2>1. runs = 0 => release.assets = {} /\ ~release.exists
      BY DEF Clean, NoRunNoRelease, NoRelease
    <2> QED BY <1>1, <1>3, <1>4, <2>1 DEF JobsWork, NoRunNoRelease
  <1>6. OperatorsWork' /\ PublishedIsComplete'
    BY <1>1, <1>3, <1>4 DEF Clean, OperatorsWork, PublishedIsComplete, Live, Complete
  <1> QED BY <1>5, <1>6 DEF Clean

LEMMA CreateClean == ASSUME PublishBase, Clean, CreateOrUpdate PROVE Clean'
  <1>1. /\ job = "create" /\ job' = "tgz" /\ runs' = runs /\ edits' = edits /\ op' = op
        /\ release' = Updated(release) /\ shown' = shown
    BY DEF CreateOrUpdate, desk, used, Store
  <1>2. /\ Updated(release).draft /\ Updated(release).headings /\ Updated(release).exists
        /\ Updated(release).assets = release.assets
    BY DEF Updated, PublishBase, PublishTypeOK, Release
  <1>3. JobsWork' /\ NoRunNoRelease'
    BY <1>1, <1>2 DEF Clean, JobsWork, NoRunNoRelease, Busy
  <1>4. PublishedIsComplete'
    BY <1>1, <1>2 DEF PublishedIsComplete, Live
  <1>5. OperatorsWork'
    <2>1. \A o \in Operators : op[o] = "patch" => Complete(release')
      BY <1>1, <1>2 DEF Clean, OperatorsWork, Complete
    <2> QED BY <1>1, <1>2, <2>1 DEF Clean, OperatorsWork, Busy, Complete
  <1> QED BY <1>3, <1>4, <1>5 DEF Clean

\* Before its last upload no run of the job meets a release that is public.
LEMMA UploadClean ==
  ASSUME PublishBase, Clean, NEW a \in Assets, NEW then, UploadAsset(a, then),
         a = "tgz" => then = "spdx", a = "spdx" => then = "verify"
  PROVE  Clean'
  <1> DEFINE less == [release EXCEPT !.assets = @ \ {a}]
             more == [release EXCEPT !.assets = @ \union {a}]
  <1>0. a \in {"tgz", "spdx"} /\ Assets = {"tgz", "spdx"}
    BY DEF Assets
  <1>1. /\ job = a /\ runs' = runs /\ edits' = edits /\ op' = op /\ shown' = shown
        /\ \/ a \in release.assets /\ release' = less /\ job' = job
           \/ a \notin release.assets /\ release' = more /\ job' = then
    BY DEF UploadAsset, desk, used, Store
  <1>2. /\ release.exists \in BOOLEAN /\ release.draft \in BOOLEAN
        /\ release.headings \in BOOLEAN /\ release.assets \subseteq Assets /\ runs \in Nat
    BY PublishTyping DEF PublishBase
  <1>3. /\ \A r \in {less, more} : /\ r.exists = release.exists /\ r.draft = release.draft
                                  /\ r.headings = release.headings
        /\ less.assets = release.assets \ {a} /\ more.assets = release.assets \union {a}
    BY <1>0 DEF PublishBase, PublishTypeOK, Release
  <1>4. runs > 1 => release.draft /\ ~Busy
    BY <1>0, <1>1 DEF Clean, JobsWork
  <1>5. runs <= 1 => /\ a = "tgz" => release.assets = {}
                     /\ a = "spdx" => release.assets = {"tgz"}
    BY <1>0, <1>1 DEF Clean, JobsWork
  <1>6. ~Live(release) /\ runs # 0
    BY <1>0, <1>1, <1>2, <1>4, <1>5 DEF Clean, JobsWork, PublishedIsComplete, Live, Complete
  <1> HIDE DEF less, more
  <1>7. PICK r \in {less, more} : release' = r
    BY <1>1
  <1>8. /\ release'.exists = release.exists /\ release'.draft = release.draft
        /\ release'.headings = release.headings
    BY <1>3, <1>7
  <1>9. ~Live(release')
    BY <1>6, <1>8 DEF Live
  <1>10. runs <= 1 => release'.assets = release.assets \union {a} /\ job' = then
    BY <1>0, <1>1, <1>3, <1>5
  <1>11. Busy' <=> Busy
    BY <1>1 DEF Busy
  <1>12. JobsWork' /\ NoRunNoRelease'
    <2>1. CASE runs <= 1
      BY <1>0, <1>1, <1>2, <1>5, <1>6, <1>10, <2>1 DEF JobsWork, NoRunNoRelease
    <2>2. CASE runs > 1
      BY <1>1, <1>2, <1>4, <1>6, <1>8, <1>11, <2>2 DEF JobsWork, NoRunNoRelease
    <2> QED BY <1>2, <2>1, <2>2
  <1>13. OperatorsWork'
    <2>1. CASE runs <= 1
      <3>1. /\ release.assets \subseteq release'.assets
            /\ Complete(release) => release'.assets = Assets
        BY <1>0, <1>2, <1>10, <2>1 DEF Complete
      <3>2. \A o \in Operators : op[o] = "patch" => Complete(release')
        BY <1>8, <3>1 DEF Clean, OperatorsWork, Complete
      <3> QED BY <1>1, <1>8, <1>11, <3>1, <3>2 DEF Clean, OperatorsWork, Complete
    <2>2. CASE runs > 1
      <3>1. ~(runs <= 1) /\ ~Busy
        BY <1>2, <1>4, <2>2
      <3> QED BY <1>1, <1>11, <3>1 DEF OperatorsWork, Busy
    <2> QED BY <1>2, <2>1, <2>2
  <1>14. PublishedIsComplete'
    BY <1>9 DEF PublishedIsComplete, Live
  <1> QED BY <1>12, <1>13, <1>14 DEF Clean

\* A step of the job that stores nothing.
LEMMA JobEndsClean == ASSUME PublishBase, Clean, JobVerifies \/ JobFails PROVE Clean'
  <1>1. /\ release' = release /\ shown' = shown /\ runs' = runs /\ edits' = edits /\ op' = op
        /\ job' = "idle"
    BY DEF JobVerifies, JobFails, desk, used
  <1>2. JobsWork' /\ NoRunNoRelease'
    BY <1>1 DEF Clean, JobsWork, NoRunNoRelease, Busy
  <1>3. OperatorsWork' /\ PublishedIsComplete'
    BY <1>1 DEF Clean, OperatorsWork, PublishedIsComplete, Live, Complete, Busy
  <1> QED BY <1>2, <1>3 DEF Clean

LEMMA EditClean == ASSUME PublishBase, Clean, EditBody, ~overlapped' PROVE Clean'
  <1> DEFINE edited == [release EXCEPT !.headings = ~@]
  <1>1. /\ release.exists /\ release.draft /\ ~Busy
        /\ edits' = edits + 1 /\ release' = edited /\ shown' = shown
        /\ job' = job /\ runs' = runs /\ op' = op
    BY DEF EditBody, desk, Note, Store
  <1>2. /\ edited.draft = release.draft /\ edited.assets = release.assets
        /\ edited.exists = release.exists
    BY DEF PublishBase, PublishTypeOK, Release
  <1> HIDE DEF edited
  <1>3. Busy' <=> Busy
    BY <1>1 DEF Busy
  <1>4. JobsWork' /\ NoRunNoRelease'
    <2>1. runs # 0
      BY <1>1 DEF Clean, NoRunNoRelease, NoRelease
    <2> QED BY <1>1, <1>2, <1>3, <2>1 DEF Clean, JobsWork, NoRunNoRelease
  <1>5. OperatorsWork'
    <2>1. edits' # 0
      BY <1>1, PublishTyping DEF PublishBase
    <2> QED BY <1>1, <1>3, <2>1 DEF OperatorsWork, Busy
  <1>6. PublishedIsComplete'
    BY <1>1, <1>2 DEF PublishedIsComplete, Live
  <1> QED BY <1>4, <1>5, <1>6 DEF Clean

\* Who begins, begins with what GitHub shows of the draft at its present.
LEMMA OperatorClean ==
  ASSUME PublishBase, Clean, ~overlapped', NEW o \in Operators,
         OpNext(o) \/ PollFails(o) \/ CallFails(o), ~Patch(o)
  PROVE  Clean'
  <1>1. /\ release' = release /\ shown' = shown /\ job' = job /\ runs' = runs /\ edits' = edits
    BY DEF OpNext, Call, FetchRelease, Verify, Poll, PollFails, CallFails, OpStep, Idly, used
  <1>2. /\ op \in [Operators -> Steps] /\ runs \in Nat /\ edits \in Nat
        /\ release.assets \subseteq Assets
    BY PublishTyping DEF PublishBase, PublishTypeOK, Steps
  <1>3. CASE Call(o)
    <2>1. /\ op' = [op EXCEPT ![o] = "fetch"]
          /\ ~(runs > 1 /\ job # "idle")
          /\ ~((runs > 1 \/ edits > 0) /\ shown # release)
      BY <1>3 DEF Call, Go, Note
    <2>2. runs > 1 => job = "idle"
      BY <2>1
    <2>3. /\ shown.assets \subseteq release.assets
          /\ shown.headings => release.headings
      <3>1. CASE runs > 1 \/ edits > 0
        BY <2>1, <3>1
      <3>2. CASE runs <= 1 /\ edits = 0
        BY <3>2 DEF Clean, OperatorsWork
      <3> QED BY <1>2, <3>1, <3>2
    <2>4. \A q \in Operators : op'[q] = "patch" => op[q] = "patch"
      BY <1>2, <2>1
    <2>5. JobsWork' /\ NoRunNoRelease' /\ PublishedIsComplete'
      BY <1>1, <2>2 DEF Clean, JobsWork, NoRunNoRelease, PublishedIsComplete, Live, Complete
    <2>6. OperatorsWork'
      BY <1>1, <2>3, <2>4 DEF Clean, OperatorsWork, Complete
    <2> QED BY <2>5, <2>6 DEF Clean
  <1>4. CASE ~Call(o)
    <2>1. Busy /\ \E s \in Steps : /\ op' = [op EXCEPT ![o] = s]
                                   /\ s = "patch" => op[o] = "verify" /\ Passes(shown)
      <3>1. op = [op EXCEPT ![o] = op[o]] /\ op[o] \in Steps
        BY <1>2
      <3>2. CASE Poll(o) \/ PollFails(o)
        <4>1. op[o] = "poll" /\ (op' = op \/ op' = [op EXCEPT ![o] = "idle"])
          BY <3>2 DEF Poll, PollFails, OpStep, End
        <4> QED BY <3>1, <4>1 DEF Steps, Busy
      <3>3. CASE Verify(o)
        <4>1. /\ op[o] = "verify"
              /\ \/ op' = [op EXCEPT ![o] = "idle"]
                 \/ op' = [op EXCEPT ![o] = "patch"] /\ Passes(shown)
          BY <3>3 DEF Verify, OpStep, Go, End
        <4> QED BY <4>1 DEF Steps, Busy
      <3>4. CASE FetchRelease(o) \/ CallFails(o)
        <4>1. /\ op[o] # "idle"
              /\ \/ op' = [op EXCEPT ![o] = "idle"]
                 \/ op' = [op EXCEPT ![o] = "verify"]
          BY <3>4 DEF FetchRelease, CallFails, OpStep, Go, End
        <4> QED BY <4>1 DEF Steps, Busy
      <3> QED BY <1>4, <3>2, <3>3, <3>4 DEF OpNext
    <2>2. PICK s \in Steps : /\ op' = [op EXCEPT ![o] = s]
                             /\ s = "patch" => op[o] = "verify" /\ Passes(shown)
      BY <2>1
    <2>3. ASSUME s = "patch" PROVE Complete(release)
      <3>1. Complete(shown)
        BY <2>2, <2>3 DEF Passes
      <3> QED BY <1>2, <2>1, <3>1 DEF Clean, OperatorsWork, Complete
    <2>4. ASSUME NEW q \in Operators, op'[q] = "patch" PROVE Complete(release)
      BY <1>2, <2>2, <2>3, <2>4 DEF Clean, OperatorsWork
    <2>5. OperatorsWork'
      BY <1>1, <2>1, <2>4 DEF Clean, OperatorsWork, Complete
    <2>6. JobsWork' /\ NoRunNoRelease' /\ PublishedIsComplete'
      BY <1>1, <2>1 DEF Clean, JobsWork, NoRunNoRelease, PublishedIsComplete, Live, Complete
    <2> QED BY <2>5, <2>6 DEF Clean
  <1> QED BY <1>3, <1>4

LEMMA PatchClean == ASSUME PublishBase, Clean, NEW o \in Operators, Patch(o) PROVE Clean'
  <1> DEFINE public == [release EXCEPT !.draft = FALSE]
  <1>1. /\ op[o] = "patch" /\ release' = public /\ op' = [op EXCEPT ![o] = "poll"]
        /\ shown' = shown /\ job' = job /\ runs' = runs /\ edits' = edits
    BY DEF Patch, used, Store
  <1>2. /\ public.assets = release.assets
        /\ public.exists = release.exists /\ public.headings = release.headings
    BY DEF PublishBase, PublishTypeOK, Release
  <1> HIDE DEF public
  <1>3. Busy /\ Complete(release)
    BY <1>1 DEF Busy, Clean, OperatorsWork
  <1>4. Complete(release')
    BY <1>1, <1>2, <1>3 DEF Complete
  <1>5. JobsWork' /\ NoRunNoRelease'
    <2>1. runs # 0
      BY <1>3 DEF Clean, NoRunNoRelease, NoRelease, Complete
    <2>2. job \notin {"tgz", "spdx"} \/ runs <= 1
      BY <1>3, PublishTyping DEF PublishBase, Clean, JobsWork
    <2> QED BY <1>1, <1>2, <1>3, <2>1, <2>2, PublishTyping
            DEF PublishBase, Clean, JobsWork, NoRunNoRelease
  <1>6. OperatorsWork'
    <2>1. Complete(release)'
      BY <1>4 DEF Complete
    <2>2. shown'.assets \subseteq release'.assets /\ (shown'.headings => release'.headings)
      BY <1>1, <1>2, <1>3 DEF Clean, OperatorsWork
    <2> QED BY <2>1, <2>2 DEF OperatorsWork
  <1>7. PublishedIsComplete'
    BY <1>4 DEF PublishedIsComplete, Complete
  <1> QED BY <1>5, <1>6, <1>7 DEF Clean

-----------------------------------------------------------------------------
(* The invariant                                                             *)

LEMMA PublishStart == PublishInit => PublishInv
  <1> SUFFICES ASSUME PublishInit PROVE PublishInv
    OBVIOUS
  <1>1. NoRelease \in Release /\ ~Live(NoRelease) /\ ~Complete(NoRelease)
    BY DEF NoRelease, Release, Live, Complete
  <1>2. PublishTypeOK
    <2>1. /\ release \in Release /\ shown \in Release /\ job = "idle" /\ runs = 0
          /\ edits = 0 /\ faults = 0
          /\ op \in [Operators -> {"idle", "fetch", "verify", "patch", "poll"}]
          /\ attempt \in [Operators -> 0 .. Attempts]
          /\ result \in [Operators -> {"none", "ok", "error"}]
      BY <1>1, PublishAssumption DEF PublishInit
    <2>2. everLive \in BOOLEAN /\ everComplete \in BOOLEAN /\ overlapped \in BOOLEAN
      BY DEF PublishInit
    <2> QED BY <2>1, <2>2, PublishAssumption DEF PublishTypeOK
  <1>3. ~Busy /\ \A o \in Operators : op[o] = "idle"
    BY DEF PublishInit, Busy
  <1>4. Clean
    BY <1>1, <1>3 DEF PublishInit, Clean, NoRunNoRelease, JobsWork, OperatorsWork,
                      PublishedIsComplete
  <1>5. SuccessIsReal /\ Remembered
    BY <1>1, <1>3 DEF PublishInit, SuccessIsReal, Remembered
  <1> QED BY <1>2, <1>4, <1>5 DEF PublishInv, PublishBase

LEMMA PublishStep == PublishInv /\ [PublishNext]_publishVars => PublishInv'
  <1> SUFFICES ASSUME PublishInv, [PublishNext]_publishVars PROVE PublishInv'
    OBVIOUS
  <1>0. PublishBase /\ (overlapped \/ Clean)
    BY DEF PublishInv
  <1>1. CASE Propagate \/ JobStarts \/ JobNext \/ JobFails \/ EditBody
    <2>1. PublishBase' /\ (overlapped => overlapped')
      BY <1>0, <1>1, JobBase
    <2>2. ASSUME ~overlapped' PROVE Clean'
      <3>1. Clean
        BY <1>0, <2>1, <2>2
      <3>2. CASE UploadAsset("tgz", "spdx")
        BY <1>0, <3>1, <3>2, UploadClean DEF Assets
      <3>3. CASE UploadAsset("spdx", "verify")
        BY <1>0, <3>1, <3>3, UploadClean DEF Assets
      <3> QED BY <1>0, <1>1, <2>2, <3>1, <3>2, <3>3, PropagateClean, JobStartsClean,
                 CreateClean, JobEndsClean, EditClean DEF JobNext
    <2> QED BY <2>1, <2>2 DEF PublishInv
  <1>2. CASE \E o \in Operators : OpNext(o) \/ PollFails(o) \/ CallFails(o)
    <2>1. PICK o \in Operators : OpNext(o) \/ PollFails(o) \/ CallFails(o)
      BY <1>2
    <2>2. PublishBase' /\ (overlapped => overlapped')
      BY <1>0, <2>1, OpBase
    <2>3. ASSUME ~overlapped' PROVE Clean'
      BY <1>0, <2>1, <2>2, <2>3, OperatorClean, PatchClean
    <2> QED BY <2>2, <2>3 DEF PublishInv
  <1>3. CASE UNCHANGED publishVars
    <2>1. /\ release' = release /\ shown' = shown /\ job' = job /\ runs' = runs
          /\ edits' = edits /\ faults' = faults /\ op' = op /\ attempt' = attempt
          /\ result' = result
      BY <1>3 DEF publishVars, used, desk
    <2>2. everLive' = everLive /\ everComplete' = everComplete /\ overlapped' = overlapped
      BY <1>3 DEF publishVars, past
    <2>3. PublishBase'
      BY <1>0, <2>1, <2>2 DEF PublishBase, PublishTypeOK, SuccessIsReal, Remembered,
                              Live, Complete
    <2>4. Clean => Clean'
      BY <2>1 DEF Clean, NoRunNoRelease, JobsWork, OperatorsWork, PublishedIsComplete,
                  Busy, Live, Complete
    <2> QED BY <1>0, <2>2, <2>3, <2>4 DEF PublishInv
  <1> QED BY <1>1, <1>2, <1>3 DEF PublishNext

\* For any number of operators, runs of the job, edits and faults, in any order:
\* what is public had its headings and assets, still has them unless the draft
\* was re-made or edited while it was being published, and success is real.
THEOREM OnlyCompleteGoesPublic == MCSpec => []PublicationIsRight
  <1>1. MCInit => PublishInv
    BY PublishStart DEF MCInit
  <1>2. PublishInv /\ [MCNext]_mcVars => PublishInv'
    <2> SUFFICES ASSUME PublishInv, [MCNext]_mcVars PROVE [PublishNext]_publishVars
      BY PublishStep
    <2> QED BY DEF MCNext, RunsDelta, RunsBudget, RunsBody, RunsPublish, mcVars
  <1>3. PublishInv => PublicationIsRight
    BY DEF PublishInv, PublishBase, Remembered, Clean, PublishedIsComplete, OnlyOverlapSpoils,
           PublishedWasComplete, PublicationIsRight
  <1> QED BY <1>1, <1>2, <1>3, PTL DEF MCSpec

-----------------------------------------------------------------------------
(* Positions in sequences                                                    *)

\* The list of shas names each of the answer once.
LEMMA EachShaOnce ==
  ASSUME NEW s \in Seq(Shas \union {NoSha})
  PROVE  /\ Unique(s) \in Seq(Shas)
         /\ \A i, j \in DOMAIN Unique(s) : Unique(s)[i] = Unique(s)[j] => i = j
  <1> DEFINE F == Firsts(s)
             n == Len(s)
             c == Cardinality(F)
             o == InOrder(F)
             u == Unique(s)
  <1>1. n \in Nat /\ DOMAIN s = 1 .. n /\ F \in SUBSET (1 .. n)
    BY DEF Firsts
  <1>2. \A i \in F : s[i] \in Shas
    BY <1>1 DEF Firsts
  <1>3. \A i, j \in F : s[i] = s[j] => i = j
    BY <1>1 DEF Firsts
  <1>4. u = Picked(s, F)
    BY DEF Unique
  <1> HIDE DEF F, u
  <1>5. /\ u \in Seq(Shas \union {NoSha}) /\ DOMAIN u = 1 .. c /\ Len(u) = c /\ c \in Nat
        /\ o \in [1 .. c -> F] /\ \A k \in 1 .. c : u[k] = s[o[k]]
    <2>1. /\ Picked(s, F) \in Seq(Shas \union {NoSha}) /\ DOMAIN Picked(s, F) = 1 .. c
          /\ Len(Picked(s, F)) = c /\ c \in Nat
          /\ o \in [1 .. c -> F] /\ \A k \in 1 .. c : Picked(s, F)[k] = s[o[k]]
      <3>1. F \in SUBSET (DOMAIN s)
        BY <1>1
      <3> QED BY <3>1, PickedEntries
    <2> HIDE DEF c, o
    <2> QED BY <1>4, <2>1
  <1>6. \A k, l \in 1 .. c : o[k] = o[l] => k = l
    BY <1>1, OrderOfPositions
  <1> HIDE DEF c, o
  <1>7. \A k \in 1 .. c : u[k] \in Shas
    BY <1>2, <1>5
  <1>8. u \in Seq(Shas)
    BY <1>5, <1>7
  <1>9. ASSUME NEW k \in DOMAIN u, NEW l \in DOMAIN u, u[k] = u[l] PROVE k = l
    <2>1. o[k] \in F /\ o[l] \in F /\ s[o[k]] = s[o[l]]
      BY <1>5, <1>9
    <2>2. o[k] = o[l]
      BY <1>3, <2>1, Zenon
    <2> QED BY <1>5, <1>6, <2>2
  <1> QED BY <1>8, <1>9 DEF u

\* Leaving out the first ones keeps that.
LEMMA WithoutTheFirst ==
  ASSUME NEW u \in Seq(Shas), NEW k \in Nat,
         \A i, j \in DOMAIN u : u[i] = u[j] => i = j
  PROVE  LET l == SubSeq(u, k + 1, Len(u))
         IN  /\ l \in Seq(Shas)
             /\ \A i, j \in DOMAIN l : l[i] = l[j] => i = j
             /\ l = SubSeq(u, Len(u) - Len(l) + 1, Len(u))
  <1> DEFINE l == SubSeq(u, k + 1, Len(u))
  <1>1. CASE k < Len(u)
    <2>1. /\ l \in Seq(Shas) /\ Len(l) = Len(u) - k
          /\ \A i \in 1 .. Len(u) - k : l[i] = u[k + i] /\ k + i \in 1 .. Len(u)
      BY <1>1
    <2> HIDE DEF l
    <2>2. DOMAIN l = 1 .. Len(u) - k
      BY <2>1
    <2>3. \A i, j \in DOMAIN l : l[i] = l[j] => i = j
      <3>1. SUFFICES ASSUME NEW i \in 1 .. Len(u) - k, NEW j \in 1 .. Len(u) - k, l[i] = l[j]
                     PROVE  i = j
        BY <2>2
      <3>2. DOMAIN u = 1 .. Len(u) /\ u[k + i] = u[k + j] /\ k + i \in 1 .. Len(u) /\ k + j \in 1 .. Len(u)
        BY <2>1, <3>1
      <3>3. k + i = k + j /\ i \in Int /\ j \in Int /\ k \in Int
        BY <3>1, <3>2
      <3> QED BY <3>3
    <2>4. l = SubSeq(u, Len(u) - Len(l) + 1, Len(u))
      <3>1. Len(l) = Len(u) - k /\ Len(u) \in Int /\ k \in Int
        BY <2>1
      <3>2. Len(u) - Len(l) + 1 = k + 1
        BY <3>1
      <3>3. l = SubSeq(u, k + 1, Len(u))
        BY Zenon DEF l
      <3> QED BY <3>2, <3>3, Zenon
    <2> QED BY <2>1, <2>3, <2>4 DEF l
  <1>2. CASE k >= Len(u)
    <2>1. l = << >> /\ SubSeq(u, Len(u) + 1, Len(u)) = << >>
      BY <1>2
    <2> HIDE DEF l
    <2>2. Len(u) - Len(l) + 1 = Len(u) + 1
      BY <2>1
    <2>3. l = SubSeq(u, Len(u) - Len(l) + 1, Len(u))
      BY <2>1, <2>2
    <2>4. l \in Seq(Shas) /\ \A i, j \in DOMAIN l : l[i] = l[j] => i = j
      BY <2>1
    <2> QED BY <2>3, <2>4 DEF l
  <1>3. Len(u) \in Int /\ k \in Int
    OBVIOUS
  <1>4. k < Len(u) \/ k >= Len(u)
    BY <1>3
  <1> QED BY <1>1, <1>2, <1>4, Zenon

LEMMA LatestOnes ==
  ASSUME NEW u \in Seq(Shas), MaxCommits \in Int,
         \A i, j \in DOMAIN u : u[i] = u[j] => i = j
  PROVE  LET l == Limited(u)
         IN  /\ l \in Seq(Shas)
             /\ \A i, j \in DOMAIN l : l[i] = l[j] => i = j
             /\ l = SubSeq(u, Len(u) - Len(l) + 1, Len(u))
  <1>1. PICK k \in Nat : Limited(u) = SubSeq(u, k + 1, Len(u))
    <2>1. CASE Len(u) > MaxCommits /\ MaxCommits > 0
      <3>1. Len(u) - MaxCommits \in Nat /\ Limited(u) = SubSeq(u, Len(u) - MaxCommits + 1, Len(u))
        BY <2>1 DEF Limited
      <3> QED BY <3>1
    <2>2. CASE Len(u) > MaxCommits /\ ~(MaxCommits > 0)
      <3>1. -MaxCommits \in Nat /\ Limited(u) = SubSeq(u, -MaxCommits + 1, Len(u))
        BY <2>2 DEF Limited
      <3> QED BY <3>1
    <2>3. CASE ~(Len(u) > MaxCommits)
      <3>1. Limited(u) = u
        BY <2>3, Zenon DEF Limited
      <3>2. u = SubSeq(u, 0 + 1, Len(u))
        OBVIOUS
      <3> QED BY <3>1, <3>2
    <2> QED BY <2>1, <2>2, <2>3
  <1> DEFINE l == SubSeq(u, k + 1, Len(u))
  <1>2. /\ l \in Seq(Shas)
        /\ \A i, j \in DOMAIN l : l[i] = l[j] => i = j
        /\ l = SubSeq(u, Len(u) - Len(l) + 1, Len(u))
    BY WithoutTheFirst
  <1> HIDE DEF l
  <1>3. Limited(u) = l
    BY <1>1 DEF l
  <1> QED BY <1>2, <1>3

-----------------------------------------------------------------------------
(* ReleaseDelta                                                              *)

SeenPublished ==
    /\ Published(github) \subseteq published
    /\ Published(listed) \subseteq published

\* Until somebody changes the releases, what was received is their beginning,
\* and all that the pages hold when the last one has come.
ListedSoFar ==
    changes = 0 =>
        /\ github = atStart
        /\ phase = "list" => listed = SubSeq(github, 1, Least((page - 1) * PerPage, Len(github)))
        /\ phase \in {"select", "commits", "fetch", "written"} => listed = Newest(github)

Collected ==
    /\ phase = "list" => page <= MaxPages
    /\ phase \in {"list", "select", "commits"} => fetched = 0 /\ shas = << >>
    /\ phase \in {"fetch", "written"} =>
           /\ \A i, j \in DOMAIN shas : shas[i] = shas[j] => i = j
           /\ LET named == Unique(answer)
              IN  shas = SubSeq(named, Len(named) - Len(shas) + 1, Len(named))
    /\ phase = "written" => fetched = Len(shas)

DeltaInv ==
    /\ DeltaTypeOK
    /\ OnePerTag(atStart)
    /\ SeenPublished
    /\ ListedSoFar
    /\ PreviousWasPublished
    /\ PreviousIsRight
    /\ Collected

LEMMA ListType ==
  ASSUME NEW rs \in Seq(ListedRelease)
  PROVE  /\ DOMAIN rs = 1 .. Len(rs) /\ Len(rs) \in Nat
         /\ \A i \in DOMAIN rs : rs[i] \in ListedRelease
         /\ \A i \in DOMAIN rs : rs[i].tag \in Tags /\ rs[i].draft \in BOOLEAN
         /\ Published(rs) \subseteq Tags
  <1>1. /\ DOMAIN rs = 1 .. Len(rs) /\ Len(rs) \in Nat
        /\ \A i \in DOMAIN rs : rs[i] \in ListedRelease
    OBVIOUS
  <1>2. \A i \in DOMAIN rs : rs[i].tag \in Tags /\ rs[i].draft \in BOOLEAN
    BY <1>1 DEF ListedRelease
  <1>3. Published(rs) \subseteq Tags
    BY <1>2 DEF Published
  <1> QED BY <1>1, <1>2, <1>3

LEMMA DeltaTyping ==
  ASSUME DeltaTypeOK
  PROVE  /\ github \in Seq(ListedRelease)
         /\ listed \in Seq(ListedRelease)
         /\ atStart \in Seq(ListedRelease)
         /\ changes \in Nat /\ page \in Nat /\ page >= 1
         /\ PerPage \in Nat /\ PerPage >= 1 /\ MaxPages \in Nat /\ MaxPages >= 1
         /\ MaxCommits \in Int /\ MaxLength \in Nat
  <1>1. /\ PerPage \in Nat /\ PerPage >= 1 /\ MaxPages \in Nat /\ MaxPages >= 1
        /\ MaxCommits \in Int /\ MaxLength \in Nat /\ MaxChanges \in Nat
    BY DeltaAssumption
  <1>2. changes \in Nat /\ page \in Nat /\ page >= 1
    BY <1>1 DEF DeltaTypeOK
  <1> QED BY <1>1, <1>2 DEF DeltaTypeOK

\* Who else is published when two lists are joined, or a part is taken: nobody.
LEMMA PublishedParts ==
  ASSUME NEW rs \in Seq(ListedRelease), NEW a \in Nat \ {0}, NEW b \in Nat, b <= Len(rs)
  PROVE  /\ SubSeq(rs, a, b) \in Seq(ListedRelease)
         /\ Published(SubSeq(rs, a, b)) \subseteq Published(rs)
  <1> DEFINE part == SubSeq(rs, a, b)
  <1>1. CASE a <= b
    <2>1. /\ part \in Seq(ListedRelease) /\ DOMAIN part = 1 .. b - a + 1
          /\ \A i \in 1 .. b - a + 1 : part[i] = rs[a + i - 1] /\ a + i - 1 \in DOMAIN rs
      BY <1>1
    <2> HIDE DEF part
    <2>2. Published(part) \subseteq Published(rs)
      BY <2>1 DEF Published
    <2> QED BY <2>1, <2>2 DEF part
  <1>2. CASE a > b
    <2>1. part = << >>
      BY <1>2
    <2>2. Published(<< >>) = {}
      BY DEF Published
    <2> QED BY <2>1, <2>2
  <1> QED BY <1>1, <1>2

LEMMA PublishedJoined ==
  ASSUME NEW r1 \in Seq(ListedRelease), NEW r2 \in Seq(ListedRelease)
  PROVE  /\ r1 \o r2 \in Seq(ListedRelease)
         /\ Published(r1 \o r2) \subseteq Published(r1) \union Published(r2)
  <1> DEFINE all == r1 \o r2
  <1>1. /\ all \in Seq(ListedRelease) /\ DOMAIN all = 1 .. Len(r1) + Len(r2)
        /\ \A i \in DOMAIN all : \/ i \in DOMAIN r1 /\ all[i] = r1[i]
                                 \/ i - Len(r1) \in DOMAIN r2 /\ all[i] = r2[i - Len(r1)]
    OBVIOUS
  <1> HIDE DEF all
  <1>2. Published(all) \subseteq Published(r1) \union Published(r2)
    BY <1>1 DEF Published
  <1> QED BY <1>1, <1>2 DEF all

LEMMA Splice ==
  ASSUME NEW s \in Seq(ListedRelease), NEW a \in Nat, NEW b \in Nat, a <= b, b <= Len(s)
  PROVE  SubSeq(s, 1, a) \o SubSeq(s, a + 1, b) = SubSeq(s, 1, b)
  OBVIOUS

\* A page continues where the last one ended; a short one is the last.
LEMMA NextPage ==
  ASSUME NEW s \in Seq(ListedRelease), NEW a \in Nat, NEW n \in Nat \ {0}, NEW b \in Nat, b = a + n
  PROVE  /\ SubSeq(s, 1, Least(a, Len(s))) \o SubSeq(s, a + 1, Least(b, Len(s)))
                = SubSeq(s, 1, Least(b, Len(s)))
         /\ Len(SubSeq(s, a + 1, Least(b, Len(s)))) < n => Least(b, Len(s)) = Len(s)
  <1>0. Len(s) \in Nat /\ Len(s) <= Len(s)
    OBVIOUS
  <1>1. CASE b <= Len(s)
    <2>1. Least(b, Len(s)) = b /\ Least(a, Len(s)) = a
      BY <1>1 DEF Least
    <2>2. Len(SubSeq(s, a + 1, b)) = n
      BY <1>1
    <2>3. SubSeq(s, 1, a) \o SubSeq(s, a + 1, b) = SubSeq(s, 1, b)
      BY <1>1, Splice
    <2> QED BY <2>1, <2>2, <2>3
  <1>2. CASE b > Len(s) /\ a <= Len(s)
    <2>1. Least(b, Len(s)) = Len(s) /\ Least(a, Len(s)) = a
      BY <1>2 DEF Least
    <2>2. SubSeq(s, 1, a) \o SubSeq(s, a + 1, Len(s)) = SubSeq(s, 1, Len(s))
      BY <1>0, <1>2, Splice
    <2> QED BY <2>1, <2>2
  <1>3. CASE a > Len(s)
    <2>1. Least(b, Len(s)) = Len(s) /\ Least(a, Len(s)) = Len(s)
      BY <1>3 DEF Least
    <2>2. SubSeq(s, a + 1, Len(s)) = << >>
      BY <1>3
    <2>3. SubSeq(s, 1, Len(s)) \o << >> = SubSeq(s, 1, Len(s))
      OBVIOUS
    <2>4. SubSeq(s, 1, Len(s)) \o SubSeq(s, a + 1, Len(s)) = SubSeq(s, 1, Len(s))
      BY <2>2, <2>3
    <2> QED BY <2>1, <2>4
  <1>4. b <= Len(s) \/ (b > Len(s) /\ a <= Len(s)) \/ a > Len(s)
    BY <1>0
  <1> QED BY <1>1, <1>2, <1>3, <1>4, Zenon

LEMMA TimesGrows ==
  ASSUME NEW i \in Nat, NEW j \in Nat, NEW n \in Nat, i <= j
  PROVE  i * n <= j * n
  <1>1. (j - i) \in Nat /\ (j - i) * n \in Nat
    OBVIOUS
  <1>2. j * n = i * n + (j - i) * n
    OBVIOUS
  <1>3. i * n \in Nat
    OBVIOUS
  <1> QED BY <1>1, <1>2, <1>3

LEMMA PageEnds ==
  ASSUME NEW p \in Nat \ {0}, NEW n \in Nat
  PROVE  (p - 1) * n \in Nat /\ p * n \in Nat /\ p * n = (p - 1) * n + n
  OBVIOUS

\* The release the notes start from was received, and not as a draft.
LEMMA SelectedIsPublished ==
  ASSUME listed \in Seq(ListedRelease), Selected # NoTag
  PROVE  Selected \in Published(listed)
  <1> DEFINE mine == {i \in Filtered : listed[i].tag = Current}
             next == IF mine = {} THEN Filtered ELSE {i \in Filtered : i > Min(mine)}
  <1>1. Filtered \subseteq 1 .. Len(listed) /\ Len(listed) \in Nat
        /\ \A i \in Filtered : i \in DOMAIN listed /\ ~listed[i].draft
    BY ListType DEF Filtered
  <1>2. next \subseteq Filtered
    OBVIOUS
  <1>3. Selected = IF next = {} THEN NoTag ELSE listed[Min(next)].tag
    BY DEF Selected
  <1> HIDE DEF next
  <1>4. next # {} /\ Selected = listed[Min(next)].tag
    BY <1>3
  <1>5. next \subseteq Nat
    BY <1>1, <1>2
  <1>6. Min(next) \in next
    BY <1>4, <1>5, Smallest
  <1> QED BY <1>1, <1>2, <1>4, <1>6 DEF Published

\* When all releases were received as they were at the start, it is the
\* release before the current one.
LEMMA SelectedIsBefore ==
  ASSUME listed \in Seq(ListedRelease), OnePerTag(listed)
  PROVE  Selected = Before(listed, Current)
  <1> DEFINE mine == {i \in Filtered : listed[i].tag = Current}
             next == IF mine = {} THEN Filtered ELSE {i \in Filtered : i > Min(mine)}
             after == {i \in DOMAIN listed : /\ ~listed[i].draft /\ listed[i].tag # Current
                                             /\ \A j \in DOMAIN listed :
                                                  ~listed[j].draft /\ listed[j].tag = Current => i > j}
  <1>1. /\ Filtered \subseteq DOMAIN listed /\ DOMAIN listed \subseteq Nat
        /\ \A i \in DOMAIN listed : i \in Filtered <=> ~listed[i].draft
    BY ListType DEF Filtered
  <1>2. after = {i \in Filtered : listed[i].tag # Current /\ \A j \in mine : i > j}
    BY <1>1
  <1>3. CASE mine = {}
    <2>1. next = Filtered
      BY <1>3
    <2>2. after = Filtered
      BY <1>2, <1>3
    <2> QED BY <2>1, <2>2 DEF Selected, Before
  <1>4. CASE mine # {}
    <2>1. mine \subseteq Filtered /\ mine \subseteq Nat
      BY <1>1
    <2>2. Min(mine) \in mine
      <3> HIDE DEF mine
      <3> QED BY <1>4, <2>1, Smallest
    <2>3. Min(mine) \in Nat /\ \A i \in Filtered : listed[i].tag = Current <=> i = Min(mine)
      BY <1>1, <2>1, <2>2 DEF OnePerTag
    <2>4. \A j : j \in mine <=> j = Min(mine)
      BY <2>2, <2>3
    <2>5. after = {i \in Filtered : i > Min(mine)}
      <3> DEFINE m == Min(mine)
      <3> HIDE DEF m
      <3>1. m \in Nat /\ (\A i \in Filtered : listed[i].tag = Current <=> i = m)
                      /\ \A j : j \in mine <=> j = m
        BY <2>3, <2>4 DEF m
      <3> HIDE DEF mine
      <3>2. \A i \in Filtered : (listed[i].tag # Current /\ \A j \in mine : i > j) <=> i > m
        BY <1>1, <3>1
      <3>3. after = {i \in Filtered : i > m}
        <4> HIDE DEF after
        <4> QED BY <1>2, <3>2
      <3> QED BY <3>3 DEF m
    <2>6. next = after
      BY <1>4, <2>5
    <2>7. Selected = IF next = {} THEN NoTag ELSE listed[Min(next)].tag
      BY DEF Selected
    <2>8. Before(listed, Current) = IF after = {} THEN NoTag ELSE listed[Min(after)].tag
      BY DEF Before
    <2> HIDE DEF next, after
    <2> QED BY <2>6, <2>7, <2>8
  <1> QED BY <1>3, <1>4

LEMMA PublishedOne ==
  ASSUME NEW r \in ListedRelease
  PROVE  [r EXCEPT !.draft = FALSE] \in ListedRelease
  BY DEF ListedRelease

\* The maintainers change the list.
LEMMA GitHubKeeps ==
  ASSUME DeltaInv, GitHubChanges, github' \in Seq(ListedRelease)
  PROVE  DeltaInv'
  <1>1. /\ changes' \in 0 .. MaxChanges /\ changes' # 0
    BY DeltaTyping, DeltaAssumption DEF DeltaInv, GitHubChanges
  <1>2. /\ page' = page /\ listed' = listed /\ previous' = previous /\ answer' = answer
        /\ shas' = shas /\ fetched' = fetched /\ phase' = phase /\ atStart' = atStart
        /\ published' = published \union Published(github')
    BY DEF GitHubChanges, run
  <1>3. published' \subseteq Tags
    BY <1>2, ListType DEF DeltaInv, DeltaTypeOK
  <1>4. DeltaTypeOK'
    BY <1>1, <1>2, <1>3 DEF DeltaInv, DeltaTypeOK
  <1>5. SeenPublished' /\ PreviousWasPublished'
    BY <1>2 DEF DeltaInv, SeenPublished, PreviousWasPublished, Published
  <1>6. OnePerTag(atStart)'
    BY <1>2 DEF DeltaInv, OnePerTag
  <1>7. ListedSoFar' /\ PreviousIsRight'
    BY <1>1 DEF ListedSoFar, PreviousIsRight
  <1>8. Collected'
    <2>1. Unique(answer)' = Unique(answer)
      BY <1>2 DEF Unique, Firsts
    <2> QED BY <1>2, <2>1 DEF DeltaInv, Collected
  <1> QED BY <1>4, <1>5, <1>6, <1>7, <1>8 DEF DeltaInv

LEMMA MaintainersKeep ==
  ASSUME DeltaInv, CreateDraft \/ Publish \/ Delete
  PROVE  DeltaInv'
  <1>0. github \in Seq(ListedRelease) /\ GitHubChanges
    BY DeltaTyping DEF DeltaInv, CreateDraft, Publish, Delete
  <1>1. CASE CreateDraft
    <2>1. PICK t \in Tags : github' = <<[tag |-> t, draft |-> TRUE]>> \o github
      BY <1>1 DEF CreateDraft
    <2>2. [tag |-> t, draft |-> TRUE] \in ListedRelease
      BY DEF ListedRelease
    <2>3. github' \in Seq(ListedRelease)
      BY <1>0, <2>1, <2>2
    <2> QED BY <1>0, <2>3, GitHubKeeps
  <1>2. CASE Publish
    <2>1. PICK i \in DOMAIN github : github' = [github EXCEPT ![i].draft = FALSE]
      BY <1>2 DEF Publish
    <2>2. [github[i] EXCEPT !.draft = FALSE] \in ListedRelease
      BY <1>0, ListType, PublishedOne
    <2>3. github' \in Seq(ListedRelease)
      BY <1>0, <2>1, <2>2
    <2> QED BY <1>0, <2>3, GitHubKeeps
  <1>3. CASE Delete
    <2>1. PICK i \in DOMAIN github : github' = RemoveAt(github, i)
      BY <1>3 DEF Delete
    <2>2. i \in 1 .. Len(github) /\ Len(github) \in Nat
      BY <1>0, <2>1
    <2>3. /\ SubSeq(github, 1, i - 1) \in Seq(ListedRelease)
          /\ SubSeq(github, i + 1, Len(github)) \in Seq(ListedRelease)
      BY <1>0, <2>2
    <2>4. github' \in Seq(ListedRelease)
      BY <2>1, <2>3 DEF RemoveAt
    <2> QED BY <1>0, <2>4, GitHubKeeps
  <1> QED BY <1>1, <1>2, <1>3

LEMMA ListPageKeeps ==
  ASSUME DeltaInv, ListPage
  PROVE  DeltaInv'
  <1>0. /\ github \in Seq(ListedRelease) /\ listed \in Seq(ListedRelease)
        /\ page \in Nat \ {0} /\ PerPage \in Nat \ {0} /\ MaxPages \in Nat \ {0}
        /\ Len(github) \in Nat
    BY DeltaTyping DEF DeltaInv
  <1>1. /\ phase = "list" /\ listed' = listed \o Chunk /\ page' = page + 1
        /\ phase' \in {"select", "list"}
        /\ phase' = "list" => page # MaxPages /\ ~(Len(Chunk) < PerPage)
        /\ phase' = "select" => page = MaxPages \/ Len(Chunk) < PerPage
        /\ github' = github /\ changes' = changes /\ previous' = previous /\ answer' = answer
        /\ shas' = shas /\ fetched' = fetched /\ atStart' = atStart /\ published' = published
    BY DEF ListPage, LastPage, history
  <1> DEFINE a == (page - 1) * PerPage
             b == page * PerPage
  <1>2. a \in Nat /\ b \in Nat /\ b = a + PerPage
    BY <1>0, PageEnds
  <1>3. Chunk = SubSeq(github, a + 1, Least(b, Len(github)))
    BY DEF Chunk
  <1>4. (page + 1 - 1) * PerPage = b
    BY <1>0
  <1>5. PerPage * MaxPages = MaxPages * PerPage
    BY <1>0
  <1> HIDE DEF a, b
  <1>6. Least(b, Len(github)) \in Nat /\ Least(b, Len(github)) <= Len(github)
    BY <1>0, <1>2 DEF Least
  <1>6a. /\ SubSeq(github, 1, Least(a, Len(github))) \o Chunk
                = SubSeq(github, 1, Least(b, Len(github)))
         /\ Len(Chunk) < PerPage => Least(b, Len(github)) = Len(github)
    BY <1>0, <1>2, <1>3, NextPage
  <1>6b. SubSeq(github, 1, Len(github)) = github
    BY <1>0
  <1>7. Chunk \in Seq(ListedRelease) /\ Published(Chunk) \subseteq Published(github)
    BY <1>0, <1>2, <1>3, <1>6, PublishedParts
  <1>8. /\ listed' \in Seq(ListedRelease)
        /\ Published(listed') \subseteq Published(listed) \union Published(github)
    BY <1>0, <1>1, <1>7, PublishedJoined
  <1>9. page <= MaxPages
    BY <1>1 DEF DeltaInv, Collected
  <1>10. DeltaTypeOK'
    <2>1. page' \in 1 .. MaxPages + 1
      BY <1>0, <1>1, <1>9
    <2> QED BY <1>1, <1>8, <2>1 DEF DeltaInv, DeltaTypeOK
  <1>11. OnePerTag(atStart)'
    BY <1>1 DEF DeltaInv, OnePerTag
  <1>12. SeenPublished'
    <2>1. Published(github)' = Published(github)
      BY <1>1 DEF Published
    <2>2. Published(listed)' = Published(listed')
      BY DEF Published
    <2> QED BY <1>1, <1>8, <2>1, <2>2 DEF DeltaInv, SeenPublished
  <1>13. ListedSoFar'
    <2> SUFFICES ASSUME changes = 0
                 PROVE  /\ github' = atStart'
                        /\ phase' = "list" =>
                             listed' = SubSeq(github', 1, Least((page' - 1) * PerPage, Len(github')))
                        /\ phase' \in {"select", "commits", "fetch", "written"} => listed' = Newest(github)'
      BY <1>1 DEF ListedSoFar
    <2>1. /\ github = atStart
          /\ listed = SubSeq(github, 1, Least(a, Len(github)))
      BY <1>1 DEF DeltaInv, ListedSoFar, a
    <2>2. listed' = SubSeq(github, 1, Least(b, Len(github)))
      BY <1>1, <1>6a, <2>1
    <2>3. (page' - 1) * PerPage = b
      BY <1>0, <1>1, <1>4
    <2>4. ASSUME phase' = "select" PROVE listed' = Newest(github)
      <3> DEFINE c == PerPage * MaxPages
      <3>0. b <= c /\ c \in Nat
        <4>1. page * PerPage <= MaxPages * PerPage
          BY <1>0, <1>9, TimesGrows
        <4> QED BY <1>0, <1>5, <4>1 DEF b
      <3>1. CASE Len(Chunk) < PerPage
        <4>1. Least(b, Len(github)) = Len(github)
          BY <1>6a, <3>1
        <4>2. Len(github) <= b
          BY <1>0, <1>2, <4>1 DEF Least
        <4> HIDE DEF c
        <4>3. Least(c, Len(github)) = Len(github)
          BY <1>0, <1>2, <3>0, <4>2 DEF Least
        <4> QED BY <2>2, <4>1, <4>3 DEF Newest, c
      <3>2. CASE page = MaxPages
        <4>1. b = c
          BY <1>5, <3>2 DEF b
        <4> QED BY <2>2, <4>1 DEF Newest
      <3> QED BY <1>1, <2>4, <3>1, <3>2
    <2>5. Newest(github)' = Newest(github)
      BY <1>1 DEF Newest, Least
    <2> QED BY <1>1, <2>1, <2>2, <2>3, <2>4, <2>5
  <1>14. PreviousWasPublished'
    BY <1>1 DEF DeltaInv, PreviousWasPublished
  <1>15. PreviousIsRight'
    BY <1>1 DEF PreviousIsRight
  <1>16. Collected'
    <2>1. phase' = "list" => page' <= MaxPages
      BY <1>0, <1>1, <1>9
    <2>2. fetched' = 0 /\ shas' = << >>
      BY <1>1 DEF DeltaInv, Collected
    <2> QED BY <1>1, <2>1, <2>2 DEF Collected
  <1> QED BY <1>10, <1>11, <1>12, <1>13, <1>14, <1>15, <1>16 DEF DeltaInv

LEMMA NewestOnce ==
  ASSUME NEW rs \in Seq(ListedRelease), OnePerTag(rs)
  PROVE  OnePerTag(Newest(rs))
  <1> DEFINE n == Least(PerPage * MaxPages, Len(rs))
             part == SubSeq(rs, 1, n)
  <1>1. PerPage * MaxPages \in Nat /\ Len(rs) \in Nat
    BY DeltaAssumption
  <1>2. n \in Nat /\ n <= Len(rs)
    BY <1>1 DEF Least
  <1> HIDE DEF n
  <1>3. /\ DOMAIN part = 1 .. n /\ DOMAIN rs = 1 .. Len(rs)
        /\ \A i \in 1 .. n : part[i] = rs[i] /\ i \in DOMAIN rs
    BY <1>2
  <1> HIDE DEF part
  <1>4. OnePerTag(part)
    BY <1>3 DEF OnePerTag
  <1> QED BY <1>4 DEF Newest, part, n

LEMMA SelectKeeps ==
  ASSUME DeltaInv, Select
  PROVE  DeltaInv'
  <1>1. /\ phase = "select" /\ previous' = Selected /\ phase' = "commits"
        /\ github' = github /\ changes' = changes /\ page' = page /\ listed' = listed
        /\ answer' = answer /\ shas' = shas /\ fetched' = fetched
        /\ atStart' = atStart /\ published' = published
    BY DEF Select, history
  <1>2. listed \in Seq(ListedRelease)
    BY DeltaTyping DEF DeltaInv
  <1>3. Selected # NoTag => Selected \in published /\ Selected \in Tags
    BY <1>2, SelectedIsPublished, ListType DEF DeltaInv, SeenPublished
  <1>4. DeltaTypeOK'
    BY <1>1, <1>3 DEF DeltaInv, DeltaTypeOK
  <1>5. PreviousWasPublished'
    BY <1>1, <1>3 DEF PreviousWasPublished
  <1>6. PreviousIsRight'
    <2> SUFFICES ASSUME changes = 0 PROVE Selected = Before(Newest(atStart), Current)
      BY <1>1 DEF PreviousIsRight, Before, Newest, Least
    <2>1. listed = Newest(atStart)
      BY <1>1 DEF DeltaInv, ListedSoFar
    <2>2. OnePerTag(listed)
      BY <2>1, NewestOnce, DeltaTyping DEF DeltaInv
    <2> QED BY <1>2, <2>1, <2>2, SelectedIsBefore
  <1>7. OnePerTag(atStart)' /\ SeenPublished'
    BY <1>1 DEF DeltaInv, OnePerTag, SeenPublished, Published
  <1>8. ListedSoFar'
    BY <1>1 DEF DeltaInv, ListedSoFar, Newest, Least
  <1>9. Collected'
    BY <1>1 DEF DeltaInv, Collected
  <1> QED BY <1>4, <1>5, <1>6, <1>7, <1>8, <1>9 DEF DeltaInv

LEMMA AnswerType ==
  ASSUME NEW s \in SeqOf(Shas \union {NoSha}, MaxLength)
  PROVE  s \in Seq(Shas \union {NoSha})
  BY DeltaAssumption DEF SeqOf

LEMMA CommitsKeeps ==
  ASSUME DeltaInv, Commits
  PROVE  DeltaInv'
  <1>1. /\ phase = "commits" /\ shas' = Limited(Unique(answer')) /\ phase' = "fetch"
        /\ answer' \in SeqOf(Shas \union {NoSha}, MaxLength)
        /\ github' = github /\ changes' = changes /\ page' = page /\ listed' = listed
        /\ previous' = previous /\ fetched' = fetched
        /\ atStart' = atStart /\ published' = published
    BY DEF Commits, history
  <1>2. answer' \in Seq(Shas \union {NoSha})
    BY <1>1, AnswerType
  <1> DEFINE u == Unique(answer')
  <1>3. u \in Seq(Shas) /\ \A i, j \in DOMAIN u : u[i] = u[j] => i = j
    BY <1>2, EachShaOnce
  <1> HIDE DEF u
  <1>4. /\ Limited(u) \in Seq(Shas)
        /\ \A i, j \in DOMAIN Limited(u) : Limited(u)[i] = Limited(u)[j] => i = j
        /\ Limited(u) = SubSeq(u, Len(u) - Len(Limited(u)) + 1, Len(u))
    BY <1>3, LatestOnes, DeltaAssumption
  <1>5. shas' = Limited(u) /\ fetched' = 0 /\ 0 \in 0 .. Len(Limited(u))
    BY <1>1, <1>4 DEF u, DeltaInv, Collected
  <1>6. DeltaTypeOK'
    BY <1>1, <1>2, <1>4, <1>5 DEF DeltaInv, DeltaTypeOK
  <1>7. Collected'
    <2>1. Unique(answer)' = u
      BY DEF u, Unique, Firsts
    <2> QED BY <1>1, <1>4, <1>5, <2>1 DEF Collected
  <1>8. OnePerTag(atStart)' /\ SeenPublished' /\ PreviousWasPublished'
    BY <1>1 DEF DeltaInv, OnePerTag, SeenPublished, PreviousWasPublished, Published
  <1>9. ListedSoFar'
    BY <1>1 DEF DeltaInv, ListedSoFar, Newest, Least
  <1>10. PreviousIsRight'
    BY <1>1 DEF DeltaInv, PreviousIsRight, Before, Newest, Least
  <1> QED BY <1>6, <1>7, <1>8, <1>9, <1>10 DEF DeltaInv

LEMMA FetchKeeps ==
  ASSUME DeltaInv, Fetch \/ RequestFails \/ UNCHANGED deltaVars
  PROVE  DeltaInv'
  <1>1. /\ github' = github /\ changes' = changes /\ page' = page /\ listed' = listed
        /\ previous' = previous /\ answer' = answer /\ shas' = shas
        /\ atStart' = atStart /\ published' = published
    BY DEF Fetch, RequestFails, deltaVars, run, history
  <1>2. /\ fetched' \in 0 .. Len(shas)
        /\ \/ phase' \in {"failed", phase}
           \/ phase = "fetch" /\ phase' = "written" /\ fetched' = Len(shas)
        /\ phase # "fetch" \/ phase' = "failed" => fetched' = fetched
    BY DEF Fetch, RequestFails, deltaVars, run, DeltaInv, DeltaTypeOK
  <1>3. DeltaTypeOK'
    BY <1>1, <1>2 DEF DeltaInv, DeltaTypeOK
  <1>4. OnePerTag(atStart)' /\ SeenPublished' /\ PreviousWasPublished'
    BY <1>1 DEF DeltaInv, OnePerTag, SeenPublished, PreviousWasPublished, Published
  <1>5. ListedSoFar'
    BY <1>1, <1>2 DEF DeltaInv, ListedSoFar, Newest, Least
  <1>6. PreviousIsRight'
    BY <1>1, <1>2 DEF DeltaInv, PreviousIsRight, Before, Newest, Least
  <1>7. Unique(answer)' = Unique(answer)
    BY <1>1 DEF Unique, Firsts
  <1>8. Collected'
    BY <1>1, <1>2, <1>7 DEF DeltaInv, Collected
  <1> QED BY <1>3, <1>4, <1>5, <1>6, <1>8 DEF DeltaInv

LEMMA DeltaStart ==
  ASSUME DeltaInit
  PROVE  DeltaInv
  <1>1. /\ github \in SeqOf(ListedRelease, MaxReleases) /\ OnePerTag(github)
        /\ changes = 0 /\ page = 1 /\ listed = << >> /\ phase = "list"
        /\ previous = NoTag /\ answer = << >> /\ shas = << >> /\ fetched = 0
        /\ atStart = github /\ published = Published(github)
    BY DEF DeltaInit
  <1>2. github \in Seq(ListedRelease)
    BY <1>1, DeltaAssumption DEF SeqOf
  <1>3. DeltaTypeOK
    BY <1>1, <1>2, ListType, DeltaAssumption DEF DeltaTypeOK
  <1>4. SeenPublished /\ PreviousWasPublished
    BY <1>1 DEF SeenPublished, PreviousWasPublished, Published
  <1>5. ListedSoFar
    <2>1. Least((page - 1) * PerPage, Len(github)) = 0
      BY <1>1, <1>2, DeltaAssumption DEF Least
    <2>2. SubSeq(github, 1, 0) = << >>
      BY <1>2
    <2> QED BY <1>1, <1>2, <2>1, <2>2 DEF ListedSoFar
  <1>6. PreviousIsRight /\ Collected
    BY <1>1, DeltaAssumption DEF PreviousIsRight, Collected
  <1> QED BY <1>1, <1>3, <1>4, <1>5, <1>6 DEF DeltaInv

LEMMA DeltaStep ==
  ASSUME DeltaInv, [DeltaNext]_deltaVars
  PROVE  DeltaInv'
  BY MaintainersKeep, ListPageKeeps, SelectKeeps, CommitsKeeps, FetchKeeps DEF DeltaNext

LEMMA DeltaIsRight ==
  ASSUME DeltaInv
  PROVE  DeltaTypeOK /\ PreviousWasPublished /\ PreviousIsRight /\ KeepsTheLatest
  BY DEF DeltaInv, Collected, KeepsTheLatest

-----------------------------------------------------------------------------
(* PatchBudget                                                               *)

\* File f of commit c ships, and was taken.
Taken(c, f) ==
    /\ c \in DOMAIN commits /\ c <= at
    /\ f \in DOMAIN commits[c]
    /\ commits[c][f].sort = "shipping"
    /\ c < at \/ f < file

\* The commits before this one that have a shipping file.
Shown == {p[1] : p \in {q \in ShippedBefore : q[1] < at}}

BudgetInv ==
    /\ BudgetTypeOK
    /\ SpentWithinBudget
    /\ NothingIsLost
    /\ IsFiniteSet(ShippedBefore) /\ IsFiniteSet(Shown)
    /\ snippets # << >> <=> \E f : Taken(at, f)

ShippedPairs ==
    /\ \A q \in ShippedBefore : q = <<q[1], q[2]>> /\ Taken(q[1], q[2])
    /\ \A c, f : Taken(c, f) => <<c, f>> \in ShippedBefore

LEMMA ShippedIsTaken == ShippedPairs
  <1>1. \A q \in ShippedBefore : q = <<q[1], q[2]>> /\ Taken(q[1], q[2])
    <2> SUFFICES ASSUME NEW q \in ShippedBefore PROVE q = <<q[1], q[2]>> /\ Taken(q[1], q[2])
      OBVIOUS
    <2>1. PICK c \in {d \in DOMAIN commits : d <= at} :
              q \in {<<c, f>> : f \in {g \in DOMAIN commits[c] :
                        commits[c][g].sort = "shipping" /\ (c < at \/ g < file)}}
      BY DEF ShippedBefore
    <2>2. PICK f \in DOMAIN commits[c] :
              q = <<c, f>> /\ commits[c][f].sort = "shipping" /\ (c < at \/ f < file)
      BY <2>1
    <2> QED BY <2>1, <2>2 DEF Taken
  <1>2. ASSUME NEW c, NEW f, Taken(c, f) PROVE <<c, f>> \in ShippedBefore
    BY <1>2 DEF Taken, ShippedBefore
  <1> QED BY <1>1, <1>2 DEF ShippedPairs

LEMMA ShownAre ==
  \A c : c \in Shown <=> c < at /\ \E f : Taken(c, f)
  <1>1. ASSUME NEW c, c \in Shown PROVE c < at /\ \E f : Taken(c, f)
    BY <1>1, ShippedIsTaken DEF Shown, ShippedPairs
  <1>2. ASSUME NEW c, NEW f, c < at, Taken(c, f) PROVE c \in Shown
    <2>1. <<c, f>> \in {q \in ShippedBefore : q[1] < at}
      BY <1>2, ShippedIsTaken DEF ShippedPairs
    <2> QED BY <2>1 DEF Shown
  <1> QED BY <1>1, <1>2

LEMMA BudgetTyping ==
  ASSUME BudgetTypeOK
  PROVE  /\ commits \in Seq(Seq(File)) /\ Len(commits) \in Nat /\ DOMAIN commits = 1 .. Len(commits)
         /\ \A c \in DOMAIN commits : /\ commits[c] \in Seq(File) /\ Len(commits[c]) \in Nat
                                      /\ DOMAIN commits[c] = 1 .. Len(commits[c])
         /\ at \in Nat /\ at >= 1 /\ at <= Len(commits) + 1
         /\ file \in Nat /\ file >= 1
         /\ remaining \in Nat /\ remaining <= MaxPatch /\ MaxPatch \in Nat /\ Suffix \in Nat
         /\ snippets \in Seq(Nat) /\ ignored \in Nat /\ spent \in Nat
         /\ stats.kept \in Nat /\ stats.dropped \in Nat
         /\ stats.shipping \in Nat /\ stats.ignored \in Nat
  <1>1. /\ commits \in Seq(Seq(File)) /\ Len(commits) \in Nat /\ DOMAIN commits = 1 .. Len(commits)
        /\ \A c \in DOMAIN commits : commits[c] \in Seq(File)
    BY DEF BudgetTypeOK
  <1>2. \A c \in DOMAIN commits : Len(commits[c]) \in Nat /\ DOMAIN commits[c] = 1 .. Len(commits[c])
    BY <1>1
  <1>3. /\ at \in Nat /\ at >= 1 /\ at <= Len(commits) + 1
        /\ file \in Nat /\ file >= 1
        /\ remaining \in Nat /\ remaining <= MaxPatch /\ MaxPatch \in Nat /\ Suffix \in Nat
    BY <1>1, BudgetAssumption DEF BudgetTypeOK
  <1> QED BY <1>1, <1>2, <1>3 DEF BudgetTypeOK

\* A shipping file takes what is left, or leaves what it does not take.
LEMMA BudgetIsKept ==
  ASSUME BudgetTypeOK, SpentWithinBudget, NEW patch \in Nat
  PROVE  LET n == Snippet(patch)
         IN  /\ n \in Nat /\ Left(n) \in 0 .. MaxPatch
             /\ spent + n + Left(n) <= MaxPatch + Suffix
             /\ Left(n) > 0 => spent + n + Left(n) = MaxPatch
  <1>1. /\ remaining \in Nat /\ remaining <= MaxPatch /\ MaxPatch \in Nat /\ Suffix \in Nat
        /\ spent \in Nat
    BY BudgetTyping
  <1>2. /\ spent + remaining <= MaxPatch + Suffix
        /\ remaining > 0 => spent + remaining = MaxPatch
    BY DEF SpentWithinBudget
  <1>3. CASE remaining <= 0 \/ patch = 0
    BY <1>1, <1>2, <1>3 DEF Snippet, Left
  <1>4. CASE remaining > 0 /\ patch # 0 /\ patch > remaining
    BY <1>1, <1>2, <1>4 DEF Snippet, Left
  <1>5. CASE remaining > 0 /\ patch # 0 /\ patch <= remaining
    BY <1>1, <1>2, <1>5 DEF Snippet, Left
  <1> QED BY <1>1, <1>3, <1>4, <1>5

LEMMA TakeFileKeeps ==
  ASSUME BudgetInv, TakeFile
  PROVE  BudgetInv'
  <1>0. BudgetTypeOK
    BY DEF BudgetInv
  <1>1. /\ at <= Len(commits) /\ file <= Len(commits[at]) /\ file' = file + 1
        /\ commits' = commits /\ at' = at /\ curated' = curated /\ stats' = stats
    BY DEF TakeFile
  <1>2. /\ at \in DOMAIN commits /\ file \in DOMAIN commits[at]
        /\ commits[at][file] \in File
    BY <1>1, <1>0, BudgetTyping
  <1>3. commits[at][file].patch \in Nat
    BY <1>2 DEF File
  <1> DEFINE n == Snippet(commits[at][file].patch)
             ships == commits[at][file].sort = "shipping"
  <1>4. \/ /\ ~ships /\ snippets' = snippets /\ remaining' = remaining /\ spent' = spent
           /\ ignored' \in {ignored, ignored + 1}
        \/ /\ ships /\ snippets' = Append(snippets, n) /\ remaining' = Left(n)
           /\ spent' = spent + n /\ ignored' = ignored
    BY DEF TakeFile
  <1>5. /\ n \in Nat /\ Left(n) \in 0 .. MaxPatch
        /\ spent + n + Left(n) <= MaxPatch + Suffix
        /\ Left(n) > 0 => spent + n + Left(n) = MaxPatch
    BY <1>3, BudgetIsKept DEF BudgetInv
  <1>6. \A c, f : Taken(c, f)' <=> Taken(c, f) \/ (c = at /\ f = file /\ ships)
    <2> SUFFICES ASSUME NEW c, NEW f
                 PROVE  Taken(c, f)' <=> Taken(c, f) \/ (c = at /\ f = file /\ ships)
      OBVIOUS
    <2>1. Taken(c, f)' <=> /\ c \in DOMAIN commits /\ c <= at
                           /\ f \in DOMAIN commits[c]
                           /\ commits[c][f].sort = "shipping"
                           /\ c < at \/ f < file + 1
      BY <1>1 DEF Taken
    <2>2. CASE c \in DOMAIN commits /\ f \in DOMAIN commits[c]
      <3>1. c \in Nat /\ f \in Nat /\ at \in Nat /\ file \in Nat
        BY <2>2, <1>0, BudgetTyping
      <3> QED BY <1>2, <2>1, <2>2, <3>1 DEF Taken
    <2>3. CASE ~(c \in DOMAIN commits /\ f \in DOMAIN commits[c])
      BY <1>2, <2>1, <2>3 DEF Taken
    <2> QED BY <2>2, <2>3
  <1>7. ~Taken(at, file)
    BY <1>0, BudgetTyping DEF Taken
  <1> HIDE DEF n, ships
  <1>8. BudgetTypeOK'
    <2>1. file' \in Nat \ {0}
      <3>1. file \in Nat
        BY <1>0, BudgetTyping
      <3> QED BY <1>1, <3>1
    <2>2. remaining' \in 0 .. MaxPatch /\ snippets' \in Seq(Nat) /\ ignored' \in Nat /\ spent' \in Nat
      <3>1. remaining \in 0 .. MaxPatch /\ snippets \in Seq(Nat) /\ ignored \in Nat /\ spent \in Nat
        BY DEF BudgetInv, BudgetTypeOK
      <3>2. Append(snippets, n) \in Seq(Nat) /\ spent + n \in Nat /\ ignored + 1 \in Nat
        BY <1>5, <3>1
      <3> QED BY <1>4, <1>5, <3>1, <3>2
    <2> QED BY <1>1, <2>1, <2>2 DEF BudgetInv, BudgetTypeOK
  <1>9. SpentWithinBudget'
    <2>1. SpentWithinBudget /\ spent \in Nat
      BY <1>0, BudgetTyping DEF BudgetInv
    <2>2. CASE ships
      BY <1>4, <1>5, <2>2 DEF SpentWithinBudget
    <2>3. CASE ~ships
      BY <1>4, <2>1, <2>3 DEF SpentWithinBudget
    <2> QED BY <2>2, <2>3
  <1>10. ShippedBefore' = IF ships THEN ShippedBefore \union {<<at, file>>} ELSE ShippedBefore
    <2>0. ShippedPairs'
      BY ShippedIsTaken, PTL
    <2>1. /\ \A q \in ShippedBefore' : q = <<q[1], q[2]>> /\ Taken(q[1], q[2])'
          /\ \A c, f : Taken(c, f)' => <<c, f>> \in ShippedBefore'
      BY <2>0 DEF ShippedPairs
    <2>2. ASSUME NEW q
          PROVE  q \in ShippedBefore' <=> q \in ShippedBefore \/ (ships /\ q = <<at, file>>)
      BY <1>6, <2>1, ShippedIsTaken DEF ShippedPairs
    <2> QED BY <2>2
  <1>11. <<at, file>> \notin ShippedBefore
    BY <1>7, ShippedIsTaken DEF ShippedPairs
  <1>12. Shown' = Shown
    <2>0. at \in Nat
      BY <1>0, BudgetTyping
    <2>1. \A q \in ShippedBefore' : q \in ShippedBefore \/ ~(q[1] < at)
      BY <1>10, <2>0
    <2>2. {q \in ShippedBefore' : q[1] < at} = {q \in ShippedBefore : q[1] < at}
      BY <1>10, <2>1
    <2> QED BY <1>1, <2>2 DEF Shown
  <1>13. IsFiniteSet(ShippedBefore') /\
         Cardinality(ShippedBefore') = IF ships THEN Cardinality(ShippedBefore) + 1
                                       ELSE Cardinality(ShippedBefore)
    BY <1>10, <1>11, FS_AddElement DEF BudgetInv
  <1>14. /\ Len(snippets') = IF ships THEN Len(snippets) + 1 ELSE Len(snippets)
         /\ snippets' # << >> <=> snippets # << >> \/ ships
    <2>1. snippets \in Seq(Nat)
      BY <1>0, BudgetTyping
    <2>2. /\ Len(Append(snippets, n)) = Len(snippets) + 1
          /\ Append(snippets, n) # << >>
      BY <1>5, <2>1
    <2> QED BY <1>4, <2>2
  <1>15. NothingIsLost'
    <2>1. stats.shipping' + Len(snippets') = Cardinality(ShippedBefore')
      <3>1. /\ stats.shipping \in Nat /\ snippets \in Seq(Nat) /\ stats' = stats
            /\ stats.shipping + Len(snippets) = Cardinality(ShippedBefore)
        BY <1>1, <1>0, BudgetTyping DEF BudgetInv, NothingIsLost
      <3>2. Len(snippets) \in Nat
        BY <3>1
      <3> QED BY <1>13, <1>14, <3>1, <3>2
    <2>2. /\ stats.kept + stats.dropped = at - 1
          /\ stats.kept = Len(curated)
          /\ \A i \in DOMAIN curated : curated[i] # << >>
          /\ stats.kept = Cardinality(Shown)
      BY DEF BudgetInv, NothingIsLost, Shown
    <2>3. stats.kept' = Cardinality(Shown')
      BY <1>1, <1>12, <2>2
    <2> QED BY <1>1, <2>1, <2>2, <2>3 DEF NothingIsLost, Shown
  <1>16. snippets' # << >> <=> \E f : Taken(at, f) \/ (f = file /\ ships)
    BY <1>14 DEF BudgetInv
  <1>17. (snippets # << >> <=> \E f : Taken(at, f))'
    <2>1. \A f : Taken(at, f)' <=> Taken(at, f) \/ (f = file /\ ships)
      BY <1>1, <1>6
    <2> QED BY <1>16, <2>1
  <1> QED BY <1>8, <1>9, <1>12, <1>13, <1>15, <1>17 DEF BudgetInv

LEMMA CommitEndsKeeps ==
  ASSUME BudgetInv, CommitEnds
  PROVE  BudgetInv'
  <1>0. BudgetTypeOK
    BY DEF BudgetInv
  <1>1. /\ at <= Len(commits) /\ file > Len(commits[at])
        /\ at' = at + 1 /\ file' = 1 /\ snippets' = << >> /\ ignored' = 0
        /\ curated' = IF Keeps THEN Append(curated, snippets) ELSE curated
        /\ stats' = [kept     |-> stats.kept + (IF Keeps THEN 1 ELSE 0),
                     dropped  |-> stats.dropped + (IF Keeps THEN 0 ELSE 1),
                     shipping |-> stats.shipping + Len(snippets),
                     ignored  |-> stats.ignored + ignored]
        /\ commits' = commits /\ remaining' = remaining /\ spent' = spent
    BY DEF CommitEnds
  <1>2. /\ at \in DOMAIN commits /\ at \in Nat /\ file \in Nat
        /\ Len(snippets) \in Nat /\ snippets \in Seq(Nat) /\ curated \in Seq(Seq(Nat))
        /\ stats.kept \in Nat /\ stats.dropped \in Nat /\ stats.shipping \in Nat
        /\ stats.ignored \in Nat /\ ignored \in Nat
    BY <1>1, <1>0, BudgetTyping DEF BudgetTypeOK
  <1>3. /\ stats.kept + stats.dropped = at - 1
        /\ stats.kept = Len(curated)
        /\ \A i \in DOMAIN curated : curated[i] # << >>
        /\ stats.kept = Cardinality(Shown)
        /\ stats.shipping + Len(snippets) = Cardinality(ShippedBefore)
        /\ IsFiniteSet(ShippedBefore) /\ IsFiniteSet(Shown)
        /\ Keeps <=> \E f : Taken(at, f)
    BY DEF BudgetInv, NothingIsLost, Shown, Keeps
  <1>4. /\ stats'.kept = stats.kept + (IF Keeps THEN 1 ELSE 0)
        /\ stats'.dropped = stats.dropped + (IF Keeps THEN 0 ELSE 1)
        /\ stats'.shipping = stats.shipping + Len(snippets)
        /\ stats' \in [kept : Nat, dropped : Nat, shipping : Nat, ignored : Nat]
    <2>1. ASSUME NEW k \in Nat, NEW d \in Nat, NEW n \in Nat, NEW i \in Nat
          PROVE  LET s == [kept |-> k, dropped |-> d, shipping |-> n, ignored |-> i]
                 IN  /\ s.kept = k /\ s.dropped = d /\ s.shipping = n
                     /\ s \in [kept : Nat, dropped : Nat, shipping : Nat, ignored : Nat]
      OBVIOUS
    <2>2. /\ stats.kept + (IF Keeps THEN 1 ELSE 0) \in Nat
          /\ stats.dropped + (IF Keeps THEN 0 ELSE 1) \in Nat
          /\ stats.shipping + Len(snippets) \in Nat /\ stats.ignored + ignored \in Nat
      BY <1>2
    <2> QED BY <1>1, <2>1, <2>2
  <1>5. /\ curated' \in Seq(Seq(Nat))
        /\ Len(curated') = Len(curated) + (IF Keeps THEN 1 ELSE 0)
        /\ \A i \in DOMAIN curated' : curated'[i] # << >>
    <2>1. CASE Keeps
      <3>1. curated' = Append(curated, snippets) /\ snippets # << >>
        BY <1>1, <2>1 DEF Keeps
      <3>2. /\ curated' \in Seq(Seq(Nat)) /\ Len(curated') = Len(curated) + 1
            /\ DOMAIN curated' = 1 .. Len(curated) + 1 /\ Len(curated) \in Nat
            /\ DOMAIN curated = 1 .. Len(curated)
            /\ \A i \in 1 .. Len(curated) : curated'[i] = curated[i]
            /\ curated'[Len(curated) + 1] = snippets
        BY <1>2, <3>1
      <3>3. \A i \in DOMAIN curated' : i \in DOMAIN curated \/ i = Len(curated) + 1
        BY <3>2
      <3>4. \A i \in DOMAIN curated' : curated'[i] # << >>
        BY <1>3, <3>1, <3>2, <3>3
      <3>5. Len(curated') = Len(curated) + (IF Keeps THEN 1 ELSE 0)
        BY <2>1, <3>2, Zenon
      <3> QED BY <3>2, <3>4, <3>5
    <2>2. CASE ~Keeps
      <3>1. curated' = curated /\ Len(curated) \in Nat
        BY <1>1, <1>2, <2>2
      <3>2. Len(curated') = Len(curated) + (IF Keeps THEN 1 ELSE 0)
        <4>1. Len(curated) = Len(curated) + 0
          BY <3>1
        <4> QED BY <2>2, <3>1, <4>1, Zenon
      <3>3. \A i \in DOMAIN curated' : curated'[i] # << >>
        BY <1>3, <3>1
      <3> QED BY <1>2, <3>1, <3>2, <3>3
    <2> QED BY <2>1, <2>2
  <1>6. BudgetTypeOK'
    <2>0. Len(commits) \in Nat /\ at >= 1
      BY <1>0, BudgetTyping
    <2>1. at' \in 1 .. Len(commits) + 1
      BY <1>1, <1>2, <2>0
    <2>2. snippets' \in Seq(Nat) /\ ignored' \in Nat /\ file' \in Nat \ {0}
      BY <1>1
    <2> QED BY <1>1, <1>4, <1>5, <2>1, <2>2 DEF BudgetInv, BudgetTypeOK
  <1>7. SpentWithinBudget'
    BY <1>1 DEF BudgetInv, SpentWithinBudget
  <1>8. \A c, f : Taken(c, f)' <=> Taken(c, f)
    <2> SUFFICES ASSUME NEW c, NEW f
                 PROVE  Taken(c, f)' <=> Taken(c, f)
      OBVIOUS
    <2>1. Taken(c, f)' <=> /\ c \in DOMAIN commits /\ c <= at + 1
                           /\ f \in DOMAIN commits[c]
                           /\ commits[c][f].sort = "shipping"
                           /\ c < at + 1 \/ f < 1
      BY <1>1 DEF Taken
    <2>2. CASE c \in DOMAIN commits /\ f \in DOMAIN commits[c]
      <3>0. /\ DOMAIN commits = 1 .. Len(commits) /\ Len(commits) \in Nat
            /\ DOMAIN commits[c] = 1 .. Len(commits[c]) /\ Len(commits[c]) \in Nat
        BY <2>2, <1>0, BudgetTyping
      <3>1. /\ c \in Nat /\ f \in Nat /\ at \in Nat /\ file \in Nat
            /\ f >= 1 /\ f <= Len(commits[c]) /\ Len(commits[c]) \in Nat
        BY <1>2, <2>2, <3>0
      <3> QED BY <1>1, <2>1, <2>2, <3>1 DEF Taken
    <2>3. CASE ~(c \in DOMAIN commits /\ f \in DOMAIN commits[c])
      BY <2>1, <2>3 DEF Taken
    <2> QED BY <2>2, <2>3
  <1>9. ShippedBefore' = ShippedBefore
    <2>0. ShippedPairs'
      BY ShippedIsTaken, PTL
    <2>1. /\ \A q \in ShippedBefore' : q = <<q[1], q[2]>> /\ Taken(q[1], q[2])'
          /\ \A c, f : Taken(c, f)' => <<c, f>> \in ShippedBefore'
      BY <2>0 DEF ShippedPairs
    <2>2. ASSUME NEW q
          PROVE  q \in ShippedBefore' <=> q \in ShippedBefore
      BY <1>8, <2>1, ShippedIsTaken DEF ShippedPairs
    <2> QED BY <2>2
  <1>10. \A q \in ShippedBefore : q[1] \in Nat
    BY <1>0, ShippedIsTaken, BudgetTyping DEF ShippedPairs, Taken
  <1>11. Shown' = {p[1] : p \in {q \in ShippedBefore : q[1] < at + 1}}
    BY <1>1, <1>9 DEF Shown
  <1>12. ASSUME NEW c
         PROVE  c \in Shown' <=> c \in Shown \/ (c = at /\ Keeps)
    <2>1. \A q \in ShippedBefore : q[1] < at + 1 <=> q[1] < at \/ q[1] = at
      BY <1>2, <1>10
    <2>2. Keeps <=> \E q \in ShippedBefore : q[1] = at
      <3>1. ASSUME NEW q \in ShippedBefore, q[1] = at PROVE Keeps
        BY <1>3, <3>1, ShippedIsTaken DEF ShippedPairs
      <3>2. ASSUME Keeps PROVE \E q \in ShippedBefore : q[1] = at
        <4>1. PICK f : Taken(at, f)
          BY <1>3, <3>2
        <4>2. <<at, f>> \in ShippedBefore
          BY <4>1, ShippedIsTaken DEF ShippedPairs
        <4> QED BY <4>2
      <3> QED BY <3>1, <3>2
    <2>3. c \in Shown' <=> \E q \in ShippedBefore : q[1] < at + 1 /\ c = q[1]
      BY <1>11
    <2>4. c \in Shown <=> \E q \in ShippedBefore : q[1] < at /\ c = q[1]
      BY DEF Shown
    <2> QED BY <2>1, <2>2, <2>3, <2>4
  <1>13. Shown' = IF Keeps THEN Shown \union {at} ELSE Shown
    BY <1>12
  <1>14. at \notin Shown
    BY <1>2, ShownAre
  <1>15. /\ IsFiniteSet(Shown')
         /\ Cardinality(Shown') = Cardinality(Shown) + (IF Keeps THEN 1 ELSE 0)
    <2>1. Cardinality(Shown) \in Nat
      BY <1>2, <1>3
    <2>2. CASE Keeps
      BY <1>3, <1>13, <1>14, <2>1, <2>2, FS_AddElement
    <2>3. CASE ~Keeps
      BY <1>3, <1>13, <2>1, <2>3
    <2> QED BY <2>2, <2>3
  <1>16. NothingIsLost'
    <2>1. stats'.kept + stats'.dropped = at' - 1
      <3> DEFINE k == stats.kept
                 d == stats.dropped
      <3>0. k \in Nat /\ d \in Nat /\ at \in Nat /\ k + d = at - 1
        BY <1>2, <1>3
      <3>1. CASE Keeps
        <4>1. stats'.kept = k + 1 /\ stats'.dropped = d + 0
          BY <1>4, <3>1, Zenon
        <4> HIDE DEF k, d
        <4>2. (k + 1) + (d + 0) = (at + 1) - 1
          BY <3>0
        <4> QED BY <1>1, <4>1, <4>2
      <3>2. CASE ~Keeps
        <4>1. stats'.kept = k + 0 /\ stats'.dropped = d + 1
          BY <1>4, <3>2, Zenon
        <4> HIDE DEF k, d
        <4>2. (k + 0) + (d + 1) = (at + 1) - 1
          BY <3>0
        <4> QED BY <1>1, <4>1, <4>2
      <3> QED BY <3>1, <3>2
    <2>2. stats'.kept = Len(curated') /\ stats'.kept = Cardinality(Shown')
      BY <1>3, <1>4, <1>5, <1>15
    <2>3. stats'.shipping + Len(snippets') = Cardinality(ShippedBefore')
      BY <1>1, <1>2, <1>3, <1>4, <1>9
    <2> QED BY <1>5, <2>1, <2>2, <2>3 DEF NothingIsLost, Shown
  <1>17. (snippets # << >> <=> \E f : Taken(at, f))'
    <2>1. ~ \E f : Taken(at, f)'
      <3> SUFFICES ASSUME NEW f, f \in DOMAIN commits[at + 1], at + 1 \in DOMAIN commits,
                          at + 1 < at + 1 \/ f < 1
                   PROVE  FALSE
        BY <1>1 DEF Taken
      <3>1. f \in Nat /\ f >= 1
        BY <1>0, BudgetTyping
      <3> QED BY <1>2, <3>1
    <2> QED BY <1>1, <2>1
  <1> QED BY <1>3, <1>6, <1>7, <1>9, <1>15, <1>16, <1>17 DEF BudgetInv

LEMMA BudgetStart ==
  ASSUME BudgetInit
  PROVE  BudgetInv
  <1>1. /\ commits \in Seq(Seq(File)) /\ at = 1 /\ file = 1 /\ remaining = MaxPatch
        /\ snippets = << >> /\ ignored = 0 /\ curated = << >> /\ spent = 0
        /\ stats.kept = 0 /\ stats.dropped = 0 /\ stats.shipping = 0
        /\ stats \in [kept : Nat, dropped : Nat, shipping : Nat, ignored : Nat]
        /\ MaxPatch \in Nat /\ Suffix \in Nat
    BY BudgetAssumption DEF BudgetInit
  <1>2. BudgetTypeOK
    <2>1. 1 \in 1 .. Len(commits) + 1
      BY <1>1
    <2> QED BY <1>1, <2>1 DEF BudgetTypeOK
  <1>3. \A c, f : ~Taken(c, f)
    BY <1>1, <1>2, BudgetTyping DEF Taken
  <1>4. ShippedBefore = {} /\ Shown = {}
    BY <1>3, ShippedIsTaken, ShownAre DEF ShippedPairs
  <1>5. Cardinality({}) = 0 /\ IsFiniteSet({})
    BY FS_EmptySet
  <1>6. SpentWithinBudget
    BY <1>1 DEF SpentWithinBudget
  <1>7. NothingIsLost
    <2>1. stats.kept = Cardinality(Shown)
      BY <1>1, <1>4, <1>5
    <2> QED BY <1>1, <1>4, <1>5, <2>1 DEF NothingIsLost, Shown
  <1> QED BY <1>1, <1>2, <1>3, <1>4, <1>5, <1>6, <1>7 DEF BudgetInv

LEMMA BudgetStep ==
  ASSUME BudgetInv, [BudgetNext]_budgetVars
  PROVE  BudgetInv'
  <1>1. CASE UNCHANGED budgetVars
    <2>1. /\ commits' = commits /\ at' = at /\ file' = file /\ remaining' = remaining
          /\ snippets' = snippets /\ ignored' = ignored /\ curated' = curated
          /\ stats' = stats /\ spent' = spent
      BY <1>1 DEF budgetVars
    <2>2. ShippedBefore' = ShippedBefore
      BY <2>1 DEF ShippedBefore
    <2>3. Shown' = Shown
      BY <2>1, <2>2 DEF Shown
    <2>4. NothingIsLost'
      BY <2>1, <2>2 DEF BudgetInv, NothingIsLost
    <2>5. BudgetTypeOK' /\ SpentWithinBudget'
      BY <2>1 DEF BudgetInv, BudgetTypeOK, SpentWithinBudget
    <2>6. (snippets # << >> <=> \E f : Taken(at, f))'
      BY <2>1 DEF BudgetInv, Taken
    <2> QED BY <2>2, <2>3, <2>4, <2>5, <2>6 DEF BudgetInv
  <1> QED BY <1>1, TakeFileKeeps, CommitEndsKeeps DEF BudgetNext

\* For any lists of releases and of commits, however long, and any limits: the
\* notes start at the right release, from the latest commits, each once; and
\* the budget of the patches is kept but for one mark, with no file lost.
THEOREM PromptGetsItsDue ==
  MCSpec => []PromptIsRight
  <1>1. MCInit => DeltaInv /\ BudgetInv
    BY DeltaStart, BudgetStart DEF MCInit, DeltaWaits, BudgetWaits
  <1>2. DeltaInv /\ [MCNext]_mcVars => DeltaInv'
    <2> SUFFICES ASSUME DeltaInv, [MCNext]_mcVars PROVE [DeltaNext]_deltaVars
      BY DeltaStep
    <2> QED BY DEF MCNext, RunsDelta, RunsBudget, RunsBody, RunsPublish, mcVars
  <1>3. BudgetInv /\ [MCNext]_mcVars => BudgetInv'
    <2> SUFFICES ASSUME BudgetInv, [MCNext]_mcVars PROVE [BudgetNext]_budgetVars
      BY BudgetStep
    <2> QED BY DEF MCNext, RunsDelta, RunsBudget, RunsBody, RunsPublish, mcVars
  <1>4. DeltaInv /\ BudgetInv => PromptIsRight
    BY DeltaIsRight DEF BudgetInv, PromptIsRight
  <1> QED BY <1>1, <1>2, <1>3, <1>4, PTL DEF MCSpec

-----------------------------------------------------------------------------
(* ReleaseBody                                                               *)

GroupType  == [key : Keys, titles : Seq(Nat)]
BulletType == [from : Keys \union {"codex", "general"}, lines : SUBSET Nat]

Titled == {PrTitles[k] : k \in DOMAIN PrTitles}
In(g) == {grouped[g].titles[k] : k \in DOMAIN grouped[g].titles}

\* Before there are titles to group there is nothing else.
NothingYet ==
    /\ usable => Counted \in 3 .. 6
    /\ stage \notin {"group", "summarize", "done"} =>
         titles = << >> /\ grouped = << >> /\ highlights = << >>
    /\ stage = "group" => highlights = << >>

\* A group for each class, in order of their first titles, with titles of that
\* class in order.
GroupsOK ==
    /\ \A g, h \in DOMAIN grouped : grouped[g].key = grouped[h].key => g = h
    /\ \A g \in DOMAIN grouped :
         /\ grouped[g].titles # << >>
         /\ \A i \in In(g) : i \in Titled /\ Class(i) = grouped[g].key
         /\ \A k, l \in DOMAIN grouped[g].titles :
                k < l => grouped[g].titles[k] < grouped[g].titles[l]
    /\ \A g, h \in DOMAIN grouped :
          g < h => \A i \in In(g), j \in In(h) : FirstOf(i) < FirstOf(j)

\* The first n titles are in the groups, and no others.
Grouping ==
    stage = "group" =>
        /\ titles # << >> \/ grouped # << >>
        /\ \E n \in 0 .. Len(PrTitles) :
             /\ titles = SubSeq(PrTitles, n + 1, Len(PrTitles))
             /\ \A g \in DOMAIN grouped : \A i \in In(g) : \E k \in 1 .. n : i = PrTitles[k]
             /\ \A k \in 1 .. n : \E g \in DOMAIN grouped : PrTitles[k] \in In(g)

\* Title i is told of, or was left out by the summary of its class.
Excused(i) ==
    \/ \E b \in DOMAIN highlights : i \in highlights[b].lines
    \/ input.changelog[i] = "release" /\ FirstOf(i) # i
    \/ input.changelog[i] = "plain" /\ \E l \in DOMAIN PrTitles : input.changelog[PrTitles[l]] = "named"

\* The bullets so far are of classes met before those of the groups left, and
\* in the order of their classes and titles.
BulletsInOrder ==
    /\ \A b \in DOMAIN highlights :
          /\ highlights[b].from \in Keys
          /\ \A i \in highlights[b].lines : i \in Titled /\ Class(i) = highlights[b].from
          /\ \A g \in DOMAIN grouped :
                /\ highlights[b].from # grouped[g].key
                /\ \A i \in highlights[b].lines, j \in In(g) : FirstOf(i) < FirstOf(j)
    /\ \A b, c \in DOMAIN highlights : b < c =>
          /\ highlights[b].from = highlights[c].from => highlights[b].from = "other"
          /\ \A i \in highlights[b].lines, j \in highlights[c].lines :
                /\ FirstOf(i) <= FirstOf(j)
                /\ Class(i) = Class(j) => i < j

Summarizing ==
    stage = "summarize" =>
        /\ grouped # << >> \/ highlights # << >>
        /\ BulletsInOrder
        /\ \A i \in Titled : (\E g \in DOMAIN grouped : i \in In(g)) \/ Excused(i)

BodyInv ==
    /\ BodyTypeOK
    /\ NothingYet
    /\ GroupsOK
    /\ Grouping
    /\ Summarizing
    /\ HasHighlights
    /\ ToldOnce
    /\ LeftOutForCause

LEMMA BodyTyping ==
  ASSUME BodyTypeOK
  PROVE  /\ input.changelog \in Seq(ChangeLines) /\ input.codex \in Seq(CodexLines)
         /\ titles \in Seq(Nat) /\ Len(titles) \in Nat /\ usable \in BOOLEAN
         /\ grouped \in Seq(GroupType) /\ highlights \in Seq(BulletType)
         /\ Len(grouped) \in Nat /\ DOMAIN grouped = 1 .. Len(grouped)
         /\ \A g \in DOMAIN grouped :
               /\ grouped[g] \in GroupType
               /\ grouped[g].key \in Keys /\ grouped[g].titles \in Seq(Nat)
               /\ Len(grouped[g].titles) \in Nat
               /\ DOMAIN grouped[g].titles = 1 .. Len(grouped[g].titles)
         /\ Len(highlights) \in Nat /\ DOMAIN highlights = 1 .. Len(highlights)
         /\ \A b \in DOMAIN highlights :
               /\ highlights[b].from \in Keys \union {"codex", "general"}
               /\ highlights[b].lines \subseteq Nat
  <1>1. input.changelog \in Seq(ChangeLines) /\ input.codex \in Seq(CodexLines)
    BY DEF BodyTypeOK, InputType
  <1>0. grouped \in Seq(GroupType) /\ highlights \in Seq(BulletType)
    BY DEF BodyTypeOK, GroupType, BulletType
  <1>2. /\ Len(grouped) \in Nat /\ DOMAIN grouped = 1 .. Len(grouped)
        /\ \A g \in DOMAIN grouped : grouped[g] \in GroupType
    BY <1>0
  <1>3. \A g \in DOMAIN grouped : grouped[g].key \in Keys /\ grouped[g].titles \in Seq(Nat)
    BY <1>2 DEF GroupType
  <1>4. \A s \in Seq(Nat) : Len(s) \in Nat /\ DOMAIN s = 1 .. Len(s)
    OBVIOUS
  <1>5. /\ Len(highlights) \in Nat /\ DOMAIN highlights = 1 .. Len(highlights)
        /\ \A b \in DOMAIN highlights : highlights[b] \in BulletType
    BY <1>0
  <1>6. \A b \in DOMAIN highlights :
               /\ highlights[b].from \in Keys \union {"codex", "general"}
               /\ highlights[b].lines \subseteq Nat
    BY <1>5 DEF BulletType
  <1>7. titles \in Seq(Nat) /\ Len(titles) \in Nat /\ usable \in BOOLEAN
    BY DEF BodyTypeOK
  <1> QED BY <1>1, <1>2, <1>3, <1>4, <1>5, <1>0, <1>6, <1>7

\* The lines of some kinds, by their positions.
LEMMA WhereTheyAre ==
  ASSUME NEW S, NEW s \in Seq(S), NEW kinds
  PROVE  /\ Where(s, kinds) \in Seq(Nat) /\ Len(Where(s, kinds)) \in Nat
         /\ DOMAIN Where(s, kinds) = 1 .. Len(Where(s, kinds))
         /\ Len(Where(s, kinds)) = Cardinality({i \in DOMAIN s : s[i] \in kinds})
         /\ \A k \in DOMAIN Where(s, kinds) :
               Where(s, kinds)[k] \in DOMAIN s /\ s[Where(s, kinds)[k]] \in kinds
         /\ \A k, l \in DOMAIN Where(s, kinds) :
               /\ k < l => Where(s, kinds)[k] < Where(s, kinds)[l]
               /\ Where(s, kinds)[k] = Where(s, kinds)[l] => k = l
  <1> DEFINE F == {i \in DOMAIN s : s[i] \in kinds}
             c == Cardinality(F)
             w == InOrder(F)
  <1>1. Len(s) \in Nat /\ F \in SUBSET (1 .. Len(s)) /\ F \subseteq DOMAIN s
    OBVIOUS
  <1>2. /\ c \in Nat /\ w \in [1 .. c -> F]
        /\ \A k, l \in 1 .. c : k < l <=> w[k] < w[l]
        /\ \A k, l \in 1 .. c : w[k] = w[l] => k = l
    <2> HIDE DEF F
    <2> QED BY <1>1, OrderOfPositions
  <1>3. Where(s, kinds) = w
    BY DEF Where
  <1>4. \A i \in F : i \in Nat /\ i \in DOMAIN s /\ s[i] \in kinds
    BY <1>1
  <1>5. c = Cardinality({i \in DOMAIN s : s[i] \in kinds})
    OBVIOUS
  <1> HIDE DEF F, c, w
  <1>6. \A k \in 1 .. c : w[k] \in F
    BY <1>2
  <1>7. w \in Seq(Nat) /\ Len(w) = c /\ DOMAIN w = 1 .. c
    <2>1. w \in [1 .. c -> Nat]
      BY <1>2, <1>4, <1>6
    <2> QED BY <1>2, <2>1
  <1> QED BY <1>2, <1>3, <1>4, <1>5, <1>6, <1>7

\* The titles that are looked at, in order.
LEMMA TitlesAre ==
  ASSUME BodyTypeOK
  PROVE  /\ PrTitles \in Seq(Nat) /\ Len(PrTitles) \in Nat
         /\ DOMAIN PrTitles = 1 .. Len(PrTitles)
         /\ \A k, l \in DOMAIN PrTitles : k < l => PrTitles[k] < PrTitles[l]
         /\ \A k \in DOMAIN PrTitles : input.changelog[PrTitles[k]] \in Titles
  <1> DEFINE lines == input.changelog
             bullets == Where(lines, Titles \union {"cleaned"})
             q == IF Len(bullets) < Limit THEN Len(bullets) ELSE Limit
             looked == SubSeq(bullets, 1, q)
             G == {k \in DOMAIN looked : lines[looked[k]] \in Titles}
             c == Cardinality(G)
  <1>1. lines \in Seq(ChangeLines) /\ Limit \in Nat
    BY BodyTyping, BodyAssumption
  <1>2. PrTitles = Picked(looked, G)
    BY DEF PrTitles
  <1> HIDE DEF lines
  <1>3. /\ bullets \in Seq(Nat) /\ Len(bullets) \in Nat /\ DOMAIN bullets = 1 .. Len(bullets)
        /\ \A k, l \in DOMAIN bullets : k < l => bullets[k] < bullets[l]
    BY <1>1, WhereTheyAre
  <1> HIDE DEF bullets
  <1>4. q \in Nat /\ q <= Len(bullets)
    BY <1>1, <1>3
  <1> HIDE DEF q
  <1>5. /\ looked \in Seq(Nat) /\ Len(looked) = q /\ DOMAIN looked = 1 .. q
        /\ \A k \in 1 .. q : looked[k] = bullets[k]
    BY <1>3, <1>4
  <1>6. \A k, l \in 1 .. q : k < l => looked[k] < looked[l]
    BY <1>3, <1>4, <1>5
  <1> HIDE DEF looked
  <1>7. G \in SUBSET (DOMAIN looked) /\ G \in SUBSET (1 .. q) /\ G \subseteq 1 .. q
    BY <1>5
  <1>8. \A k \in G : lines[looked[k]] \in Titles
    OBVIOUS
  <1> HIDE DEF G
  <1>9. /\ c \in Nat /\ InOrder(G) \in [1 .. c -> G]
        /\ \A k, l \in 1 .. c : k < l <=> InOrder(G)[k] < InOrder(G)[l]
    BY <1>4, <1>7, OrderOfPositions
  <1>10. /\ PrTitles \in Seq(Nat) /\ Len(PrTitles) = c /\ DOMAIN PrTitles = 1 .. c
         /\ \A k \in 1 .. c : PrTitles[k] = looked[InOrder(G)[k]]
    BY <1>2, <1>5, <1>7, PickedEntries
  <1> HIDE DEF c
  <1>11. \A k \in 1 .. c : InOrder(G)[k] \in G /\ InOrder(G)[k] \in 1 .. q
    BY <1>7, <1>9
  <1>12. \A k, l \in 1 .. c : k < l => PrTitles[k] < PrTitles[l]
    BY <1>6, <1>9, <1>10, <1>11
  <1>13. \A k \in 1 .. c : input.changelog[PrTitles[k]] \in Titles
    BY <1>8, <1>10, <1>11 DEF lines
  <1> QED BY <1>9, <1>10, <1>12, <1>13

\* The classes of titles, and where each is met first.
LEMMA FirstOfClass ==
  ASSUME BodyTypeOK
  PROVE  /\ Titled \subseteq Nat
         /\ \A i \in Titled :
               /\ input.changelog[i] \in Titles
               /\ Class(i) \in Keys
               /\ FirstOf(i) \in Titled /\ FirstOf(i) \in Nat
               /\ Class(FirstOf(i)) = Class(i)
         /\ \A i, j \in Titled :
               Class(i) = Class(j) => FirstOf(i) <= j /\ FirstOf(i) = FirstOf(j)
  <1>1. \A i \in Titled : i \in Nat /\ input.changelog[i] \in Titles
    BY TitlesAre DEF Titled
  <1>2. \A i \in Titled : Class(i) \in Keys
    BY <1>1 DEF Class, Keys, Titles
  <1> DEFINE Same(i) == {j \in Titled : Class(j) = Class(i)}
  <1>3. \A i : FirstOf(i) = Min(Same(i))
    BY DEF FirstOf, Titled, Min
  <1>4. ASSUME NEW i \in Titled
        PROVE  Min(Same(i)) \in Same(i) /\ \A j \in Same(i) : Min(Same(i)) <= j
    <2>1. Same(i) \subseteq Nat /\ i \in Same(i)
      BY <1>1
    <2> HIDE DEF Same
    <2> QED BY <2>1, Smallest
  <1>5. ASSUME NEW i \in Titled, NEW j \in Titled, Class(i) = Class(j)
        PROVE  Same(i) = Same(j)
    BY <1>5
  <1>6. \A i \in Titled : FirstOf(i) \in Titled /\ Class(FirstOf(i)) = Class(i)
    BY <1>3, <1>4
  <1>7. ASSUME NEW i \in Titled, NEW j \in Titled, Class(i) = Class(j)
        PROVE  FirstOf(i) <= j /\ FirstOf(i) = FirstOf(j)
    <2>1. j \in Same(i)
      BY <1>7
    <2> QED BY <1>3, <1>4, <1>5, <1>7, <2>1
  <1> QED BY <1>1, <1>2, <1>6, <1>7

\* What depends on the changelog alone does not change.
LEMMA SameTitles ==
  ASSUME input' = input
  PROVE  /\ PrTitles' = PrTitles /\ Titled' = Titled /\ Counted' = Counted
         /\ \A i : Class(i)' = Class(i)
         /\ \A i : FirstOf(i)' = FirstOf(i)
  <1>1. PrTitles' = PrTitles
    BY DEF PrTitles
  <1>2. Titled' = Titled
    BY <1>1 DEF Titled
  <1>3. Counted' = Counted
    BY DEF Counted, Kept
  <1>4. \A i : Class(i)' = Class(i)
    BY DEF Class
  <1>5. \A i : FirstOf(i)' = FirstOf(i)
    BY <1>1, <1>4 DEF FirstOf
  <1> QED BY <1>1, <1>2, <1>3, <1>4, <1>5

\* Nothing is claimed of highlights before there are any.
LEMMA NothingToTell ==
  ASSUME BodyTypeOK', titles' = << >>, grouped' = << >>, highlights' = << >>,
         stage' \in {"prompt", "validate", "render", "failed"},
         usable' => Counted' \in 3 .. 6
  PROVE  BodyInv'
  <1>1. NothingYet'
    BY DEF NothingYet
  <1>2. GroupsOK'
    BY DEF GroupsOK
  <1>3. Grouping' /\ Summarizing' /\ HasHighlights' /\ ToldOnce' /\ LeftOutForCause'
    BY DEF Grouping, Summarizing, HasHighlights, ToldOnce, LeftOutForCause, Deterministic
  <1> QED BY <1>1, <1>2, <1>3 DEF BodyInv

LEMMA BodyStart ==
  ASSUME BodyInit
  PROVE  BodyInv
  <1>1. /\ input \in InputType /\ stage = "prompt" /\ usable = FALSE
        /\ titles = << >> /\ grouped = << >> /\ highlights = << >>
    BY BodyAssumption DEF BodyInit
  <1>2. BodyTypeOK
    <2>1. << >> \in Seq(GroupType) /\ << >> \in Seq(BulletType) /\ << >> \in Seq(Nat)
      OBVIOUS
    <2> QED BY <1>1, <2>1 DEF BodyTypeOK, GroupType, BulletType
  <1>3. NothingYet /\ GroupsOK
    BY <1>1 DEF NothingYet, GroupsOK
  <1>4. Grouping /\ Summarizing /\ HasHighlights /\ ToldOnce /\ LeftOutForCause
    BY <1>1 DEF Grouping, Summarizing, HasHighlights, ToldOnce, LeftOutForCause, Deterministic
  <1> QED BY <1>2, <1>3, <1>4 DEF BodyInv

LEMMA WorkflowKeeps ==
  ASSUME BodyInv, Prompt \/ Validate
  PROVE  BodyInv'
  <1>1. stage \in {"prompt", "validate"} /\ BodyTypeOK
    BY DEF BodyInv, Prompt, Validate
  <1>2. titles = << >> /\ grouped = << >> /\ highlights = << >>
    BY <1>1 DEF BodyInv, NothingYet
  <1>3. /\ stage' \in {"validate", "render", "failed"} /\ input' = input
        /\ titles' = titles /\ grouped' = grouped /\ highlights' = highlights
        /\ usable' \in {usable, input.succeeds /\ Counted \in 3 .. 6}
    BY DEF Prompt, Validate
  <1>4. Counted' = Counted
    BY <1>3, SameTitles
  <1>5. usable' \in BOOLEAN /\ (usable' => Counted' \in 3 .. 6)
    <2>1. usable \in BOOLEAN /\ (usable => Counted \in 3 .. 6)
      BY DEF BodyInv, NothingYet, BodyTypeOK
    <2>2. input.succeeds \in BOOLEAN
      BY <1>1 DEF BodyTypeOK, InputType
    <2> QED BY <1>3, <1>4, <2>1, <2>2
  <1>6. BodyTypeOK'
    BY <1>1, <1>3, <1>5 DEF BodyTypeOK
  <1> QED BY <1>2, <1>3, <1>5, <1>6, NothingToTell

\* A file of Codex that was found usable has three to six bullets at most.
LEMMA OverrideIs ==
  ASSUME BodyTypeOK, usable => Counted \in 3 .. 6, Overrides
  PROVE  /\ Override \in Seq(BulletType)
         /\ Len(Override) \in 1 .. 6 /\ DOMAIN Override = 1 .. Len(Override)
         /\ \A k \in DOMAIN Override : Override[k].from = "codex"
         /\ \A j, k \in DOMAIN Override :
               j # k => Override[j].lines \intersect Override[k].lines = {}
  <1> DEFINE b == Where(Kept, {"bullet"})
             B == {i \in DOMAIN Kept : Kept[i] \in {"bullet"}}
             C == {i \in DOMAIN Kept : Kept[i] \in {"bullet", "blank"}}
  <1>1. usable /\ Override = [k \in DOMAIN b |-> Bullet("codex", {b[k]})] /\ Override # << >>
    BY DEF Overrides, Override
  <1>2. Kept \in Seq(CodexLines)
    <2> DEFINE F == {i \in DOMAIN input.codex : input.codex[i] # "text"}
    <2>1. F \in SUBSET (DOMAIN input.codex) /\ input.codex \in Seq(CodexLines)
      BY BodyTyping
    <2>2. Kept = Picked(input.codex, F)
      BY DEF Kept
    <2> HIDE DEF F
    <2> QED BY <2>1, <2>2, PickedEntries
  <1>3. Counted = Cardinality(C)
    BY DEF Counted
  <1>4. /\ b \in Seq(Nat) /\ Len(b) \in Nat /\ DOMAIN b = 1 .. Len(b) /\ Len(b) = Cardinality(B)
        /\ \A k, l \in DOMAIN b : b[k] = b[l] => k = l
    <2>1. /\ b \in Seq(Nat) /\ Len(b) = Cardinality(B)
          /\ \A k, l \in DOMAIN b : b[k] = b[l] => k = l
      BY <1>2, WhereTheyAre
    <2> HIDE DEF b, B
    <2>2. Len(b) \in Nat /\ DOMAIN b = 1 .. Len(b)
      BY <2>1
    <2> QED BY <2>1, <2>2
  <1>5. Cardinality(B) <= Cardinality(C)
    <2>1. B \subseteq C /\ C \subseteq 1 .. Len(Kept) /\ Len(Kept) \in Nat
      BY <1>2
    <2> HIDE DEF B, C
    <2>2. IsFiniteSet(1 .. Len(Kept))
      BY <2>1, FS_Interval
    <2> QED BY <2>1, <2>2, FS_Subset
  <1>6. Len(b) <= 6
    <2> HIDE DEF b, B, C
    <2> QED BY <1>1, <1>3, <1>4, <1>5
  <1> HIDE DEF b, B, C
  <1>7. \A k \in 1 .. Len(b) : b[k] \in Nat /\ Bullet("codex", {b[k]}) \in BulletType
    BY <1>4 DEF Bullet, BulletType
  <1>8. /\ Override \in Seq(BulletType)
        /\ Len(Override) = Len(b) /\ DOMAIN Override = 1 .. Len(b)
        /\ \A k \in 1 .. Len(b) : Override[k] = Bullet("codex", {b[k]})
    <2> DEFINE n == Len(b)
               B1(k) == Bullet("codex", {b[k]})
               w == [k \in 1 .. n |-> B1(k)]
    <2>1. n \in Nat /\ Override = w /\ \A k \in 1 .. n : B1(k) \in BulletType
      BY <1>1, <1>4, <1>7
    <2> HIDE DEF n, B1
    <2>2. w \in [1 .. n -> BulletType] /\ DOMAIN w = 1 .. n /\ \A k \in 1 .. n : w[k] = B1(k)
      BY <2>1
    <2> HIDE DEF w
    <2>3. w \in Seq(BulletType) /\ Len(w) = n
      BY <2>1, <2>2
    <2> QED BY <2>1, <2>2, <2>3 DEF n, B1
  <1>9. Len(b) # 0
    BY <1>1, <1>8
  <1>10. \A k \in 1 .. Len(b) : Override[k].from = "codex" /\ Override[k].lines = {b[k]}
    BY <1>8 DEF Bullet
  <1> HIDE DEF Override
  <1>11. \A j, k \in 1 .. Len(b) : j # k => Override[j].lines \intersect Override[k].lines = {}
    BY <1>4, <1>10
  <1> QED BY <1>4, <1>6, <1>8, <1>9, <1>10, <1>11

LEMMA StartKeeps ==
  ASSUME BodyInv, Start
  PROVE  BodyInv'
  <1>1. /\ BodyTypeOK /\ (usable => Counted \in 3 .. 6)
        /\ titles = << >> /\ grouped = << >> /\ highlights = << >>
        /\ input' = input /\ usable' = usable /\ grouped' = grouped
    BY DEF BodyInv, NothingYet, Start
  <1>2. /\ PrTitles' = PrTitles /\ Titled' = Titled /\ Counted' = Counted
    BY <1>1, SameTitles
  <1>3. GroupsOK'
    BY <1>1 DEF GroupsOK
  <1>4. CASE Overrides /\ highlights' = Override /\ stage' = "done" /\ titles' = titles
    <2>1. /\ Override \in Seq(BulletType)
          /\ Len(Override) \in 1 .. 6 /\ DOMAIN Override = 1 .. Len(Override)
          /\ \A k \in DOMAIN Override : Override[k].from = "codex"
          /\ \A j, k \in DOMAIN Override :
                j # k => Override[j].lines \intersect Override[k].lines = {}
      BY <1>1, <1>4, OverrideIs
    <2>2. highlights' \in Seq(BulletType)
      BY <1>4, <2>1
    <2>3. BodyTypeOK'
      BY <1>1, <1>4, <2>2 DEF BodyTypeOK, BulletType
    <2>4. HasHighlights' /\ ToldOnce'
      BY <1>4, <2>1 DEF HasHighlights, ToldOnce
    <2>5. ~Deterministic'
      BY <1>4, <2>1 DEF Deterministic
    <2>6. NothingYet' /\ Grouping' /\ Summarizing'
      BY <1>1, <1>2, <1>4 DEF NothingYet, Grouping, Summarizing
    <2> QED BY <1>3, <2>3, <2>4, <2>5, <2>6 DEF BodyInv, LeftOutForCause
  <1>5. CASE PrTitles = << >> /\ highlights' = <<Bullet("general", {})>> /\ stage' = "done"
             /\ titles' = titles
    <2>1. Bullet("general", {}) \in BulletType /\ Bullet("general", {}).from = "general"
      BY DEF Bullet, BulletType
    <2>2. highlights' \in Seq(BulletType)
          /\ Len(highlights') = 1 /\ DOMAIN highlights' = {1}
          /\ highlights'[1].from = "general"
      BY <1>5, <2>1
    <2>3. BodyTypeOK'
      BY <1>1, <1>5, <2>2 DEF BodyTypeOK, BulletType
    <2>4. HasHighlights' /\ ToldOnce'
      BY <2>2 DEF HasHighlights, ToldOnce
    <2>5. DOMAIN PrTitles' = {}
      BY <1>2, <1>5
    <2>6. NothingYet' /\ Grouping' /\ Summarizing'
      BY <1>1, <1>2, <1>5 DEF NothingYet, Grouping, Summarizing
    <2> QED BY <1>3, <2>3, <2>4, <2>5, <2>6 DEF BodyInv, LeftOutForCause
  <1>6. CASE PrTitles # << >> /\ titles' = PrTitles /\ stage' = "group" /\ highlights' = highlights
    <2>1. PrTitles \in Seq(Nat) /\ Len(PrTitles) \in Nat
      BY <1>1, TitlesAre
    <2>2. BodyTypeOK'
      BY <1>1, <1>6, <2>1 DEF BodyTypeOK
    <2>3. PrTitles = SubSeq(PrTitles, 0 + 1, Len(PrTitles))
      BY <2>1
    <2>4. Grouping'
      <3>1. 0 \in 0 .. Len(PrTitles)
        BY <2>1
      <3>2. \A k : k \notin 1 .. 0
        OBVIOUS
      <3>3. DOMAIN grouped' = {}
        BY <1>1
      <3> QED BY <1>1, <1>2, <1>6, <2>3, <3>1, <3>2, <3>3 DEF Grouping
    <2>5. NothingYet' /\ Summarizing' /\ HasHighlights' /\ ToldOnce' /\ LeftOutForCause'
      BY <1>1, <1>2, <1>6
      DEF NothingYet, Summarizing, HasHighlights, ToldOnce, LeftOutForCause, Deterministic
    <2> QED BY <1>3, <2>2, <2>4, <2>5 DEF BodyInv
  <1> QED BY <1>4, <1>5, <1>6 DEF Start

\* The members of a group, with the changelog and the groups as they are.
LEMMA Members ==
  ASSUME BodyTypeOK, NEW g \in DOMAIN grouped
  PROVE  /\ \A k \in DOMAIN grouped[g].titles : grouped[g].titles[k] \in In(g)
         /\ \A i \in In(g) : i \in Nat /\ \E k \in DOMAIN grouped[g].titles : i = grouped[g].titles[k]
         /\ grouped[g].titles # << >> => \E i : i \in In(g)
  <1>1. /\ grouped[g].titles \in Seq(Nat) /\ Len(grouped[g].titles) \in Nat
        /\ DOMAIN grouped[g].titles = 1 .. Len(grouped[g].titles)
    BY BodyTyping
  <1>2. \A k \in DOMAIN grouped[g].titles : grouped[g].titles[k] \in In(g)
    BY DEF In
  <1>3. grouped[g].titles # << >> => 1 \in DOMAIN grouped[g].titles
    BY <1>1
  <1>4. \A i \in In(g) : \E k \in DOMAIN grouped[g].titles : i = grouped[g].titles[k]
    BY DEF In
  <1>5. \A k \in DOMAIN grouped[g].titles : grouped[g].titles[k] \in Nat
    BY <1>1
  <1>6. \A i \in In(g) : i \in Nat
    BY <1>4, <1>5
  <1> QED BY <1>2, <1>3, <1>4, <1>6

\* What a step may make of the groups when it adds title x to one.
Added(x) ==
    /\ grouped' \in Seq(GroupType) /\ grouped' # << >>
    /\ GroupsOK'
    /\ \A g \in DOMAIN grouped : g \in DOMAIN grouped' /\ In(g) \subseteq In(g)'
    /\ \A g \in DOMAIN grouped' : \A i \in In(g)' :
           i = x \/ \E h \in DOMAIN grouped : i \in In(h)
    /\ \E g \in DOMAIN grouped' : x \in In(g)'

LEMMA NewGroup ==
  ASSUME BodyTypeOK, GroupsOK, input' = input, NEW x \in Titled,
         Slot(Class(x)) = {}, FirstOf(x) = x,
         \A g \in DOMAIN grouped : \A i \in In(g) : i < x,
         grouped' = Append(grouped, [key |-> Class(x), titles |-> <<x>>])
  PROVE  Added(x)
  <1>0. PICK m : m = Len(grouped)
    OBVIOUS
  <1> DEFINE r == [key |-> Class(x), titles |-> <<x>>]
  <1>1. /\ grouped \in Seq(GroupType) /\ m \in Nat /\ DOMAIN grouped = 1 .. m
        /\ \A g \in DOMAIN grouped : grouped[g].key \in Keys
    BY <1>0, BodyTyping
  <1>2. x \in Nat /\ Class(x) \in Keys
    BY FirstOfClass
  <1>3. r \in GroupType /\ r.key = Class(x) /\ r.titles = <<x>>
    BY <1>2 DEF GroupType
  <1> HIDE DEF r
  <1>4. grouped' = Append(grouped, r)
    BY DEF r
  <1>5. /\ grouped' \in Seq(GroupType) /\ DOMAIN grouped' = 1 .. m + 1 /\ grouped' # << >>
        /\ grouped'[m + 1] = r
        /\ \A g \in DOMAIN grouped : g \in DOMAIN grouped' /\ grouped'[g] = grouped[g]
    BY <1>0, <1>1, <1>3, <1>4
  <1>6. \A g \in DOMAIN grouped : In(g)' = In(g)
    BY <1>5 DEF In
  <1>7. In(m + 1)' = {x}
    <2>1. DOMAIN <<x>> = {1} /\ <<x>>[1] = x
      OBVIOUS
    <2>2. In(m + 1)' = {<<x>>[k] : k \in DOMAIN <<x>>}
      BY <1>3, <1>5 DEF In
    <2> QED BY <2>1, <2>2
  <1>8. \A g \in DOMAIN grouped' : g \in DOMAIN grouped \/ g = m + 1
    BY <1>1, <1>5
  <1>9. \A g \in DOMAIN grouped : grouped[g].key # Class(x)
    BY DEF Slot
  <1>10. /\ Titled' = Titled /\ \A i : Class(i)' = Class(i) /\ FirstOf(i)' = FirstOf(i)
    BY SameTitles
  <1>11. \A g, h \in DOMAIN grouped' : grouped'[g].key = grouped'[h].key => g = h
    BY <1>3, <1>5, <1>8, <1>9 DEF GroupsOK
  <1>12. ASSUME NEW g \in DOMAIN grouped'
         PROVE  /\ grouped'[g].titles # << >>
                /\ \A i \in In(g)' : i \in Titled' /\ Class(i)' = grouped'[g].key
                /\ \A k, l \in DOMAIN grouped'[g].titles :
                       k < l => grouped'[g].titles[k] < grouped'[g].titles[l]
    <2>1. CASE g \in DOMAIN grouped
      <3>1. /\ grouped[g].titles # << >>
            /\ \A i \in In(g) : i \in Titled /\ Class(i) = grouped[g].key
            /\ \A k, l \in DOMAIN grouped[g].titles :
                   k < l => grouped[g].titles[k] < grouped[g].titles[l]
        BY <2>1 DEF GroupsOK
      <3>2. grouped'[g] = grouped[g] /\ In(g)' = In(g)
        BY <1>5, <1>6, <2>1
      <3> QED BY <1>10, <3>1, <3>2
    <2>2. CASE g = m + 1
      BY <1>3, <1>5, <1>7, <1>10, <2>2
    <2> QED BY <1>8, <2>1, <2>2
  <1>13. ASSUME NEW g \in DOMAIN grouped', NEW h \in DOMAIN grouped', g < h
         PROVE  \A i \in In(g)', j \in In(h)' : FirstOf(i)' < FirstOf(j)'
    <2>1. g \in DOMAIN grouped
      BY <1>1, <1>5, <1>8, <1>13
    <2>2. CASE h \in DOMAIN grouped
      <3>1. \A i \in In(g), j \in In(h) : FirstOf(i) < FirstOf(j)
        BY <1>13, <2>1, <2>2 DEF GroupsOK
      <3>2. In(g)' = In(g) /\ In(h)' = In(h)
        BY <1>6, <2>1, <2>2
      <3> QED BY <1>10, <3>1, <3>2
    <2>3. CASE h = m + 1
      <3>1. ASSUME NEW i \in In(g) PROVE FirstOf(i) < x
        <4>1. i \in Titled /\ i < x
          BY <2>1 DEF GroupsOK
        <4>2. FirstOf(i) <= i /\ FirstOf(i) \in Nat /\ i \in Nat
          BY <4>1, FirstOfClass
        <4> QED BY <1>2, <4>1, <4>2
      <3>2. In(g)' = In(g) /\ In(h)' = {x}
        BY <1>6, <1>7, <2>1, <2>3
      <3> QED BY <1>10, <3>1, <3>2
    <2> QED BY <1>8, <2>2, <2>3
  <1>14. GroupsOK'
    BY <1>11, <1>12, <1>13 DEF GroupsOK
  <1>15. m + 1 \in DOMAIN grouped'
    BY <1>1, <1>5
  <1> QED BY <1>5, <1>6, <1>7, <1>8, <1>14, <1>15 DEF Added

LEMMA OldGroup ==
  ASSUME BodyTypeOK, GroupsOK, input' = input, NEW x \in Titled,
         NEW s \in Slot(Class(x)),
         \A g \in DOMAIN grouped : \A i \in In(g) : i < x,
         grouped' = [g \in DOMAIN grouped |->
                       IF g \in Slot(Class(x))
                       THEN [grouped[g] EXCEPT !.titles = Append(@, x)]
                       ELSE grouped[g]]
  PROVE  Added(x)
  <1> DEFINE t == grouped[s].titles
             r == [grouped[s] EXCEPT !.titles = Append(@, x)]
  <1>1. /\ grouped \in Seq(GroupType) /\ Len(grouped) \in Nat
        /\ DOMAIN grouped = 1 .. Len(grouped)
        /\ \A g \in DOMAIN grouped : grouped[g] \in GroupType
    BY BodyTyping
  <1>2. x \in Nat
    BY FirstOfClass
  <1>3. s \in DOMAIN grouped /\ grouped[s].key = Class(x)
    BY DEF Slot
  <1>4. \A g \in DOMAIN grouped : g \in Slot(Class(x)) <=> g = s
    BY <1>3 DEF Slot, GroupsOK
  <1>5. t \in Seq(Nat) /\ Len(t) \in Nat /\ DOMAIN t = 1 .. Len(t) /\ t # << >>
    BY <1>3, BodyTyping DEF GroupsOK
  <1>6. r \in GroupType /\ r.key = Class(x) /\ r.titles = Append(t, x)
    <2>1. /\ grouped[s] \in [key : Keys, titles : Seq(Nat)]
          /\ Append(t, x) \in Seq(Nat)
      BY <1>1, <1>2, <1>3, <1>5 DEF GroupType
    <2>2. r = [grouped[s] EXCEPT !.titles = Append(t, x)]
      OBVIOUS
    <2> HIDE DEF r, t
    <2> QED BY <1>3, <2>1, <2>2 DEF GroupType
  <1>7. /\ DOMAIN grouped' = DOMAIN grouped /\ grouped'[s] = r
        /\ \A g \in DOMAIN grouped : g # s => grouped'[g] = grouped[g]
    BY <1>3, <1>4, Zenon
  <1>8. /\ DOMAIN r.titles = 1 .. Len(t) + 1 /\ r.titles[Len(t) + 1] = x
        /\ r.titles # << >>
        /\ \A k \in DOMAIN t : k \in DOMAIN r.titles /\ r.titles[k] = t[k]
    BY <1>2, <1>5, <1>6
  <1>9. \A k \in DOMAIN r.titles : k \in DOMAIN t \/ k = Len(t) + 1
    BY <1>5, <1>8
  <1> HIDE DEF r, t
  <1>10. \A g \in DOMAIN grouped : g # s => In(g)' = In(g)
    BY <1>7 DEF In
  <1>11. In(s)' = In(s) \union {x}
    <2>1. In(s)' = {r.titles[k] : k \in DOMAIN r.titles}
      BY <1>7 DEF In
    <2>2. In(s) = {t[k] : k \in DOMAIN t}
      BY DEF In, t
    <2>3. Len(t) + 1 \in DOMAIN r.titles
      BY <1>5, <1>8
    <2> QED BY <1>8, <1>9, <2>1, <2>2, <2>3
  <1>12. /\ Titled' = Titled /\ \A i : Class(i)' = Class(i) /\ FirstOf(i)' = FirstOf(i)
    BY SameTitles
  <1>13. grouped' \in Seq(GroupType) /\ grouped' # << >>
    <2>1. \A g \in DOMAIN grouped : grouped'[g] \in GroupType
      BY <1>1, <1>6, <1>7
    <2>2. grouped' = [g \in DOMAIN grouped |-> grouped'[g]]
      BY <1>7, Zenon
    <2> DEFINE new == grouped'
               n == Len(grouped)
    <2>3. /\ n \in Nat /\ new = [g \in 1 .. n |-> new[g]] /\ \A g \in 1 .. n : new[g] \in GroupType
          /\ n # 0 /\ DOMAIN new = 1 .. n
      BY <1>1, <1>3, <1>7, <2>1, <2>2
    <2> HIDE DEF new, n
    <2>4. new \in [1 .. n -> GroupType]
      BY <2>3
    <2>5. new \in Seq(GroupType) /\ new # << >>
      BY <2>3, <2>4
    <2> QED BY <2>5 DEF new
  <1>14. \A g \in DOMAIN grouped : grouped'[g].key = grouped[g].key
    BY <1>3, <1>6, <1>7
  <1>15. \A g, h \in DOMAIN grouped' : grouped'[g].key = grouped'[h].key => g = h
    BY <1>7, <1>14 DEF GroupsOK
  <1>16. ASSUME NEW g \in DOMAIN grouped
         PROVE  /\ grouped[g].titles # << >>
                /\ \A i \in In(g) : i \in Titled /\ Class(i) = grouped[g].key
                /\ \A k, l \in DOMAIN grouped[g].titles :
                       k < l => grouped[g].titles[k] < grouped[g].titles[l]
    BY DEF GroupsOK
  <1>17. ASSUME NEW g \in DOMAIN grouped'
         PROVE  /\ grouped'[g].titles # << >>
                /\ \A i \in In(g)' : i \in Titled' /\ Class(i)' = grouped'[g].key
                /\ \A k, l \in DOMAIN grouped'[g].titles :
                       k < l => grouped'[g].titles[k] < grouped'[g].titles[l]
    <2>1. CASE g # s
      <3>1. grouped'[g] = grouped[g] /\ In(g)' = In(g) /\ g \in DOMAIN grouped
        BY <1>7, <1>10, <2>1
      <3> QED BY <1>12, <1>16, <3>1
    <2>2. CASE g = s
      <3>1. \A i \in In(s)' : i \in Titled' /\ Class(i)' = grouped'[s].key
        BY <1>3, <1>11, <1>12, <1>14, <1>16
      <3>2. ASSUME NEW k \in DOMAIN r.titles, NEW l \in DOMAIN r.titles, k < l
            PROVE  r.titles[k] < r.titles[l]
        <4>1. k \in DOMAIN t
          BY <1>5, <1>8, <1>9, <3>2
        <4>2. CASE l \in DOMAIN t
          <5>1. t[k] < t[l]
            BY <1>3, <1>16, <3>2, <4>1, <4>2 DEF t
          <5> QED BY <1>8, <4>1, <4>2, <5>1
        <4>3. CASE l = Len(t) + 1
          <5>1. t[k] \in In(s)
            BY <4>1 DEF In, t
          <5> QED BY <1>3, <1>8, <4>1, <4>3, <5>1
        <4> QED BY <1>9, <4>2, <4>3
      <3> QED BY <1>7, <1>8, <2>2, <3>1, <3>2
    <2> QED BY <2>1, <2>2
  <1>18. PICK y : y \in In(s) /\ FirstOf(x) = FirstOf(y)
    <2>1. PICK y : y \in In(s)
      BY <1>3, <1>16, Members
    <2>2. y \in Titled /\ Class(y) = Class(x)
      BY <1>3, <1>16, <2>1
    <2> QED BY <2>1, <2>2, FirstOfClass
  <1>19. ASSUME NEW g \in DOMAIN grouped', NEW i \in In(g)'
         PROVE  \E j \in In(g) : FirstOf(i) = FirstOf(j)
    BY <1>7, <1>10, <1>11, <1>18
  <1>20. ASSUME NEW g \in DOMAIN grouped', NEW h \in DOMAIN grouped', g < h
         PROVE  \A i \in In(g)', j \in In(h)' : FirstOf(i)' < FirstOf(j)'
    <2>1. \A i \in In(g), j \in In(h) : FirstOf(i) < FirstOf(j)
      BY <1>7, <1>20 DEF GroupsOK
    <2> SUFFICES ASSUME NEW i \in In(g)', NEW j \in In(h)' PROVE FirstOf(i) < FirstOf(j)
      BY <1>12
    <2>2. PICK a \in In(g) : FirstOf(i) = FirstOf(a)
      BY <1>19
    <2>3. PICK b \in In(h) : FirstOf(j) = FirstOf(b)
      BY <1>19
    <2> QED BY <2>1, <2>2, <2>3
  <1>21. GroupsOK'
    BY <1>15, <1>17, <1>20 DEF GroupsOK
  <1>22. \A g \in DOMAIN grouped : g \in DOMAIN grouped' /\ In(g) \subseteq In(g)'
    BY <1>7, <1>10, <1>11
  <1>23. \A g \in DOMAIN grouped' : \A i \in In(g)' :
            i = x \/ \E h \in DOMAIN grouped : i \in In(h)
    BY <1>7, <1>10, <1>11
  <1>24. s \in DOMAIN grouped' /\ x \in In(s)'
    BY <1>3, <1>7, <1>11
  <1> QED BY <1>13, <1>21, <1>22, <1>23, <1>24 DEF Added

\* What is left of a sequence, and its next entry.
LEMMA NextOne ==
  ASSUME NEW S, NEW s \in Seq(S), NEW n \in 0 .. Len(s)
  PROVE  /\ SubSeq(s, n + 1, Len(s)) = << >> <=> n = Len(s)
         /\ n # Len(s) =>
               /\ Head(SubSeq(s, n + 1, Len(s))) = s[n + 1]
               /\ Tail(SubSeq(s, n + 1, Len(s))) = SubSeq(s, n + 1 + 1, Len(s))
  <1> DEFINE q == SubSeq(s, n + 1, Len(s))
  <1>1. Len(s) \in Nat /\ n \in Nat /\ n <= Len(s)
    OBVIOUS
  <1>2. CASE n = Len(s)
    <2>1. q = << >>
      BY <1>1, <1>2
    <2> QED BY <1>2, <2>1
  <1>3. CASE n # Len(s)
    <2>1. /\ q \in Seq(S) /\ Len(q) = Len(s) - n /\ Len(q) # 0
          /\ \A k \in 1 .. Len(q) : q[k] = s[n + k]
      BY <1>1, <1>3
    <2>2. q # << >> /\ Head(q) = s[n + 1]
      <3>1. q[1] = s[n + 1]
        BY <1>1, <1>3
      <3> HIDE DEF q
      <3> QED BY <2>1, <3>1
    <2>3. Tail(q) = SubSeq(s, n + 1 + 1, Len(s))
      BY <1>1, <1>3, <2>1
    <2> QED BY <1>3, <2>2, <2>3
  <1> QED BY <1>2, <1>3

LEMMA GroupKeeps ==
  ASSUME BodyInv, Group
  PROVE  BodyInv'
  <1>1. /\ BodyTypeOK /\ GroupsOK /\ stage = "group" /\ highlights = << >>
        /\ input' = input /\ usable' = usable /\ highlights' = highlights
        /\ usable => Counted \in 3 .. 6
    BY DEF BodyInv, NothingYet, Group
  <1>2. /\ PrTitles' = PrTitles /\ Titled' = Titled /\ Counted' = Counted
        /\ \A i : Class(i)' = Class(i) /\ FirstOf(i)' = FirstOf(i)
    BY <1>1, SameTitles
  <1>3. /\ PrTitles \in Seq(Nat) /\ Len(PrTitles) \in Nat
        /\ DOMAIN PrTitles = 1 .. Len(PrTitles)
        /\ \A k, l \in DOMAIN PrTitles : k < l => PrTitles[k] < PrTitles[l]
    BY <1>1, TitlesAre
  <1>4. PICK n \in 0 .. Len(PrTitles) :
             /\ titles = SubSeq(PrTitles, n + 1, Len(PrTitles))
             /\ \A g \in DOMAIN grouped : \A i \in In(g) : \E k \in 1 .. n : i = PrTitles[k]
             /\ \A k \in 1 .. n : \E g \in DOMAIN grouped : PrTitles[k] \in In(g)
    BY <1>1 DEF BodyInv, Grouping
  <1>5. NothingYet' /\ HasHighlights' /\ ToldOnce' /\ LeftOutForCause'
    <2>1. stage' \in {"group", "summarize"}
      BY <1>1 DEF Group
    <2> QED BY <1>1, <1>2, <2>1 DEF NothingYet, HasHighlights, ToldOnce, LeftOutForCause, Deterministic
  <1>6. CASE titles = << >>
    <2>1. stage' = "summarize" /\ titles' = titles /\ grouped' = grouped
      BY <1>6 DEF Group
    <2>2. grouped # << >>
      BY <1>1, <1>6 DEF BodyInv, Grouping
    <2>3. BodyTypeOK' /\ Grouping'
      BY <1>1, <2>1 DEF BodyTypeOK, Grouping
    <2>4. \A g : In(g)' = In(g)
      BY <2>1 DEF In
    <2>5. GroupsOK'
      BY <1>1, <1>2, <2>1, <2>4 DEF GroupsOK
    <2>6. n = Len(PrTitles)
      BY <1>3, <1>4, <1>6, NextOne
    <2>7. \A i \in Titled : \E g \in DOMAIN grouped : i \in In(g)
      BY <1>3, <1>4, <2>6 DEF Titled
    <2>8. BulletsInOrder'
      BY <1>1 DEF BulletsInOrder
    <2>9. Summarizing'
      BY <1>2, <2>1, <2>2, <2>4, <2>7, <2>8 DEF Summarizing
    <2> QED BY <1>5, <2>3, <2>5, <2>9 DEF BodyInv
  <1>7. CASE titles # << >>
    <2>1. PICK x : x = Head(titles)
      OBVIOUS
    <2>2. /\ n + 1 \in DOMAIN PrTitles /\ x = PrTitles[n + 1] /\ n \in Nat
          /\ Tail(titles) = SubSeq(PrTitles, n + 1 + 1, Len(PrTitles))
      <3>1. n # Len(PrTitles)
        BY <1>3, <1>4, <1>7, NextOne
      <3>2. n \in Nat /\ n + 1 \in DOMAIN PrTitles
        <4> DEFINE m == Len(PrTitles)
        <4>1. m \in Nat /\ n \in 0 .. m /\ n # m /\ DOMAIN PrTitles = 1 .. m
          BY <1>3, <3>1
        <4> HIDE DEF m
        <4> QED BY <4>1
      <3> QED BY <1>3, <1>4, <2>1, <3>1, <3>2, NextOne
    <2>3. /\ stage' = stage /\ titles' = Tail(titles)
          /\ grouped' =
               IF Slot(Class(x)) = {}
               THEN Append(grouped, [key |-> Class(x), titles |-> <<x>>])
               ELSE [g \in DOMAIN grouped |->
                       IF g \in Slot(Class(x))
                       THEN [grouped[g] EXCEPT !.titles = Append(@, x)]
                       ELSE grouped[g]]
      BY <1>7, <2>1 DEF Group
    <2>4. x \in Titled /\ x \in Nat
      BY <1>3, <2>2 DEF Titled
    <2>5. \A k \in 1 .. n : k \in DOMAIN PrTitles /\ PrTitles[k] < x /\ PrTitles[k] \in Titled
      <3> SUFFICES ASSUME NEW k \in 1 .. n
                   PROVE  k \in DOMAIN PrTitles /\ PrTitles[k] < x /\ PrTitles[k] \in Titled
        OBVIOUS
      <3>1. k \in DOMAIN PrTitles /\ k < n + 1
        BY <1>3, <2>2
      <3> QED BY <1>3, <2>2, <3>1 DEF Titled
    <2>6. \A g \in DOMAIN grouped : \A i \in In(g) : i < x
      BY <1>4, <2>5
    <2>7. ASSUME Slot(Class(x)) = {} PROVE Added(x)
      <3>1. FirstOf(x) \in Titled /\ FirstOf(x) <= x /\ Class(FirstOf(x)) = Class(x) /\ FirstOf(x) \in Nat
        BY <1>1, <2>4, FirstOfClass
      <3>2. PICK k \in DOMAIN PrTitles : FirstOf(x) = PrTitles[k]
        BY <3>1 DEF Titled
      <3>3. k \notin 1 .. n
        <4> SUFFICES ASSUME k \in 1 .. n PROVE FALSE
          OBVIOUS
        <4>1. PICK g \in DOMAIN grouped : PrTitles[k] \in In(g)
          BY <1>4
        <4>2. grouped[g].key = Class(x)
          BY <1>1, <3>1, <3>2, <4>1 DEF GroupsOK
        <4> QED BY <2>7, <4>2 DEF Slot
      <3>4. k = n + 1 \/ n + 1 < k
        BY <1>3, <2>2, <3>3
      <3>5. FirstOf(x) = x
        <4>1. n + 1 < k => x < FirstOf(x)
          BY <1>3, <2>2, <3>2
        <4> QED BY <2>2, <2>4, <3>1, <3>2, <3>4, <4>1
      <3>6. grouped' = Append(grouped, [key |-> Class(x), titles |-> <<x>>])
        BY <2>3, <2>7, Zenon
      <3> QED BY <1>1, <2>4, <2>6, <2>7, <3>5, <3>6, NewGroup, Zenon
    <2>8. ASSUME Slot(Class(x)) # {} PROVE Added(x)
      <3>1. PICK s \in Slot(Class(x)) : TRUE
        BY <2>8
      <3>2. grouped' = [g \in DOMAIN grouped |->
                          IF g \in Slot(Class(x))
                          THEN [grouped[g] EXCEPT !.titles = Append(@, x)]
                          ELSE grouped[g]]
        BY <2>3, <2>8, Zenon
      <3> QED BY <1>1, <2>4, <2>6, <3>1, <3>2, OldGroup, Zenon
    <2>9. Added(x)
      BY <2>7, <2>8, Zenon
    <2>10. titles' \in Seq(Nat)
      <3>1. titles \in Seq(Nat)
        BY <1>1, BodyTyping
      <3> QED BY <1>7, <2>3, <3>1
    <2>11. BodyTypeOK'
      <3>1. grouped' \in Seq([key : Keys, titles : Seq(Nat)])
        BY <2>9 DEF Added, GroupType
      <3> QED BY <1>1, <2>3, <2>10, <3>1 DEF BodyTypeOK
    <2>12. Grouping'
      <3>1. n + 1 \in 0 .. Len(PrTitles)
        BY <1>3, <2>2
      <3>2. titles' = SubSeq(PrTitles, n + 1 + 1, Len(PrTitles))
        BY <2>2, <2>3
      <3>3. \A k \in 1 .. n : k \in 1 .. n + 1
        BY <2>2
      <3>4. n + 1 \in 1 .. n + 1
        BY <2>2
      <3>5. ASSUME NEW g \in DOMAIN grouped', NEW i \in In(g)'
            PROVE  \E k \in 1 .. n + 1 : i = PrTitles[k]
        <4>1. CASE i = x
          BY <2>2, <3>4, <4>1
        <4>2. CASE \E h \in DOMAIN grouped : i \in In(h)
          BY <1>4, <3>3, <4>2
        <4> QED BY <2>9, <4>1, <4>2 DEF Added
      <3>6. ASSUME NEW k \in 1 .. n + 1
            PROVE  \E g \in DOMAIN grouped' : PrTitles[k] \in In(g)'
        <4>1. CASE k = n + 1
          BY <2>2, <2>9, <4>1 DEF Added
        <4>2. CASE k \in 1 .. n
          <5>1. PICK g \in DOMAIN grouped : PrTitles[k] \in In(g)
            BY <1>4, <4>2
          <5> QED BY <2>9, <5>1 DEF Added
        <4> QED BY <2>2, <4>1, <4>2
      <3>7. grouped' # << >>
        BY <2>9 DEF Added
      <3> QED BY <1>2, <3>1, <3>2, <3>5, <3>6, <3>7 DEF Grouping
    <2>13. GroupsOK' /\ Summarizing'
      BY <1>1, <2>3, <2>9 DEF Added, Summarizing
    <2> QED BY <1>5, <2>11, <2>12, <2>13 DEF BodyInv
  <1> QED BY <1>6, <1>7

\* The bullets of a group tell of its titles, in order, or leave them out for
\* a cause.
LEMMA BulletsAre ==
  ASSUME BodyTypeOK, GroupsOK, NEW g \in DOMAIN grouped
  PROVE  LET B == Bullets(grouped[g])
         IN  /\ B \in Seq(BulletType) /\ Len(B) \in Nat /\ Len(B) >= 1
             /\ DOMAIN B = 1 .. Len(B)
             /\ \A b \in DOMAIN B : B[b].from = grouped[g].key /\ B[b].lines \subseteq In(g)
             /\ \A b, c \in DOMAIN B : b < c =>
                   /\ grouped[g].key = "other"
                   /\ \A i \in B[b].lines, j \in B[c].lines : i < j
             /\ \A i \in In(g) :
                   \/ \E b \in DOMAIN B : i \in B[b].lines
                   \/ input.changelog[i] = "release" /\ FirstOf(i) # i
                   \/ /\ input.changelog[i] = "plain"
                      /\ \E l \in DOMAIN PrTitles : input.changelog[PrTitles[l]] = "named"
  <1> DEFINE t == grouped[g].titles
             key == grouped[g].key
             B == Bullets(grouped[g])
             M == {t[k] : k \in DOMAIN t}
  <1>1. /\ key \in Keys /\ t \in Seq(Nat) /\ Len(t) \in Nat /\ DOMAIN t = 1 .. Len(t)
    BY BodyTyping
  <1>2. /\ t # << >>
        /\ \A i \in In(g) : i \in Titled /\ Class(i) = key
        /\ \A k, l \in DOMAIN t : k < l => t[k] < t[l]
    BY DEF GroupsOK
  <1>3. /\ \A k \in DOMAIN t : t[k] \in In(g)
        /\ M = In(g)
        /\ \A i \in In(g) : i \in Nat /\ \E k \in DOMAIN t : i = t[k]
        /\ \E i : i \in In(g)
    BY <1>2, Members DEF In
  <1>4. B = IF key = "other" THEN [k \in DOMAIN t |-> Bullet("other", {t[k]})]
            ELSE <<Bullet(key, Summary(key, M))>>
    BY DEF Bullets
  <1>5. \A c, S : Bullet(c, S).from = c /\ Bullet(c, S).lines = S
    BY DEF Bullet
  <1>6. \A c \in Keys : \A S \in SUBSET Nat : Bullet(c, S) \in BulletType
    BY DEF Bullet, BulletType
  <1> HIDE DEF t, key, B, M
  <1>7. CASE key = "other"
    <2> DEFINE n == Len(t)
               w(k) == Bullet("other", {t[k]})
    <2>1. n \in Nat /\ n # 0 /\ DOMAIN t = 1 .. n
      BY <1>1, <1>2
    <2>2. B = [k \in 1 .. n |-> w(k)]
      BY <1>4, <1>7, <2>1
    <2>3. \A k \in 1 .. n : w(k) \in BulletType
      <3>1. \A k \in 1 .. n : {t[k]} \subseteq Nat
        BY <1>1
      <3>2. "other" \in Keys
        BY DEF Keys
      <3> QED BY <1>6, <3>1, <3>2
    <2>4. \A k \in 1 .. n : w(k).from = "other" /\ w(k).lines = {t[k]}
      BY <1>5
    <2> HIDE DEF n, w
    <2>5. B \in [1 .. n -> BulletType] /\ DOMAIN B = 1 .. n /\ \A k \in 1 .. n : B[k] = w(k)
      BY <2>2, <2>3
    <2>6. B \in Seq(BulletType) /\ Len(B) = n
      BY <2>1, <2>5
    <2>7. \A b \in DOMAIN B : B[b].from = key /\ B[b].lines \subseteq In(g)
      BY <1>3, <1>7, <2>1, <2>4, <2>5
    <2>8. \A b, c \in DOMAIN B : b < c => \A i \in B[b].lines, j \in B[c].lines : i < j
      BY <1>2, <2>1, <2>4, <2>5
    <2>9. \A i \in In(g) : \E b \in DOMAIN B : i \in B[b].lines
      BY <1>3, <2>1, <2>4, <2>5
    <2> QED BY <1>7, <2>1, <2>5, <2>6, <2>7, <2>8, <2>9 DEF B, key
  <1>8. CASE key # "other"
    <2> DEFINE S == Summary(key, M)
               v == Bullet(key, S)
    <2>1. B = <<v>>
      BY <1>4, <1>8
    <2>2. S \subseteq In(g) /\ \A i \in In(g) :
             \/ i \in S
             \/ input.changelog[i] = "release" /\ FirstOf(i) # i
             \/ /\ input.changelog[i] = "plain"
                /\ \E l \in DOMAIN PrTitles : input.changelog[PrTitles[l]] = "named"
      <3>1. CASE key = "dependencies"
        <4> DEFINE N == {i \in M : input.changelog[i] = "named"}
        <4>1. S = IF N # {} THEN N ELSE M
          BY <3>1 DEF Summary
        <4>2. CASE N = {}
          BY <1>3, <4>1, <4>2
        <4>3. CASE N # {}
          <5>1. S = N
            BY <4>1, <4>3, Zenon
          <5>2. PICK a \in M : input.changelog[a] = "named"
            BY <4>3
          <5>3. a \in Titled
            BY <1>2, <1>3, <5>2
          <5>4. \E l \in DOMAIN PrTitles : input.changelog[PrTitles[l]] = "named"
            BY <5>2, <5>3 DEF Titled
          <5>5. \A i \in In(g) : input.changelog[i] \in {"named", "plain"}
            <6>1. \A i \in In(g) : Class(i) = "dependencies" /\ input.changelog[i] \in Titles
              BY <1>2, <3>1, FirstOfClass
            <6> QED BY <6>1 DEF Class, Titles
          <5> QED BY <1>3, <5>1, <5>4, <5>5
        <4> QED BY <4>2, <4>3
      <3>2. CASE key = "release"
        <4>1. S = {Min(M)}
          BY <3>2 DEF Summary, Min
        <4>2. Min(M) \in M /\ \A j \in M : Min(M) <= j
          BY <1>3, Smallest
        <4>3. ASSUME NEW i \in In(g), i # Min(M)
              PROVE  input.changelog[i] = "release" /\ FirstOf(i) # i
          <5>1. input.changelog[i] = "release"
            <6>1. Class(i) = "release"
              BY <1>2, <3>2
            <6> QED BY <6>1 DEF Class
          <5>2. FirstOf(i) <= Min(M) /\ FirstOf(i) \in Nat
            <6>1. i \in Titled /\ Min(M) \in Titled /\ Class(i) = Class(Min(M))
              BY <1>2, <1>3, <4>2
            <6> QED BY <6>1, FirstOfClass
          <5>3. Min(M) < i
            BY <1>3, <4>2, <4>3
          <5>4. Min(M) \in Nat
            BY <1>3, <4>2
          <5> QED BY <1>3, <5>1, <5>2, <5>3, <5>4
        <4> QED BY <1>3, <4>1, <4>2, <4>3
      <3>3. CASE key \notin {"dependencies", "release"}
        <4>1. S = M
          BY <3>3 DEF Summary
        <4> QED BY <1>3, <4>1
      <3> QED BY <3>1, <3>2, <3>3
    <2> HIDE DEF S
    <2>3. v \in BulletType /\ v.from = key /\ v.lines = S
      <3>1. S \subseteq Nat
        BY <1>3, <2>2
      <3> QED BY <1>1, <1>5, <1>6, <3>1
    <2> HIDE DEF v
    <2>4. /\ B \in Seq(BulletType) /\ Len(B) = 1 /\ DOMAIN B = 1 .. 1 /\ B[1] = v
          /\ \A b \in DOMAIN B : b = 1
      BY <2>1, <2>3
    <2>5. \A b, c \in DOMAIN B : ~(b < c)
      BY <2>4
    <2>6. 1 \in DOMAIN B
      BY <2>4
    <2> QED BY <2>2, <2>3, <2>4, <2>5, <2>6 DEF B, key
  <1> QED BY <1>7, <1>8

\* Bullets in order tell of no change twice.
LEMMA OrderTellsOnce ==
  ASSUME BodyTypeOK, BulletsInOrder
  PROVE  ToldOnce
  <1>1. /\ DOMAIN highlights = 1 .. Len(highlights) /\ Len(highlights) \in Nat
        /\ Titled \subseteq Nat
    BY BodyTyping, FirstOfClass
  <1>2. ASSUME NEW j \in DOMAIN highlights, NEW k \in DOMAIN highlights, j < k
        PROVE  /\ highlights[j].lines \intersect highlights[k].lines = {}
               /\ highlights[j].from = highlights[k].from => highlights[j].from = "other"
    <2>1. \A i \in highlights[j].lines, l \in highlights[k].lines :
             i \in Nat /\ (Class(i) = Class(l) => i < l)
      BY <1>1, <1>2 DEF BulletsInOrder
    <2>2. \A i \in highlights[j].lines : i \notin highlights[k].lines
      BY <2>1
    <2> QED BY <1>2, <2>2 DEF BulletsInOrder
  <1>3. \A j, k \in DOMAIN highlights : j # k => j < k \/ k < j
    BY <1>1
  <1>4. ASSUME NEW j \in DOMAIN highlights, NEW k \in DOMAIN highlights, j # k
        PROVE  /\ highlights[j].lines \intersect highlights[k].lines = {}
               /\ highlights[j].from = highlights[k].from =>
                     highlights[j].from \in {"codex", "other"}
    BY <1>2, <1>3, <1>4
  <1> QED BY <1>4 DEF ToldOnce

\* The first four bullets are shown.
LEMMA EndKeeps ==
  ASSUME BodyInv, Summarize, grouped = << >>
  PROVE  BodyInv'
  <1>1. /\ BodyTypeOK /\ stage = "summarize" /\ stage' = "done" /\ highlights # << >>
        /\ input' = input /\ usable' = usable /\ titles' = titles /\ grouped' = grouped
        /\ highlights' = FirstFour(highlights)
        /\ usable => Counted \in 3 .. 6
        /\ BulletsInOrder
        /\ \A i \in Titled : Excused(i)
    <2>1. DOMAIN grouped = {}
      OBVIOUS
    <2> QED BY <2>1 DEF BodyInv, Summarizing, Summarize, NothingYet
  <1>2. /\ PrTitles' = PrTitles /\ Counted' = Counted
        /\ \A i : Class(i)' = Class(i) /\ FirstOf(i)' = FirstOf(i)
    BY <1>1, SameTitles
  <1>3. /\ highlights \in Seq(BulletType) /\ Len(highlights) \in Nat
        /\ DOMAIN highlights = 1 .. Len(highlights)
    BY <1>1, BodyTyping
  <1>4. PICK m \in 1 .. 4 :
             /\ highlights' \in Seq(BulletType) /\ Len(highlights') = m
             /\ DOMAIN highlights' = 1 .. m /\ m <= Len(highlights)
             /\ \A b \in 1 .. m : highlights'[b] = highlights[b]
             /\ m < 4 => m = Len(highlights)
    <2> DEFINE h == highlights
    <2>1. h \in Seq(BulletType) /\ Len(h) \in Nat /\ DOMAIN h = 1 .. Len(h) /\ Len(h) # 0
      BY <1>1, <1>3
    <2>2. highlights' = IF Len(h) > 4 THEN SubSeq(h, 1, 4) ELSE h
      BY <1>1 DEF FirstFour
    <2> HIDE DEF h
    <2>3. CASE Len(h) > 4
      <3>1. highlights' = SubSeq(h, 1, 4)
        BY <2>2, <2>3
      <3>2. /\ SubSeq(h, 1, 4) \in Seq(BulletType) /\ Len(SubSeq(h, 1, 4)) = 4
            /\ DOMAIN SubSeq(h, 1, 4) = 1 .. 4
            /\ \A b \in 1 .. 4 : SubSeq(h, 1, 4)[b] = h[b]
        BY <2>1, <2>3
      <3> QED BY <2>1, <2>3, <3>1, <3>2 DEF h
    <2>4. CASE ~(Len(h) > 4)
      <3>1. highlights' = h
        BY <2>2, <2>4
      <3>2. Len(h) \in 1 .. 4
        BY <2>1, <2>4
      <3> QED BY <2>1, <3>1, <3>2 DEF h
    <2> QED BY <2>3, <2>4
  <1>5. BodyTypeOK'
    BY <1>1, <1>4 DEF BodyTypeOK, BulletType
  <1>6. /\ \A b \in 1 .. m : b \in DOMAIN highlights
        /\ \A b \in DOMAIN highlights : b > m => m = 4
    <2>1. PICK len : len = Len(highlights)
      OBVIOUS
    <2>2. len \in Nat /\ m \in 1 .. 4 /\ m <= len /\ (m < 4 => m = len)
          /\ DOMAIN highlights = 1 .. len
      BY <1>3, <1>4, <2>1
    <2>3. \A b \in 1 .. m : b \in 1 .. len
      BY <2>2
    <2>4. \A b \in 1 .. len : b > m => m = 4
      BY <2>2
    <2> QED BY <2>2, <2>3, <2>4
  <1>7. HasHighlights'
    <2>1. m \in 1 .. 6
      OBVIOUS
    <2>2. \A b \in 1 .. m : highlights'[b].from # "codex"
      BY <1>1, <1>4, <1>6 DEF BulletsInOrder, Keys
    <2> QED BY <1>4, <2>1, <2>2 DEF HasHighlights
  <1>8. ToldOnce'
    <2>1. ToldOnce
      BY <1>1, OrderTellsOnce
    <2> QED BY <1>4, <1>6, <2>1 DEF ToldOnce
  <1>9. LeftOutForCause'
    <2> SUFFICES ASSUME NEW k \in DOMAIN PrTitles
                 PROVE  LET i == PrTitles[k]
                        IN  \/ \E b \in DOMAIN highlights' : i \in highlights'[b].lines
                            \/ input.changelog[i] = "release" /\ FirstOf(i) # i
                            \/ /\ input.changelog[i] = "plain"
                               /\ \E l \in DOMAIN PrTitles : input.changelog[PrTitles[l]] = "named"
                            \/ /\ Len(highlights') = 4
                               /\ \A b \in DOMAIN highlights' : \A j \in highlights'[b].lines :
                                     FirstOf(j) <= FirstOf(i) /\ (Class(j) = Class(i) => j < i)
      BY <1>1, <1>2 DEF LeftOutForCause
    <2>1. PICK i : i = PrTitles[k]
      OBVIOUS
    <2>2. Excused(i)
      BY <1>1, <2>1 DEF Titled
    <2>3. ASSUME NEW b \in DOMAIN highlights, i \in highlights[b].lines
          PROVE  \/ \E c \in DOMAIN highlights' : i \in highlights'[c].lines
                 \/ /\ Len(highlights') = 4
                    /\ \A c \in DOMAIN highlights' : \A j \in highlights'[c].lines :
                          FirstOf(j) <= FirstOf(i) /\ (Class(j) = Class(i) => j < i)
      <3>1. CASE b <= m
        <4>1. b \in 1 .. m
          BY <1>3, <3>1
        <4> QED BY <1>4, <2>3, <4>1
      <3>2. CASE b > m
        <4>1. m = 4 /\ \A c \in 1 .. m : c \in DOMAIN highlights /\ c < b
          BY <1>3, <1>6, <3>2
        <4>2. \A c \in 1 .. m : \A j \in highlights[c].lines :
                 FirstOf(j) <= FirstOf(i) /\ (Class(j) = Class(i) => j < i)
          BY <1>1, <2>3, <4>1 DEF BulletsInOrder
        <4> QED BY <1>4, <4>1, <4>2
      <3> QED BY <1>3, <3>1, <3>2
    <2> QED BY <2>1, <2>2, <2>3 DEF Excused
  <1>10. GroupsOK' /\ NothingYet' /\ Grouping' /\ Summarizing'
    BY <1>1, <1>2 DEF GroupsOK, NothingYet, Grouping, Summarizing
  <1> QED BY <1>5, <1>7, <1>8, <1>9, <1>10 DEF BodyInv

LEMMA SummaryKeeps ==
  ASSUME BodyInv, Summarize, grouped # << >>
  PROVE  BodyInv'
  <1>1. /\ BodyTypeOK /\ GroupsOK /\ stage = "summarize" /\ stage' = "summarize"
        /\ input' = input /\ usable' = usable /\ titles' = titles
        /\ grouped' = Tail(grouped)
        /\ highlights' = highlights \o Bullets(Head(grouped))
        /\ usable => Counted \in 3 .. 6
        /\ BulletsInOrder
        /\ \A i \in Titled : (\E g \in DOMAIN grouped : i \in In(g)) \/ Excused(i)
    BY DEF BodyInv, Summarizing, Summarize, NothingYet
  <1>2. /\ PrTitles' = PrTitles /\ Counted' = Counted /\ Titled' = Titled
        /\ \A i : Class(i)' = Class(i) /\ FirstOf(i)' = FirstOf(i)
    BY <1>1, SameTitles
  <1>3. PICK p : p = Len(highlights)
    OBVIOUS
  <1>4. /\ highlights \in Seq(BulletType) /\ p \in Nat
        /\ DOMAIN highlights = 1 .. p
    BY <1>1, <1>3, BodyTyping
  <1>5. /\ grouped \in Seq(GroupType) /\ Len(grouped) \in Nat /\ Len(grouped) # 0
        /\ DOMAIN grouped = 1 .. Len(grouped) /\ 1 \in DOMAIN grouped
        /\ Head(grouped) = grouped[1]
    BY <1>1, BodyTyping
  <1>6. PICK B : B = Bullets(grouped[1])
    OBVIOUS
  <1>7. PICK q : q = Len(B)
    OBVIOUS
  <1>8. /\ B \in Seq(BulletType) /\ q \in Nat /\ q >= 1 /\ DOMAIN B = 1 .. q
        /\ \A b \in DOMAIN B : B[b].from = grouped[1].key /\ B[b].lines \subseteq In(1)
        /\ \A b, c \in DOMAIN B : b < c =>
              /\ grouped[1].key = "other"
              /\ \A i \in B[b].lines, j \in B[c].lines : i < j
        /\ \A i \in In(1) :
              \/ \E b \in DOMAIN B : i \in B[b].lines
              \/ input.changelog[i] = "release" /\ FirstOf(i) # i
              \/ /\ input.changelog[i] = "plain"
                 /\ \E l \in DOMAIN PrTitles : input.changelog[PrTitles[l]] = "named"
    BY <1>1, <1>5, <1>6, <1>7, BulletsAre
  <1>9. highlights' = highlights \o B
    BY <1>1, <1>5, <1>6
  <1>10. /\ highlights' \in Seq(BulletType) /\ Len(highlights') = p + q
         /\ DOMAIN highlights' = 1 .. p + q /\ highlights' # << >>
         /\ \A b \in 1 .. p : b \in 1 .. p + q /\ highlights'[b] = highlights[b]
         /\ \A b \in 1 .. q : p + b \in 1 .. p + q /\ highlights'[p + b] = B[b]
    BY <1>3, <1>4, <1>7, <1>8, <1>9
  <1>11. \A b \in 1 .. p + q : b \in 1 .. p \/ \E c \in 1 .. q : b = p + c
    <2> SUFFICES ASSUME NEW b \in 1 .. p + q, b > p PROVE \E c \in 1 .. q : b = p + c
      BY <1>4
    <2>1. b - p \in 1 .. q /\ b = p + (b - p)
      BY <1>4, <1>8
    <2> QED BY <2>1
  <1>12. /\ grouped' \in Seq(GroupType)
         /\ DOMAIN grouped' = 1 .. Len(grouped) - 1
         /\ \A g \in DOMAIN grouped' : /\ g + 1 \in DOMAIN grouped /\ 1 < g + 1 /\ g \in Nat
                                       /\ grouped'[g] = grouped[g + 1]
         /\ \A g \in DOMAIN grouped : g # 1 =>
                g - 1 \in DOMAIN grouped' /\ grouped'[g - 1] = grouped[g] /\ g \in Nat
    BY <1>1, <1>5
  <1>13. /\ \A g \in DOMAIN grouped' : In(g)' = In(g + 1)
         /\ \A g \in DOMAIN grouped : g # 1 => g - 1 \in DOMAIN grouped' /\ In(g - 1)' = In(g)
    BY <1>12 DEF In
  <1>14. GroupsOK'
    <2>1. \A g, h \in DOMAIN grouped' : grouped'[g].key = grouped'[h].key => g = h
      <3> SUFFICES ASSUME NEW g \in DOMAIN grouped', NEW h \in DOMAIN grouped',
                          grouped'[g].key = grouped'[h].key
                   PROVE  g = h
        OBVIOUS
      <3>1. g + 1 = h + 1
        BY <1>1, <1>12 DEF GroupsOK
      <3> QED BY <1>12, <3>1
    <2>2. ASSUME NEW g \in DOMAIN grouped'
          PROVE  /\ grouped'[g].titles # << >>
                 /\ \A i \in In(g)' : i \in Titled' /\ Class(i)' = grouped'[g].key
                 /\ \A k, l \in DOMAIN grouped'[g].titles :
                        k < l => grouped'[g].titles[k] < grouped'[g].titles[l]
      <3>1. /\ grouped[g + 1].titles # << >>
            /\ \A i \in In(g + 1) : i \in Titled /\ Class(i) = grouped[g + 1].key
            /\ \A k, l \in DOMAIN grouped[g + 1].titles :
                   k < l => grouped[g + 1].titles[k] < grouped[g + 1].titles[l]
        BY <1>1, <1>12 DEF GroupsOK
      <3> QED BY <1>2, <1>12, <1>13, <3>1
    <2>3. ASSUME NEW g \in DOMAIN grouped', NEW h \in DOMAIN grouped', g < h
          PROVE  \A i \in In(g)', j \in In(h)' : FirstOf(i)' < FirstOf(j)'
      <3>1. g + 1 \in DOMAIN grouped /\ h + 1 \in DOMAIN grouped /\ g + 1 < h + 1
        BY <1>12, <2>3
      <3>2. \A i \in In(g + 1), j \in In(h + 1) : FirstOf(i) < FirstOf(j)
        BY <1>1, <3>1 DEF GroupsOK
      <3> QED BY <1>2, <1>13, <3>2
    <2> QED BY <2>1, <2>2, <2>3 DEF GroupsOK
  <1>15. \A i \in In(1) : i \in Titled /\ Class(i) = grouped[1].key
    BY <1>1, <1>5 DEF GroupsOK
  <1>16. grouped[1].key \in Keys
    BY <1>1, <1>5, BodyTyping
  <1>17. ASSUME NEW b \in DOMAIN highlights'
         PROVE  /\ highlights'[b].from \in Keys
                /\ \A i \in highlights'[b].lines : i \in Titled /\ Class(i) = highlights'[b].from
                /\ \A g \in DOMAIN grouped' :
                      /\ highlights'[b].from # grouped'[g].key
                      /\ \A i \in highlights'[b].lines, j \in In(g)' : FirstOf(i) < FirstOf(j)
    <2>1. CASE b \in 1 .. p
      <3>1. b \in DOMAIN highlights /\ highlights'[b] = highlights[b]
        BY <1>4, <1>10, <2>1
      <3>2. /\ highlights[b].from \in Keys
            /\ \A i \in highlights[b].lines : i \in Titled /\ Class(i) = highlights[b].from
            /\ \A g \in DOMAIN grouped :
                  /\ highlights[b].from # grouped[g].key
                  /\ \A i \in highlights[b].lines, j \in In(g) : FirstOf(i) < FirstOf(j)
        BY <1>1, <3>1 DEF BulletsInOrder
      <3> QED BY <1>12, <1>13, <3>1, <3>2
    <2>2. CASE \E c \in 1 .. q : b = p + c
      <3>1. highlights'[b].from = grouped[1].key /\ highlights'[b].lines \subseteq In(1)
        BY <1>8, <1>10, <2>2
      <3>2. ASSUME NEW g \in DOMAIN grouped'
            PROVE  /\ grouped[1].key # grouped'[g].key
                   /\ \A i \in In(1), j \in In(g)' : FirstOf(i) < FirstOf(j)
        <4>1. g + 1 \in DOMAIN grouped /\ 1 < g + 1 /\ g + 1 # 1
          BY <1>12
        <4> QED BY <1>1, <1>5, <1>12, <1>13, <4>1 DEF GroupsOK
      <3> QED BY <1>15, <1>16, <3>1, <3>2
    <2> QED BY <1>10, <1>11, <2>1, <2>2
  <1>18. ASSUME NEW b \in DOMAIN highlights', NEW c \in DOMAIN highlights', b < c
         PROVE  /\ highlights'[b].from = highlights'[c].from => highlights'[b].from = "other"
                /\ \A i \in highlights'[b].lines, j \in highlights'[c].lines :
                      /\ FirstOf(i) <= FirstOf(j)
                      /\ Class(i) = Class(j) => i < j
    <2>1. CASE c \in 1 .. p
      <3>1. /\ b \in DOMAIN highlights /\ highlights'[b] = highlights[b]
            /\ c \in DOMAIN highlights /\ highlights'[c] = highlights[c]
        <4>1. b \in 1 .. p
          BY <1>4, <1>8, <1>10, <1>18, <2>1
        <4> QED BY <1>4, <1>10, <2>1, <4>1
      <3>2. /\ highlights[b].from = highlights[c].from => highlights[b].from = "other"
            /\ \A i \in highlights[b].lines, j \in highlights[c].lines :
                  /\ FirstOf(i) <= FirstOf(j)
                  /\ Class(i) = Class(j) => i < j
        BY <1>1, <1>18, <3>1 DEF BulletsInOrder
      <3> QED BY <3>1, <3>2
    <2>2. ASSUME NEW d \in 1 .. q, c = p + d, b \in 1 .. p
          PROVE  /\ highlights'[b].from # highlights'[c].from
                 /\ \A i \in highlights'[b].lines, j \in highlights'[c].lines :
                       FirstOf(i) < FirstOf(j) /\ Class(i) # Class(j)
      <3>1. highlights'[c].from = grouped[1].key /\ highlights'[c].lines \subseteq In(1)
        BY <1>8, <1>10, <2>2
      <3>2. b \in DOMAIN highlights /\ highlights'[b] = highlights[b]
        BY <1>4, <1>10, <2>2
      <3>3. /\ highlights[b].from # grouped[1].key
            /\ \A i \in highlights[b].lines : i \in Titled /\ Class(i) = highlights[b].from
            /\ \A i \in highlights[b].lines, j \in In(1) : FirstOf(i) < FirstOf(j)
        BY <1>1, <1>5, <3>2 DEF BulletsInOrder
      <3> QED BY <1>15, <3>1, <3>2, <3>3
    <2>3. ASSUME NEW d \in 1 .. q, NEW e \in 1 .. q, c = p + d, b = p + e
          PROVE  /\ highlights'[b].from = "other"
                 /\ \A i \in highlights'[b].lines, j \in highlights'[c].lines :
                       FirstOf(i) = FirstOf(j) /\ i < j
      <3>1. e < d /\ e \in DOMAIN B /\ d \in DOMAIN B
        BY <1>4, <1>8, <1>18, <2>3
      <3>2. highlights'[b] = B[e] /\ highlights'[c] = B[d]
        BY <1>10, <2>3
      <3>3. /\ B[e].from = "other" /\ B[e].lines \subseteq In(1) /\ B[d].lines \subseteq In(1)
            /\ \A i \in B[e].lines, j \in B[d].lines : i < j
        BY <1>8, <3>1
      <3>4. \A i, j \in In(1) : FirstOf(i) = FirstOf(j)
        <4>1. \A i, j \in In(1) : i \in Titled /\ j \in Titled /\ Class(i) = Class(j)
          BY <1>15
        <4> QED BY <1>1, <4>1, FirstOfClass
      <3> QED BY <3>2, <3>3, <3>4
    <2>4. \A i \in highlights'[b].lines, j \in highlights'[c].lines :
             FirstOf(i) \in Nat /\ FirstOf(j) \in Nat
      BY <1>1, <1>17, FirstOfClass
    <2> QED BY <1>10, <1>11, <2>1, <2>2, <2>3, <2>4
  <1>19. BulletsInOrder'
    BY <1>2, <1>17, <1>18 DEF BulletsInOrder
  <1>20. ASSUME NEW i \in Titled
         PROVE  (\E g \in DOMAIN grouped' : i \in In(g)') \/ Excused(i)'
    <2>1. Excused(i)' <=>
             \/ \E b \in DOMAIN highlights' : i \in highlights'[b].lines
             \/ input.changelog[i] = "release" /\ FirstOf(i) # i
             \/ /\ input.changelog[i] = "plain"
                /\ \E l \in DOMAIN PrTitles : input.changelog[PrTitles[l]] = "named"
      BY <1>1, <1>2 DEF Excused
    <2>2. CASE i \in In(1)
      <3>1. ASSUME NEW b \in DOMAIN B, i \in B[b].lines
            PROVE  \E c \in DOMAIN highlights' : i \in highlights'[c].lines
        BY <1>8, <1>10, <3>1
      <3> QED BY <1>8, <2>1, <2>2, <3>1
    <2>3. CASE \E g \in DOMAIN grouped : g # 1 /\ i \in In(g)
      BY <1>13, <2>3
    <2>4. CASE Excused(i)
      <3>1. ASSUME NEW b \in DOMAIN highlights, i \in highlights[b].lines
            PROVE  \E c \in DOMAIN highlights' : i \in highlights'[c].lines
        BY <1>4, <1>10, <3>1
      <3> QED BY <2>1, <2>4, <3>1 DEF Excused
    <2> QED BY <1>1, <2>2, <2>3, <2>4
  <1>21. BodyTypeOK'
    <2>1. /\ grouped' \in Seq([key : Keys, titles : Seq(Nat)])
          /\ highlights' \in Seq([from : Keys \union {"codex", "general"}, lines : SUBSET Nat])
      BY <1>10, <1>12 DEF GroupType, BulletType
    <2> QED BY <1>1, <2>1 DEF BodyTypeOK
  <1>22. ToldOnce'
    BY <1>19, <1>21, OrderTellsOnce, PTL
  <1>23. NothingYet' /\ Grouping' /\ Summarizing' /\ HasHighlights' /\ LeftOutForCause'
    BY <1>1, <1>2, <1>10, <1>19, <1>20
    DEF NothingYet, Grouping, Summarizing, HasHighlights, LeftOutForCause, Deterministic
  <1> QED BY <1>14, <1>21, <1>22, <1>23 DEF BodyInv

LEMMA BodyStep ==
  ASSUME BodyInv, [BodyNext]_bodyVars
  PROVE  BodyInv'
  <1>1. CASE UNCHANGED bodyVars
    <2>1. /\ input' = input /\ stage' = stage /\ usable' = usable
          /\ titles' = titles /\ grouped' = grouped /\ highlights' = highlights
      BY <1>1 DEF bodyVars
    <2>2. /\ PrTitles' = PrTitles /\ Counted' = Counted /\ Titled' = Titled
          /\ \A i : Class(i)' = Class(i) /\ FirstOf(i)' = FirstOf(i)
      BY <2>1, SameTitles
    <2>3. \A g : In(g)' = In(g)
      BY <2>1 DEF In
    <2>4. \A i : Excused(i)' <=> Excused(i)
      BY <2>1, <2>2 DEF Excused
    <2>5. BodyTypeOK' /\ NothingYet' /\ HasHighlights' /\ ToldOnce'
      BY <2>1, <2>2 DEF BodyInv, BodyTypeOK, NothingYet, HasHighlights, ToldOnce
    <2>6. GroupsOK'
      BY <2>1, <2>2, <2>3 DEF BodyInv, GroupsOK
    <2>7. Grouping'
      BY <2>1, <2>2, <2>3 DEF BodyInv, Grouping
    <2>8. BulletsInOrder' <=> BulletsInOrder
      BY <2>1, <2>2, <2>3 DEF BulletsInOrder
    <2>9. Summarizing'
      BY <2>1, <2>2, <2>3, <2>4, <2>8 DEF BodyInv, Summarizing
    <2>10. LeftOutForCause'
      BY <2>1, <2>2 DEF BodyInv, LeftOutForCause, Deterministic
    <2> QED BY <2>5, <2>6, <2>7, <2>9, <2>10 DEF BodyInv
  <1> QED BY <1>1, WorkflowKeeps, StartKeeps, GroupKeeps, EndKeeps, SummaryKeeps DEF BodyNext

\* For changelogs and answers of any length, and any limit: there are one to
\* six highlights, each change is told once, and what is left out is left out
\* for a cause.
THEOREM HighlightsTellAll ==
  MCSpec => []HighlightsAreRight
  <1>1. MCInit => BodyInv
    BY BodyStart DEF MCInit, BodyWaits
  <1>2. BodyInv /\ [MCNext]_mcVars => BodyInv'
    <2> SUFFICES ASSUME BodyInv, [MCNext]_mcVars PROVE [BodyNext]_bodyVars
      BY BodyStep
    <2> QED BY DEF MCNext, RunsDelta, RunsBudget, RunsBody, RunsPublish, mcVars
  <1>3. BodyInv => HighlightsAreRight
    BY DEF BodyInv, HighlightsAreRight
  <1> QED BY <1>1, <1>2, <1>3, PTL DEF MCSpec
=============================================================================
