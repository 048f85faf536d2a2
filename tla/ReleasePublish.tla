--------------------------- MODULE ReleasePublish ---------------------------
(* One tag's release: the release job (release.yml) prepares a draft, piece  *)
(* by piece and again when it is re-run; operators verify and publish it     *)
(* with publish.sh and verify_draft.sh.                                      *)
EXTENDS Naturals

CONSTANTS
    Operators,
    Attempts,   \* how often publish.sh polls, 12 in the code
    MaxRuns,    \* bound: runs of the release job
    MaxEdits,   \* bound: edits of the draft on the web site
    MaxFaults   \* bound: runs and calls that fail half-way

ASSUME PublishAssumption ==
    /\ Attempts \in Nat \ {0}
    /\ MaxRuns \in Nat
    /\ MaxEdits \in Nat
    /\ MaxFaults \in Nat

VARIABLES
    release,    \* the release as GitHub stores it
    shown,      \* the release as GitHub's API shows it, a moment late
    job,        \* the release job's step, one run at a time
    runs,
    edits,
    faults,
    op,         \* each operator's step in publish.sh
    attempt,
    result,     \* of the last call: "none", "ok" or "error"
    (* History *)
    everLive,      \* the release was public at some time
    everComplete,  \* it had both headings and both assets at some time
    overlapped     \* a draft was re-made or edited while it was being published

desk        == <<op, attempt, result>>
used        == <<runs, edits, faults>>
past        == <<everLive, everComplete, overlapped>>
publishVars == <<release, shown, job, used, desk, past>>

Assets == {"tgz", "spdx"}
Release == [exists : BOOLEAN, draft : BOOLEAN, headings : BOOLEAN, assets : SUBSET Assets]

NoRelease == [exists |-> FALSE, draft |-> FALSE, headings |-> FALSE, assets |-> {}]

Live(r) == r.exists /\ ~r.draft
Complete(r) == r.headings /\ r.assets = Assets

PublishInit ==
    /\ release = NoRelease /\ shown = NoRelease
    /\ job = "idle" /\ runs = 0 /\ edits = 0 /\ faults = 0
    /\ op = [o \in Operators |-> "idle"]
    /\ attempt = [o \in Operators |-> 0]
    /\ result = [o \in Operators |-> "none"]
    /\ everLive = FALSE /\ everComplete = FALSE /\ overlapped = FALSE

Store(r) ==
    /\ release' = r
    /\ everLive' = (everLive \/ Live(r))
    /\ everComplete' = (everComplete \/ Complete(r))
    /\ UNCHANGED shown

Note(disturbance) == overlapped' = (overlapped \/ disturbance)

Propagate ==
    /\ shown # release
    /\ shown' = release
    /\ UNCHANGED <<release, job, used, desk, past>>

\* Somebody is in publish.sh.
Busy == \E o \in Operators : op[o] # "idle"

-----------------------------------------------------------------------------
(* The release job; its runs for one tag are in one concurrency group *)

JobStarts ==
    /\ job = "idle"
    /\ runs < MaxRuns
    /\ runs' = runs + 1
    /\ job' = "create"
    /\ Note(runs > 0 /\ Busy)
    /\ UNCHANGED <<release, shown, edits, faults, desk, everLive, everComplete>>

\* draft: true, omitDraftDuringUpdate: false: an existing release becomes a
\* draft again, with the body that render_release_body.py wrote.
Updated(r) == [r EXCEPT !.exists = TRUE, !.headings = TRUE, !.draft = TRUE]

CreateOrUpdate ==
    /\ job = "create"
    /\ Store(Updated(release))
    /\ job' = "tgz"
    /\ UNCHANGED <<used, desk, overlapped>>

\* An asset is uploaded; one of the same name is deleted before.
UploadAsset(a, then) ==
    /\ job = a
    /\ \/ /\ a \in release.assets
          /\ Store([release EXCEPT !.assets = @ \ {a}])
          /\ UNCHANGED job
       \/ /\ a \notin release.assets
          /\ Store([release EXCEPT !.assets = @ \union {a}])
          /\ job' = then
    /\ UNCHANGED <<used, desk, overlapped>>

\* verify_draft.sh as the job's last step.
JobVerifies ==
    /\ job = "verify"
    /\ job' = "idle"
    /\ UNCHANGED <<release, shown, used, desk, past>>

\* artifactErrorsFailBuild: a failing request ends the run where it is.
JobFails ==
    /\ job # "idle"
    /\ faults < MaxFaults
    /\ faults' = faults + 1
    /\ job' = "idle"
    /\ UNCHANGED <<release, shown, runs, edits, desk, past>>

\* Somebody edits the body of the draft on the web site.
EditBody ==
    /\ release.exists /\ release.draft
    /\ edits < MaxEdits
    /\ edits' = edits + 1
    /\ Store([release EXCEPT !.headings = ~@])
    /\ Note(Busy)
    /\ UNCHANGED <<job, runs, faults, desk>>

-----------------------------------------------------------------------------
(* publish.sh *)

Go(o, s) == op' = [op EXCEPT ![o] = s] /\ UNCHANGED <<attempt, result>>

End(o, r) ==
    /\ op' = [op EXCEPT ![o] = "idle"]
    /\ result' = [result EXCEPT ![o] = r]
    /\ UNCHANGED attempt

Idly == UNCHANGED <<release, shown, job, used, everLive, everComplete>>

OpStep(o, s) == op[o] = s /\ Idly /\ UNCHANGED overlapped

\* A call.  It may come while the job is still uploading; it overlaps when the
\* job runs again, or the API still shows the draft as it was before it was
\* re-made or edited.
Call(o) ==
    /\ op[o] = "idle"
    /\ Go(o, "fetch")
    /\ Note(\/ runs > 1 /\ job # "idle"
            \/ (runs > 1 \/ edits > 0) /\ shown # release)
    /\ Idly

\* Mutant of Already: whatever exists has been published.
AlreadyThere(r) == r.exists

\* A release that is not a draft has been published before.
Already(r) == Live(r)

FetchRelease(o) ==
    /\ OpStep(o, "fetch")
    /\ \/ Already(shown) /\ End(o, "ok")
       \/ ~Already(shown) /\ ~shown.exists /\ End(o, "error")
       \/ ~Already(shown) /\ shown.exists /\ Go(o, "verify")

\* Mutant of Passes: the SBOM is not looked for.
PassesWithoutSbom(r) == r.draft /\ r.headings /\ "tgz" \in r.assets

\* The draft has both headings and both assets.
Passes(r) == r.draft /\ Complete(r)

\* verify_draft.sh fetches the release again.
Verify(o) ==
    /\ OpStep(o, "verify")
    /\ \/ ~Passes(shown) /\ End(o, "error")
       \/ Passes(shown) /\ Go(o, "patch")

\* draft=false by the identifier that was fetched first.
Patch(o) ==
    /\ op[o] = "patch"
    /\ Store([release EXCEPT !.draft = FALSE])
    /\ op' = [op EXCEPT ![o] = "poll"]
    /\ attempt' = [attempt EXCEPT ![o] = 1]
    /\ UNCHANGED <<result, job, used, overlapped>>

\* Mutant of MayPoll: one attempt too many.
MayPollMore(n) == n <= Attempts

MayPoll(n) == n < Attempts

Poll(o) ==
    /\ OpStep(o, "poll")
    /\ \/ Live(shown) /\ End(o, "ok")
       \/ /\ ~Live(shown) /\ MayPoll(attempt[o])
          /\ attempt' = [attempt EXCEPT ![o] = @ + 1]
          /\ UNCHANGED <<op, result>>
       \/ ~Live(shown) /\ ~MayPoll(attempt[o]) /\ End(o, "error")

\* A request of the polling loop fails: that attempt is used up.
PollFails(o) ==
    /\ op[o] = "poll"
    /\ faults < MaxFaults
    /\ faults' = faults + 1
    /\ \/ /\ MayPoll(attempt[o])
          /\ attempt' = [attempt EXCEPT ![o] = @ + 1]
          /\ UNCHANGED <<op, result>>
       \/ ~MayPoll(attempt[o]) /\ End(o, "error")
    /\ UNCHANGED <<release, shown, job, runs, edits, past>>

\* A request fails, or the operator interrupts the script.
CallFails(o) ==
    /\ op[o] # "idle"
    /\ faults < MaxFaults
    /\ faults' = faults + 1
    /\ End(o, "error")
    /\ UNCHANGED <<release, shown, job, runs, edits, past>>

OpNext(o) == Call(o) \/ FetchRelease(o) \/ Verify(o) \/ Patch(o) \/ Poll(o)

JobNext == CreateOrUpdate \/ UploadAsset("tgz", "spdx")
           \/ UploadAsset("spdx", "verify") \/ JobVerifies

PublishNext ==
    \/ Propagate \/ JobStarts \/ JobNext \/ JobFails \/ EditBody
    \/ \E o \in Operators : OpNext(o) \/ PollFails(o) \/ CallFails(o)

\* The API catches up, a run of the job goes on, and operators call publish.sh
\* until it succeeds; nothing makes the job run, fail or succeed.
Fairness ==
    /\ WF_publishVars(Propagate)
    /\ WF_publishVars(JobNext)
    /\ \A o \in Operators : WF_publishVars(OpNext(o))

PublishSpec == PublishInit /\ [][PublishNext]_publishVars /\ Fairness

-----------------------------------------------------------------------------
(* Properties *)

PublishTypeOK ==
    /\ release \in Release /\ shown \in Release
    /\ job \in {"idle", "create", "tgz", "spdx", "verify"}
    /\ runs \in 0 .. MaxRuns /\ edits \in 0 .. MaxEdits /\ faults \in 0 .. MaxFaults
    /\ op \in [Operators -> {"idle", "fetch", "verify", "patch", "poll"}]
    /\ attempt \in [Operators -> 0 .. Attempts]
    /\ result \in [Operators -> {"none", "ok", "error"}]
    /\ everLive \in BOOLEAN /\ everComplete \in BOOLEAN /\ overlapped \in BOOLEAN

\* What CONTRIBUTING.md says of publish.sh: what is published has the required
\* headings and assets.  It fails: nothing keeps the job, or an editor, from the
\* draft between its verification and its publication.
PublishedIsComplete == Live(release) => Complete(release)

\* That race is the only way: an incomplete release is public only if the draft
\* was re-made or edited while it was being published.  Operators may call the
\* script while the job is still uploading, and several of them at once.
OnlyOverlapSpoils == Live(release) /\ ~Complete(release) => overlapped

\* And even then what went public had been complete: no step of anybody makes
\* a release public that never had its headings and assets.
PublishedWasComplete == Live(release) => everComplete

\* An operator who is told that the release is published finds it has been.
SuccessIsReal ==
    \A o \in Operators : result[o] = "ok" => everLive

\* Once a complete draft is left alone it goes public, however often a call was
\* interrupted or gave up polling.
GoesLive ==
    []((job = "idle" /\ release.exists /\ Complete(release)) =>
        <>(Live(release) \/ job # "idle" \/ ~Complete(release)))
=============================================================================
