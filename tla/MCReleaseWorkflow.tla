-------------------------- MODULE MCReleaseWorkflow --------------------------
(* What release.yml and the operators run for a tag: the list of commits,    *)
(* the patch budget, the highlights and the publication.  They share no      *)
(* state, so a behaviour runs one of them, script, while the others wait in  *)
(* a fixed initial state.                                                    *)
EXTENDS ReleaseDelta, PatchBudget, ReleaseBody, ReleasePublish

VARIABLE script

mcVars == <<script, deltaVars, budgetVars, bodyVars, publishVars>>

SomeInput == CHOOSE i \in BodyInputs : TRUE

DeltaWaits == github = << >> /\ DeltaInit

BudgetWaits == commits = << >> /\ BudgetInit

BodyWaits == input = SomeInput /\ BodyInit

MCInit ==
    /\ PublishInit
    /\ \/ script = "delta" /\ DeltaInit /\ BudgetWaits /\ BodyWaits
       \/ script = "budget" /\ DeltaWaits /\ BudgetInit /\ BodyWaits
       \/ script = "body" /\ DeltaWaits /\ BudgetWaits /\ BodyInit
       \/ script = "publish" /\ DeltaWaits /\ BudgetWaits /\ BodyWaits

RunsDelta ==
    /\ script = "delta" /\ DeltaNext
    /\ UNCHANGED <<script, budgetVars, bodyVars, publishVars>>

RunsBudget ==
    /\ script = "budget" /\ BudgetNext
    /\ UNCHANGED <<script, deltaVars, bodyVars, publishVars>>

RunsBody ==
    /\ script = "body" /\ BodyNext
    /\ UNCHANGED <<script, deltaVars, budgetVars, publishVars>>

RunsPublish ==
    /\ script = "publish" /\ PublishNext
    /\ UNCHANGED <<script, deltaVars, budgetVars, bodyVars>>

MCNext == RunsDelta \/ RunsBudget \/ RunsBody \/ RunsPublish

\* ReleasePublish's Fairness, of the behaviours that run it.
MCFairness ==
    /\ WF_publishVars(script = "publish" /\ Propagate)
    /\ WF_publishVars(script = "publish" /\ JobNext)
    /\ \A o \in Operators : WF_publishVars(script = "publish" /\ OpNext(o))

MCSpec == MCInit /\ [][MCNext]_mcVars /\ MCFairness

-----------------------------------------------------------------------------
(* Properties *)

\* The prompt script.  load_release_delta: the notes start at the release
\* before the current one, and are made from the latest of the commits between
\* them.  curate_commit_payloads: the budget is kept but for one mark, and no
\* file or commit is lost.
PromptIsRight ==
    /\ DeltaTypeOK /\ PreviousWasPublished /\ PreviousIsRight /\ KeepsTheLatest
    /\ BudgetTypeOK /\ SpentWithinBudget /\ NothingIsLost

\* build_highlights: there are highlights, each change is told once, and what
\* is left out is left out for a cause.
HighlightsAreRight == BodyTypeOK /\ HasHighlights /\ ToldOnce /\ LeftOutForCause

\* publish.sh: only complete drafts go public, unless they change under the
\* operator's hands, and success is real.
PublicationIsRight ==
    PublishTypeOK /\ OnlyOverlapSpoils /\ PublishedWasComplete /\ SuccessIsReal

-----------------------------------------------------------------------------
(* Inputs *)

MCFiles == [sort : {"shipping"}, patch : {0, 2, 3, 5}]
           \union [sort : {"ignored", "nameless"}, patch : {2}]

\* Up to three commits of up to two files: a budget of five is left over, used
\* up exactly, or cut, within a commit and across commits.
MCCommitLists == BoundedSeq(BoundedSeq(MCFiles, 2), 2)
            \union [1 .. 3 -> BoundedSeq(MCFiles, 1)]

\* Every changelog of up to five lines without Codex, two of six changes of
\* which the last is behind the limit; and every answer of up to four lines,
\* or of too many, with three changelogs.
MCBodyInputs ==
    [changelog : BoundedSeq(ChangeLines, 5)
                 \union [1 .. 6 -> {"other", "release"}],
     key : {FALSE}, succeeds : {FALSE}, codex : {<< >>}]
    \union
    [changelog : {<< >>, <<"text", "other">>, <<"plain", "renovate", "named">>},
     key : {TRUE}, succeeds : BOOLEAN,
     codex : BoundedSeq(CodexLines, 4) \union {[i \in 1 .. n |-> "bullet"] : n \in 6 .. 7}]
=============================================================================
