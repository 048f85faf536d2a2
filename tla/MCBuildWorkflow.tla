--------------------------- MODULE MCBuildWorkflow ---------------------------
(* The two parts of build.yml that publish.  The image job and the chart job *)
(* share no state (a registry, a branch), so a behaviour runs one of them,   *)
(* part, while the other waits without content.                              *)
EXTENDS ImageReuse, ChartPages, TLC

VARIABLE part

mcVars == <<part, reuseVars, pagesVars>>

\* A branch main and jobs without content.
ReuseWaits == Starts(NoContext)
PagesWaits == source = [j \in Jobs |-> None] /\ NothingRan

MCInit ==
    \/ part = "image" /\ ReuseInit /\ PagesWaits
    \/ part = "chart" /\ ReuseWaits /\ PagesInit

RunsImage == part = "image" /\ ReuseNext /\ UNCHANGED <<part, pagesVars>>
RunsChart == part = "chart" /\ PagesNext /\ UNCHANGED <<part, reuseVars>>

MCNext == RunsImage \/ RunsChart

MCSpec == MCInit /\ [][MCNext]_mcVars

\* Jobs, chart versions and contents are interchangeable.  The contents of the
\* image's context and those of the chart have the same names, to be exchanged
\* together.
MCSymmetry == Permutations(Jobs) \union Permutations(Versions)
              \union Permutations(Contents)

-----------------------------------------------------------------------------
(* Properties *)

\* The image job: releases tagged in turn install images of their own context,
\* and what is called main is main.
ImagesAreCurrent ==
    part = "image" => ReuseTypeOK /\ ReleaseIsCurrent /\ MainIsCurrent

\* The chart job: branch, index, attestations and release agree, and only a
\* changed chart is refused.
PagesAreRight ==
    part = "chart" =>
        PagesTypeOK /\ IndexMatchesFiles /\ ReleasedIsPublished /\ RefusedForChange
=============================================================================
