------------------------------ MODULE ImageReuse ------------------------------
(* The container-image job of build.yml: does the image context differ from  *)
(* a base commit?  Then build an image, or else reuse a published one.  Jobs *)
(* of main and of release tags run at the same time over one registry.       *)
EXTENDS Integers, Sequences, FiniteSetsExt

CONSTANTS
    Contexts,   \* effective contents of vscode/ and sbom-generator/
    ReleaseTags,   \* release tags, as numbers
    Main,       \* the branch and the image tag
    Latest,     \* the image tag
    NoContext,
    PageSize,   \* versions that one request lists, 100 in the code
    MaxPushes,  \* bound: pushes to main
    MaxTroubles \* bound: failed and repeated jobs

ASSUME ReuseAssumption ==
    /\ NoContext \notin Contexts
    /\ ReleaseTags \subseteq Nat
    /\ Main # Latest /\ {Main, Latest} \intersect ReleaseTags = {}
    /\ PageSize \in Nat \ {0}
    /\ MaxPushes \in Nat
    /\ MaxTroubles \in Nat

\* What a workflow run is of; a concurrency group for each.
Refs == ReleaseTags \union {Main}

VARIABLES
    main,       \* context of the head of main
    tags,       \* context of the commit of each release tag
    job,        \* the latest run of each ref
    images,     \* versions of the package, the newest first
    releases,   \* context of the image that each release installs
    pushes,
    troubles,
    inOrder,    \* releases came in turn, and found the last one's image listed (history)
    missed      \* a push came before the job of the last was done (history)

reuseVars == <<main, tags, job, images, releases, pushes, troubles, inOrder, missed>>

Stages == {"none", "queued", "build", "reuse", "done", "failed"}
Running == {"queued", "build", "reuse"}
Job == [stage : Stages, head : Contexts \union {NoContext}, before : Contexts \union {NoContext}]
Image == [tags : SUBSET (Refs \union {Latest}), context : Contexts]

NoJob == [stage |-> "none", head |-> NoContext, before |-> NoContext]

\* The first push to main has no commit before it.
Starts(context) ==
    /\ main = context
    /\ tags = [v \in ReleaseTags |-> NoContext]
    /\ job = [r \in Refs |-> IF r = Main
                             THEN [stage |-> "queued", head |-> context, before |-> NoContext]
                             ELSE NoJob]
    /\ images = << >>
    /\ releases = [v \in ReleaseTags |-> NoContext]
    /\ pushes = 0 /\ troubles = 0
    /\ inOrder = TRUE /\ missed = FALSE

ReuseInit == \E c \in Contexts : Starts(c)

-----------------------------------------------------------------------------
(* Events *)

\* A push, of commits that may leave the context alone, cancels the run of the
\* last one (cancel-in-progress).
Push ==
    /\ pushes < MaxPushes
    /\ pushes' = pushes + 1
    /\ main' \in Contexts
    /\ job' = [job EXCEPT ![Main] =
                   [stage |-> "queued", head |-> main', before |-> main]]
    /\ missed' = (missed \/ job[Main].stage # "done")
    /\ UNCHANGED <<tags, images, releases, troubles, inOrder>>

Pushed == {v \in ReleaseTags : tags[v] # NoContext}

\* A release of the head of main.
Tag(v) ==
    /\ v \notin Pushed
    /\ tags' = [tags EXCEPT ![v] = main]
    /\ job' = [job EXCEPT ![v] = [stage |-> "queued", head |-> main, before |-> NoContext]]
    /\ inOrder' = (inOrder /\ \A w \in Pushed : w < v /\ job[w].stage = "done")
    /\ UNCHANGED <<main, images, releases, pushes, troubles, missed>>

\* Somebody runs the last run of a ref again, with the same event.
Rerun(r) ==
    /\ job[r].stage \in {"done", "failed"}
    /\ troubles < MaxTroubles
    /\ troubles' = troubles + 1
    /\ job' = [job EXCEPT ![r].stage = "queued"]
    /\ inOrder' = (inOrder /\ (r = Main \/ \A w \in Pushed : w <= r))
    /\ UNCHANGED <<main, tags, images, releases, pushes, missed>>

-----------------------------------------------------------------------------
(* The job *)

Others(v) == Pushed \ {v}

\* The highest of all other tags there are when the job runs.
PreviousTag(v) == Max(Others(v))

\* Mutant of Base: every push is compared with the previous tag.
BaseTag(r) ==
    IF Pushed \ {r} = {} THEN job[r].before ELSE tags[Max(Pushed \ {r})]

Base(r) ==
    IF r = Main THEN job[r].before
    ELSE IF Others(r) = {} THEN NoContext ELSE tags[PreviousTag(r)]

\* No base means a build.
Detect(r) ==
    /\ job[r].stage = "queued"
    /\ job' = [job EXCEPT ![r].stage =
                   IF Base(r) # job[r].head THEN "build" ELSE "reuse"]
    /\ UNCHANGED <<main, tags, images, releases, pushes, troubles, inOrder, missed>>

\* Both kinds of push move "latest": metadata-action adds it for tags.
TagsOf(r) == {r, Latest}

\* Mutant of Retagged: the registry is asked to keep the tags of older images.
RetaggedNot(image, names) == image

\* A tag names one image.
Retagged(image, names) == [image EXCEPT !.tags = @ \ names]

Installs(r, context) ==
    releases' = IF r = Main THEN releases ELSE [releases EXCEPT ![r] = context]

Build(r) ==
    /\ job[r].stage = "build"
    /\ images' = <<[tags |-> TagsOf(r), context |-> job[r].head]>>
                 \o [i \in DOMAIN images |-> Retagged(images[i], TagsOf(r))]
    /\ job' = [job EXCEPT ![r].stage = "done"]
    /\ Installs(r, job[r].head)
    /\ UNCHANGED <<main, tags, pushes, troubles, inOrder, missed>>

Newest(names) == {i \in DOMAIN images : images[i].tags \intersect names # {}}

\* Only the first page of versions is looked at, tagged or not.
Listed(names) == {i \in Newest(names) : i <= PageSize}

\* The releases' images are all behind the first page.
Buried == Newest(ReleaseTags) # {} /\ Listed(ReleaseTags) = {}

\* Mutant of Selected: the newest image with any tag.
SelectedAny == Listed(Refs \union {Latest})

\* The candidates: images of release tags, or else the latest, or any tagged.
Selected ==
    IF Listed(ReleaseTags) # {} THEN Listed(ReleaseTags)
    ELSE IF Listed({Latest}) # {} THEN Listed({Latest})
    ELSE Listed(Refs)

Reuse(r) ==
    /\ job[r].stage = "reuse"
    /\ Selected # {}
    /\ Installs(r, images[Min(Selected)].context)
    /\ job' = [job EXCEPT ![r].stage = "done"]
    /\ inOrder' = (inOrder /\ (r = Main \/ ~Buried))
    /\ UNCHANGED <<main, tags, images, pushes, troubles, missed>>

\* A step fails, or nothing is found to reuse.
ImageJobFails(r) ==
    /\ job[r].stage \in Running
    /\ \/ troubles < MaxTroubles /\ troubles' = troubles + 1
       \/ job[r].stage = "reuse" /\ Selected = {} /\ UNCHANGED troubles
    /\ job' = [job EXCEPT ![r].stage = "failed"]
    /\ UNCHANGED <<main, tags, images, releases, pushes, inOrder, missed>>

ReuseNext ==
    \/ Push
    \/ \E v \in ReleaseTags : Tag(v)
    \/ \E r \in Refs : Rerun(r) \/ Detect(r) \/ Build(r) \/ Reuse(r) \/ ImageJobFails(r)

ReuseSpec == ReuseInit /\ [][ReuseNext]_reuseVars

-----------------------------------------------------------------------------
(* Properties *)

ReuseTypeOK ==
    /\ main \in Contexts
    /\ tags \in [ReleaseTags -> Contexts \union {NoContext}]
    /\ job \in [Refs -> Job]
    /\ images \in Seq(Image)
    /\ \A i, j \in DOMAIN images :
           images[i].tags \intersect images[j].tags # {} => i = j
    /\ releases \in [ReleaseTags -> Contexts \union {NoContext}]
    /\ pushes \in 0 .. MaxPushes
    /\ troubles \in 0 .. MaxTroubles
    /\ inOrder \in BOOLEAN /\ missed \in BOOLEAN

\* As long as a release is tagged only when the last one's image is settled,
\* and main has not buried that behind the first page of versions, every
\* release installs an image of its own context, whether it was built or
\* reused, and whatever was built on main, failed or was repeated meanwhile.
ReleaseIsCurrent ==
    inOrder => \A v \in ReleaseTags : releases[v] \in {NoContext, tags[v]}

\* As long as no push overtakes the job of the push before, the image that is
\* called main, built or left as it is, has the context of main.
MainIsCurrent ==
    job[Main].stage = "done" /\ ~missed =>
        \E i \in DOMAIN images :
            Main \in images[i].tags /\ images[i].context = main

\* What CONTRIBUTING.md says: what changed since the previous release tag is
\* built for the current one.
BuiltWhenChanged ==
    \A v \in ReleaseTags :
        job[v].stage = "reuse" =>
            LET earlier == {w \in Pushed : w < v}
            IN  earlier # {} => tags[Max(earlier)] = tags[v]
=============================================================================
