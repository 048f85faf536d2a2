----------------------------- MODULE ChartPages -----------------------------
(* The helm-chart job of build.yml and reuse_published_archive.py: package   *)
(* the chart, take over the bytes of a published archive with the same       *)
(* content, attest and upload them, and publish them on the gh-pages branch. *)
EXTENDS Naturals

CONSTANTS
    Jobs,       \* runs of the workflow; a run may be started again
    Versions,
    Contents,   \* what chart_contents compares: names, kinds, modes and data
    Broken,     \* archives it refuses to read
    None,
    MaxRuns,    \* bound: packages built
    MaxOthers   \* bound: commits on gh-pages by somebody else

ASSUME PagesAssumption ==
    /\ Broken \notin Contents
    /\ None \notin Jobs
    /\ MaxRuns \in Nat
    /\ MaxOthers \in Nat

\* helm package puts the time into the archive: stamp makes each build differ.
Archive == [content : Contents \union {Broken}, stamp : 1 .. MaxRuns]
NoArchive == [content |-> None, stamp |-> 0]

\* The branch: its archives, the index entries and a revision number.
Pages == [file  : [Versions -> Archive \union {NoArchive}],
          entry : [Versions -> [archive : Archive \union {NoArchive}, created : Nat]],
          rev   : Nat]

VARIABLES
    source,     \* version, content and event of each job
    pages,      \* gh-pages on GitHub
    running,    \* the concurrency group gh-pages-helm-repo
    pending,
    step,       \* of each job
    built,      \* the archive in its workspace
    base,       \* the branch as it fetched it
    runs,       \* packages built so far
    others,
    attested    \* archives that have attestations

group     == <<running, pending>>
pagesVars == <<source, pages, group, step, built, base, runs, others, attested>>

Sources == [version : Versions, content : Contents \union {Broken},
            event : {"push", "pull_request"}]

NoEntry == [archive |-> NoArchive, created |-> 0]
NoPages == [file |-> [v \in Versions |-> NoArchive],
            entry |-> [v \in Versions |-> NoEntry], rev |-> 0]

NothingRan ==
    /\ pages = NoPages
    /\ running = None /\ pending = None
    /\ step = [j \in Jobs |-> "idle"]
    /\ built = [j \in Jobs |-> NoArchive]
    /\ base = [j \in Jobs |-> NoPages]
    /\ runs = 0 /\ others = 0
    /\ attested = {}

PagesInit == source \in [Jobs -> Sources] /\ NothingRan

AtWork == {"package", "attest", "fetch", "publish"}
Over == {"idle", "done", "failed", "changed", "cancelled"}

\* Mutant of Admit: the jobs are not in one concurrency group.
AdmitAlways(j) ==
    /\ step' = [step EXCEPT ![j] = "package"]
    /\ UNCHANGED group

\* One job runs and one waits; a newer one takes the place of the waiting one.
Admit(j) ==
    \/ /\ running = None
       /\ running' = j
       /\ step' = [step EXCEPT ![j] = "package"]
       /\ UNCHANGED pending
    \/ /\ running # None
       /\ pending' = j
       /\ step' = [i \in Jobs |-> IF i = j THEN "waiting"
                                  ELSE IF i = pending THEN "cancelled" ELSE step[i]]
       /\ UNCHANGED running

\* A push, a pull request, or "Re-run jobs".
Trigger(j) ==
    /\ step[j] \in Over
    /\ Admit(j)
    /\ UNCHANGED <<source, pages, built, base, runs, others, attested>>

\* Job j is over as s says, and the waiting job is next.
End(j, s) ==
    /\ base' = [base EXCEPT ![j] = NoPages]
    /\ step' = [i \in Jobs |-> IF i = j THEN s
                               ELSE IF i = pending THEN "package" ELSE step[i]]
    /\ running' = pending
    /\ pending' = None

Proceed(j, s) == step' = [step EXCEPT ![j] = s] /\ UNCHANGED group
Go(j, s) == Proceed(j, s) /\ UNCHANGED base

\* Mutant of SameContent: whatever is published is reused.
SameContentAny(a, b) == TRUE

\* Mutant of SameContent: only identical bytes count as the same chart.
SameContentBytes(a, b) == a = b

SameContent(a, b) == a.content = b.content

\* Helm packages; bytes that are published for the version already are reused
\* when the content is the same, and the job ends when it is not.
Package(j) ==
    /\ step[j] = "package"
    /\ runs < MaxRuns
    /\ runs' = runs + 1
    /\ LET new == [content |-> source[j].content, stamp |-> runs']
           old == pages.file[source[j].version]
           readable == Broken \notin {new.content, old.content}
       IN  \/ /\ old = NoArchive
              /\ built' = [built EXCEPT ![j] = new]
              /\ Go(j, "attest")
           \/ /\ old # NoArchive
              /\ readable /\ SameContent(new, old)
              /\ built' = [built EXCEPT ![j] = old]
              /\ Go(j, "attest")
           \/ /\ old # NoArchive
              /\ ~readable \/ ~SameContent(new, old)
              /\ built' = [built EXCEPT ![j] = new]
              /\ End(j, IF readable THEN "changed" ELSE "failed")
    /\ UNCHANGED <<source, pages, others, attested>>

\* Attestations and upload; a pull request ends here.
Attest(j) ==
    /\ step[j] = "attest"
    /\ \/ /\ source[j].event = "pull_request"
          /\ End(j, "done")
          /\ UNCHANGED attested
       \/ /\ source[j].event = "push"
          /\ attested' = attested \union {built[j]}
          /\ Go(j, "fetch")
    /\ UNCHANGED <<source, pages, built, runs, others>>

Fetch(j) ==
    /\ step[j] = "fetch"
    /\ base' = [base EXCEPT ![j] = pages]
    /\ Proceed(j, "publish")
    /\ UNCHANGED <<source, pages, built, runs, others, attested>>

\* Mutant of Indexed: the new index is not merged with the old one.
IndexedFresh(b, v, archive) ==
    [NoPages.entry EXCEPT ![v] = [archive |-> archive, created |-> runs]]

\* Mutant of Indexed: all archives are indexed, the old ones as of today.
IndexedAll(b, v, archive) ==
    [u \in Versions |->
        LET a == IF u = v THEN archive ELSE b.file[u]
        IN  [archive |-> a, created |-> IF a = NoArchive THEN 0 ELSE runs]]

\* helm repo index over the new archive alone, merged into the old index.
Indexed(b, v, archive) ==
    [b.entry EXCEPT ![v] = [archive |-> archive, created |-> runs]]

\* The push is refused when the branch has moved since it was fetched.
Publish(j) ==
    /\ step[j] = "publish"
    /\ LET v == source[j].version
           old == base[j].file[v]
       IN  \/ /\ old # NoArchive
              /\ End(j, IF old = built[j] THEN "done" ELSE "changed")
              /\ UNCHANGED pages
           \/ /\ old = NoArchive
              /\ pages.rev # base[j].rev
              /\ End(j, "failed")
              /\ UNCHANGED pages
           \/ /\ old = NoArchive
              /\ pages.rev = base[j].rev
              /\ pages' = [file  |-> [base[j].file EXCEPT ![v] = built[j]],
                           entry |-> Indexed(base[j], v, built[j]),
                           rev   |-> pages.rev + 1]
              /\ End(j, "done")
    /\ UNCHANGED <<source, built, runs, others, attested>>

\* The runner is lost, or a request fails, at any step.
JobFails(j) ==
    /\ step[j] \in AtWork
    /\ End(j, "failed")
    /\ UNCHANGED <<source, pages, built, runs, others, attested>>

\* Somebody else commits to gh-pages something that is not a chart.
OtherCommit ==
    /\ others < MaxOthers
    /\ others' = others + 1
    /\ pages' = [pages EXCEPT !.rev = @ + 1]
    /\ UNCHANGED <<source, group, step, built, base, runs, attested>>

PagesNext ==
    \/ \E j \in Jobs : \/ Trigger(j) \/ Package(j) \/ Attest(j)
                       \/ Fetch(j) \/ Publish(j) \/ JobFails(j)
    \/ OtherCommit

PagesSpec == PagesInit /\ [][PagesNext]_pagesVars

-----------------------------------------------------------------------------
(* Properties *)

PagesTypeOK ==
    /\ source \in [Jobs -> Sources]
    /\ pages \in Pages
    /\ running \in Jobs \union {None} /\ pending \in Jobs \union {None}
    /\ step \in [Jobs -> Over \union AtWork \union {"waiting"}]
    /\ \A j \in Jobs : (step[j] \in AtWork <=> running = j)
                     /\ (step[j] = "waiting" <=> pending = j)
    /\ built \in [Jobs -> Archive \union {NoArchive}]
    /\ base \in [Jobs -> Pages]
    /\ runs \in 0 .. MaxRuns /\ others \in 0 .. MaxOthers
    /\ attested \subseteq Archive

\* Whatever jobs run, are re-run or fail half-way: the bytes of a published
\* version and the date of its index entry never change, and none disappears.
PublishedForGood ==
    [][\A v \in Versions : pages.file[v] # NoArchive =>
           /\ pages'.file[v] = pages.file[v]
           /\ pages'.entry[v] = pages.entry[v]]_pages

\* The index and the branch agree on every version: who installs from the
\* index gets the archive whose digest it states, and it has its attestations.
IndexMatchesFiles ==
    \A v \in Versions :
        /\ pages.entry[v].archive = pages.file[v]
        /\ pages.file[v] # NoArchive => pages.file[v] \in attested

\* What a successful push job uploads for the release is what is published,
\* and has the content of its sources.
ReleasedIsPublished ==
    \A j \in Jobs : step[j] = "done" /\ source[j].event = "push" =>
        /\ built[j] = pages.file[source[j].version]
        /\ built[j].content = source[j].content

\* A job that is refused for changed bytes really has another content than the
\* published version: building the same sources again is no reason.
RefusedForChange ==
    \A j \in Jobs : step[j] = "changed" =>
        source[j].content # pages.file[source[j].version].content
=============================================================================
