---------------------------- MODULE ReleaseDelta ----------------------------
(* generate_release_highlights_prompt.py up to the list of commits: page     *)
(* through the releases, choose the one before the current tag, ask GitHub   *)
(* for the commits between them and fetch each.  The maintainers go on       *)
(* creating, publishing and deleting releases between two requests.          *)
EXTENDS Integers, SequencesExt, Positions

CONSTANTS
    Tags,
    Current,        \* the tag of --release
    Shas,
    NoSha,          \* an item without a sha
    NoTag,          \* no previous release
    PerPage,        \* 100 in the code
    MaxPages,       \* 5 in the code
    MaxCommits,     \* --max-commits, any integer the caller gives
    MaxReleases,    \* bound: releases there are when the run begins
    MaxLength,      \* bound: commits GitHub answers with
    MaxChanges      \* bound: changes of the release list during a run

ASSUME DeltaAssumption ==
    /\ Current \in Tags
    /\ NoTag \notin Tags
    /\ NoSha \notin Shas
    /\ PerPage \in Nat \ {0}
    /\ MaxPages \in Nat \ {0}
    /\ MaxCommits \in Int
    /\ MaxReleases \in Nat
    /\ MaxLength \in Nat
    /\ MaxChanges \in Nat

ListedRelease == [tag : Tags, draft : BOOLEAN]

VARIABLES
    github,     \* the releases, newest first
    changes,    \* how often they changed during the run
    page,       \* next page to ask for
    listed,     \* releases received
    phase,      \* "list", "select", "commits", "fetch", "written" or "failed"
    previous,   \* previous_tag
    answer,     \* commits GitHub answered with
    shas,       \* unique_shas
    fetched,    \* how many commits were fetched
    atStart,    \* the releases when the run began (history)
    published   \* tags that were ever seen published (history)

run       == <<page, listed, previous, answer, shas, fetched>>
history   == <<atStart, published>>
deltaVars == <<github, changes, run, phase, history>>

Published(rs) == {rs[i].tag : i \in {j \in DOMAIN rs : ~rs[j].draft}}

\* GitHub has one release per tag.
OnePerTag(rs) == \A i, j \in DOMAIN rs : rs[i].tag = rs[j].tag => i = j

DeltaInit ==
    /\ github \in {rs \in SeqOf(ListedRelease, MaxReleases) : OnePerTag(rs)}
    /\ changes = 0
    /\ page = 1 /\ listed = << >>
    /\ phase = "list"
    /\ previous = NoTag /\ answer = << >> /\ shas = << >> /\ fetched = 0
    /\ atStart = github /\ published = Published(github)

-----------------------------------------------------------------------------
(* The maintainers *)

Running == phase \notin {"written", "failed"}

GitHubChanges ==
    /\ Running
    /\ changes < MaxChanges
    /\ changes' = changes + 1
    /\ published' = published \union Published(github')
    /\ UNCHANGED <<run, phase, atStart>>

CreateDraft ==
    /\ \E t \in Tags \ {github[i].tag : i \in DOMAIN github} :
           github' = <<[tag |-> t, draft |-> TRUE]>> \o github
    /\ GitHubChanges

Publish ==
    /\ \E i \in DOMAIN github :
           github[i].draft /\ github' = [github EXCEPT ![i].draft = FALSE]
    /\ GitHubChanges

Delete ==
    /\ \E i \in DOMAIN github : github' = RemoveAt(github, i)
    /\ GitHubChanges

-----------------------------------------------------------------------------
(* The script *)

Least(a, b) == IF a < b THEN a ELSE b

Chunk == SubSeq(github, (page - 1) * PerPage + 1, Least(page * PerPage, Len(github)))

\* Mutant of LastPage: a full page ends the list.
LastPageFull == Len(Chunk) = PerPage \/ page = MaxPages

LastPage == Len(Chunk) < PerPage \/ page = MaxPages

ListPage ==
    /\ phase = "list"
    /\ listed' = listed \o Chunk
    /\ page' = page + 1
    /\ phase' = IF LastPage THEN "select" ELSE "list"
    /\ UNCHANGED <<github, changes, previous, answer, shas, fetched, history>>

\* Mutant of Filtered: drafts are releases too.
FilteredNot == DOMAIN listed

\* filtered: where the published ones are among the releases received.
Filtered == {i \in DOMAIN listed : ~listed[i].draft}

\* Behind the first occurrence of the current tag; when it is not there,
\* because it is a draft still or not a release, the newest of another tag.
Selected ==
    LET at == {i \in Filtered : listed[i].tag = Current}
        next == IF at = {} THEN Filtered ELSE {i \in Filtered : i > Min(at)}
    IN  IF next = {} THEN NoTag ELSE listed[Min(next)].tag

Select ==
    /\ phase = "select"
    /\ previous' = Selected
    /\ phase' = "commits"
    /\ UNCHANGED <<github, changes, page, listed, answer, shas, fetched, history>>

\* Mutant of Unique: the answer is taken as it comes.
UniqueNot(s) == s

\* Where each sha of s stands first.
Firsts(s) == {i \in DOMAIN s : s[i] # NoSha /\ \A j \in 1 .. i - 1 : s[j] # s[i]}

\* In order of first occurrence.
Unique(s) == Picked(s, Firsts(s))

\* Mutant of Limited: the first ones are kept.
LimitedFirst(s) == IF Len(s) > MaxCommits THEN SubSeq(s, 1, MaxCommits) ELSE s

\* unique_shas[-max_commits:], which leaves out the first -max_commits when
\* that is not negative: all of it is kept for 0.
Limited(s) ==
    LET skipped == IF MaxCommits > 0 THEN Len(s) - MaxCommits ELSE -MaxCommits
    IN  IF Len(s) > MaxCommits THEN SubSeq(s, skipped + 1, Len(s)) ELSE s

\* compare answers with the commits from previous to current, oldest first;
\* without a previous release list_commits gives max_commits at the most.
Commits ==
    /\ phase = "commits"
    /\ answer' \in SeqOf(Shas \union {NoSha}, MaxLength)
    /\ previous = NoTag /\ MaxCommits > 0 => Len(answer') <= MaxCommits
    /\ shas' = Limited(Unique(answer'))
    /\ phase' = "fetch"
    /\ UNCHANGED <<github, changes, page, listed, previous, fetched, history>>

\* get_commit for each; the files are written when all have been fetched.
Fetch ==
    /\ phase = "fetch"
    /\ \/ /\ fetched < Len(shas)
          /\ fetched' = fetched + 1
          /\ UNCHANGED phase
       \/ /\ fetched = Len(shas)
          /\ phase' = "written"
          /\ UNCHANGED fetched
    /\ UNCHANGED <<github, changes, page, listed, previous, answer, shas, history>>

\* GitHubApiError: the script ends without writing anything.
RequestFails ==
    /\ phase \in {"list", "commits", "fetch"}
    /\ phase = "fetch" => fetched < Len(shas)
    /\ phase' = "failed"
    /\ UNCHANGED <<github, changes, run, history>>

DeltaNext ==
    \/ CreateDraft \/ Publish \/ Delete
    \/ ListPage \/ Select \/ Commits \/ Fetch \/ RequestFails

DeltaSpec == DeltaInit /\ [][DeltaNext]_deltaVars

-----------------------------------------------------------------------------
(* Properties *)

DeltaTypeOK ==
    /\ github \in Seq(ListedRelease)
    /\ changes \in 0 .. MaxChanges
    /\ page \in 1 .. MaxPages + 1
    /\ listed \in Seq(ListedRelease)
    /\ phase \in {"list", "select", "commits", "fetch", "written", "failed"}
    /\ previous \in Tags \union {NoTag}
    /\ answer \in Seq(Shas \union {NoSha})
    /\ shas \in Seq(Shas)
    /\ fetched \in 0 .. Len(shas)
    /\ atStart \in Seq(ListedRelease)
    /\ published \subseteq Tags

\* Whatever changes between two pages, a draft is never taken for the release
\* the notes start from.
PreviousWasPublished == previous # NoTag => previous \in published

\* The published release that follows t in the list, or the first of another tag.
Before(rs, t) ==
    LET after == {i \in DOMAIN rs : /\ ~rs[i].draft /\ rs[i].tag # t
                                    /\ \A j \in DOMAIN rs :
                                        ~rs[j].draft /\ rs[j].tag = t => i > j}
    IN  IF after = {} THEN NoTag
        ELSE rs[Min(after)].tag

\* As many of the releases as the pages hold.
Newest(rs) == SubSeq(rs, 1, Least(PerPage * MaxPages, Len(rs)))

\* As long as nobody changes the releases during the run, the pages they come
\* in make no difference: the notes start at the release before the current,
\* of those that MaxPages pages reach.
PreviousIsRight ==
    phase \in {"commits", "fetch", "written"} /\ changes = 0 =>
        previous = Before(Newest(atStart), Current)

\* The prompt is built from whole commits, each once, and when there are too
\* many from the latest: none of them is older than one that was left out.
KeepsTheLatest ==
    phase = "written" =>
        /\ fetched = Len(shas)
        /\ \A i, j \in DOMAIN shas : shas[i] = shas[j] => i = j
        /\ LET named == Unique(answer)
           IN  shas = SubSeq(named, Len(named) - Len(shas) + 1, Len(named))
=============================================================================
