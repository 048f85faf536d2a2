\* Delta: three tags on two pages of one; the current one ends a page, begins the
\* next, is a draft, is behind the last page or is not there.
\* Body: five changes of the changelog are looked at; four highlights are shown.
\* Publish: two operators race the job, and each other, while the job is run
\* again and the body edited at any time.
CONSTANTS
    Tags = {current, t1, t2}
    Current = current
    NoTag = NoTag
    Shas = {c1, c2, c3}
    NoSha = NoSha
    PerPage = 1
    MaxPages = 2
    MaxCommits = 2
    MaxReleases = 3
    MaxLength = 3
    MaxChanges = 1
    MaxPatch = 5
    Suffix = 2
    CommitLists <- MCCommitLists
    Limit = 5
    BodyInputs <- MCBodyInputs
    Operators = {o1, o2}
    Attempts = 2
    MaxRuns = 2
    MaxEdits = 1
    MaxFaults = 2
SPECIFICATION MCSpec
INVARIANTS
    PromptIsRight
    HighlightsAreRight
    PublicationIsRight
PROPERTY GoesLive
\* Each script ends.
CHECK_DEADLOCK FALSE
