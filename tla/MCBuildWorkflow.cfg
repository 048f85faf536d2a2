\* Image: two contexts that come and go; three releases, which is what it
\* takes for one to rely on what another one relied on; one trouble.
\* Chart: three jobs fill the concurrency group and overrun it; two may build
\* the same version, from the same or another content.
CONSTANTS
    Contexts = {c1, c2}
    ReleaseTags = {1, 2, 3}
    Main = main
    Latest = latest
    NoContext = NoContext
    PageSize = 2
    MaxPushes = 2
    MaxTroubles = 1
    Jobs = {j1, j2, j3}
    Versions = {v1, v2}
    Contents = {c1, c2}
    Broken = Broken
    None = None
    MaxRuns = 3
    MaxOthers = 1
SPECIFICATION MCSpec
SYMMETRY MCSymmetry
INVARIANTS
    ImagesAreCurrent
    PagesAreRight
PROPERTY PublishedForGood
\* No more packages than MaxRuns, and no more tags than ReleaseTags.
CHECK_DEADLOCK FALSE
