\* Setup: three kills; one may hit the repair of what another one left.
\* Entrypoint: two faults, for the same reason.
CONSTANTS
    Versions = {g1, g2}
    None = None
    MaxKills = 3
    KeyTypes <- MCKeyTypes
    Absent = Absent
    Empty = Empty
    Torn = Torn
    MaxFaults = 2
    MaxEdits = 3
SPECIFICATION MCSpec
INVARIANTS
    SetupIsSafe
    EntryIsSafe
PROPERTY StartsComeUp
