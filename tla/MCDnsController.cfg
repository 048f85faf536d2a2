\* Two processes racing through initialize_state and the loop, with every
\* failure and power loss, and every answer of tailscaled.
CONSTANTS
    u1 = u1  u2 = u2  t6 = t6  m4 = m4  m6 = m6  lo = lo  bad = bad
    r1 = r1  r2 = r2  s1 = s1  s2 = s2  n1 = n1  n2 = n2  p1 = p1  p2 = p2
    Usable = {u1, u2, t6}
    V4 = {u1, u2}
    Magic4 = m4
    Magic6 = m6
    Listener = lo
    BadAddr = bad
    Rest = {r1, r2}
    Suffixes = {s1, s2}
    Names = {n1, n2}
    SuffixOf <- MCSuffixOf
    NoName = NoName
    Procs = {p1, p2}
    MagicEnabled = TRUE
    Resolv <- MCResolv
    Statuses <- MCStatuses
    Absent = Absent
    Torn = Torn
    Beat = Beat
    Nothing = Nothing
SPECIFICATION Spec
INVARIANTS
    TypeOK
    NeverTorn
    SettledWhenPolling
    StartupWhenPolling
    NoForwardingLoop
    LayeredState
    AgreesWithRetained
PROPERTIES
    RetainedOnce
    KeepsPromise
