\* The chart is upgraded, and the sandbox of the running Pod recreated.
CONSTANTS
    Versions = {g1, g2}
    None = None
    MaxKills = 1
SPECIFICATION SetupSpec
INVARIANT OneGeneration
