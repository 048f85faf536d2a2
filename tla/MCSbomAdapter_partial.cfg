\* The design document against a rename that fails.
CONSTANTS
    f1 = f1  f2 = f2  k1 = k1  k2 = k2  x = x  b1 = b1  b2 = b2  a = a  b = b
    Ids = {f1, f2, k1, k2, x}
    Bodies = {b1, b2}
    BadJson = BadJson
    NoField = NoField
    Paths <- MCPaths
    MaxSize = 4
    Documents <- MCDocuments
    NoFile = NoFile
SPECIFICATION Spec
INVARIANT NoPartialReplacement
\* The adapter is one process that exits.
CHECK_DEADLOCK FALSE
