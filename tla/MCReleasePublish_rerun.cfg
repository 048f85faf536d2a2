\* One operator and a release job that runs twice; nobody edits, nothing fails.
CONSTANTS
    Operators = {o1}
    Attempts = 2
    MaxRuns = 2
    MaxEdits = 0
    MaxFaults = 0
SPECIFICATION PublishSpec
INVARIANT PublishedIsComplete
\* The job and the operators may be done.
CHECK_DEADLOCK FALSE
