\* Two recordings, automatic or commanded, of files that can fail.
SPECIFICATION FairSpec
CONSTANTS
    Recorders = {r, s}
    Paths = {f, g}
    MaxCallers = 2
    MaxBelow = 1
    AutoRecord = TRUE
    Faults = {"open", "timer", "write"}
INVARIANTS
    TypeOK
    ListedRecorderHasBuffer
    NamedRecordingStops
PROPERTY
    RecordingEnds
\* Everybody has left a conference that has ended.
CHECK_DEADLOCK FALSE
