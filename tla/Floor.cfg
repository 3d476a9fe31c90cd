\* Three callers, two of them with video, and a recording.
SPECIFICATION Spec
CONSTANTS
    Callers = {a, b, c}
    Recorders = {r}
    Video = {a, b}
    VidFloor = TRUE
    Nobody = Nobody
SYMMETRY MemberSymmetry
INVARIANTS
    TypeOK
    FloorHolderInList
    InputThreadInList
    CountBehindList
CHECK_DEADLOCK FALSE
