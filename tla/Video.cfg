\* Three callers, two of them with video, with and without a video bridge, and every cause of an
\* ending room.
SPECIFICATION FairSpec
CONSTANTS
    Members = {a, b, c}
    Video = {a, b}
    Pair = {a, b}
    VideoThreads = {t, u}
    VideoBridge = {TRUE, FALSE}
    Faults = {"silence", "mux", "shutdown"}
    Nobody = Nobody
INVARIANTS
    TypeOK
    OneVideoThread
    VideoThreadsDoneFirst
PROPERTY
    WaitForVideoEnds
\* The room waits for ever for video threads that are gone (README).
CHECK_DEADLOCK FALSE
