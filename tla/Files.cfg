\* Three nodes and two players, who play and speak; the room has a perpetual sound.
SPECIFICATION FairSpec
CONSTANTS
    Nodes = {f, g, h}
    Players = {p, q}
    MaxCallers = 1
    Lengths = {0, 1}
    Leadin = 1
    Perpetual = TRUE
    NoNode = NoNode
INVARIANTS
    TypeOK
    QueuedNodesAreOpen
PROPERTY
    FilesFinish
\* The room has ended.
CHECK_DEADLOCK FALSE
