\* A member that is told to leave leaves, and a room that is to be destroyed is
\* destroyed, API commands notwithstanding.
SPECIFICATION FairSpec
CONSTANTS
    Names = {n1}
    Confs = {k1}
    Callers = {c1, c2}
    Recorders = {}
    Admins = {a1}
    Bridge = {}
    Secure = {c2}
    EndConf = {c2}
    MinTwo = {}
    MaxMembers = 0
    Events = {"silence", "media"}
    NoConf = NoConf
    NoThread = NoThread
PROPERTIES
    StoppedMemberLeaves
    DestructionEnds
\* A command that waits for a leaving member stops the room for good.
CHECK_DEADLOCK FALSE
