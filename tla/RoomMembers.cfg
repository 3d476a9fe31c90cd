\* Two different callers of one room, a recording and API commands: joins,
\* refusals, failures, kicks and leaves.
SPECIFICATION Spec
CONSTANTS
    Names = {n1}
    Confs = {k1}
    Callers = {c1, c2}
    Recorders = {r1}
    Admins = {a1}
    Bridge = {c1}
    Secure = {c2}
    EndConf = {c2}
    MinTwo = {c1}
    MaxMembers = 1
    Events = {"media", "file", "timer_init", "silence", "mux", "shutdown"}
    NoConf = NoConf
    NoThread = NoThread
INVARIANTS
    TypeOK
    CountsAgree
    NoOrphan
    EnforcedMinimum
    HeldMemberInList
    ThreadsCounted
    WriterAlone
\* A command that waits for a leaving member stops the room for good.
CHECK_DEADLOCK FALSE
