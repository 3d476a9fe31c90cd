\* Two names, two callers, and failures of every part of a room.
SPECIFICATION Spec
CONSTANTS
    Names = {n1, n2}
    Confs = {k1, k2}
    Callers = {c1, c2}
    Recorders = {}
    Admins = {}
    Bridge = {c1}
    Secure = {c2}
    EndConf = {c2}
    MinTwo = {}
    MaxMembers = 0
    Events = {"pool", "timer_init", "timer", "mux", "silence", "media", "shutdown"}
    NoConf = NoConf
    NoThread = NoThread
SYMMETRY ObjectSymmetry
INVARIANTS
    RegistrySound
    RegisteredIsFound
PROPERTY
    ImplementsDirectory
