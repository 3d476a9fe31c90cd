\* Three callers and two commands update the flags of a dynamic conference beside the
\* conference thread.
SPECIFICATION Spec
CONSTANTS
    Callers = {c, d, e}
    Admins = {a, b}
SYMMETRY Symmetry
INVARIANTS
    TypeOK
    AbandonedIsDestroyed
    NoDanglingEntry
\* The callers come and go once.
CHECK_DEADLOCK FALSE
