\* Two interchangeable callers and an administrator in every scenario.
SPECIFICATION Spec
CONSTANTS
    m = m
    n = n
    Members = {m, n}
    Admins = {a}
    Scenarios <- MCScenarios
SYMMETRY Symmetry
INVARIANTS
    TypeOK
    DeadlockNeedsMember
\* The conference may be left alone.
CHECK_DEADLOCK FALSE
