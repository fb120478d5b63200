CONSTANTS
    Launcher = {l1, l2, l3}
    Dir = {d1, d2}
    NoDir = NoDir
    RealPath = d2
SPECIFICATION Spec
CHECK_DEADLOCK FALSE
INVARIANTS SuccessIsComplete BrokenIsLeft PlayHasCause PatchesOwnGame FailureHasCause
SYMMETRY AlikeLaunchers
