CONSTANT Launcher = {l1, l2}
SPECIFICATION FairSpec
INVARIANTS OneGame LostHasCause
PROPERTIES DataArrives LauncherEnds
CHECK_DEADLOCK FALSE
