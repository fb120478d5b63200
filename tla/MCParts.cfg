CONSTANTS
    MaxConn = 4
    Elem = {a, b, c}
    MaxLength = 5
    Launcher = {l1, l2}
    Addr = {a0, a1}
    DefaultAddr = a0
    Editable = {"hostGame", "serverAddress"}
    MaxClicks = 1
    Absent = Absent
    HostAddr = {h1, h2}
    Asked = h1
    Probes = 2
    Freq = 60
    TargetFps = 5
    Ms = 5
    MaxTime = 16
    Retries = 9
    Limit = 2
SPECIFICATION PartsSpec
CHECK_DEADLOCK FALSE
INVARIANTS PartsTypeOK OwnUnlessLate FaultHasCause LoopsMeetClosedForm
INVARIANTS GameRunsAsShown Verdicts CheckIsRight
PROPERTIES OpensAsLeft FramesTakeTheirTime
