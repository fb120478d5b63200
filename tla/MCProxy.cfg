CONSTANTS
    Addr <- TwoRuns
    HostIp = "127.0.0.1"
    NoIp = "0.0.0.0"
    Tester = {}
    Port = {1}
    PortRange <- OneRange
    Data = {d}
    Speed = {6}
    FrameLimit = {}
    Timeout = 1
    Copies = {1}
    MaxInFlight = 2
    MaxQueue = 1
VIEW WithoutLimits
SPECIFICATION Spec
INVARIANTS OneEntryPerAddress RouteFindsOwner NothingUnclaimed
PROPERTIES EvictedOnlyWhenSilent CarriesDatagrams
