CONSTANTS
    Addr <- TwoRuns
    HostIp = "127.0.0.1"
    NoIp = "0.0.0.0"
    Tester <- SecondRun
    Port = {1}
    PortRange <- OneRange
    Data = {}
    Speed = {6}
    FrameLimit = {60}
    Timeout = 1
    Copies = {1, 2}
    MaxInFlight = 2
    MaxQueue = 1
SPECIFICATION FairSpec
PROPERTIES GoneClientsLeave
