CONSTANTS
    Addr <- TwoClients
    HostIp = "127.0.0.1"
    NoIp = "0.0.0.0"
    Tester = {}
    Port = {1}
    PortRange <- OneRange
    Data = {d}
    Speed = {6}
    FrameLimit = {60}
    Timeout = 1
    Copies = {1}
    MaxInFlight = 2
    MaxQueue = 1
SPECIFICATION Spec
PROPERTIES HostRules
