CONSTANTS
    Conn = {c1, c2}
    Nick = {c1, c2}
    Topic = {}
    CodePage = {0}
    Locale = {0}
    NoConn = NoConn
    NoName = NoName
    NoTopic = NoTopic
    MaxMembers = 4
    Buffer = 6
    MaxLines = 3
    Uses = {"LIST", "HOST", "JOIN", "PART", "KICK", "GAMEOPT", "PAGE", "TOPIC", "STARTG", "GETCODEPAGE", "GETLOCALE"}
    Last = {"GAMEOPT", "PAGE", "TOPIC", "STARTG", "GETCODEPAGE", "GETLOCALE"}
    Talkers = {c1, c2}
    MayLeave = {c1, c2}
    MayStall = {}
SPECIFICATION LobbySpec
CHECK_DEADLOCK FALSE
SYMMETRY Players
VIEW StateOfLobby
INVARIANTS CalmLobbyRuns OnlyCrossedLinesFail ViewsMeet
