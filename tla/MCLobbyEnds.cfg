CONSTANTS
    Conn = {c1, c2}
    Nick = {c1, c2}
    Topic = {}
    CodePage = {0}
    Locale = {0}
    NoConn = NoConn
    NoName = NoName
    NoTopic = NoTopic
    MaxMembers = 4
    Buffer = 3
    MaxLines = 2
    Uses = {"LIST", "HOST", "JOIN", "QUIT", "PRIVMSG", "SETOPT", "TIME", "SETCODEPAGE", "SETLOCALE"}
    Last = {"QUIT", "PRIVMSG", "SETOPT", "TIME", "SETCODEPAGE", "SETLOCALE"}
    Talkers = {c1}
    MayLeave = {c2}
    MayStall = {c2}
SPECIFICATION FairLobbySpec
CHECK_DEADLOCK FALSE
PROPERTIES LinesAreHandled LeaversAreRemoved
