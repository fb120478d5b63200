CONSTANTS
    Conn = {c1, c2}
    Nick = {n1, n2}
    Topic = {}
    CodePage = {0}
    Locale = {0}
    NoConn = NoConn
    NoName = NoName
    NoTopic = NoTopic
    MaxMembers = 3
SPECIFICATION Spec
CHECK_DEADLOCK FALSE
SYMMETRY Symmetry
VIEW StateOfServer
INVARIANTS TeardownRemoves
