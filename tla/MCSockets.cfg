CONSTANTS
    Socket = {s1}
    Port = {p1}
    Window = {w1, w2}
    Peer = {a1, a2}
    Data = {d1, d2, d3}
    Nothing = Nothing
    IsServer = TRUE
    MaxEvents = 2
SPECIFICATION FairSpec
INVARIANTS EntryIsItsOwn WakeUpPending
PROPERTY BurstIsRead
CHECK_DEADLOCK FALSE
