\* A user joins a room and its call, mutes the microphone, leaves the call and
\* joins it again.
SPECIFICATION Spec
CONSTANTS
    r1 = r1
    r2 = r2
    Rooms = {r1, r2}
    Me = Me
    Other = Other
    None = None
    HistoryLimit = 2
    OldRooms <- AllShared
    MaxOthers = 0
    MaxBreaks = 0
    Captures <- TwoCaptures
    Agendas <- Talk
INVARIANTS
    MutedMeansSilent
CHECK_DEADLOCK FALSE
