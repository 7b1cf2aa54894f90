\* Two rooms, one of which may be new; what the user came for, the other user's
\* doings and a lost connection interleave.
SPECIFICATION Spec
CONSTANTS
    r1 = r1
    r2 = r2
    Rooms = {r1, r2}
    Me = Me
    Other = Other
    None = None
    HistoryLimit = 2
    OldRooms <- NewOrShared
    MaxOthers = 1
    MaxBreaks = 1
    Captures <- TwoCaptures
    Agendas <- AllAgendas
INVARIANTS
    TypeOK
    NoZombieReconnect
    
    
    
    CapturesAreReferenced
PROPERTIES
    LeaveIsAnnounced
    ComesBackOnline
CHECK_DEADLOCK FALSE
