\* Rooms in memory and in the database, from nothing or from the rows that an
\* earlier process left: requests race with rehydration, removal, each other.
SPECIFICATION Spec
CONSTANTS
    c1 = c1
    c2 = c2
    c3 = c3
    alice = alice
    bob = bob
    r1 = r1
    Conns = {c1, c2}
    Usernames = {alice, bob}
    NameOf <- OneEach
    RoomIDs = {r1}
    Friends <- BothWays
    Requests = {"create_room", "join_room", "add_to_room", "close_room",
                "leave_room", "webrtc_offer", "screen_share_start"}
    PastRows <- OldRoom
    SendCap = 1
    PresenceCap = 4
    MaxRequests = 2
    NoOne = NoOne
    Run = Run
    Http = Http
INVARIANTS
    DeletedRoomsLeaveNothing
    MembersAreConnected
    DatabaseKnowsRooms
    HolderNeverLocks
SYMMETRY SwapAll
CHECK_DEADLOCK FALSE
