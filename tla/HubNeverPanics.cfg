\* A send can meet a closed channel.
SPECIFICATION Spec
CONSTANTS
    c1 = c1
    c2 = c2
    c3 = c3
    alice = alice
    bob = bob
    r1 = r1
    Conns = {c1, c2}
    Usernames = {alice, bob}
    NameOf <- OneEach
    RoomIDs = {r1}
    Friends <- BothWays
    Requests = {"direct_message"}
    PastRows <- NoRows
    SendCap = 1
    PresenceCap = 1
    MaxRequests = 1
    NoOne = NoOne
    Run = Run
    Http = Http
INVARIANTS
    NeverPanics
CHECK_DEADLOCK FALSE
