\* Goroutines end, whether they fail or are evicted, and closeRoom, which holds
\* h.mu while it sends, always releases it.
SPECIFICATION Spec
CONSTANTS
    c1 = c1
    c2 = c2
    c3 = c3
    alice = alice
    bob = bob
    r1 = r1
    Conns = {c1}
    Usernames = {alice, bob}
    NameOf <- JustAlice
    RoomIDs = {r1}
    Friends <- BothWays
    Requests = {"close_room", "direct_message", "room_message", "voice_state",
                "screen_share_stop", "attachment", "social_event"}
    PastRows <- AlicesRoom
    SendCap = 1
    PresenceCap = 4
    MaxRequests = 4
    NoOne = NoOne
    Run = Run
    Http = Http
PROPERTIES
    ExitUnregisters
    EvictionEndsGoroutines
    LockReleased
CHECK_DEADLOCK FALSE
