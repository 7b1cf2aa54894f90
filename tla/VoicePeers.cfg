\* Three events in all: a tab joins or rejoins the call, a screen is shared, and
\* at most twice a connection breaks, stays down or a tab vanishes.
SPECIFICATION Spec
CONSTANTS
    Hi = Hi
    Lo = Lo
    None = None
    HasTurn = TRUE
    MaxEvents = 3
    MaxFaults = 2
INVARIANTS
    TypeOK
    
    NoCandidateLost
    LeftIsGone
PROPERTIES
    
    VanishedIsDropped
CHECK_DEADLOCK FALSE
