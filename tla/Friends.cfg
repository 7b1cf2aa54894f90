\* Two users, two calls at the same time.
SPECIFICATION Spec
CONSTANTS
    Users = {u1, u2}
    Handlers = {h1, h2}
    None = None
INVARIANTS
    TypeOK
    ListsNameFriends
    FriendsWereAsked
    TidyUnlessOverlapping
PROPERTIES
    CacheCatchesUp
