\* Two tabs of one browser and another browser, two accounts, three tokens.
SPECIFICATION Spec
CONSTANTS
    alice = alice
    bob = bob
    w1 = w1
    w2 = w2
    b1 = b1
    b2 = b2
    b3 = b3
    t1 = t1
    t2 = t2
    t3 = t3
    Users = {alice, bob}
    Browsers = {w1, w2}
    Tabs = {b1, b2, b3}
    BrowserOf <- ThreeTabs
    Tokens = {t1, t2, t3}
    None = None
    Keep = Keep
INVARIANTS
    TypeOK
    OneTokenPerLogin
    EndedLoginsStayEnded
    CookieIsLive
SYMMETRY Interchangeable
CHECK_DEADLOCK FALSE
