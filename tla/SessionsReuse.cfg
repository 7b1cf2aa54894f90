\* Two tabs refresh with one token.
SPECIFICATION Spec
CONSTANTS
    alice = alice
    bob = bob
    w1 = w1
    w2 = w2
    b1 = b1
    b2 = b2
    b3 = b3
    t1 = t1
    t2 = t2
    t3 = t3
    Users = {alice}
    Browsers = {w1}
    Tabs = {b1, b2}
    BrowserOf <- TwoTabs
    Tokens = {t1, t2, t3}
    None = None
    Keep = Keep
PROPERTIES
    RotatedTokensAreDetected
CHECK_DEADLOCK FALSE
