\* The call, the share and the network change without a bound.
SPECIFICATION Spec
CONSTANTS
    Peers = {p1}
    None = None
    Networks <- MCNetworks
    MaxWire = 2
INVARIANTS
    TypeOK
    BadgeIsHonest
PROPERTIES
    IsSteady
    
