\* One other user, two changes of what is to be shown, up to two calls at once.
SPECIFICATION Spec
CONSTANTS
    Others = {o1}
    None = None
    Failed = Failed
    Slots = {s1, s2}
    MaxVersion = 3
    MaxLosses = 1
INVARIANTS
    TypeOK
    
SYMMETRY SlotSymmetry
CHECK_DEADLOCK FALSE
