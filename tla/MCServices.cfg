CONSTANTS
    Resources = {"r1", "m1"}
    KindOrder <- TheKinds
    KindOf <- TheKindOf
    Rooms = "room"
    Web = {w1}
    Telnet = {t1}
    MaxEdits = 1
    NoOne = NoOne
    Bodies = {a, b, c}
    Starters = {a}
    Mobs = {b, c}
    Nil = Nil
    Players = {p, q}
    Objects = {bag, corpse, coins}
    Containers = {bag, corpse}
    Piles = {coins}
    Capacity = 1
    MaxDepth = 10
    MaxLoose = 0
    Floor = Floor
    Alerts = {"discord"}
    Gossip = "gossip"
    Keys = {k1}
    Environ = {e1, NoKey}
    NoKey = NoKey
    MaxJobs = 1
    MaxSaves = 2
SPECIFICATION Spec
SYMMETRY MCSymmetry
VIEW MCView
CHECK_DEADLOCK FALSE
INVARIANTS
    ServicesTypeOK
    UnsavedIsMarked
    
    CoverIsRegistered
    MeleeAgrees
    GoneLeavesCombat
    
    OneHolder
    
    
    RecipientHolds
    ResultIsCurrent
    EnabledIsReady
PROPERTIES
    
    NoBlindSave
    ImplementsStore
