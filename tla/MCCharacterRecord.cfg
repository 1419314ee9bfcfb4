CONSTANTS
    Names = {zap}
    Mortals = {zap}
    Sessions = {s1, s2}
    Browsers = {s1}
    Reused = {}
    Bodies = {b1, b2, b3}
    NoName = NoName
    NoSession = NoSession
    NoBody = NoBody
SPECIFICATION RecordSpec
SYMMETRY MCSymmetry
VIEW MCView
CHECK_DEADLOCK FALSE
INVARIANTS
    RecordTypeOK
    
    MidSessionLoadsNowhere
