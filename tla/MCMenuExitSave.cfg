CONSTANTS
    Names = {zap}
    Mortals = {zap}
    Sessions = {s1, s2}
    Browsers = {}
    Reused = {}
    Bodies = {b1, b2, b3}
    NoName = NoName
    NoSession = NoSession
    NoBody = NoBody
SPECIFICATION RecordSpec
CHECK_DEADLOCK FALSE
PROPERTIES
    MenuLeavesNoSave
