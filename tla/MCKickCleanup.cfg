CONSTANTS
    Names = {zap}
    Mortals = {zap}
    Sessions = {s1, s2}
    Browsers = {}
    Reused = {}
    Bodies = {b1, b2}
    NoName = NoName
    NoSession = NoSession
    NoBody = NoBody
SPECIFICATION FairSpec
CHECK_DEADLOCK FALSE
PROPERTIES
    ClosedLosesName
