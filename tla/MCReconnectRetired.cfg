CONSTANTS
    Names = {zap}
    Mortals = {zap}
    Sessions = {s1, s2}
    Browsers = {s1}
    Reused = {s1, s2}
    Bodies = {b1, b2, b3}
    NoName = NoName
    NoSession = NoSession
    NoBody = NoBody
SPECIFICATION Spec
CHECK_DEADLOCK FALSE
PROPERTIES
    ReconnectsToLiveBody
