CONSTANTS
    Names = {zap}
    Mortals = {zap}
    Sessions = {s1, s2}
    Browsers = {s1}
    Reused = {s1, s2}
    Bodies = {b1, b2, b3}
    NoName = NoName
    NoSession = NoSession
    NoBody = NoBody
SPECIFICATION Spec
SYMMETRY MCSymmetry
VIEW MCView
CHECK_DEADLOCK FALSE
INVARIANTS
    TypeOK
    IInv
    NoOrphanBody
    AdmissionNeverRefused
    OneDriver
    LinkdeadHasNoDriver
    TelnetLeavesOnlyLinkdead
PROPERTIES
    StaleTeardownHarmless
