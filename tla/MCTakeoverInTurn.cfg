CONSTANTS
    Conns = {c1, c2}
    Browsers = {}
    NoConn = NoConn
SPECIFICATION Spec
CHECK_DEADLOCK FALSE
PROPERTIES
    DrainIsBounded
