CONSTANTS
    Conns = {c1, c2}
    Browsers = {c1}
    NoConn = NoConn
SPECIFICATION Spec
CHECK_DEADLOCK FALSE
PROPERTIES
    BrowserTakeoverEnds
