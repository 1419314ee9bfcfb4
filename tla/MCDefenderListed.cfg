CONSTANTS
    Bodies = {a, b}
    Starters = {a}
    Mobs = {b}
    Nil = Nil
SPECIFICATION Spec
CHECK_DEADLOCK FALSE
INVARIANTS
    DefenderIsListed
