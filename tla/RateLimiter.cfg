SPECIFICATION Spec
CONSTANTS
    r1 = r1
    r2 = r2
    r3 = r3
    r4 = r4
    r5 = r5
    x = x
    y = y
    Addr = {x, y}
    Req = {r1, r2, r3, r4, r5}
    None = None
    From <- MCFrom
    Rate = 1
    Burst = 1
    Idle = 1
    MaxTime = 5
CHECK_DEADLOCK FALSE
INVARIANTS
    TypeOK
    WithinBurst
