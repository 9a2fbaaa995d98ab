CONSTANTS
    Pids = {p1, p2, p3}
    Cameras = {c1, c2}
    MaxLive = 2
    None = None
    VcNums = {0, 2}
    Group <- OneGroup
    InitMayFail = TRUE
SPECIFICATION Spec
SYMMETRY Alike
INVARIANT TypeOK
INVARIANT Exclusive
INVARIANT MarksTrue
INVARIANT Released
CHECK_DEADLOCK FALSE
