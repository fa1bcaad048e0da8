CONSTANTS
    t1 = t1
    t2 = t2
    Threads = {t1, t2}
    Shapes = {"slow", "fast", "invalid"}
    ValidShapes = {"slow", "fast"}
    SlowShapes = {"slow"}
    Capacity <- MCCapacity
    MaxCalls = 2
    MaxPanics = 1
    MaxClears = 1
    Free = Free
    NoShape = NoShape
SPECIFICATION Spec
INVARIANT ParametersRoundTrip
CHECK_DEADLOCK FALSE
