SPECIFICATION PlainSpec
CONSTANTS
    a = a
    b = b
    None = None
    Outside = Outside
    Items = {a, b}
    Draggable = {a}
    Spots <- MCSpots
    MaxEvents = 2
    MaxGestures = 2
INVARIANTS AsleepWhenCovered
PROPERTIES WholeOrNothing PressedOnce
CHECK_DEADLOCK FALSE
