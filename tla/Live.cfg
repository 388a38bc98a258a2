SPECIFICATION FairSpec
CONSTANTS
    w1 = w1
    w2 = w2
    Sockets = {w1, w2}
    MaxEvents = 2
    MaxPings = 1
    None = None
INVARIANTS SendsSerialised NoEventSkipped
PROPERTIES EventsArrive
CHECK_DEADLOCK FALSE
