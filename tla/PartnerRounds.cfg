SPECIFICATION RoundsSpec

CONSTANTS
    PIDs = {p1, p2, p3}
    PSize = 7
    p1 = p1
    p2 = p2
    p3 = p3

INVARIANTS
    PairsAgree

PROPERTIES
    RoundDoubles
    RoundsEnd
