SPECIFICATION SnapSpec
CONSTANTS
    w1 = w1
    p1 = p1
    p2 = p2
    r1 = r1
    b1 = b1
    None = None
    Writers = {w1}
    Pollers = {p1, p2}
    Readers = {r1}
    Rebuilders = {b1}
    MaxEdits = 0
    MaxFlips = 2
    MaxFaults = 1
INVARIANT GroupFollows
