SPECIFICATION FairSnapSpec
CONSTANTS
    w1 = w1
    p1 = p1
    b1 = b1
    None = None
    Writers = {w1}
    Pollers = {p1}
    Readers = {}
    Rebuilders = {b1}
    MaxEdits = 1
    MaxFlips = 2
    MaxFaults = 2
INVARIANT FreshSinceRetired
PROPERTY Converges
