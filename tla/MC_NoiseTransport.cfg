CONSTANTS
    Directions = {i2r, r2i}
    Payloads = {p1, p2}
    MaxFrames <- MCMaxFrames
SPECIFICATION Spec
PROPERTY FifoSafety
