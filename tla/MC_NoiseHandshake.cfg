CONSTANTS
    Initiators = {i1, i2}
    Responders = {r1, r2}
    Durations <- MCDurations
    MaxTime <- MCMaxTime
    HonestAuth = HonestAuth
    AttackerAuth = AttackerAuth
    AttackerStatic = AttackerStatic
    AttackerEph = AttackerEph
    None = None
SPECIFICATION Spec
INVARIANT TypeOK
INVARIANT AuthenticPeer
SYMMETRY MCSymmetry
CHECK_DEADLOCK FALSE
