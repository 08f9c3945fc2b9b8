CONSTANTS
    Sessions = {s1, s2}
    Upstreams = {u1, u2}
    ChannelIds = {c1, c2}
    GroupIds = {g1, g2}
    JobIds = {j1}
    None = None
SPECIFICATION Spec
CONSTRAINT MCShareBound
PROPERTY LifecycleSafety
CHECK_DEADLOCK FALSE
