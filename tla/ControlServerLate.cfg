SPECIFICATION Spec
CONSTANTS
    Conn = {c1, c2}
    Key = {k1}
    Value = {v1}
    Default = v0
    NoConn = NoConn
    MaxFrames = 1
PROPERTY NoServiceAfterStop
CHECK_DEADLOCK FALSE
