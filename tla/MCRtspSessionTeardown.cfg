SPECIFICATION Spec
CONSTANTS
    PayloadType = {0, 33, 96, 97}
    Absolute = {"rtsp://elsewhere/3"}
    Bodies <- MCBodies
INVARIANT SessionTornDownOnStop
CHECK_DEADLOCK FALSE
